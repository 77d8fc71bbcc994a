---------------------------- MODULE MCAuthFlows -----------------------------
(***************************************************************************)
(* TLC instance for the logins and sessions of packages/auth: a behaviour  *)
(* is about one of the key cache of an issuer, an OAuth login, the tabs of *)
(* a signed in browser or the store of refresh tokens; `part` says which.  *)
(***************************************************************************)
EXTENDS JwksCache, OAuthFlow, SessionClient, SessionStore

VARIABLE part
mcVars == <<part, jwksVars, oauthVars, sessionVars, vars>>

\* Accounts that take each branch of the providers
SimpleAccount == [idToken |-> "verified", profile |-> "verified", listed |-> {},
                  named |-> TRUE, userinfo |-> TRUE, sameSubject |-> TRUE, requireVerified |-> TRUE]
MCAccounts ==
    {SimpleAccount,
     [SimpleAccount EXCEPT !.idToken = "unverified", !.named = FALSE],
     [SimpleAccount EXCEPT !.idToken = "none", !.profile = "none", !.listed = {"verified"}],
     [SimpleAccount EXCEPT !.idToken = "unverified", !.profile = "unverified",
                           !.listed = {"unverified"}],
     [SimpleAccount EXCEPT !.idToken = "unverified", !.profile = "unverified",
                           !.requireVerified = FALSE],
     [SimpleAccount EXCEPT !.idToken = "unverified", !.userinfo = FALSE],
     [SimpleAccount EXCEPT !.idToken = "none", !.profile = "none", !.listed = {"unverified"},
                           !.sameSubject = FALSE]}

IdleJwks ==
    /\ jwksKeys = [k \in Kids |-> [published |-> FALSE, since |-> 0]]
    /\ jwksCache = NoEntry
    /\ verification = [v \in Verifications |-> Fresh]
IdleOAuth ==
    /\ idp = [kind |-> "github", account |-> SimpleAccount, code |-> [f \in Flows |-> "none"]]
    /\ stash = NoFlow
    /\ exchange = [f \in Flows |-> NoExchange]
    /\ discovered = FALSE

\* Tokens and families are interchangeable: they are minted in one order.
InOrder ==
    /\ \A t, n \in Tokens : t < n /\ owner'[n] # Nil => owner'[t] # Nil
    /\ \A f, g \in Families : f < g /\ user'[g] # Nil => user'[f] # Nil

MCInit ==
    /\ part \in {"jwks", "oauth", "tabs", "store"}
    /\ IF part = "jwks" THEN JwksInit ELSE IdleJwks
    /\ IF part = "oauth" THEN OAuthInit ELSE IdleOAuth
    /\ SessionInit /\ Init

MCNext ==
    \/ part = "jwks" /\ JwksNext /\ UNCHANGED <<part, oauthVars, sessionVars, vars>>
    \/ part = "oauth" /\ OAuthNext /\ UNCHANGED <<part, jwksVars, sessionVars, vars>>
    \/ part = "tabs" /\ SessionNext /\ UNCHANGED <<part, jwksVars, oauthVars, vars>>
    \/ part = "store" /\ Next /\ InOrder /\ UNCHANGED <<part, jwksVars, oauthVars, sessionVars>>

MCSpec == MCInit /\ [][MCNext]_mcVars /\ OAuthFairness
=============================================================================
