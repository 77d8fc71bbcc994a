----------------------------- MODULE OAuthFlow ------------------------------
(***************************************************************************)
(* A login through an identity provider (packages/auth/src/providers): the *)
(* authorize URL, the callback, and the calls exchangeCode makes, each     *)
(* through httpJson with its attempts, timeouts and retries.  A browser    *)
(* may have several logins under way and keeps the values of the last one; *)
(* a flow's state, verifier and nonce are named by the flow itself.        *)
(***************************************************************************)
EXTENDS Integers, Sequences, FiniteSets

CONSTANTS
    Flows,
    Retries,            \* httpJson's retries
    Accounts            \* what the provider knows of who approves a login

Kinds == {"github", "google", "oidc"}
NoFlow == "none"

VARIABLES
    idp,                \* the provider: its kind, the account, the codes it issued
    stash,              \* the flow whose values the browser's session holds
    exchange,           \* [Flows -> the callback of that flow]
    discovered          \* the OIDC endpoints are cached
oauthVars == <<idp, stash, exchange, discovered>>

\* Emails of an account, each "none", "verified" or "unverified"; userinfo may
\* answer for somebody else
AccountType == [idToken : {"none", "verified", "unverified"},
                profile : {"none", "verified", "unverified"},
                listed : SUBSET {"verified", "unverified"},
                named : BOOLEAN, userinfo : BOOLEAN, sameSubject : BOOLEAN,
                requireVerified : BOOLEAN]
ASSUME AccountsAssumption == Accounts \subseteq AccountType
ASSUME RetriesAssumption == Retries \in Nat

NoExchange == [step |-> "idle", expected |-> NoFlow, attempt |-> 0, email |-> "none"]

OAuthInit ==
    /\ idp \in [kind : Kinds, account : Accounts, code : {[f \in Flows |-> "none"]}]
    /\ stash = NoFlow
    /\ exchange = [f \in Flows |-> NoExchange]
    /\ discovered = FALSE

-----------------------------------------------------------------------------
(* The authorize URL and the callback. *)

\* getAuthUrl(), the browser's approval and the caller's new session values.
\* The OIDC provider asks for its endpoints first and a nonce is required.
Authorize(f) ==
    /\ idp.code[f] = "none"
    /\ idp' = [idp EXCEPT !.code[f] = "issued"]
    /\ stash' = f
    /\ discovered' = (discovered \/ idp.kind = "oidc")
    /\ UNCHANGED exchange

\* verifyState(): the returned state against the one the session holds
StateUnchecked(f, expected) == expected # NoFlow
StateMatches(f, expected) == expected # NoFlow /\ expected = f

FirstCall == IF idp.kind = "oidc" /\ ~discovered THEN "discovery" ELSE "token"

\* The callback may reach a process that has not asked for the endpoints yet
Restart == discovered' = FALSE /\ UNCHANGED <<idp, stash, exchange>>

\* exchangeCode() up to its first request
Callback(f) ==
    /\ idp.code[f] = "issued" /\ exchange[f].step = "idle"
    /\ exchange' = [exchange EXCEPT ![f] =
           [NoExchange EXCEPT !.expected = stash,
                              !.step = IF StateMatches(f, stash) THEN FirstCall ELSE "refused"]]
    /\ UNCHANGED <<idp, stash, discovered>>

-----------------------------------------------------------------------------
(* httpJson: attempts, and what an answer leads to. *)

Requests == {"discovery", "token", "keys", "profile", "emails"}
BodyOf == [discovery |-> "discovery body", token |-> "token body", keys |-> "keys body",
           profile |-> "profile body", emails |-> "emails body"]
InBody == {BodyOf[step] : step \in Requests}

\* The token endpoint: a code is good once, with the verifier of its challenge;
\* presenting it with another spends it as well
Redeems(f) == idp.code[f] = "issued" /\ exchange[f].expected = f
Spent(f) == [idp EXCEPT !.code[f] = "spent"]

\* Another attempt if any is left
AgainForever(e) == IF e.attempt < Retries THEN [e EXCEPT !.attempt = @ + 1]
                   ELSE [e EXCEPT !.attempt = 0]
Again(e) == IF e.attempt < Retries THEN [e EXCEPT !.attempt = @ + 1]
            ELSE [e EXCEPT !.step = "failed"]

\* A network error, the timer, a 5xx or a 429.
\* The provider may have done its part before the answer was lost.
AttemptFails(f) ==
    LET e == exchange[f]
    IN  /\ e.step \in Requests
        /\ exchange' = [exchange EXCEPT ![f] = Again(e)]
        /\ \E processed \in BOOLEAN :
             idp' = IF processed /\ e.step = "token" THEN Spent(f) ELSE idp
        /\ UNCHANGED <<stash, discovered>>

\* Response headers with a 2xx status: the timer is cleared, the body follows.
\* A code spent before is refused for good, as any other 4xx.
HeadersArrive(f) ==
    LET e == exchange[f]
    IN  /\ e.step \in Requests
        /\ exchange' = [exchange EXCEPT ![f].step =
               IF e.step = "token" /\ ~Redeems(f) THEN "failed" ELSE BodyOf[e.step]]
        /\ idp' = IF e.step = "token" THEN Spent(f) ELSE idp
        /\ UNCHANGED <<stash, discovered>>

\* A 4xx, a body that is not JSON or has another shape, an error in the body
AnswerUnusable(f) ==
    /\ exchange[f].step \in Requests \cup InBody
    /\ exchange' = [exchange EXCEPT ![f].step = "failed"]
    /\ UNCHANGED <<idp, stash, discovered>>

-----------------------------------------------------------------------------
(* What the providers make of the answers. *)

Trusted(email) ==
    IF email = "verified" \/ (email = "unverified" /\ ~idp.account.requireVerified)
    THEN email ELSE "none"

Finish(e, email) ==
    [e EXCEPT !.attempt = 0, !.email = email,
              !.step = IF email = "none" THEN "failed" ELSE "done"]

\* The id_token is verified (JwksCache) before its email counts; userinfo fills in
AfterIdToken(e) ==
    LET email == Trusted(idp.account.idToken)
    IN  IF (email = "none" \/ ~idp.account.named) /\ idp.account.userinfo
        THEN [e EXCEPT !.step = "profile", !.attempt = 0, !.email = email]
        ELSE Finish(e, email)

AfterToken(e) ==
    IF idp.kind = "oidc" THEN AfterIdToken(e)
    ELSE [e EXCEPT !.step = "profile", !.attempt = 0]

\* A public GitHub email is taken as it is, nothing says whether it is
\* verified; without one the list is asked, which does.
AfterGithubProfile(e) ==
    IF idp.account.profile # "none" THEN Finish(e, idp.account.profile)
    ELSE [e EXCEPT !.step = "emails", !.attempt = 0]

AfterProfile(e) ==
    LET a == idp.account
    IN  CASE idp.kind = "github" -> AfterGithubProfile(e)
          [] idp.kind = "google" -> Finish(e, Trusted(a.profile))
          [] idp.kind = "oidc" ->
               IF ~a.sameSubject THEN [e EXCEPT !.step = "failed"]
               ELSE Finish(e, IF e.email # "none" THEN e.email ELSE Trusted(a.profile))

AfterEmails(e) == Finish(e, IF "verified" \in idp.account.listed THEN "verified" ELSE "none")

BodyArrives(f) ==
    LET e == exchange[f]
    IN  /\ e.step \in InBody
        /\ exchange' = [exchange EXCEPT ![f] =
               CASE e.step = "discovery body" -> [e EXCEPT !.step = "token", !.attempt = 0]
                 [] e.step = "token body" -> AfterToken(e)
                 [] e.step = "keys body" -> AfterIdToken(e)
                 [] e.step = "profile body" -> AfterProfile(e)
                 [] e.step = "emails body" -> AfterEmails(e)]
        /\ discovered' = (discovered \/ e.step = "discovery body")
        /\ UNCHANGED <<idp, stash>>

\* The issuer's keys are not cached, or not the one that signed: fetched first
KeysMissing(f) ==
    /\ idp.kind = "oidc" /\ exchange[f].step = "token body"
    /\ exchange' = [exchange EXCEPT ![f].step = "keys", ![f].attempt = 0]
    /\ UNCHANGED <<idp, stash, discovered>>

\* verifyIdToken() refuses: signature, issuer, audience, times or nonce
IdTokenRefused(f) ==
    /\ idp.kind = "oidc" /\ exchange[f].step \in {"token body", "keys body"}
    /\ exchange' = [exchange EXCEPT ![f].step = "failed"]
    /\ UNCHANGED <<idp, stash, discovered>>

OAuthNext ==
    \/ Restart
    \/ \E f \in Flows :
        \/ Authorize(f) \/ Callback(f)
        \/ AttemptFails(f) \/ HeadersArrive(f) \/ AnswerUnusable(f)
        \/ BodyArrives(f) \/ KeysMissing(f) \/ IdTokenRefused(f)

OAuthSpec == OAuthInit /\ [][OAuthNext]_oauthVars

\* Each attempt ends by its timer; a body that has begun is assumed to end
OAuthFairness ==
    \A f \in Flows :
        /\ WF_oauthVars(AttemptFails(f) \/ HeadersArrive(f) \/ AnswerUnusable(f))
        /\ WF_oauthVars(BodyArrives(f))

-----------------------------------------------------------------------------
(* Properties. *)

Ended == {"refused", "failed", "done"}

\* A login that ends well was begun by this browser last, and names an account
\* by an email the provider verified, unless the application waived that or it
\* is the public email of a GitHub profile, which github.ts:141 does not check.
\* A callback of another login (another tab began one since) leaves its code
\* good (pkce.ts:57-67, oidc.ts:90-93 and 203-239).
LoginProven ==
    \A f \in Flows :
        /\ idp.code[f] = "spent" => exchange[f].expected = f
        /\ exchange[f].step = "done" =>
             /\ idp.code[f] = "spent"
             /\ \/ exchange[f].email = "verified"
                \/ ~idp.account.requireVerified
                \/ idp.kind = "github" /\ exchange[f].email = idp.account.profile

\* Every callback is answered: attempts are bounded, and so is each.
CallbackAnswered ==
    \A f \in Flows : exchange[f].step \in Requests ~> exchange[f].step \in Ended

=============================================================================
