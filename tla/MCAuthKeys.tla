----------------------------- MODULE MCAuthKeys -----------------------------
(***************************************************************************)
(* TLC instance for the requests of a signed in user: either two servers   *)
(* whose clocks differ and whose engines are set up differently, with two  *)
(* vault versions (CloudKeys), or one request under a policy               *)
(* (PolicyEngine); `part` says which.                                      *)
(***************************************************************************)
EXTENDS CloudKeys, PolicyEngine, TLC

CONSTANTS s1, s2

VARIABLE part
mcVars == <<part, keyVars, authz>>

MCEngine ==
    [expiresIn |-> 1, notBefore |-> 0, tolerance |-> 0, issuer |-> "a",
     audience |-> "api", revocation |-> TRUE, maxTokenBytes |-> 100, schema |-> "user"]
MCEngines == s1 :> MCEngine @@ s2 :> [MCEngine EXCEPT !.tolerance = 1, !.notBefore = 1, !.revocation = FALSE]
MCSkew == s1 :> 0 @@ s2 :> 1
MCSecret == [v \in Versions |-> "secret"]
MCLocalKeys == <<2, 1>>

\* A cloud provider disposed at once refreshes on demand only, at any moment,
\* which covers whatever schedule its polls would have
OnDemand == [CloudProvider EXCEPT !.disposed = TRUE, !.due = Off]

\* A pair that refreshes at any time, a polling server beside a static one, or
\* two that were built with a list
MCKeyInit ==
    /\ vault = {1}
    /\ provider \in {s1 :> OnDemand @@ s2 :> OnDemand,
                     s1 :> CloudProvider @@ s2 :> StaticProvider,
                     s1 :> LocalProvider @@ s2 :> LocalProvider}
    /\ token = NoToken
    /\ call = Done(200)

\* Calls are kept apart from what they do not depend on: of the pair one signs
\* at any time, beside a polling server one token is signed
MCKeyNext ==
    /\ KeyNext
    /\ provider[s1].kind = "cloud" /\ provider[s2].kind = "cloud"
         => call'.op # "verify" /\ call'.at # s2
    /\ provider[s2].kind = "static" /\ call'.op = "sign" => token = NoToken

\* Claims of each shape; the string names one role, and contains the other
Absent == [kind |-> "absent", is |-> "", values |-> {}]
Text == [kind |-> "string", is |-> "administrator", values |-> {"admin", "administrator"}]
List == [kind |-> "strings", is |-> "", values |-> {"admin", "user"}]
Junk == [kind |-> "other", is |-> "", values |-> {"admin"}]
ClaimShapes == {Absent, Text, List, Junk}

MCUsers == {NoUser} \cup
    [present : {TRUE}, role : ClaimShapes, roles : ClaimShapes, permissions : ClaimShapes]

Leaves ==
    {[op |-> "custom", result |-> r] : r \in {"true", "false", "throws"}} \cup
    {[op |-> o, names |-> {n}] : o \in {"anyRole", "anyPermission"},
                                 n \in {"admin", "administrator"}}
Lists == {<<>>} \cup {<<a>> : a \in Leaves} \cup {<<a, b>> : a, b \in Leaves}
Groups == {[op |-> o, of |-> l] : o \in {"all", "any", "none"}, l \in Lists}
Small == {[op |-> o, of |-> <<l>>] : o \in {"all", "none"}, l \in Leaves}
MCPolicies ==
    {[op |-> "all", of |-> <<g>>] : g \in Groups} \cup
    {[op |-> o, of |-> <<g, h>>] : o \in {"any", "none"}, g, h \in Small}

IdleKeys ==
    /\ vault = {1}
    /\ provider = s1 :> LocalProvider @@ s2 :> LocalProvider
    /\ token = NoToken
    /\ call = Done(200)
IdlePolicy == authz = [user |-> NoUser, policy |-> [op |-> "all", of |-> <<>>],
                       outcome |-> "pending", denials |-> 0]

MCInit ==
    \/ part = "keys" /\ MCKeyInit /\ IdlePolicy
    \/ part = "policy" /\ PolicyInit /\ IdleKeys

MCNext ==
    \/ part = "keys" /\ MCKeyNext /\ UNCHANGED <<part, authz>>
    \/ part = "policy" /\ PolicyNext /\ UNCHANGED <<part, keyVars>>

MCSpec == MCInit /\ [][MCNext]_mcVars /\ KeyFairness(s1)
=============================================================================
