--------------------------- MODULE SessionClient ----------------------------
(***************************************************************************)
(* The session manager (packages/auth/src/session/session-manager.ts)      *)
(* between the tabs of one browser and the session store: which calls of a *)
(* client that does nothing wrong still end its session.  The store is     *)
(* seen through its contract (session/types.ts); SessionStore models what  *)
(* the Redis scripts do of it.                                             *)
(***************************************************************************)
EXTENDS Integers

CONSTANTS
    Tabs,
    MaxTokens           \* bound: refresh tokens of the family

VARIABLES
    family,             \* the store's view: its current token, whether revoked
    jar,                \* the refresh token the browser holds, 0 for none
    request,            \* [Tabs -> the call a tab has under way]
    excuse              \* what may make an honest client look like a replay
sessionVars == <<family, jar, request, excuse>>

NoRequest == [phase |-> "idle", token |-> 0, next |-> 0]
Busy(t) == request[t].phase # "idle"

SessionInit ==
    /\ family = [current |-> 0, revoked |-> FALSE, expired |-> FALSE]
    /\ jar = 0
    /\ request = [t \in Tabs |-> NoRequest]
    /\ excuse = FALSE

\* issue(): the access token is signed first, then the family is stored
Login(t) ==
    /\ jar = 0 /\ family.current = 0 /\ \A u \in Tabs : ~Busy(u)
    /\ request' = [request EXCEPT ![t] = [phase |-> "signing in", token |-> 0, next |-> 1]]
    /\ UNCHANGED <<family, jar, excuse>>
LoginStored(t) ==
    /\ request[t].phase = "signing in"
    /\ family' = [family EXCEPT !.current = 1]
    /\ request' = [request EXCEPT ![t].phase = "answered"]
    /\ UNCHANGED <<jar, excuse>>

\* rotate(): the store first, and only then the access token
RefreshSession(t) ==
    /\ jar # 0 /\ ~Busy(t)
    /\ request' = [request EXCEPT ![t] = [phase |-> "rotating", token |-> jar, next |-> 0]]
    /\ excuse' = (excuse \/ \E u \in Tabs \ {t} : Busy(u))
    /\ UNCHANGED <<family, jar>>

\* The rate limit, or a store that fails before it has done anything
Denied(t) ==
    /\ request[t].phase = "rotating"
    /\ request' = [request EXCEPT ![t] = NoRequest]
    /\ UNCHANGED <<family, jar, excuse>>

StoreRotates(t) ==
    LET r == request[t]
    IN  /\ r.phase = "rotating"
        /\ IF family.expired \/ family.revoked
           THEN request' = [request EXCEPT ![t] = NoRequest] /\ UNCHANGED family
           ELSE IF r.token = family.current
           THEN /\ family.current < MaxTokens
                /\ family' = [family EXCEPT !.current = @ + 1]
                /\ request' = [request EXCEPT ![t] = [r EXCEPT !.phase = "signing",
                                                               !.next = family.current + 1]]
           ELSE family' = [family EXCEPT !.revoked = TRUE]       \* reuse
                /\ request' = [request EXCEPT ![t] = NoRequest]
        /\ UNCHANGED <<jar, excuse>>

\* What the manager answers once the access token is signed
AnsweredOld(r) == [r EXCEPT !.phase = "answered", !.next = r.token]
Answered(r) == [r EXCEPT !.phase = "answered"]
Signed(t) ==
    /\ request[t].phase = "signing"
    /\ request' = [request EXCEPT ![t] = Answered(@)]
    /\ UNCHANGED <<family, jar, excuse>>

\* No key, or no answer from the store: the rotation is done, the client is not told
SigningFails(t) ==
    /\ request[t].phase \in {"signing", "signing in"}
    /\ request' = [request EXCEPT ![t] = NoRequest]
    /\ excuse' = (excuse \/ request[t].phase = "signing")
    /\ UNCHANGED <<family, jar>>

AnswerArrives(t) ==
    /\ request[t].phase = "answered"
    /\ jar' = request[t].next
    /\ request' = [request EXCEPT ![t] = NoRequest]
    /\ UNCHANGED <<family, excuse>>

AnswerLost(t) ==
    /\ request[t].phase = "answered"
    /\ request' = [request EXCEPT ![t] = NoRequest]
    /\ excuse' = TRUE
    /\ UNCHANGED <<family, jar>>

\* revoke() and revokeAll(), and the family's lifetime
Logout ==
    /\ jar # 0 /\ \A t \in Tabs : ~Busy(t)
    /\ family' = [family EXCEPT !.revoked = TRUE]
    /\ jar' = 0
    /\ UNCHANGED <<request, excuse>>
Expires ==
    /\ family.current > 0 /\ ~family.expired
    /\ family' = [family EXCEPT !.expired = TRUE]
    /\ UNCHANGED <<jar, request, excuse>>

SessionNext ==
    \/ \E t \in Tabs :
         \/ Login(t) \/ LoginStored(t) \/ RefreshSession(t) \/ Denied(t)
         \/ StoreRotates(t) \/ Signed(t) \/ SigningFails(t)
         \/ AnswerArrives(t) \/ AnswerLost(t)
    \/ Logout \/ Expires

SessionSpec == SessionInit /\ [][SessionNext]_sessionVars

\* A client whose calls were answered, one at a time, is never taken for a
\* replay: a family is revoked under it only after a rotation it was not told
\* of (the access token could not be signed, the answer was lost) or two tabs
\* that rotated at once.
HonestClientStaysIn == family.revoked /\ jar # 0 => excuse

=============================================================================
