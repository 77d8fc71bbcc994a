------------------------------ MODULE AuthProofs -------------------------------
(***************************************************************************)
(* Proofs about packages/auth: the key providers and the tokens they sign  *)
(* and verify (CloudKeys, TokenEngine), the cache of an issuer's keys      *)
(* (JwksCache), a login (OAuthFlow), the tabs of a signed in browser       *)
(* (SessionClient) and the policies (PolicyEngine).                        *)
(***************************************************************************)
EXTENDS CloudKeys, JwksCache, OAuthFlow, SessionClient, PolicyEngine,
        FiniteSetTheorems, WellFoundedInduction, NaturalsInduction, TLAPS

-------------------------------------------------------------------------------
(***************************************************************************)
(* The tabs of a browser: who is taken for a replay.                       *)
(***************************************************************************)

SessionTypes ==
  /\ family \in [current : Nat, revoked : BOOLEAN, expired : BOOLEAN]
  /\ jar \in Nat
  /\ request \in [Tabs -> [phase : {"idle", "signing in", "rotating", "signing", "answered"}, token : Nat, next : Nat]]
  /\ excuse \in BOOLEAN

\* What the store and the browser know of each other while nothing went wrong
InStep ==
  /\ \A t, u \in Tabs : Busy(t) /\ Busy(u) => t = u
  /\ family.revoked => jar = 0 /\ family.current # 0 /\ \A t \in Tabs : ~Busy(t)
  /\ jar # 0 => jar = family.current \/ \E t \in Tabs : request[t].phase \in {"signing", "answered"}
  /\ \A t \in Tabs :
       /\ request[t].phase = "signing in" => family.current = 0 /\ jar = 0 /\ request[t].next = 1
       /\ request[t].phase = "rotating" => request[t].token = jar /\ jar = family.current /\ jar # 0
       /\ request[t].phase \in {"signing", "answered"} => request[t].next = family.current /\ family.current # 0

SessionIInv == SessionTypes /\ (~excuse => InStep)

LEMMA SessionInitHolds == SessionInit => SessionIInv
<1> SUFFICES ASSUME SessionInit PROVE SessionIInv
  OBVIOUS
<1>1. SessionTypes
  BY DEF SessionInit, SessionTypes, NoRequest
<1>2. family.revoked = FALSE /\ jar = 0 /\ \A t \in Tabs : request[t].phase = "idle"
  BY DEF SessionInit, NoRequest
<1>3. InStep
  BY <1>2 DEF InStep, Busy
<1> QED BY <1>1, <1>3 DEF SessionIInv

LEMMA NextToken ==
  ASSUME SessionTypes
  PROVE  family.current + 1 \in Nat /\ family.current + 1 # 0
<1>1. family.current \in Nat
  BY DEF SessionTypes
<1> QED BY <1>1

LEMMA StoreRotatesCases ==
  ASSUME NEW t \in Tabs, StoreRotates(t)
  PROVE  /\ request[t].phase = "rotating" /\ jar' = jar /\ excuse' = excuse
         /\ \/ /\ family.expired \/ family.revoked
               /\ family' = family /\ request' = [request EXCEPT ![t] = NoRequest]
            \/ /\ ~(family.expired \/ family.revoked) /\ request[t].token = family.current
               /\ family' = [family EXCEPT !.current = family.current + 1]
               /\ request' = [request EXCEPT ![t] = [request[t] EXCEPT !.phase = "signing", !.next = family.current + 1]]
            \/ /\ ~(family.expired \/ family.revoked) /\ request[t].token # family.current
               /\ family' = [family EXCEPT !.revoked = TRUE]
               /\ request' = [request EXCEPT ![t] = NoRequest]
BY DEF StoreRotates

LEMMA SessionTypesStep ==
  ASSUME SessionTypes, [SessionNext]_sessionVars
  PROVE  SessionTypes'
<1> USE DEF SessionTypes
<1>1. CASE UNCHANGED sessionVars
  BY <1>1 DEF sessionVars
<1>2. ASSUME NEW t \in Tabs, Login(t) PROVE SessionTypes'
  BY <1>2 DEF Login
<1>3. ASSUME NEW t \in Tabs, LoginStored(t) PROVE SessionTypes'
  BY <1>3 DEF LoginStored
<1>4. ASSUME NEW t \in Tabs, RefreshSession(t) PROVE SessionTypes'
  BY <1>4 DEF RefreshSession
<1>5. ASSUME NEW t \in Tabs, Denied(t) PROVE SessionTypes'
  BY <1>5 DEF Denied, NoRequest
<1>6. ASSUME NEW t \in Tabs, StoreRotates(t) PROVE SessionTypes'
  <2>1. jar' = jar /\ excuse' = excuse
    BY <1>6, StoreRotatesCases
  <2>2. NoRequest \in [phase : {"idle", "signing in", "rotating", "signing", "answered"}, token : Nat, next : Nat]
    BY DEF NoRequest
  <2>3. ASSUME family' = [family EXCEPT !.current = family.current + 1],
               request' = [request EXCEPT ![t] = [request[t] EXCEPT !.phase = "signing", !.next = family.current + 1]]
        PROVE  SessionTypes'
    <3>1. family.current + 1 \in Nat
      BY NextToken
    <3>2. [request[t] EXCEPT !.phase = "signing", !.next = family.current + 1]
             \in [phase : {"idle", "signing in", "rotating", "signing", "answered"}, token : Nat, next : Nat]
      BY <3>1
    <3> QED BY <2>1, <2>3, <3>1, <3>2
  <2>4. ASSUME family' = family \/ family' = [family EXCEPT !.revoked = TRUE], request' = [request EXCEPT ![t] = NoRequest]
        PROVE  SessionTypes'
    BY <2>1, <2>2, <2>4
  <2> QED BY <1>6, <2>3, <2>4, StoreRotatesCases
<1>7. ASSUME NEW t \in Tabs, Signed(t) PROVE SessionTypes'
  BY <1>7 DEF Signed, Answered
<1>8. ASSUME NEW t \in Tabs, SigningFails(t) PROVE SessionTypes'
  BY <1>8 DEF SigningFails, NoRequest
<1>9. ASSUME NEW t \in Tabs, AnswerArrives(t) PROVE SessionTypes'
  BY <1>9 DEF AnswerArrives, NoRequest
<1>10. ASSUME NEW t \in Tabs, AnswerLost(t) PROVE SessionTypes'
  BY <1>10 DEF AnswerLost, NoRequest
<1>11. CASE Logout
  BY <1>11 DEF Logout
<1>12. CASE Expires
  BY <1>12 DEF Expires
<1> QED BY <1>1, <1>2, <1>3, <1>4, <1>5, <1>6, <1>7, <1>8, <1>9, <1>10, <1>11, <1>12 DEF SessionNext

LEMMA InStepStays ==
  ASSUME SessionTypes, InStep, [SessionNext]_sessionVars, ~excuse'
  PROVE  InStep'
<1> USE DEF SessionTypes, InStep, Busy
<1>1. CASE UNCHANGED sessionVars
  BY <1>1 DEF sessionVars
<1>2. ASSUME NEW t \in Tabs, Login(t) PROVE InStep'
  <2>1. /\ jar = 0 /\ jar' = 0 /\ family.current = 0 /\ family' = family /\ \A u \in Tabs : ~Busy(u)
        /\ request' = [request EXCEPT ![t] = [phase |-> "signing in", token |-> 0, next |-> 1]]
    BY <1>2 DEF Login
  <2>2. /\ request'[t].phase = "signing in" /\ request'[t].next = 1
        /\ \A u \in Tabs : u # t => request'[u].phase = "idle"
    BY <2>1
  <2>3. ~family.revoked
    BY <2>1
  <2> QED BY <2>1, <2>2, <2>3
<1>3. ASSUME NEW t \in Tabs, LoginStored(t) PROVE InStep'
  <2>1. /\ request[t].phase = "signing in" /\ jar' = jar
        /\ family' = [family EXCEPT !.current = 1]
        /\ request' = [request EXCEPT ![t].phase = "answered"]
    BY <1>3 DEF LoginStored
  <2>2. jar = 0 /\ request[t].next = 1 /\ ~family.revoked /\ \A u \in Tabs : u # t => request[u].phase = "idle"
    BY <2>1
  <2>3. family'.current = 1 /\ family'.revoked = family.revoked
    BY <2>1
  <2>4. /\ request'[t].phase = "answered" /\ request'[t].next = 1
        /\ \A u \in Tabs : u # t => request'[u].phase = "idle"
    BY <2>1, <2>2
  <2>5. \A u \in Tabs : \/ u = t /\ request'[u].phase = "answered" /\ request'[u].next = 1
                        \/ request'[u].phase = "idle"
    BY <2>4
  <2> DEFINE f == family'
             q == request'
  <2>6. /\ \A u \in Tabs : (u = t /\ q[u].phase = "answered" /\ q[u].next = 1) \/ q[u].phase = "idle"
        /\ f.current = 1 /\ ~f.revoked /\ jar' = 0
    BY <2>1, <2>2, <2>3, <2>5
  <2> HIDE DEF f, q
  <2> HIDE DEF SessionTypes, InStep, Busy
  <2>7. InStep' <=> /\ \A u, v \in Tabs : q[u].phase # "idle" /\ q[v].phase # "idle" => u = v
                    /\ f.revoked => jar' = 0 /\ f.current # 0 /\ \A u \in Tabs : ~(q[u].phase # "idle")
                    /\ jar' # 0 => jar' = f.current \/ \E u \in Tabs : q[u].phase \in {"signing", "answered"}
                    /\ \A u \in Tabs :
                         /\ q[u].phase = "signing in" => f.current = 0 /\ jar' = 0 /\ q[u].next = 1
                         /\ q[u].phase = "rotating" => q[u].token = jar' /\ jar' = f.current /\ jar' # 0
                         /\ q[u].phase \in {"signing", "answered"} => q[u].next = f.current /\ f.current # 0
    BY DEF InStep, Busy, f, q
  <2>8. \A u, v \in Tabs : q[u].phase # "idle" /\ q[v].phase # "idle" => u = v
    BY <2>6
  <2>9. ASSUME NEW u \in Tabs
        PROVE  /\ q[u].phase = "signing in" => f.current = 0 /\ jar' = 0 /\ q[u].next = 1
               /\ q[u].phase = "rotating" => q[u].token = jar' /\ jar' = f.current /\ jar' # 0
               /\ q[u].phase \in {"signing", "answered"} => q[u].next = f.current /\ f.current # 0
    <3>1. q[u].phase = "answered" \/ q[u].phase = "idle"
      BY <2>6
    <3>2. q[u].phase = "answered" => q[u].next = f.current
      BY <2>6
    <3>3. f.current # 0
      BY <2>6
    <3> QED BY <3>1, <3>2, <3>3
  <2> QED BY <2>6, <2>7, <2>8, <2>9
<1>4. ASSUME NEW t \in Tabs, RefreshSession(t) PROVE InStep'
  BY <1>4 DEF RefreshSession
<1>5. ASSUME NEW t \in Tabs, Denied(t) PROVE InStep'
  BY <1>5 DEF Denied, NoRequest
<1>6. ASSUME NEW t \in Tabs, StoreRotates(t) PROVE InStep'
  <2>1. request[t].phase = "rotating" /\ jar' = jar
    BY <1>6, StoreRotatesCases
  <2>2. /\ ~family.revoked /\ request[t].token = family.current /\ jar = family.current
        /\ \A u \in Tabs : u # t => request[u].phase = "idle"
    BY <2>1
  <2>3. CASE family.expired
    <3>1. family' = family /\ request' = [request EXCEPT ![t] = NoRequest]
      BY <1>6, <2>2, <2>3, StoreRotatesCases
    <3>2. \A u \in Tabs : request'[u].phase = "idle"
      BY <2>2, <3>1 DEF NoRequest
    <3> QED BY <2>1, <2>2, <3>1, <3>2
  <2>4. CASE ~family.expired
    <3>1. /\ family' = [family EXCEPT !.current = family.current + 1]
          /\ request' = [request EXCEPT ![t] = [request[t] EXCEPT !.phase = "signing", !.next = family.current + 1]]
      BY <1>6, <2>2, <2>4, StoreRotatesCases
    <3>2. family'.current = family.current + 1 /\ family'.revoked = family.revoked /\ family'.current # 0
      BY <3>1, NextToken
    <3>3. /\ request'[t].phase = "signing" /\ request'[t].next = family.current + 1
          /\ \A u \in Tabs : u # t => request'[u].phase = "idle"
      BY <2>2, <3>1
    <3> QED BY <2>1, <2>2, <3>2, <3>3
  <2> QED BY <2>3, <2>4
<1>7. ASSUME NEW t \in Tabs, Signed(t) PROVE InStep'
  BY <1>7 DEF Signed, Answered
<1>8. ASSUME NEW t \in Tabs, SigningFails(t) PROVE InStep'
  BY <1>8 DEF SigningFails, NoRequest
<1>9. ASSUME NEW t \in Tabs, AnswerArrives(t) PROVE InStep'
  BY <1>9 DEF AnswerArrives, NoRequest
<1>10. ASSUME NEW t \in Tabs, AnswerLost(t) PROVE InStep'
  BY <1>10 DEF AnswerLost, NoRequest
<1>11. CASE Logout
  BY <1>11 DEF Logout
<1>12. CASE Expires
  BY <1>12 DEF Expires
<1> QED BY <1>1, <1>2, <1>3, <1>4, <1>5, <1>6, <1>7, <1>8, <1>9, <1>10, <1>11, <1>12 DEF SessionNext

\* For any number of tabs and of rotations: a family is revoked under a client
\* that still holds a token only after a rotation the client was not told of, or
\* after two of its tabs rotated at once (session-manager.ts:126-162).
THEOREM HonestClientStaysInHolds == SessionSpec => []HonestClientStaysIn
<1>1. SessionIInv /\ [SessionNext]_sessionVars => SessionIInv'
  <2> SUFFICES ASSUME SessionIInv, [SessionNext]_sessionVars PROVE SessionIInv'
    OBVIOUS
  <2>1. SessionTypes /\ SessionTypes'
    BY SessionTypesStep DEF SessionIInv
  <2>2. excuse => excuse'
    BY DEF SessionNext, sessionVars, Login, LoginStored, RefreshSession, Denied, StoreRotates, Signed, SigningFails,
       AnswerArrives, AnswerLost, Logout, Expires
  <2> QED BY <2>1, <2>2, InStepStays DEF SessionIInv
<1>2. SessionIInv => HonestClientStaysIn
  BY DEF SessionIInv, SessionTypes, InStep, HonestClientStaysIn
<1> QED BY <1>1, <1>2, SessionInitHolds, PTL DEF SessionSpec

-------------------------------------------------------------------------------
(***************************************************************************)
(* Policies.                                                               *)
(***************************************************************************)

\* A set of naturals has a least element.
LEMMA LeastNatural ==
  ASSUME NEW T \in SUBSET Nat, T # {}
  PROVE  \E m \in T : \A n \in T : m <= n
<1>1. \E m \in T : \A n \in T : <<n, m>> \notin OpToRel(<, Nat)
  BY NatLessThanWellFounded, WFMin
<1>2. \A m, n \in Nat : n < m => <<n, m>> \in OpToRel(<, Nat)
  BY DEF OpToRel
<1>3. PICK m \in T : \A n \in T : <<n, m>> \notin OpToRel(<, Nat)
  BY <1>1
<1>4. \A n \in T : ~(n < m)
  BY <1>2, <1>3
<1>5. \A n \in T : n \in Nat /\ m \in Nat
  OBVIOUS
<1>6. \A n \in T : m <= n
  BY <1>4, <1>5
<1> QED BY <1>6

\* Where every answer is "false", requiring all or any of them is refused.
LEMMA AllFalseRefuses ==
  ASSUME NEW results, NEW op \in {"all", "any"}, DOMAIN results \subseteq Nat, DOMAIN results # {},
         \A i \in DOMAIN results : results[i] = "false"
  PROVE  Combine(op, results) = "false"
<1>1. CASE op = "any"
  <2>1. {i \in DOMAIN results : results[i] \in {"true", "throws"}} = {}
    OBVIOUS
  <2>2. RequireAny(results) = "false"
    BY <2>1 DEF RequireAny, FirstOf
  <2> QED BY <1>1, <2>2 DEF Combine
<1>2. CASE op = "all"
  <2> DEFINE at == {i \in DOMAIN results : results[i] \in {"false", "throws"}}
             first == CHOOSE i \in at : \A j \in at : i <= j
  <2>1. at \in SUBSET Nat /\ at # {}
    OBVIOUS
  <2>2. RequireAll(results) = IF results[first] = "throws" THEN "throws" ELSE "false"
    BY <2>1 DEF RequireAll, FirstOf
  <2> HIDE DEF at
  <2>3. first \in at
    BY <2>1, LeastNatural
  <2>4. results[first] = "false"
    <3>1. PICK k \in at : k = first
      BY <2>3
    <3> HIDE DEF first
    <3> QED BY <3>1 DEF at
  <2>5. RequireAll(results) = "false"
    BY <2>2, <2>4
  <2> QED BY <1>2, <2>5 DEF Combine
<1> QED BY <1>1, <1>2

\* No role or permission is read off malformed claims.
LEMMA MalformedHasNothing ==
  ASSUME NEW user, Malformed(user), NEW names
  PROVE  ~HasAnyRole(names, user) /\ ~HasAnyPermission(names, user)
<1>1. DefaultRoleAccessor(user) = PolicyDenied /\ DefaultPermissionAccessor(user) = PolicyDenied
  BY DEF Malformed, DefaultRoleAccessor, DefaultPermissionAccessor, IsStringArray
<1>2. PolicyDenied.kind = "denied"
  BY DEF PolicyDenied
<1>3. \A name : ~Grants(PolicyDenied, name)
  BY <1>2 DEF Grants
<1>4. ~HasAnyRole(names, user)
  BY <1>1, <1>3 DEF HasAnyRole, HasRole
<1>5. ~HasAnyPermission(names, user)
  BY <1>1, <1>2 DEF HasAnyPermission
<1> QED BY <1>4, <1>5

LEMMA MalformedEvaluatesFalse ==
  ASSUME NEW user, Malformed(user), NEW policy \in Policies,
         AsksOnlyClaims(policy), ~Exclusive(policy), ~Empty(policy)
  PROVE  EvalPolicy(policy, user) = "false"
<1>1. /\ policy.op \in {"all", "any"} /\ DOMAIN policy.of \subseteq Nat
      /\ \A i \in DOMAIN policy.of :
            /\ policy.of[i].op \in {"all", "any"} /\ DOMAIN policy.of[i].of \subseteq Nat
            /\ \A j \in DOMAIN policy.of[i].of : policy.of[i].of[j].op \in {"anyRole", "anyPermission"}
  <2>1. /\ policy.op \in GroupOps /\ DOMAIN policy.of \subseteq Nat
        /\ \A i \in DOMAIN policy.of :
              /\ policy.of[i].op \in GroupOps /\ DOMAIN policy.of[i].of \subseteq Nat
              /\ \A j \in DOMAIN policy.of[i].of : policy.of[i].of[j].op \in LeafOps
    BY PoliciesAssumption
  <2>2. policy.op # "none" /\ \A i \in DOMAIN policy.of : policy.of[i].op # "none"
    BY DEF Exclusive
  <2>3. \A i \in DOMAIN policy.of : \A j \in DOMAIN policy.of[i].of : policy.of[i].of[j].op # "custom"
    BY DEF AsksOnlyClaims
  <2>4. \A op \in GroupOps : op # "none" => op \in {"all", "any"}
    BY DEF GroupOps
  <2>5. \A op \in LeafOps : op # "custom" => op \in {"anyRole", "anyPermission"}
    BY DEF LeafOps
  <2>6. \A i \in DOMAIN policy.of :
           /\ policy.of[i].op \in {"all", "any"} /\ DOMAIN policy.of[i].of \subseteq Nat
           /\ \A j \in DOMAIN policy.of[i].of : policy.of[i].of[j].op \in {"anyRole", "anyPermission"}
    <3> TAKE i \in DOMAIN policy.of
    <3>1. policy.of[i].op \in {"all", "any"} /\ DOMAIN policy.of[i].of \subseteq Nat
      BY <2>1, <2>2, <2>4
    <3>2. ASSUME NEW j \in DOMAIN policy.of[i].of PROVE policy.of[i].of[j].op \in {"anyRole", "anyPermission"}
      BY <2>1, <2>3, <2>5
    <3> QED BY <3>1, <3>2
  <2> QED BY <2>1, <2>2, <2>4, <2>6
<1>2. DOMAIN policy.of # {} /\ \A i \in DOMAIN policy.of : DOMAIN policy.of[i].of # {}
  BY DEF Empty
<1>3. \A leaf : leaf.op \in {"anyRole", "anyPermission"} => EvalLeaf(leaf, user) = "false"
  BY MalformedHasNothing DEF EvalLeaf
<1>4. ASSUME NEW i \in DOMAIN policy.of PROVE EvalGroup(policy.of[i], user) = "false"
  <2> DEFINE group == policy.of[i]
             results == [j \in DOMAIN group.of |-> EvalLeaf(group.of[j], user)]
  <2>1. group.op \in {"all", "any"} /\ DOMAIN results \subseteq Nat /\ DOMAIN results # {}
        /\ \A j \in DOMAIN results : results[j] = "false"
    BY <1>1, <1>2, <1>3
  <2>2. EvalGroup(group, user) = Combine(group.op, results)
    BY DEF EvalGroup
  <2> HIDE DEF group, results
  <2>3. EvalGroup(group, user) = "false"
    BY <2>1, <2>2, AllFalseRefuses
  <2> QED BY <2>3 DEF group
<1> DEFINE answers == [i \in DOMAIN policy.of |-> EvalGroup(policy.of[i], user)]
<1>5. DOMAIN answers \subseteq Nat /\ DOMAIN answers # {} /\ \A i \in DOMAIN answers : answers[i] = "false"
  BY <1>1, <1>2, <1>4
<1>6. EvalPolicy(policy, user) = Combine(policy.op, answers)
  BY DEF EvalPolicy
<1> HIDE DEF answers
<1> QED BY <1>1, <1>5, <1>6, AllFalseRefuses

\* Whatever was decided so far, and whatever of one guarded request is fixed
PolicyIInv ==
  /\ DOMAIN authz = {"user", "policy", "outcome", "denials"}
  /\ authz.policy \in Policies
  /\ MalformedClaimsRefused

\* For every set of users and of two-level policies: whatever a policy asks of
\* roles and permissions, no malformed claim opens the door (policy/engine.ts,
\* policy/guard.ts).
THEOREM MalformedClaimsRefusedHolds == PolicySpec => []MalformedClaimsRefused
<1>1. PolicyInit => PolicyIInv
  <2> SUFFICES ASSUME PolicyInit PROVE PolicyIInv
    OBVIOUS
  <2>1. authz \in [user : Users, policy : Policies, outcome : {"pending"}, denials : {0}]
    BY DEF PolicyInit
  <2>2. DOMAIN authz = {"user", "policy", "outcome", "denials"} /\ authz.policy \in Policies
        /\ authz.outcome = "pending"
    BY <2>1
  <2>3. authz.outcome # "handler"
    BY <2>2
  <2> QED BY <2>2, <2>3 DEF PolicyIInv, MalformedClaimsRefused
<1>2. PolicyIInv /\ [PolicyNext]_authz => PolicyIInv'
  <2> SUFFICES ASSUME PolicyIInv, [PolicyNext]_authz PROVE PolicyIInv'
    OBVIOUS
  <2>1. CASE UNCHANGED authz
    BY <2>1 DEF PolicyIInv, MalformedClaimsRefused
  <2>2. CASE RequirePolicy
    <3> DEFINE answer == IF authz.user = NoUser THEN "false" ELSE EvalPolicy(authz.policy, authz.user)
               decided == CASE answer = "true" -> "handler"
                            [] answer = "false" -> "403"
                            [] answer = "throws" -> "error"
               counted == IF answer = "false" THEN 1 ELSE 0
    <3>1. authz' = [authz EXCEPT !.outcome = decided, !.denials = counted]
      BY <2>2 DEF RequirePolicy
    <3>2. answer = "false" => decided # "handler"
      OBVIOUS
    <3>3. authz.user # NoUser => answer = EvalPolicy(authz.policy, authz.user)
      OBVIOUS
    <3> HIDE DEF answer, decided, counted
    <3>4. DOMAIN authz' = DOMAIN authz /\ authz'.user = authz.user /\ authz'.policy = authz.policy
          /\ authz'.outcome = decided
      BY <3>1 DEF PolicyIInv
    <3>5. authz.policy \in Policies /\ DOMAIN authz = {"user", "policy", "outcome", "denials"}
      BY DEF PolicyIInv
    <3>6. ASSUME authz.user # NoUser, AsksOnlyClaims(authz.policy), ~Exclusive(authz.policy), ~Empty(authz.policy),
                 Malformed(authz.user)
          PROVE  decided # "handler"
      BY <3>2, <3>3, <3>5, <3>6, MalformedEvaluatesFalse
    <3>7. MalformedClaimsRefused'
      BY <3>4, <3>6 DEF MalformedClaimsRefused
    <3> QED BY <3>4, <3>5, <3>7 DEF PolicyIInv
  <2> QED BY <2>1, <2>2 DEF PolicyNext
<1>3. PolicyIInv => MalformedClaimsRefused
  BY DEF PolicyIInv
<1> QED BY <1>1, <1>2, <1>3, PTL DEF PolicySpec

-------------------------------------------------------------------------------
(***************************************************************************)
(* An issuer's keys: how stale an answer can be.                           *)
(***************************************************************************)

JwksTypes ==
  /\ jwksKeys \in [Kids -> [published : BOOLEAN, since : Nat]]
  /\ jwksCache \in [keys : SUBSET Kids, age : Nat \cup {-1}]
  /\ verification \in [Verifications ->
        [phase : {"idle", "asked", "answering", "found", "no key", "failed"},
         kid : Kids \cup {"none"}, keys : SUBSET Kids, took : 0 .. FetchTime, forced : BOOLEAN]]
  /\ \A k \in Kids : jwksKeys[k].since <= MaxJwksAge
  /\ jwksCache.age = -1 => jwksCache = NoEntry

\* What was read off the issuer is wrong only about keys that changed since
Honest(keys, age) ==
  \A k \in Kids : (k \in keys) # jwksKeys[k].published => jwksKeys[k].since <= age
CacheHonest == jwksCache.age # -1 => Honest(jwksCache.keys, jwksCache.age + FetchTime)
AnswersHonest ==
  \A v \in Verifications : verification[v].phase = "answering" => Honest(verification[v].keys, verification[v].took)
OutcomeHonest(w) ==
  w.kid # "none" =>
    /\ w.phase = "no key" /\ jwksKeys[w.kid].published => jwksKeys[w.kid].since <= MinRefresh + FetchTime
    /\ w.phase = "found" /\ ~jwksKeys[w.kid].published => jwksKeys[w.kid].since <= Ttl + FetchTime

JwksIInv ==
  JwksTypes /\ CacheHonest /\ AnswersHonest /\ \A v \in Verifications : OutcomeHonest(verification[v])

LEMMA LesserOfTwo ==
  ASSUME NEW a \in Int, NEW b \in Int
  PROVE  Min({a, b}) = IF a <= b THEN a ELSE b
<1>1. \E m \in {a, b} : \A n \in {a, b} : m <= n
  OBVIOUS
<1>2. Min({a, b}) \in {a, b} /\ \A n \in {a, b} : Min({a, b}) <= n
  BY <1>1 DEF Min
<1> QED BY <1>2

LEMMA JwksNumbers ==
  /\ Ttl \in Nat /\ MinRefresh \in Nat /\ FetchTime \in Nat
  /\ MaxJwksAge \in Nat /\ 0 \in 0 .. FetchTime /\ MinRefresh <= Ttl
BY JwksAssumption DEF MaxJwksAge

LEMMA OlderByOne ==
  ASSUME NEW age \in Nat
  PROVE  /\ Older(age) \in Nat /\ Older(age) <= age + 1 /\ Older(age) <= MaxJwksAge
         /\ Older(age) = age + 1 \/ Older(age) = MaxJwksAge
<1>1. MaxJwksAge \in Nat
  BY JwksAssumption DEF MaxJwksAge
<1>2. Older(age) = IF age + 1 <= MaxJwksAge THEN age + 1 ELSE MaxJwksAge
  BY <1>1, LesserOfTwo DEF Older
<1> QED BY <1>1, <1>2

\* A verification that looked for a key: only its phase, key id and flag are set
LooksFor(phase, kid, w) ==
  /\ w \in [phase : {"idle", "asked", "answering", "found", "no key", "failed"},
            kid : Kids \cup {"none"}, keys : SUBSET Kids, took : 0 .. FetchTime, forced : BOOLEAN]
  /\ w.phase = phase /\ w.kid = kid

LEMMA FreshAnswers ==
  ASSUME NEW kid \in Kids \cup {"none"}, NEW to \in {"asked", "found", "no key", "failed"}
  PROVE  /\ LooksFor(to, kid, [Fresh EXCEPT !.phase = to, !.kid = kid])
         /\ LooksFor(to, kid, [Fresh EXCEPT !.phase = to, !.kid = kid, !.forced = TRUE])
         /\ LooksFor(to, "none", [Fresh EXCEPT !.phase = to])
<1>1. 0 \in 0 .. FetchTime
  BY JwksNumbers
<1> DEFINE Type == [phase : {"idle", "asked", "answering", "found", "no key", "failed"},
                    kid : Kids \cup {"none"}, keys : SUBSET Kids, took : 0 .. FetchTime, forced : BOOLEAN]
<1>2. Fresh \in Type /\ Fresh.kid = "none"
  BY <1>1 DEF Fresh
<1> DEFINE a == [Fresh EXCEPT !.phase = to]
           b == [a EXCEPT !.kid = kid]
           c == [b EXCEPT !.forced = TRUE]
<1>3. a \in Type /\ a.phase = to /\ a.kid = "none"
  BY <1>2
<1> HIDE DEF a
<1>4. b \in Type /\ b.phase = to /\ b.kid = kid
  BY <1>3
<1> HIDE DEF b
<1>5. c \in Type /\ c.phase = to /\ c.kid = kid
  BY <1>4
<1> HIDE DEF c
<1>6. [Fresh EXCEPT !.phase = to, !.kid = kid] = b
      /\ [Fresh EXCEPT !.phase = to, !.kid = kid, !.forced = TRUE] = c
      /\ [Fresh EXCEPT !.phase = to] = a
  BY DEF a, b, c
<1> QED BY <1>3, <1>4, <1>5, <1>6 DEF LooksFor

\* What the look at a set of keys answers is as old as the keys
LEMMA SelectedHonest ==
  ASSUME JwksTypes, NEW v \in Verifications, NEW kid \in Kids \cup {"none"}, NEW keys, NEW again \in BOOLEAN,
         NEW age \in Nat, Honest(keys, age), age <= Ttl + FetchTime,
         again \/ age <= MinRefresh + FetchTime
  PROVE  /\ OutcomeHonest(Selected(v, kid, keys, again))
         /\ Selected(v, kid, keys, again).phase # "answering"
         /\ Selected(v, kid, keys, again) \in
              [phase : {"idle", "asked", "answering", "found", "no key", "failed"},
               kid : Kids \cup {"none"}, keys : SUBSET Kids, took : 0 .. FetchTime, forced : BOOLEAN]
<1> DEFINE w == Selected(v, kid, keys, again)
           PhasesLeft == {"found", "asked", "no key"}
<1>1. /\ LooksFor("found", kid, [Fresh EXCEPT !.phase = "found", !.kid = kid])
      /\ LooksFor("asked", kid, [Fresh EXCEPT !.phase = "asked", !.kid = kid, !.forced = TRUE])
      /\ LooksFor("no key", kid, [Fresh EXCEPT !.phase = "no key", !.kid = kid])
  BY FreshAnswers
<1>2. \/ Matches(keys, kid) /\ LooksFor("found", kid, w)
      \/ LooksFor("asked", kid, w)
      \/ ~Matches(keys, kid) /\ ~again /\ LooksFor("no key", kid, w)
  BY <1>1 DEF Selected
<1> HIDE DEF w
<1>4. w.kid = kid
      /\ \/ Matches(keys, kid) /\ w.phase = "found"
         \/ w.phase = "asked"
         \/ ~Matches(keys, kid) /\ ~again /\ w.phase = "no key"
  BY <1>2 DEF LooksFor
<1>5. /\ w.kid = kid /\ w.phase \in PhasesLeft
      /\ w.phase = "found" => Matches(keys, kid)
      /\ w.phase = "no key" => ~Matches(keys, kid) /\ ~again
  BY <1>4
<1>6. w \in [phase : {"idle", "asked", "answering", "found", "no key", "failed"},
             kid : Kids \cup {"none"}, keys : SUBSET Kids, took : 0 .. FetchTime, forced : BOOLEAN]
  BY <1>2 DEF LooksFor
<1>7. ASSUME kid # "none" PROVE OutcomeHonest(w)
  <2>1. kid \in Kids /\ (Matches(keys, kid) <=> kid \in keys)
    BY <1>7 DEF Matches
  <2>2. (kid \in keys) # jwksKeys[kid].published => jwksKeys[kid].since <= age
    BY <2>1 DEF Honest
  <2>3. jwksKeys[kid].published \in BOOLEAN /\ jwksKeys[kid].since \in Nat
    BY <2>1 DEF JwksTypes
  <2>4. Ttl \in Nat /\ MinRefresh \in Nat /\ FetchTime \in Nat
    BY JwksAssumption
  <2>5. CASE w.phase = "found"
    <3>1. kid \in keys
      BY <1>5, <2>1, <2>5
    <3>2. ~jwksKeys[kid].published => jwksKeys[kid].since <= Ttl + FetchTime
      BY <3>1, <2>2, <2>3, <2>4
    <3> QED BY <1>5, <2>5, <3>2 DEF OutcomeHonest
  <2>6. CASE w.phase = "no key"
    <3>1. kid \notin keys /\ ~again
      BY <1>5, <2>1, <2>6
    <3>2. age <= MinRefresh + FetchTime
      BY <3>1
    <3>3. jwksKeys[kid].published => jwksKeys[kid].since <= age
      BY <3>1, <2>2, <2>3
    <3>4. jwksKeys[kid].published => jwksKeys[kid].since <= MinRefresh + FetchTime
      BY <3>2, <3>3, <2>3, <2>4
    <3> QED BY <1>5, <2>6, <3>4 DEF OutcomeHonest
  <2>7. CASE w.phase = "asked"
    BY <2>7 DEF OutcomeHonest
  <2> QED BY <1>5, <2>5, <2>6, <2>7
<1>8. OutcomeHonest(w)
  BY <1>5, <1>7 DEF OutcomeHonest
<1>9. w.phase # "answering"
  BY <1>5
<1> QED BY <1>6, <1>8, <1>9 DEF w

LEMMA JwksInitHolds == JwksInit => JwksIInv
<1> SUFFICES ASSUME JwksInit PROVE JwksIInv
  OBVIOUS
<1>1. MaxJwksAge \in Nat /\ 0 \in 0 .. FetchTime
  BY JwksAssumption DEF MaxJwksAge
<1>2. JwksTypes
  BY <1>1 DEF JwksInit, JwksTypes, NoEntry, Fresh
<1>3. CacheHonest
  BY DEF JwksInit, CacheHonest, NoEntry
<1>4. \A v \in Verifications : verification[v].phase = "idle" /\ verification[v].kid = "none"
  BY DEF JwksInit, Fresh
<1> QED BY <1>2, <1>3, <1>4 DEF JwksIInv, AnswersHonest, OutcomeHonest

\* One verification moves while the issuer's keys and the cache stay
LEMMA OneVerificationMoves ==
  ASSUME JwksIInv, NEW v \in Verifications, NEW w, UNCHANGED jwksKeys, verification' = [verification EXCEPT ![v] = w],
         w \in [phase : {"idle", "asked", "answering", "found", "no key", "failed"},
                kid : Kids \cup {"none"}, keys : SUBSET Kids, took : 0 .. FetchTime, forced : BOOLEAN],
         w.phase = "answering" => Honest(w.keys, w.took), OutcomeHonest(w),
         jwksCache' \in [keys : SUBSET Kids, age : Nat \cup {-1}], jwksCache'.age = -1 => jwksCache' = NoEntry,
         jwksCache'.age # -1 => Honest(jwksCache'.keys, jwksCache'.age + FetchTime)
  PROVE  JwksIInv'
<1>1. JwksTypes'
  BY DEF JwksIInv, JwksTypes
<1>2. \A u \in Verifications : verification'[u] = IF u = v THEN w ELSE verification[u]
  <2>1. DOMAIN verification = Verifications
    BY DEF JwksIInv, JwksTypes
  <2> QED BY <2>1
<1>3. AnswersHonest'
  <2>1. \A u \in Verifications : verification'[u].phase = "answering"
           => Honest(verification'[u].keys, verification'[u].took)
    BY <1>2 DEF JwksIInv, AnswersHonest
  <2> QED BY <2>1 DEF AnswersHonest, Honest
<1>4. CacheHonest'
  BY DEF CacheHonest, Honest
<1>5. \A u \in Verifications : OutcomeHonest(verification[u])'
  BY <1>2 DEF JwksIInv, OutcomeHonest
<1> QED BY <1>1, <1>3, <1>4, <1>5 DEF JwksIInv

LEMMA VerifyHonest ==
  ASSUME JwksIInv, NEW v \in Verifications, Verify(v)
  PROVE  JwksIInv'
<1>1. PICK kid \in Kids \cup {"none"} :
        verification' = [verification EXCEPT ![v] =
             IF jwksCache # NoEntry /\ jwksCache.age < Ttl
             THEN Selected(v, kid, jwksCache.keys, MayRefetch)
             ELSE [Fresh EXCEPT !.phase = "asked", !.kid = kid]]
  BY DEF Verify
<1>2. UNCHANGED <<jwksKeys, jwksCache>>
  BY DEF Verify
<1>3. /\ jwksCache' \in [keys : SUBSET Kids, age : Nat \cup {-1}] /\ (jwksCache'.age = -1 => jwksCache' = NoEntry)
      /\ jwksCache'.age # -1 => Honest(jwksCache'.keys, jwksCache'.age + FetchTime)
  BY <1>2 DEF JwksIInv, JwksTypes, CacheHonest
<1>4. CASE jwksCache # NoEntry /\ jwksCache.age < Ttl /\ jwksCache.age # -1
  <2> DEFINE w == Selected(v, kid, jwksCache.keys, MayRefetch)
  <2>1. jwksCache.age \in Nat /\ Honest(jwksCache.keys, jwksCache.age + FetchTime)
    BY <1>4 DEF JwksIInv, JwksTypes, CacheHonest
  <2>2. Ttl \in Nat /\ MinRefresh \in Nat /\ FetchTime \in Nat
    BY JwksAssumption
  <2>3. MayRefetch \in BOOLEAN /\ (MayRefetch \/ jwksCache.age < MinRefresh)
    BY <2>1, <2>2 DEF MayRefetch
  <2>4. /\ jwksCache.age + FetchTime \in Nat /\ jwksCache.age + FetchTime <= Ttl + FetchTime
        /\ MayRefetch \/ jwksCache.age + FetchTime <= MinRefresh + FetchTime
    BY <1>4, <2>1, <2>2, <2>3
  <2>5. /\ OutcomeHonest(w) /\ w.phase # "answering"
        /\ w \in [phase : {"idle", "asked", "answering", "found", "no key", "failed"},
                  kid : Kids \cup {"none"}, keys : SUBSET Kids, took : 0 .. FetchTime, forced : BOOLEAN]
    BY <2>1, <2>3, <2>4, SelectedHonest DEF JwksIInv
  <2>6. verification' = [verification EXCEPT ![v] = w]
    BY <1>1, <1>4
  <2> HIDE DEF w
  <2> QED BY <1>2, <1>3, <2>5, <2>6, OneVerificationMoves
<1>5. CASE ~(jwksCache # NoEntry /\ jwksCache.age < Ttl)
  <2> DEFINE w == [Fresh EXCEPT !.phase = "asked", !.kid = kid]
  <2>1. verification' = [verification EXCEPT ![v] = w]
    BY <1>1, <1>5
  <2>2. LooksFor("asked", kid, w)
    BY FreshAnswers
  <2> HIDE DEF w
  <2>3. /\ w \in [phase : {"idle", "asked", "answering", "found", "no key", "failed"},
                  kid : Kids \cup {"none"}, keys : SUBSET Kids, took : 0 .. FetchTime, forced : BOOLEAN]
        /\ w.phase = "asked"
    BY <2>2 DEF LooksFor
  <2>4. OutcomeHonest(w)
    BY <2>3 DEF OutcomeHonest
  <2> QED BY <1>2, <1>3, <2>1, <2>3, <2>4, OneVerificationMoves
<1>6. jwksCache # NoEntry => jwksCache.age # -1
  BY DEF JwksIInv, JwksTypes
<1> QED BY <1>4, <1>5, <1>6

LEMMA IssuerReadsHonest ==
  ASSUME JwksIInv, NEW v \in Verifications, IssuerReads(v)
  PROVE  JwksIInv'
<1>1. verification[v].phase = "asked" /\ UNCHANGED <<jwksKeys, jwksCache>>
      /\ verification' = [verification EXCEPT ![v].phase = "answering", ![v].keys = Published]
  BY DEF IssuerReads
<1> DEFINE a == [verification[v] EXCEPT !.phase = "answering"]
           w == [a EXCEPT !.keys = Published]
<1>2. verification' = [verification EXCEPT ![v] = w]
  BY <1>1
<1>3. Published \in SUBSET Kids
  BY DEF Published
<1>4. verification[v] \in [phase : {"idle", "asked", "answering", "found", "no key", "failed"},
           kid : Kids \cup {"none"}, keys : SUBSET Kids, took : 0 .. FetchTime, forced : BOOLEAN]
  BY DEF JwksIInv, JwksTypes
<1>5. /\ a \in [phase : {"idle", "asked", "answering", "found", "no key", "failed"},
               kid : Kids \cup {"none"}, keys : SUBSET Kids, took : 0 .. FetchTime, forced : BOOLEAN]
      /\ a.phase = "answering"
  BY <1>4
<1> HIDE DEF a
<1>6. /\ w \in [phase : {"idle", "asked", "answering", "found", "no key", "failed"},
               kid : Kids \cup {"none"}, keys : SUBSET Kids, took : 0 .. FetchTime, forced : BOOLEAN]
      /\ w.phase = "answering" /\ w.keys = Published
  BY <1>3, <1>5
<1> HIDE DEF w
<1>7. Honest(Published, w.took)
  <2>1. \A k \in Kids : jwksKeys[k].published \in BOOLEAN
    BY DEF JwksIInv, JwksTypes
  <2>2. \A k \in Kids : (k \in Published) = jwksKeys[k].published
    BY <2>1 DEF Published
  <2> QED BY <2>2 DEF Honest
<1>8. OutcomeHonest(w)
  BY <1>6 DEF OutcomeHonest
<1>9. /\ jwksCache' \in [keys : SUBSET Kids, age : Nat \cup {-1}] /\ (jwksCache'.age = -1 => jwksCache' = NoEntry)
      /\ jwksCache'.age # -1 => Honest(jwksCache'.keys, jwksCache'.age + FetchTime)
  BY <1>1 DEF JwksIInv, JwksTypes, CacheHonest
<1> QED BY <1>1, <1>2, <1>6, <1>7, <1>8, <1>9, OneVerificationMoves

LEMMA FetchArrivesHonest ==
  ASSUME JwksIInv, NEW v \in Verifications, FetchArrives(v)
  PROVE  JwksIInv'
<1> DEFINE w == verification[v]
           out == Selected(v, w.kid, w.keys, FALSE)
<1>1. /\ w.phase = "answering" /\ jwksCache' = [keys |-> w.keys, age |-> 0]
      /\ verification' = [verification EXCEPT ![v] = out] /\ UNCHANGED jwksKeys
  BY DEF FetchArrives
<1>2. w \in [phase : {"idle", "asked", "answering", "found", "no key", "failed"},
             kid : Kids \cup {"none"}, keys : SUBSET Kids, took : 0 .. FetchTime, forced : BOOLEAN]
  BY DEF JwksIInv, JwksTypes
<1>3. Honest(w.keys, w.took)
  BY <1>1 DEF JwksIInv, AnswersHonest
<1>4. w.took \in Nat /\ w.took <= FetchTime /\ w.keys \in SUBSET Kids /\ w.kid \in Kids \cup {"none"}
  <2>1. w.took \in 0 .. FetchTime /\ w.keys \in SUBSET Kids /\ w.kid \in Kids \cup {"none"}
    BY <1>2
  <2> HIDE DEF w
  <2> QED BY <2>1, JwksNumbers
<1> HIDE DEF w
<1>5. /\ w.took <= Ttl + FetchTime /\ w.took <= MinRefresh + FetchTime
      /\ FetchTime \in Nat /\ FetchTime <= Ttl + FetchTime /\ FetchTime <= MinRefresh + FetchTime
      /\ 0 + FetchTime = FetchTime
  BY <1>4, JwksNumbers
<1>6. Honest(w.keys, FetchTime)
  <2>1. \A k \in Kids : jwksKeys[k].since \in Nat
    BY DEF JwksIInv, JwksTypes
  <2> QED BY <1>3, <1>4, <1>5, <2>1 DEF Honest
<1>7. FALSE \in BOOLEAN /\ JwksTypes
  BY DEF JwksIInv
<1>8. /\ OutcomeHonest(out) /\ out.phase # "answering"
      /\ out \in [phase : {"idle", "asked", "answering", "found", "no key", "failed"},
                  kid : Kids \cup {"none"}, keys : SUBSET Kids, took : 0 .. FetchTime, forced : BOOLEAN]
  BY <1>4, <1>5, <1>6, <1>7, SelectedHonest
<1> HIDE DEF out
<1>9. jwksCache' \in [keys : SUBSET Kids, age : Nat \cup {-1}] /\ jwksCache'.age = 0 /\ jwksCache'.keys = w.keys
  BY <1>1, <1>4
<1>10. /\ jwksCache'.age # -1
       /\ Honest(jwksCache'.keys, jwksCache'.age + FetchTime)
  BY <1>5, <1>6, <1>9
<1> QED BY <1>1, <1>8, <1>9, <1>10, OneVerificationMoves

LEMMA FetchGivesUpHonest ==
  ASSUME JwksIInv, NEW v \in Verifications, FetchGivesUp(v)
  PROVE  JwksIInv'
<1> DEFINE w == [Fresh EXCEPT !.phase = "failed"]
<1>1. verification' = [verification EXCEPT ![v] = w] /\ UNCHANGED <<jwksKeys, jwksCache>>
  BY DEF FetchGivesUp
<1>2. LooksFor("failed", "none", w)
  BY FreshAnswers
<1> HIDE DEF w
<1>3. /\ w \in [phase : {"idle", "asked", "answering", "found", "no key", "failed"},
                kid : Kids \cup {"none"}, keys : SUBSET Kids, took : 0 .. FetchTime, forced : BOOLEAN]
      /\ w.phase = "failed"
  BY <1>2 DEF LooksFor
<1>4. OutcomeHonest(w)
  BY <1>3 DEF OutcomeHonest
<1>5. /\ jwksCache' \in [keys : SUBSET Kids, age : Nat \cup {-1}] /\ (jwksCache'.age = -1 => jwksCache' = NoEntry)
      /\ jwksCache'.age # -1 => Honest(jwksCache'.keys, jwksCache'.age + FetchTime)
  BY <1>1 DEF JwksIInv, JwksTypes, CacheHonest
<1> QED BY <1>1, <1>3, <1>4, <1>5, OneVerificationMoves

LEMMA ClearCacheHonest == JwksIInv /\ ClearCache => JwksIInv'
<1> SUFFICES ASSUME JwksIInv, ClearCache PROVE JwksIInv'
  OBVIOUS
<1>1. jwksCache' = NoEntry /\ UNCHANGED <<jwksKeys, verification>>
  BY DEF ClearCache
<1>2. NoEntry \in [keys : SUBSET Kids, age : Nat \cup {-1}] /\ NoEntry.age = -1
  BY DEF NoEntry
<1>3. JwksTypes'
  BY <1>1, <1>2 DEF JwksIInv, JwksTypes
<1>4. CacheHonest'
  BY <1>1, <1>2 DEF CacheHonest
<1> QED BY <1>1, <1>3, <1>4 DEF JwksIInv, AnswersHonest, Honest, OutcomeHonest

LEMMA IssuerRotatesHonest == JwksIInv /\ IssuerRotates => JwksIInv'
<1> SUFFICES ASSUME JwksIInv, IssuerRotates PROVE JwksIInv'
  OBVIOUS
<1>1. PICK k \in Kids : jwksKeys' = [jwksKeys EXCEPT ![k] = [published |-> ~@.published, since |-> 0]]
  BY DEF IssuerRotates
<1>2. UNCHANGED <<jwksCache, verification>>
  BY DEF IssuerRotates
<1>3. /\ jwksKeys \in [Kids -> [published : BOOLEAN, since : Nat]]
      /\ \A j \in Kids : jwksKeys[j].since <= MaxJwksAge
  BY DEF JwksIInv, JwksTypes
<1>4. \A j \in Kids : j # k => jwksKeys'[j] = jwksKeys[j]
  BY <1>1, <1>3
<1>5. jwksKeys'[k].since = 0
  BY <1>1, <1>3
<1>6. jwksKeys' \in [Kids -> [published : BOOLEAN, since : Nat]]
  BY <1>1, <1>3
<1>7. JwksTypes'
  <2>1. \A j \in Kids : jwksKeys'[j].since <= MaxJwksAge
    BY <1>3, <1>4, <1>5, JwksNumbers
  <2> QED BY <1>2, <1>6, <2>1 DEF JwksIInv, JwksTypes
<1>8. ASSUME NEW keys, NEW age \in Nat, Honest(keys, age) PROVE Honest(keys, age)'
  BY <1>4, <1>5, <1>8 DEF Honest
<1>9. CacheHonest'
  <2>1. ASSUME jwksCache.age # -1 PROVE Honest(jwksCache.keys, jwksCache.age + FetchTime)'
    <3>1. jwksCache.age + FetchTime \in Nat
      <4>1. jwksCache.age \in Nat \cup {-1}
        BY DEF JwksIInv, JwksTypes
      <4> QED BY <2>1, <4>1, JwksNumbers
    <3>2. Honest(jwksCache.keys, jwksCache.age + FetchTime)
      BY <2>1 DEF JwksIInv, CacheHonest
    <3> QED BY <1>2, <1>4, <1>5, <3>1, <3>2 DEF Honest
  <2> QED BY <1>2, <2>1 DEF CacheHonest
<1>10. AnswersHonest'
  <2>1. ASSUME NEW v \in Verifications, verification[v].phase = "answering"
        PROVE  Honest(verification[v].keys, verification[v].took)'
    <3>1. verification[v].took \in Nat
      <4>1. verification[v].took \in 0 .. FetchTime
        BY DEF JwksIInv, JwksTypes
      <4> QED BY <4>1, JwksNumbers
    <3>2. Honest(verification[v].keys, verification[v].took)
      BY <2>1 DEF JwksIInv, AnswersHonest
    <3> QED BY <1>2, <1>4, <1>5, <3>1, <3>2 DEF Honest
  <2> QED BY <1>2, <2>1 DEF AnswersHonest
<1>11. ASSUME NEW v \in Verifications PROVE OutcomeHonest(verification[v])'
  <2>1. OutcomeHonest(verification[v]) /\ verification'[v] = verification[v]
    BY <1>2 DEF JwksIInv
  <2>2. CASE verification[v].kid = k
    <3>1. 0 <= MinRefresh + FetchTime /\ 0 <= Ttl + FetchTime
      BY JwksNumbers
    <3> QED BY <1>5, <2>1, <2>2, <3>1 DEF OutcomeHonest
  <2>3. CASE verification[v].kid # k
    <3>1. verification[v].kid # "none" => verification[v].kid \in Kids
      BY DEF JwksIInv, JwksTypes
    <3> QED BY <1>4, <2>1, <2>3, <3>1 DEF OutcomeHonest
  <2> QED BY <2>2, <2>3
<1> QED BY <1>7, <1>9, <1>10, <1>11 DEF JwksIInv

LEMMA JwksTickHonest == JwksIInv /\ JwksTick => JwksIInv'
<1> SUFFICES ASSUME JwksIInv, JwksTick PROVE JwksIInv'
  OBVIOUS
<1>1. /\ \A v \in Verifications : InFlight(v) => verification[v].took < FetchTime
      /\ jwksKeys' = [k \in Kids |-> [jwksKeys[k] EXCEPT !.since = Older(jwksKeys[k].since)]]
      /\ jwksCache' = [jwksCache EXCEPT !.age = Older(jwksCache.age)]
      /\ verification' = [v \in Verifications |->
             IF InFlight(v) THEN [verification[v] EXCEPT !.took = verification[v].took + 1] ELSE Fresh]
  BY DEF JwksTick
<1>2. /\ jwksKeys \in [Kids -> [published : BOOLEAN, since : Nat]]
      /\ jwksCache \in [keys : SUBSET Kids, age : Nat \cup {-1}]
      /\ jwksCache.age = -1 => jwksCache = NoEntry
      /\ \A k \in Kids : jwksKeys[k].since <= MaxJwksAge
  BY DEF JwksIInv, JwksTypes
<1>3. \A k \in Kids : /\ jwksKeys'[k].published = jwksKeys[k].published
                      /\ jwksKeys'[k].since = Older(jwksKeys[k].since)
  BY <1>1, <1>2
<1>4. \A k \in Kids : /\ jwksKeys[k].since \in Nat
                      /\ jwksKeys'[k].since \in Nat /\ jwksKeys'[k].since <= jwksKeys[k].since + 1
                      /\ jwksKeys'[k].since <= MaxJwksAge
  BY <1>2, <1>3, OlderByOne
<1>5. jwksKeys' \in [Kids -> [published : BOOLEAN, since : Nat]]
  <2>1. \A k \in Kids : jwksKeys[k] \in [published : BOOLEAN, since : Nat]
    BY <1>2
  <2>2. \A k \in Kids : Older(jwksKeys[k].since) \in Nat
    BY <1>3, <1>4
  <2>3. \A k \in Kids : [jwksKeys[k] EXCEPT !.since = Older(jwksKeys[k].since)] \in [published : BOOLEAN, since : Nat]
    BY <2>1, <2>2
  <2> QED BY <1>1, <2>3
<1>6. jwksCache'.keys = jwksCache.keys /\ jwksCache'.age = Older(jwksCache.age)
  BY <1>1, <1>2
<1>7. /\ jwksCache.age = -1 => jwksCache'.age = -1
      /\ jwksCache.age # -1 => /\ jwksCache.age \in Nat /\ jwksCache'.age \in Nat
                               /\ jwksCache'.age = jwksCache.age + 1 \/ jwksCache'.age = MaxJwksAge
  <2>1. jwksCache.age \in Nat \cup {-1}
    BY <1>2
  <2>2. CASE jwksCache.age = -1
    BY <1>6, <2>2 DEF Older
  <2>3. CASE jwksCache.age # -1
    BY <1>6, <2>1, <2>3, OlderByOne
  <2> QED BY <2>2, <2>3
<1>8. CacheHonest'
  <2>1. ASSUME jwksCache'.age # -1, NEW k \in Kids, (k \in jwksCache'.keys) # jwksKeys'[k].published
        PROVE  jwksKeys'[k].since <= jwksCache'.age + FetchTime
    <3>1. jwksCache.age # -1
      BY <1>7, <2>1
    <3>2. jwksKeys[k].since <= jwksCache.age + FetchTime
      BY <1>3, <1>6, <2>1, <3>1 DEF JwksIInv, CacheHonest, Honest
    <3>3. CASE jwksCache'.age = jwksCache.age + 1
      BY <1>4, <1>7, <3>1, <3>2, <3>3, JwksNumbers
    <3>4. CASE jwksCache'.age = MaxJwksAge
      BY <1>4, <3>4, JwksNumbers
    <3> QED BY <1>7, <3>1, <3>3, <3>4
  <2> QED BY <2>1 DEF CacheHonest, Honest
<1>9. ASSUME NEW v \in Verifications
      PROVE  /\ verification'[v] \in [phase : {"idle", "asked", "answering", "found", "no key", "failed"},
                   kid : Kids \cup {"none"}, keys : SUBSET Kids, took : 0 .. FetchTime, forced : BOOLEAN]
             /\ verification'[v].phase = "answering" =>
                  \A k \in Kids : (k \in verification'[v].keys) # jwksKeys'[k].published
                                     => jwksKeys'[k].since <= verification'[v].took
             /\ verification'[v].phase \notin {"found", "no key"}
  <2>1. verification[v] \in [phase : {"idle", "asked", "answering", "found", "no key", "failed"},
             kid : Kids \cup {"none"}, keys : SUBSET Kids, took : 0 .. FetchTime, forced : BOOLEAN]
    BY DEF JwksIInv, JwksTypes
  <2>2. verification[v].took \in Nat
    <3>1. verification[v].took \in 0 .. FetchTime
      BY <2>1
    <3> QED BY <3>1, JwksNumbers
  <2>3. CASE ~InFlight(v)
    <3>1. verification'[v] = Fresh
      BY <1>1, <2>3
    <3>2. Fresh.phase = "idle" /\ Fresh \in [phase : {"idle", "asked", "answering", "found", "no key", "failed"},
             kid : Kids \cup {"none"}, keys : SUBSET Kids, took : 0 .. FetchTime, forced : BOOLEAN]
      BY JwksNumbers DEF Fresh
    <3> QED BY <3>1, <3>2
  <2>4. CASE InFlight(v)
    <3> DEFINE took == verification[v].took + 1
    <3>1. verification'[v] = [verification[v] EXCEPT !.took = took]
      BY <1>1, <2>4
    <3>2. took \in Nat /\ took \in 0 .. FetchTime
      BY <1>1, <2>2, <2>4, JwksNumbers
    <3> HIDE DEF took
    <3>3. /\ verification'[v] \in [phase : {"idle", "asked", "answering", "found", "no key", "failed"},
                kid : Kids \cup {"none"}, keys : SUBSET Kids, took : 0 .. FetchTime, forced : BOOLEAN]
          /\ verification'[v].phase = verification[v].phase /\ verification'[v].keys = verification[v].keys
          /\ verification'[v].took = took
      BY <2>1, <3>1, <3>2
    <3>4. verification[v].phase \in {"asked", "answering"}
      BY <2>4 DEF InFlight
    <3>5. ASSUME verification[v].phase = "answering", NEW k \in Kids,
                 (k \in verification[v].keys) # jwksKeys[k].published
          PROVE  jwksKeys'[k].since <= took
      <4>1. jwksKeys[k].since <= verification[v].took
        BY <3>5 DEF JwksIInv, AnswersHonest, Honest
      <4> QED BY <1>4, <2>2, <4>1 DEF took
    <3> QED BY <1>3, <3>3, <3>4, <3>5
  <2> QED BY <2>3, <2>4
<1>10. AnswersHonest'
  BY <1>9 DEF AnswersHonest, Honest
<1>11. JwksTypes'
  <2>1. verification' \in [Verifications ->
            [phase : {"idle", "asked", "answering", "found", "no key", "failed"},
             kid : Kids \cup {"none"}, keys : SUBSET Kids, took : 0 .. FetchTime, forced : BOOLEAN]]
    <3>1. \E f : verification' = [v \in Verifications |-> f[v]]
      <4>1. verification' = [v \in Verifications |-> verification'[v]]
        BY <1>1
      <4> QED BY <4>1
    <3> QED BY <1>9, <3>1
  <2>2. jwksCache' \in [keys : SUBSET Kids, age : Nat \cup {-1}] /\ (jwksCache'.age = -1 => jwksCache' = NoEntry)
    <3>1. CASE jwksCache.age = -1
      <4>1. jwksCache = NoEntry /\ Older(jwksCache.age) = jwksCache.age
        BY <1>2, <3>1 DEF Older
      <4>2. jwksCache' = jwksCache
        BY <1>1, <1>2, <4>1
      <4> QED BY <1>2, <4>2
    <3>2. CASE jwksCache.age # -1
      <4>1. Older(jwksCache.age) \in Nat
        BY <1>6, <1>7, <3>2
      <4>2. jwksCache' \in [keys : SUBSET Kids, age : Nat \cup {-1}]
        BY <1>1, <1>2, <4>1
      <4> QED BY <1>7, <3>2, <4>2
    <3> QED BY <3>1, <3>2
  <2> QED BY <1>4, <1>5, <2>1, <2>2 DEF JwksTypes
<1>12. \A v \in Verifications : OutcomeHonest(verification[v])'
  BY <1>9 DEF OutcomeHonest
<1> QED BY <1>8, <1>10, <1>11, <1>12 DEF JwksIInv

\* For every lifetime of an entry, every hold-off of a refetch and every time a
\* fetch may take, whatever number of verifications overlap: an answer is never
\* staler than the bounds of jwks.ts:131-162 add up to.
THEOREM JwksStalenessHolds == JwksSpec => []JwksStaleness
<1>1. JwksIInv /\ [JwksNext]_jwksVars => JwksIInv'
  <2> SUFFICES ASSUME JwksIInv, [JwksNext]_jwksVars PROVE JwksIInv'
    OBVIOUS
  <2>1. CASE UNCHANGED jwksVars
    BY <2>1 DEF jwksVars, JwksIInv, JwksTypes, CacheHonest, AnswersHonest, Honest, OutcomeHonest
  <2>2. CASE JwksNext
    BY <2>2, VerifyHonest, IssuerReadsHonest, FetchArrivesHonest, FetchGivesUpHonest, ClearCacheHonest,
       IssuerRotatesHonest, JwksTickHonest DEF JwksNext
  <2> QED BY <2>1, <2>2
<1>2. JwksIInv => JwksStaleness
  BY DEF JwksIInv, OutcomeHonest, JwksStaleness
<1> QED BY <1>1, <1>2, JwksInitHolds, PTL DEF JwksSpec

-------------------------------------------------------------------------------
(***************************************************************************)
(* A login: what has been proved of it when it ends well.                  *)
(***************************************************************************)

ExchangeFields == {"step", "expected", "attempt", "email"}
EmailProven(email) ==
  \/ email = "verified"
  \/ ~idp.account.requireVerified
  \/ idp.kind = "github" /\ email = idp.account.profile

\* What the steps of a callback already show
Proven(f, e, code) ==
  /\ DOMAIN e = ExchangeFields
  /\ e.step \notin {"idle", "refused"} => e.expected = f
  /\ code = "spent" => e.expected = f
  /\ e.step \in {"token body", "keys", "keys body", "profile", "profile body", "emails", "emails body", "done"}
       => code = "spent"
  /\ e.email # "none" => EmailProven(e.email)
  /\ e.step = "done" => e.email # "none"

OAuthIInv ==
  /\ DOMAIN idp = {"kind", "account", "code"} /\ idp.kind \in Kinds /\ DOMAIN idp.code = Flows
  /\ DOMAIN exchange = Flows
  /\ \A f \in Flows : Proven(f, exchange[f], idp.code[f])

LEMMA OAuthInitHolds == OAuthInit => OAuthIInv
<1> SUFFICES ASSUME OAuthInit PROVE OAuthIInv
  OBVIOUS
<1>1. idp \in [kind : Kinds, account : Accounts, code : {[f \in Flows |-> "none"]}]
  BY DEF OAuthInit
<1>2. DOMAIN idp = {"kind", "account", "code"} /\ idp.kind \in Kinds /\ idp.code = [f \in Flows |-> "none"]
  BY <1>1
<1>3. exchange = [f \in Flows |-> NoExchange]
  BY DEF OAuthInit
<1>4. DOMAIN NoExchange = ExchangeFields /\ NoExchange.step = "idle" /\ NoExchange.email = "none"
  BY DEF NoExchange, ExchangeFields
<1>5. \A f \in Flows : Proven(f, exchange[f], idp.code[f])
  BY <1>2, <1>3, <1>4 DEF Proven
<1> QED BY <1>2, <1>3, <1>5 DEF OAuthIInv

\* One flow moves, its code perhaps with it
FlowStep(f, e, code) ==
  /\ DOMAIN idp' = DOMAIN idp /\ idp'.kind = idp.kind /\ idp'.account = idp.account
  /\ DOMAIN idp'.code = Flows /\ idp'.code[f] = code /\ \A g \in Flows : g # f => idp'.code[g] = idp.code[g]
  /\ DOMAIN exchange' = Flows /\ exchange'[f] = e /\ \A g \in Flows : g # f => exchange'[g] = exchange[g]

LEMMA FlowStepProven ==
  ASSUME OAuthIInv, NEW f \in Flows, NEW e, NEW code, FlowStep(f, e, code), Proven(f, e, code)
  PROVE  OAuthIInv'
<1>1. ASSUME NEW g \in Flows PROVE Proven(g, exchange[g], idp.code[g])'
  <2>1. CASE g = f
    <3>1. Proven(f, e, code)
      OBVIOUS
    <3> QED BY <2>1, <3>1 DEF FlowStep, Proven, EmailProven
  <2>2. CASE g # f
    <3>1. Proven(g, exchange[g], idp.code[g])
      BY DEF OAuthIInv
    <3> QED BY <2>2, <3>1 DEF FlowStep, Proven, EmailProven
  <2> QED BY <2>1, <2>2
<1> QED BY <1>1 DEF FlowStep, OAuthIInv

LEMMA FlowMoves ==
  ASSUME OAuthIInv, NEW f \in Flows, NEW e, exchange' = [exchange EXCEPT ![f] = e],
         NEW code, idp' = [idp EXCEPT !.code[f] = code], Proven(f, e, code)
  PROVE  OAuthIInv'
<1>1. DOMAIN idp' = DOMAIN idp /\ idp'.kind = idp.kind /\ idp'.account = idp.account
      /\ idp'.code = [idp.code EXCEPT ![f] = code]
  BY DEF OAuthIInv
<1>2. DOMAIN idp'.code = Flows /\ idp'.code[f] = code /\ \A g \in Flows : g # f => idp'.code[g] = idp.code[g]
  BY <1>1 DEF OAuthIInv
<1>3. DOMAIN exchange' = Flows /\ exchange'[f] = e /\ \A g \in Flows : g # f => exchange'[g] = exchange[g]
  BY DEF OAuthIInv
<1> QED BY <1>1, <1>2, <1>3, FlowStepProven DEF FlowStep

LEMMA FlowMovesAlone ==
  ASSUME OAuthIInv, NEW f \in Flows, NEW e, exchange' = [exchange EXCEPT ![f] = e],
         idp' = idp, Proven(f, e, idp.code[f])
  PROVE  OAuthIInv'
<1>1. FlowStep(f, e, idp.code[f])
  BY DEF OAuthIInv, FlowStep
<1> QED BY <1>1, FlowStepProven

LEMMA AuthorizeProven ==
  ASSUME OAuthIInv, NEW f \in Flows, Authorize(f)
  PROVE  OAuthIInv'
<1>1. idp.code[f] = "none" /\ idp' = [idp EXCEPT !.code[f] = "issued"] /\ exchange' = exchange
  BY DEF Authorize
<1>2. Proven(f, exchange[f], "none")
  BY <1>1 DEF OAuthIInv
<1>3. Proven(f, exchange[f], "issued")
  BY <1>2 DEF Proven
<1>4. FlowStep(f, exchange[f], "issued")
  <2>1. DOMAIN idp' = DOMAIN idp /\ idp'.kind = idp.kind /\ idp'.account = idp.account
        /\ idp'.code = [idp.code EXCEPT ![f] = "issued"]
    BY <1>1 DEF OAuthIInv
  <2> QED BY <1>1, <2>1 DEF OAuthIInv, FlowStep
<1> QED BY <1>3, <1>4, FlowStepProven

LEMMA CallbackProven ==
  ASSUME OAuthIInv, NEW f \in Flows, Callback(f)
  PROVE  OAuthIInv'
<1> DEFINE a == [NoExchange EXCEPT !.expected = stash]
           step == IF StateMatches(f, stash) THEN FirstCall ELSE "refused"
           e == [a EXCEPT !.step = step]
<1>1. idp.code[f] = "issued" /\ idp' = idp /\ exchange' = [exchange EXCEPT ![f] = e]
  BY DEF Callback
<1>2. DOMAIN a = ExchangeFields /\ a.expected = stash /\ a.email = "none"
  BY DEF NoExchange, ExchangeFields
<1>3. \/ step = "refused"
      \/ step \in {"discovery", "token"} /\ stash = f
  BY DEF StateMatches, FirstCall
<1> HIDE DEF a, step
<1>4. DOMAIN e = ExchangeFields /\ e.expected = stash /\ e.email = "none" /\ e.step = step
  BY <1>2 DEF ExchangeFields
<1> HIDE DEF e
<1>5. Proven(f, e, "issued")
  BY <1>3, <1>4 DEF Proven
<1> QED BY <1>1, <1>5, FlowMovesAlone

LEMMA AgainProven ==
  ASSUME NEW f \in Flows, NEW e, NEW code, Proven(f, e, code), e.step \in Requests
  PROVE  Proven(f, Again(e), code) /\ Proven(f, [e EXCEPT !.step = "failed"], code)
<1>1. DOMAIN e = ExchangeFields /\ e.step \notin {"idle", "refused", "failed", "done"}
  BY DEF Proven, Requests
<1> DEFINE more == [e EXCEPT !.attempt = e.attempt + 1]
           failed == [e EXCEPT !.step = "failed"]
<1>2. DOMAIN more = ExchangeFields /\ more.step = e.step /\ more.email = e.email /\ more.expected = e.expected
  BY <1>1 DEF ExchangeFields
<1>3. DOMAIN failed = ExchangeFields /\ failed.step = "failed" /\ failed.email = e.email /\ failed.expected = e.expected
  BY <1>1 DEF ExchangeFields
<1>4. Again(e) = more \/ Again(e) = failed
  BY DEF Again
<1> HIDE DEF more, failed
<1>5. Proven(f, more, code)
  BY <1>2 DEF Proven
<1>6. Proven(f, failed, code)
  BY <1>1, <1>3 DEF Proven
<1> QED BY <1>4, <1>5, <1>6 DEF failed

\* The step moves on, perhaps with a new count of attempts
LEMMA StepProven ==
  ASSUME NEW f \in Flows, NEW e, NEW code, Proven(f, e, code), e.step \notin {"idle", "refused"},
         NEW step, step \notin {"idle", "refused", "done"},
         step \in {"failed", "discovery body", "token"} \/ code = "spent", NEW n
  PROVE  /\ Proven(f, [e EXCEPT !.step = step], code)
         /\ Proven(f, [e EXCEPT !.step = step, !.attempt = n], code)
<1> DEFINE a == [e EXCEPT !.step = step]
           b == [a EXCEPT !.attempt = n]
<1>1. DOMAIN e = ExchangeFields
  BY DEF Proven
<1>2. DOMAIN a = ExchangeFields /\ a.step = step /\ a.email = e.email /\ a.expected = e.expected
  BY <1>1 DEF ExchangeFields
<1> HIDE DEF a
<1>3. DOMAIN b = ExchangeFields /\ b.step = step /\ b.email = e.email /\ b.expected = e.expected
  BY <1>2 DEF ExchangeFields
<1> HIDE DEF b
<1>4. Proven(f, a, code)
  BY <1>2 DEF Proven
<1>5. Proven(f, b, code)
  BY <1>3 DEF Proven
<1> QED BY <1>4, <1>5 DEF a, b

LEMMA AttemptFailsProven ==
  ASSUME OAuthIInv, NEW f \in Flows, AttemptFails(f)
  PROVE  OAuthIInv'
<1> DEFINE e == exchange[f]
<1>1. e.step \in Requests /\ exchange' = [exchange EXCEPT ![f] = Again(e)]
  BY DEF AttemptFails
<1>2. idp' = idp \/ (e.step = "token" /\ idp' = [idp EXCEPT !.code[f] = "spent"])
  BY DEF AttemptFails, Spent
<1>3. Proven(f, e, idp.code[f])
  BY DEF OAuthIInv
<1> HIDE DEF e
<1>4. CASE idp' = idp
  BY <1>1, <1>3, <1>4, AgainProven, FlowMovesAlone
<1>5. CASE e.step = "token" /\ idp' = [idp EXCEPT !.code[f] = "spent"]
  <2>1. Proven(f, e, "spent")
    BY <1>3, <1>5 DEF Proven
  <2>2. Proven(f, Again(e), "spent")
    BY <1>1, <2>1, AgainProven
  <2> QED BY <1>1, <1>5, <2>2, FlowMoves
<1> QED BY <1>2, <1>4, <1>5

LEMMA BodiesNamed ==
  /\ InBody = {"discovery body", "token body", "keys body", "profile body", "emails body"}
  /\ \A step \in Requests :
       /\ BodyOf[step] \in InBody
       /\ BodyOf[step] = "discovery body" <=> step = "discovery"
<1>1. /\ BodyOf["discovery"] = "discovery body" /\ BodyOf["token"] = "token body" /\ BodyOf["keys"] = "keys body"
      /\ BodyOf["profile"] = "profile body" /\ BodyOf["emails"] = "emails body"
  BY DEF BodyOf
<1>2. InBody = {BodyOf["discovery"], BodyOf["token"], BodyOf["keys"], BodyOf["profile"], BodyOf["emails"]}
  BY DEF InBody, Requests
<1> QED BY <1>1, <1>2 DEF Requests

LEMMA HeadersArriveProven ==
  ASSUME OAuthIInv, NEW f \in Flows, HeadersArrive(f)
  PROVE  OAuthIInv'
<1> DEFINE e == exchange[f]
           step == IF e.step = "token" /\ ~Redeems(f) THEN "failed" ELSE BodyOf[e.step]
           code == IF e.step = "token" THEN "spent" ELSE idp.code[f]
<1>1. e.step \in Requests
  BY DEF HeadersArrive
<1>2. exchange' = [exchange EXCEPT ![f] = [e EXCEPT !.step = step]]
  BY DEF HeadersArrive
<1>3. idp' = IF e.step = "token" THEN [idp EXCEPT !.code[f] = "spent"] ELSE idp
  BY DEF HeadersArrive, Spent
<1>4. Proven(f, e, idp.code[f])
  BY DEF OAuthIInv
<1>5. Proven(f, e, code)
  BY <1>1, <1>4 DEF Proven, Requests
<1>6. step \notin {"idle", "refused", "done"}
  BY <1>1, BodiesNamed
<1>7. e.step \notin {"idle", "refused"}
  BY <1>1 DEF Requests
<1>8. step = "failed" \/ step = "discovery body" \/ code = "spent"
  <2>1. CASE e.step = "token"
    BY <2>1
  <2>2. CASE e.step = "discovery"
    BY <2>2, <1>1, BodiesNamed
  <2>3. CASE e.step \in {"keys", "profile", "emails"}
    BY <2>3, <1>4 DEF Proven
  <2> QED BY <1>1, <2>1, <2>2, <2>3 DEF Requests
<1>9. (code = "spent" /\ e.step = "token") \/ (e.step # "token" /\ code = idp.code[f])
  OBVIOUS
<1> HIDE DEF e, step, code
<1>10. Proven(f, [e EXCEPT !.step = step], code)
  BY <1>5, <1>6, <1>7, <1>8, StepProven
<1> QED BY <1>2, <1>3, <1>9, <1>10, FlowMoves, FlowMovesAlone

\* A step that ends a callback, or moves it on, without the provider
LEMMA StepOnlyProven ==
  ASSUME OAuthIInv, NEW f \in Flows,
         \/ AnswerUnusable(f)
         \/ KeysMissing(f)
         \/ IdTokenRefused(f)
  PROVE  OAuthIInv'
<1> DEFINE e == exchange[f]
<1>1. Proven(f, e, idp.code[f])
  BY DEF OAuthIInv
<1>2. CASE AnswerUnusable(f)
  <2>1. e.step \in Requests \cup InBody /\ idp' = idp
        /\ exchange' = [exchange EXCEPT ![f] = [e EXCEPT !.step = "failed"]]
    BY <1>2 DEF AnswerUnusable
  <2>2. e.step \notin {"idle", "refused"}
    BY <2>1, BodiesNamed DEF Requests
  <2> HIDE DEF e
  <2>3. Proven(f, [e EXCEPT !.step = "failed"], idp.code[f])
    BY <1>1, <2>2, StepProven
  <2> QED BY <2>1, <2>3, FlowMovesAlone
<1>3. CASE KeysMissing(f)
  <2>1. e.step = "token body" /\ idp' = idp
        /\ exchange' = [exchange EXCEPT ![f] = [e EXCEPT !.step = "keys", !.attempt = 0]]
    BY <1>3 DEF KeysMissing
  <2>2. idp.code[f] = "spent"
    BY <1>1, <2>1 DEF Proven
  <2> HIDE DEF e
  <2>3. Proven(f, [e EXCEPT !.step = "keys", !.attempt = 0], idp.code[f])
    BY <1>1, <2>1, <2>2, StepProven
  <2> QED BY <2>1, <2>3, FlowMovesAlone
<1>4. CASE IdTokenRefused(f)
  <2>1. e.step \in {"token body", "keys body"} /\ idp' = idp
        /\ exchange' = [exchange EXCEPT ![f] = [e EXCEPT !.step = "failed"]]
    BY <1>4 DEF IdTokenRefused
  <2> HIDE DEF e
  <2>2. Proven(f, [e EXCEPT !.step = "failed"], idp.code[f])
    BY <1>1, <2>1, StepProven
  <2> QED BY <2>1, <2>2, FlowMovesAlone
<1> QED BY <1>2, <1>3, <1>4

\* An email trusted, or none
LEMMA TrustedProven ==
  ASSUME NEW email
  PROVE  Trusted(email) # "none" => EmailProven(Trusted(email))
BY DEF Trusted, EmailProven

LEMMA FinishProven ==
  ASSUME NEW f \in Flows, NEW e, NEW code, Proven(f, e, code), e.step \notin {"idle", "refused"}, code = "spent",
         NEW email, email # "none" => EmailProven(email)
  PROVE  Proven(f, Finish(e, email), code)
<1> DEFINE a == [e EXCEPT !.attempt = 0]
           b == [a EXCEPT !.email = email]
           step == IF email = "none" THEN "failed" ELSE "done"
           c == [b EXCEPT !.step = step]
<1>1. DOMAIN e = ExchangeFields /\ e.expected = f
  BY DEF Proven
<1>2. DOMAIN a = ExchangeFields /\ a.expected = f
  BY <1>1 DEF ExchangeFields
<1> HIDE DEF a
<1>3. DOMAIN b = ExchangeFields /\ b.expected = f /\ b.email = email
  BY <1>2 DEF ExchangeFields
<1> HIDE DEF b
<1>4. DOMAIN c = ExchangeFields /\ c.expected = f /\ c.email = email /\ c.step = step
  BY <1>3 DEF ExchangeFields
<1>5. Finish(e, email) = c
  BY DEF Finish, a, b
<1>6. step = "done" => email # "none"
  OBVIOUS
<1> HIDE DEF c, step
<1>7. Proven(f, c, code)
  BY <1>4, <1>6 DEF Proven
<1> QED BY <1>5, <1>7

LEMMA AfterIdTokenProven ==
  ASSUME NEW f \in Flows, NEW e, NEW code, Proven(f, e, code), e.step \notin {"idle", "refused"}, code = "spent"
  PROVE  Proven(f, AfterIdToken(e), code)
<1> DEFINE email == Trusted(idp.account.idToken)
           a == [e EXCEPT !.step = "profile"]
           b == [a EXCEPT !.attempt = 0]
           c == [b EXCEPT !.email = email]
<1>1. email # "none" => EmailProven(email)
  BY TrustedProven
<1>2. AfterIdToken(e) = c \/ AfterIdToken(e) = Finish(e, email)
  BY DEF AfterIdToken
<1> HIDE DEF email
<1>3. DOMAIN e = ExchangeFields /\ e.expected = f
  BY DEF Proven
<1>4. DOMAIN a = ExchangeFields /\ a.expected = f /\ a.step = "profile"
  BY <1>3 DEF ExchangeFields
<1> HIDE DEF a
<1>5. DOMAIN b = ExchangeFields /\ b.expected = f /\ b.step = "profile"
  BY <1>4 DEF ExchangeFields
<1> HIDE DEF b
<1>6. DOMAIN c = ExchangeFields /\ c.expected = f /\ c.step = "profile" /\ c.email = email
  BY <1>5 DEF ExchangeFields
<1> HIDE DEF c
<1>7. Proven(f, c, code)
  BY <1>1, <1>6 DEF Proven
<1>8. Proven(f, Finish(e, email), code)
  BY <1>1, FinishProven
<1> QED BY <1>2, <1>7, <1>8

LEMMA AfterProfileProven ==
  ASSUME NEW f \in Flows, NEW e, NEW code, Proven(f, e, code), e.step \notin {"idle", "refused"}, code = "spent",
         idp.kind \in Kinds
  PROVE  Proven(f, AfterProfile(e), code)
<1> DEFINE emails == [e EXCEPT !.step = "emails", !.attempt = 0]
           failed == [e EXCEPT !.step = "failed"]
           either == IF e.email # "none" THEN e.email ELSE Trusted(idp.account.profile)
<1>1. \/ idp.kind = "github" /\ AfterProfile(e) = Finish(e, idp.account.profile)
      \/ AfterProfile(e) = emails
      \/ AfterProfile(e) = Finish(e, Trusted(idp.account.profile))
      \/ AfterProfile(e) = failed
      \/ AfterProfile(e) = Finish(e, either)
  BY DEF AfterProfile, AfterGithubProfile, Kinds
<1>2. either # "none" => EmailProven(either)
  BY TrustedProven DEF Proven
<1>3. idp.kind = "github" => EmailProven(idp.account.profile)
  BY DEF EmailProven
<1> HIDE DEF either
<1>4. /\ idp.kind = "github" => Proven(f, Finish(e, idp.account.profile), code)
      /\ Proven(f, Finish(e, either), code)
      /\ Proven(f, Finish(e, Trusted(idp.account.profile)), code)
  BY <1>2, <1>3, TrustedProven, FinishProven
<1>5. Proven(f, emails, code) /\ Proven(f, failed, code)
  BY StepProven
<1> HIDE DEF emails, failed
<1> QED BY <1>1, <1>4, <1>5

LEMMA BodyArrivesProven ==
  ASSUME OAuthIInv, NEW f \in Flows, BodyArrives(f)
  PROVE  OAuthIInv'
<1> DEFINE e == exchange[f]
           moved == CASE e.step = "discovery body" -> [e EXCEPT !.step = "token", !.attempt = 0]
                      [] e.step = "token body" -> AfterToken(e)
                      [] e.step = "keys body" -> AfterIdToken(e)
                      [] e.step = "profile body" -> AfterProfile(e)
                      [] e.step = "emails body" -> AfterEmails(e)
<1>1. e.step \in InBody /\ exchange' = [exchange EXCEPT ![f] = moved] /\ idp' = idp
  BY DEF BodyArrives
<1>2. e.step \in {"discovery body", "token body", "keys body", "profile body", "emails body"}
  BY <1>1, BodiesNamed
<1>3. Proven(f, e, idp.code[f]) /\ idp.kind \in Kinds
  BY DEF OAuthIInv
<1>4. e.step # "discovery body" => idp.code[f] = "spent"
  BY <1>2, <1>3 DEF Proven
<1>5. \/ e.step = "discovery body" /\ moved = [e EXCEPT !.step = "token", !.attempt = 0]
      \/ e.step = "token body" /\ moved = AfterToken(e)
      \/ e.step = "keys body" /\ moved = AfterIdToken(e)
      \/ e.step = "profile body" /\ moved = AfterProfile(e)
      \/ e.step = "emails body" /\ moved = AfterEmails(e)
  BY <1>2
<1> HIDE DEF moved, e
<1>6. CASE e.step = "discovery body" /\ moved = [e EXCEPT !.step = "token", !.attempt = 0]
  <2>1. Proven(f, [e EXCEPT !.step = "token", !.attempt = 0], idp.code[f])
    BY <1>3, <1>6, StepProven
  <2> QED BY <1>1, <1>6, <2>1, FlowMovesAlone
<1>7. CASE e.step = "token body" /\ moved = AfterToken(e)
  <2>1. AfterToken(e) = AfterIdToken(e) \/ AfterToken(e) = [e EXCEPT !.step = "profile", !.attempt = 0]
    BY DEF AfterToken
  <2>2. Proven(f, AfterIdToken(e), idp.code[f])
    BY <1>3, <1>4, <1>7, AfterIdTokenProven
  <2>3. Proven(f, [e EXCEPT !.step = "profile", !.attempt = 0], idp.code[f])
    BY <1>3, <1>4, <1>7, StepProven
  <2>4. Proven(f, moved, idp.code[f])
    BY <1>7, <2>1, <2>2, <2>3
  <2> QED BY <1>1, <2>4, FlowMovesAlone
<1>8. CASE e.step = "keys body" /\ moved = AfterIdToken(e)
  <2>1. Proven(f, AfterIdToken(e), idp.code[f])
    BY <1>3, <1>4, <1>8, AfterIdTokenProven
  <2> QED BY <1>1, <1>8, <2>1, FlowMovesAlone
<1>9. CASE e.step = "profile body" /\ moved = AfterProfile(e)
  <2>1. Proven(f, AfterProfile(e), idp.code[f])
    BY <1>3, <1>4, <1>9, AfterProfileProven
  <2> QED BY <1>1, <1>9, <2>1, FlowMovesAlone
<1>10. CASE e.step = "emails body" /\ moved = AfterEmails(e)
  <2> DEFINE email == IF "verified" \in idp.account.listed THEN "verified" ELSE "none"
  <2>1. email # "none" => EmailProven(email)
    BY DEF EmailProven
  <2> HIDE DEF email
  <2>2. Proven(f, Finish(e, email), idp.code[f])
    BY <1>3, <1>4, <1>10, <2>1, FinishProven
  <2>3. Proven(f, moved, idp.code[f])
    BY <1>10, <2>2 DEF AfterEmails, email
  <2> QED BY <1>1, <2>3, FlowMovesAlone
<1> QED BY <1>5, <1>6, <1>7, <1>8, <1>9, <1>10

LEMMA OAuthIInvStep == OAuthIInv /\ [OAuthNext]_oauthVars => OAuthIInv'
<1> SUFFICES ASSUME OAuthIInv, [OAuthNext]_oauthVars PROVE OAuthIInv'
  OBVIOUS
<1>1. CASE UNCHANGED oauthVars
  BY <1>1 DEF oauthVars, OAuthIInv, Proven, EmailProven
<1>2. CASE Restart
  BY <1>2 DEF Restart, OAuthIInv, Proven, EmailProven
<1>3. ASSUME NEW f \in Flows,
             \/ Authorize(f) \/ Callback(f)
             \/ AttemptFails(f) \/ HeadersArrive(f) \/ AnswerUnusable(f)
             \/ BodyArrives(f) \/ KeysMissing(f) \/ IdTokenRefused(f)
      PROVE  OAuthIInv'
  BY <1>3, AuthorizeProven, CallbackProven, AttemptFailsProven, HeadersArriveProven, StepOnlyProven, BodyArrivesProven
<1> QED BY <1>1, <1>2, <1>3 DEF OAuthNext

\* For every number of logins under way in a browser, of retries, of restarts
\* between them, and every account: no login ends well but the one this browser
\* began last, with its code spent once for it and an email the provider
\* verified: all that is let past is what the application waives and the public
\* email of a GitHub profile, which github.ts:141 takes unchecked.
THEOREM LoginProvenHolds == OAuthSpec => []LoginProven
<1>1. OAuthIInv => LoginProven
  BY DEF OAuthIInv, Proven, EmailProven, LoginProven
<1> QED BY <1>1, OAuthIInvStep, OAuthInitHolds, PTL DEF OAuthSpec

-------------------------------------------------------------------------------
(***************************************************************************)
(* A login: a callback only moves on.                                      *)
(***************************************************************************)

Steps == {"idle"} \cup Requests \cup InBody \cup Ended

\* The order in which a callback asks the provider
Stage(step) ==
  CASE step = "idle" -> 0
    [] step = "discovery" -> 1 [] step = "discovery body" -> 2
    [] step = "token" -> 3     [] step = "token body" -> 4
    [] step = "keys" -> 5      [] step = "keys body" -> 6
    [] step = "profile" -> 7   [] step = "profile body" -> 8
    [] step = "emails" -> 9    [] step = "emails body" -> 10
    [] step \in Ended -> 11

\* The next request, its body, the end, or one more attempt of those allowed
Advances(e, next) ==
  \/ Stage(next.step) > Stage(e.step)
  \/ next.step = e.step /\ next.step \in Requests /\ next.attempt = e.attempt + 1

AttemptsBounded ==
  \A f \in Flows : exchange[f].step \in Steps /\ exchange[f].attempt \in 0 .. Retries

CallbackAdvances ==
  \A f \in Flows : exchange'[f] # exchange[f] => Advances(exchange[f], exchange'[f])

OnlyAdvances == [][CallbackAdvances]_oauthVars

LEMMA StepNames ==
  /\ Steps = {"idle", "discovery", "discovery body", "token", "token body", "keys", "keys body",
              "profile", "profile body", "emails", "emails body", "refused", "failed", "done"}
  /\ BodyOf["discovery"] = "discovery body" /\ BodyOf["token"] = "token body" /\ BodyOf["keys"] = "keys body"
  /\ BodyOf["profile"] = "profile body" /\ BodyOf["emails"] = "emails body"
<1>1. /\ BodyOf["discovery"] = "discovery body" /\ BodyOf["token"] = "token body" /\ BodyOf["keys"] = "keys body"
      /\ BodyOf["profile"] = "profile body" /\ BodyOf["emails"] = "emails body"
  BY DEF BodyOf
<1>2. Steps = {"idle"} \cup {"discovery", "token", "keys", "profile", "emails"}
               \cup {"discovery body", "token body", "keys body", "profile body", "emails body"}
               \cup {"refused", "failed", "done"}
  BY BodiesNamed DEF Steps, Requests, Ended
<1> QED BY <1>1, <1>2

LEMMA Stages ==
  ASSUME NEW step
  PROVE  /\ step = "idle" => step \in Steps /\ Stage(step) = 0
         /\ step = "discovery" => step \in Steps /\ Stage(step) = 1
         /\ step = "discovery body" => step \in Steps /\ Stage(step) = 2
         /\ step = "token" => step \in Steps /\ Stage(step) = 3
         /\ step = "token body" => step \in Steps /\ Stage(step) = 4
         /\ step = "keys" => step \in Steps /\ Stage(step) = 5
         /\ step = "keys body" => step \in Steps /\ Stage(step) = 6
         /\ step = "profile" => step \in Steps /\ Stage(step) = 7
         /\ step = "profile body" => step \in Steps /\ Stage(step) = 8
         /\ step = "emails" => step \in Steps /\ Stage(step) = 9
         /\ step = "emails body" => step \in Steps /\ Stage(step) = 10
         /\ step \in {"refused", "failed", "done"} => step \in Steps /\ Stage(step) = 11
BY StepNames DEF Stage, Ended

\* What may follow a step of a callback; each of them may be the last
Succeeds(step, next) ==
  \/ step = "idle" /\ next \in {"discovery", "token"}
  \/ step = "discovery" /\ next = "discovery body"
  \/ step = "discovery body" /\ next = "token"
  \/ step = "token" /\ next = "token body"
  \/ step = "token body" /\ next \in {"keys", "profile"}
  \/ step = "keys" /\ next = "keys body"
  \/ step = "keys body" /\ next = "profile"
  \/ step = "profile" /\ next = "profile body"
  \/ step = "profile body" /\ next = "emails"
  \/ step = "emails" /\ next = "emails body"
  \/ step \in Steps \ Ended /\ next \in Ended

LEMMA SucceedsLater ==
  ASSUME NEW step, NEW next, Succeeds(step, next)
  PROVE  next \in Steps /\ Stage(next) > Stage(step)
<1>1. CASE step = "idle" /\ next \in {"discovery", "token"}
  <2>1. Stage(step) = 0 /\ next \in Steps
    BY <1>1, Stages
  <2>2. Stage(next) = 1 \/ Stage(next) = 3
    BY <1>1, Stages
  <2> QED BY <2>1, <2>2
<1>2. CASE step = "discovery" /\ next = "discovery body"
  <2>1. Stage(step) = 1 /\ next \in Steps
    BY <1>2, Stages
  <2>2. Stage(next) = 2
    BY <1>2, Stages
  <2> QED BY <2>1, <2>2
<1>3. CASE step = "discovery body" /\ next = "token"
  <2>1. Stage(step) = 2 /\ next \in Steps
    BY <1>3, Stages
  <2>2. Stage(next) = 3
    BY <1>3, Stages
  <2> QED BY <2>1, <2>2
<1>4. CASE step = "token" /\ next = "token body"
  <2>1. Stage(step) = 3 /\ next \in Steps
    BY <1>4, Stages
  <2>2. Stage(next) = 4
    BY <1>4, Stages
  <2> QED BY <2>1, <2>2
<1>5. CASE step = "token body" /\ next \in {"keys", "profile"}
  <2>1. Stage(step) = 4 /\ next \in Steps
    BY <1>5, Stages
  <2>2. Stage(next) = 5 \/ Stage(next) = 7
    BY <1>5, Stages
  <2> QED BY <2>1, <2>2
<1>6. CASE step = "keys" /\ next = "keys body"
  <2>1. Stage(step) = 5 /\ next \in Steps
    BY <1>6, Stages
  <2>2. Stage(next) = 6
    BY <1>6, Stages
  <2> QED BY <2>1, <2>2
<1>7. CASE step = "keys body" /\ next = "profile"
  <2>1. Stage(step) = 6 /\ next \in Steps
    BY <1>7, Stages
  <2>2. Stage(next) = 7
    BY <1>7, Stages
  <2> QED BY <2>1, <2>2
<1>8. CASE step = "profile" /\ next = "profile body"
  <2>1. Stage(step) = 7 /\ next \in Steps
    BY <1>8, Stages
  <2>2. Stage(next) = 8
    BY <1>8, Stages
  <2> QED BY <2>1, <2>2
<1>9. CASE step = "profile body" /\ next = "emails"
  <2>1. Stage(step) = 8 /\ next \in Steps
    BY <1>9, Stages
  <2>2. Stage(next) = 9
    BY <1>9, Stages
  <2> QED BY <2>1, <2>2
<1>10. CASE step = "emails" /\ next = "emails body"
  <2>1. Stage(step) = 9 /\ next \in Steps
    BY <1>10, Stages
  <2>2. Stage(next) = 10
    BY <1>10, Stages
  <2> QED BY <2>1, <2>2
<1>11. CASE step \in Steps \ Ended /\ next \in Ended
  <2>1. Stage(next) = 11 /\ next \in Steps
    BY <1>11, Stages DEF Ended
  <2>2. step \in {"idle", "discovery", "discovery body", "token", "token body", "keys", "keys body",
                  "profile", "profile body", "emails", "emails body"}
    BY <1>11, StepNames DEF Ended
  <2>3. Stage(step) \in 0 .. 10
    <3>1. \/ Stage(step) = 0 \/ Stage(step) = 1 \/ Stage(step) = 2 \/ Stage(step) = 3 \/ Stage(step) = 4
          \/ Stage(step) = 5 \/ Stage(step) = 6 \/ Stage(step) = 7 \/ Stage(step) = 8 \/ Stage(step) = 9
          \/ Stage(step) = 10
      BY <2>2, Stages
    <3> QED BY <3>1
  <2> QED BY <2>1, <2>3
<1> QED BY <1>1, <1>2, <1>3, <1>4, <1>5, <1>6, <1>7, <1>8, <1>9, <1>10, <1>11 DEF Succeeds

\* The fields that tell how far an exchange is
Reaches(q, step, attempt) == q.step = step /\ q.attempt = attempt

LEMMA SetsStep ==
  ASSUME NEW e, DOMAIN e = ExchangeFields, NEW step, NEW n
  PROVE  /\ Reaches([e EXCEPT !.step = step], step, e.attempt)
         /\ Reaches([e EXCEPT !.attempt = n], e.step, n)
         /\ Reaches([e EXCEPT !.step = step, !.attempt = n], step, n)
<1> DEFINE a == [e EXCEPT !.step = step]
           b == [a EXCEPT !.attempt = n]
           c == [e EXCEPT !.attempt = n]
<1>1. DOMAIN a = ExchangeFields /\ a.step = step /\ a.attempt = e.attempt /\ c.step = e.step /\ c.attempt = n
  BY DEF ExchangeFields
<1> HIDE DEF a
<1>2. b.step = step /\ b.attempt = n
  BY <1>1 DEF ExchangeFields
<1> QED BY <1>1, <1>2 DEF Reaches, a

LEMMA FinishEnds ==
  ASSUME NEW e, DOMAIN e = ExchangeFields, NEW email
  PROVE  \E step \in {"failed", "done"} : Reaches(Finish(e, email), step, 0)
<1> DEFINE a == [e EXCEPT !.attempt = 0]
           b == [a EXCEPT !.email = email]
           step == IF email = "none" THEN "failed" ELSE "done"
           c == [b EXCEPT !.step = step]
<1>1. DOMAIN a = ExchangeFields /\ a.attempt = 0
  BY DEF ExchangeFields
<1> HIDE DEF a
<1>2. DOMAIN b = ExchangeFields /\ b.attempt = 0
  BY <1>1 DEF ExchangeFields
<1> HIDE DEF b
<1>3. c.step = step /\ c.attempt = 0
  BY <1>2 DEF ExchangeFields
<1>4. Finish(e, email) = c
  BY DEF Finish, a, b
<1>5. step \in {"failed", "done"}
  OBVIOUS
<1> HIDE DEF c, step
<1> QED BY <1>3, <1>4, <1>5 DEF Reaches

LEMMA AfterIdTokenMoves ==
  ASSUME NEW e, DOMAIN e = ExchangeFields
  PROVE  \E step \in {"profile", "failed", "done"} : Reaches(AfterIdToken(e), step, 0)
<1> DEFINE email == Trusted(idp.account.idToken)
           a == [e EXCEPT !.step = "profile"]
           b == [a EXCEPT !.attempt = 0]
           c == [b EXCEPT !.email = email]
<1>1. AfterIdToken(e) = c \/ AfterIdToken(e) = Finish(e, email)
  BY DEF AfterIdToken
<1> HIDE DEF email
<1>2. DOMAIN a = ExchangeFields /\ a.step = "profile"
  BY DEF ExchangeFields
<1> HIDE DEF a
<1>3. DOMAIN b = ExchangeFields /\ b.step = "profile" /\ b.attempt = 0
  BY <1>2 DEF ExchangeFields
<1> HIDE DEF b
<1>4. Reaches(c, "profile", 0)
  BY <1>3 DEF ExchangeFields, Reaches
<1> HIDE DEF c
<1> QED BY <1>1, <1>4, FinishEnds

LEMMA AfterProfileMoves ==
  ASSUME NEW e, DOMAIN e = ExchangeFields, idp.kind \in Kinds
  PROVE  \/ \E step \in {"emails", "failed", "done"} : Reaches(AfterProfile(e), step, 0)
         \/ Reaches(AfterProfile(e), "failed", e.attempt)
<1> DEFINE emails == [e EXCEPT !.step = "emails", !.attempt = 0]
           failed == [e EXCEPT !.step = "failed"]
<1>1. \/ \E email : AfterProfile(e) = Finish(e, email)
      \/ AfterProfile(e) = emails
      \/ AfterProfile(e) = failed
  BY DEF AfterProfile, AfterGithubProfile, Kinds
<1>2. Reaches(emails, "emails", 0) /\ Reaches(failed, "failed", e.attempt)
  BY SetsStep
<1> HIDE DEF emails, failed
<1> QED BY <1>1, <1>2, FinishEnds

\* What an exchange may become, by the step it is at
MovesTo(e, q) ==
  \/ Reaches(q, e.step, e.attempt + 1) /\ e.attempt < Retries /\ e.step \in Requests
  \/ \E step \in Steps, n \in {0, e.attempt} : Reaches(q, step, n) /\ Succeeds(e.step, step)

OAuthMoves ==
  \A f \in Flows : exchange'[f] = exchange[f] \/ MovesTo(exchange[f], exchange'[f])

LEMMA OneMoves ==
  ASSUME OAuthIInv, NEW f \in Flows, NEW q, exchange' = [exchange EXCEPT ![f] = q], MovesTo(exchange[f], q)
  PROVE  OAuthMoves
BY DEF OAuthIInv, OAuthMoves

LEMMA CallbackMoves ==
  ASSUME OAuthIInv, NEW f \in Flows, Callback(f)
  PROVE  OAuthMoves
<1> DEFINE a == [NoExchange EXCEPT !.expected = stash]
           step == IF StateMatches(f, stash) THEN FirstCall ELSE "refused"
           q == [a EXCEPT !.step = step]
<1>1. exchange[f].step = "idle" /\ exchange' = [exchange EXCEPT ![f] = q]
  BY DEF Callback
<1>2. DOMAIN a = ExchangeFields /\ a.attempt = 0
  BY DEF NoExchange, ExchangeFields
<1>3. step \in {"refused", "discovery", "token"}
  BY DEF FirstCall
<1> HIDE DEF a, step
<1>4. Reaches(q, step, 0)
  BY <1>2, SetsStep
<1> HIDE DEF q
<1>5. step \in Steps /\ Succeeds("idle", step)
  BY <1>3, StepNames DEF Succeeds, Ended
<1>6. MovesTo(exchange[f], q)
  BY <1>1, <1>4, <1>5 DEF MovesTo
<1> QED BY <1>1, <1>6, OneMoves

LEMMA AttemptFailsMoves ==
  ASSUME OAuthIInv, NEW f \in Flows, AttemptFails(f)
  PROVE  OAuthMoves
<1> DEFINE e == exchange[f]
<1>1. e.step \in Requests /\ exchange' = [exchange EXCEPT ![f] = Again(e)] /\ DOMAIN e = ExchangeFields
  BY DEF AttemptFails, OAuthIInv, Proven
<1> HIDE DEF e
<1>2. CASE e.attempt < Retries
  <2>1. Again(e) = [e EXCEPT !.attempt = e.attempt + 1]
    BY <1>2 DEF Again
  <2>2. MovesTo(e, Again(e))
    BY <1>1, <1>2, <2>1, SetsStep DEF MovesTo
  <2> QED BY <1>1, <2>2, OneMoves DEF e
<1>3. CASE ~(e.attempt < Retries)
  <2>1. Again(e) = [e EXCEPT !.step = "failed"]
    BY <1>3 DEF Again
  <2>2. Succeeds(e.step, "failed") /\ "failed" \in Steps
    BY <1>1, StepNames DEF Requests, Succeeds, Ended
  <2>3. Reaches(Again(e), "failed", e.attempt)
    <3>1. Reaches([e EXCEPT !.step = "failed"], "failed", e.attempt)
      BY <1>1, SetsStep
    <3> QED BY <2>1, <3>1
  <2>4. MovesTo(e, Again(e))
    BY <2>2, <2>3 DEF MovesTo
  <2> QED BY <1>1, <2>4, OneMoves DEF e
<1> QED BY <1>2, <1>3

LEMMA HeadersArriveMoves ==
  ASSUME OAuthIInv, NEW f \in Flows, HeadersArrive(f)
  PROVE  OAuthMoves
<1> DEFINE e == exchange[f]
           step == IF e.step = "token" /\ ~Redeems(f) THEN "failed" ELSE BodyOf[e.step]
           q == [e EXCEPT !.step = step]
<1>1. e.step \in Requests /\ exchange' = [exchange EXCEPT ![f] = q] /\ DOMAIN e = ExchangeFields
  BY DEF HeadersArrive, OAuthIInv, Proven
<1>2. step \in Steps /\ Succeeds(e.step, step)
  <2>1. step = "failed" \/ step = BodyOf[e.step]
    OBVIOUS
  <2> HIDE DEF e, step
  <2> QED BY <1>1, <2>1, StepNames DEF Requests, Succeeds, Ended
<1> HIDE DEF step, e
<1>3. Reaches(q, step, e.attempt)
  BY <1>1, SetsStep
<1> HIDE DEF q
<1>4. MovesTo(e, q)
  BY <1>2, <1>3 DEF MovesTo
<1> QED BY <1>1, <1>4, OneMoves DEF e

LEMMA StepOnlyMoves ==
  ASSUME OAuthIInv, NEW f \in Flows, AnswerUnusable(f) \/ KeysMissing(f) \/ IdTokenRefused(f)
  PROVE  OAuthMoves
<1> DEFINE e == exchange[f]
           failed == [e EXCEPT !.step = "failed"]
           keys == [e EXCEPT !.step = "keys", !.attempt = 0]
<1>1. DOMAIN e = ExchangeFields
  BY DEF OAuthIInv, Proven
<1>2. \/ e.step \in Requests \cup InBody /\ exchange' = [exchange EXCEPT ![f] = failed]
      \/ e.step = "token body" /\ exchange' = [exchange EXCEPT ![f] = keys]
  <2>1. CASE AnswerUnusable(f)
    BY <2>1 DEF AnswerUnusable
  <2>2. CASE KeysMissing(f)
    BY <2>2 DEF KeysMissing
  <2>3. CASE IdTokenRefused(f)
    BY <2>3, BodiesNamed DEF IdTokenRefused
  <2> QED BY <2>1, <2>2, <2>3
<1> HIDE DEF e
<1>3. Reaches(failed, "failed", e.attempt) /\ Reaches(keys, "keys", 0)
  BY <1>1, SetsStep
<1> HIDE DEF failed, keys
<1>4. CASE e.step \in Requests \cup InBody /\ exchange' = [exchange EXCEPT ![f] = failed]
  <2>1. Succeeds(e.step, "failed") /\ "failed" \in Steps
    BY <1>4, BodiesNamed, StepNames DEF Requests, Succeeds, Ended
  <2>2. MovesTo(e, failed)
    BY <1>3, <2>1 DEF MovesTo
  <2> QED BY <1>4, <2>2, OneMoves DEF e
<1>5. CASE e.step = "token body" /\ exchange' = [exchange EXCEPT ![f] = keys]
  <2>1. Succeeds(e.step, "keys") /\ "keys" \in Steps
    BY <1>5, StepNames DEF Succeeds
  <2>2. MovesTo(e, keys)
    BY <1>3, <2>1 DEF MovesTo
  <2> QED BY <1>5, <2>2, OneMoves DEF e
<1> QED BY <1>2, <1>4, <1>5

LEMMA BodyArrivesMoves ==
  ASSUME OAuthIInv, NEW f \in Flows, BodyArrives(f)
  PROVE  OAuthMoves
<1> DEFINE e == exchange[f]
           moved == CASE e.step = "discovery body" -> [e EXCEPT !.step = "token", !.attempt = 0]
                      [] e.step = "token body" -> AfterToken(e)
                      [] e.step = "keys body" -> AfterIdToken(e)
                      [] e.step = "profile body" -> AfterProfile(e)
                      [] e.step = "emails body" -> AfterEmails(e)
<1>1. e.step \in InBody /\ exchange' = [exchange EXCEPT ![f] = moved]
  BY DEF BodyArrives
<1>2. e.step \in {"discovery body", "token body", "keys body", "profile body", "emails body"}
  BY <1>1, BodiesNamed
<1>3. DOMAIN e = ExchangeFields /\ idp.kind \in Kinds
  BY DEF OAuthIInv, Proven
<1>4. \/ e.step = "discovery body" /\ moved = [e EXCEPT !.step = "token", !.attempt = 0]
      \/ e.step = "token body" /\ moved = AfterToken(e)
      \/ e.step = "keys body" /\ moved = AfterIdToken(e)
      \/ e.step = "profile body" /\ moved = AfterProfile(e)
      \/ e.step = "emails body" /\ moved = AfterEmails(e)
  BY <1>2
<1> HIDE DEF moved, e
<1>5. SUFFICES \E step \in Steps, n \in {0, e.attempt} : Reaches(moved, step, n) /\ Succeeds(e.step, step)
  <2>1. MovesTo(e, moved)
    BY <1>5 DEF MovesTo
  <2> QED BY <1>1, <2>1, OneMoves DEF e
<1>6. CASE e.step = "discovery body" /\ moved = [e EXCEPT !.step = "token", !.attempt = 0]
  <2>1. Reaches(moved, "token", 0)
    BY <1>3, <1>6, SetsStep
  <2> QED BY <1>6, <2>1, StepNames DEF Succeeds, Ended
<1>7. CASE e.step = "token body" /\ moved = AfterToken(e)
  <2>1. AfterToken(e) = AfterIdToken(e) \/ AfterToken(e) = [e EXCEPT !.step = "profile", !.attempt = 0]
    BY DEF AfterToken
  <2>2. \E step \in {"profile", "failed", "done"} : Reaches(moved, step, 0)
    <3>1. Reaches([e EXCEPT !.step = "profile", !.attempt = 0], "profile", 0)
      BY <1>3, SetsStep
    <3>2. \E step \in {"profile", "failed", "done"} : Reaches(AfterIdToken(e), step, 0)
      BY <1>3, AfterIdTokenMoves
    <3>3. Reaches(AfterToken(e), "profile", 0) \/ AfterToken(e) = AfterIdToken(e)
      BY <2>1, <3>1
    <3> QED BY <1>7, <3>2, <3>3
  <2> QED BY <1>7, <2>2, StepNames DEF Succeeds, Ended
<1>8. CASE e.step = "keys body" /\ moved = AfterIdToken(e)
  <2>1. \E step \in {"profile", "failed", "done"} : Reaches(moved, step, 0)
    BY <1>3, <1>8, AfterIdTokenMoves
  <2> QED BY <1>8, <2>1, StepNames DEF Succeeds, Ended
<1>9. CASE e.step = "profile body" /\ moved = AfterProfile(e)
  <2>1. \/ \E step \in {"emails", "failed", "done"} : Reaches(moved, step, 0)
        \/ Reaches(moved, "failed", e.attempt)
    BY <1>3, <1>9, AfterProfileMoves
  <2> QED BY <1>9, <2>1, StepNames DEF Succeeds, Ended
<1>10. CASE e.step = "emails body" /\ moved = AfterEmails(e)
  <2>1. \E step \in {"failed", "done"} : Reaches(moved, step, 0)
    BY <1>3, <1>10, FinishEnds DEF AfterEmails
  <2> QED BY <1>10, <2>1, StepNames DEF Succeeds, Ended
<1> QED BY <1>4, <1>6, <1>7, <1>8, <1>9, <1>10

LEMMA OAuthStepMoves ==
  ASSUME OAuthIInv, [OAuthNext]_oauthVars
  PROVE  OAuthMoves
<1>1. CASE exchange' = exchange
  BY <1>1 DEF OAuthMoves
<1>2. ASSUME NEW f \in Flows,
             \/ Authorize(f) \/ Callback(f)
             \/ AttemptFails(f) \/ HeadersArrive(f) \/ AnswerUnusable(f)
             \/ BodyArrives(f) \/ KeysMissing(f) \/ IdTokenRefused(f)
      PROVE  OAuthMoves
  BY <1>1, <1>2, CallbackMoves, AttemptFailsMoves, HeadersArriveMoves, StepOnlyMoves, BodyArrivesMoves DEF Authorize
<1> QED BY <1>1, <1>2 DEF OAuthNext, Restart, oauthVars

LEMMA AttemptsStay == OAuthSpec => [](OAuthIInv /\ AttemptsBounded)
<1>1. OAuthInit => AttemptsBounded
  <2> SUFFICES ASSUME OAuthInit PROVE AttemptsBounded
    OBVIOUS
  <2>1. exchange = [f \in Flows |-> NoExchange] /\ NoExchange.step = "idle" /\ NoExchange.attempt = 0
    BY DEF OAuthInit, NoExchange
  <2> QED BY <2>1, RetriesAssumption DEF AttemptsBounded, Steps
<1>2. OAuthIInv /\ AttemptsBounded /\ [OAuthNext]_oauthVars => AttemptsBounded'
  <2> SUFFICES ASSUME OAuthIInv, AttemptsBounded, OAuthMoves, NEW f \in Flows
               PROVE  exchange'[f].step \in Steps /\ exchange'[f].attempt \in 0 .. Retries
    BY OAuthStepMoves DEF AttemptsBounded
  <2>1. exchange[f].step \in Steps /\ exchange[f].attempt \in 0 .. Retries /\ Retries \in Nat
    BY RetriesAssumption DEF AttemptsBounded
  <2>2. CASE exchange'[f] = exchange[f]
    BY <2>1, <2>2
  <2>3. CASE MovesTo(exchange[f], exchange'[f])
    BY <2>1, <2>3 DEF MovesTo, Reaches
  <2> QED BY <2>2, <2>3 DEF OAuthMoves
<1>3. OAuthIInv /\ [OAuthNext]_oauthVars => OAuthIInv'
  BY OAuthIInvStep
<1> QED BY <1>1, <1>2, <1>3, OAuthInitHolds, PTL DEF OAuthSpec

\* For every account and every pattern of lost answers: no request of a
\* callback is tried more often than httpJson's retries allow, whatever
\* count an earlier request left (http.ts:77).
THEOREM AttemptsBoundedHolds == OAuthSpec => []AttemptsBounded
BY AttemptsStay, PTL

\* For every account, provider and pattern of failures: a step of a callback is
\* one more attempt or a later stage of exchangeCode(), so with the bound on
\* attempts a callback is over after at most five requests' attempts.  This is
\* why CallbackAnswered needs no more than that each attempt ends.
THEOREM OnlyAdvancesHolds == OAuthSpec => OnlyAdvances
<1>1. OAuthIInv /\ [OAuthNext]_oauthVars => [CallbackAdvances]_oauthVars
  <2> SUFFICES ASSUME OAuthIInv, [OAuthNext]_oauthVars PROVE CallbackAdvances
    OBVIOUS
  <2>1. OAuthMoves
    BY OAuthStepMoves
  <2>2. ASSUME NEW f \in Flows, MovesTo(exchange[f], exchange'[f]) PROVE Advances(exchange[f], exchange'[f])
    BY <2>2, SucceedsLater DEF MovesTo, Reaches, Advances
  <2> QED BY <2>1, <2>2 DEF OAuthMoves, CallbackAdvances
<1>2. OAuthIInv /\ [OAuthNext]_oauthVars => OAuthIInv'
  BY OAuthIInvStep
<1> QED BY <1>1, <1>2, OAuthInitHolds, PTL DEF OAuthSpec, OnlyAdvances

-------------------------------------------------------------------------------
(***************************************************************************)
(* What verify() and the inspector make of a packet.                       *)
(***************************************************************************)

\* The first check that fails gives the error
LEMMA FirstFailureIs ==
  ASSUME NEW checks, DOMAIN checks \subseteq Nat
  PROVE  \/ FirstFailure(checks) = "ok" /\ \A i \in DOMAIN checks : ~checks[i][1]
         \/ \E i \in DOMAIN checks : /\ checks[i][1] /\ FirstFailure(checks) = checks[i][2]
                                     /\ \A j \in DOMAIN checks : j < i => ~checks[j][1]
<1> DEFINE failing == {i \in DOMAIN checks : checks[i][1]}
           first == CHOOSE i \in failing : \A j \in failing : i <= j
<1>1. FirstFailure(checks) = IF failing = {} THEN "ok" ELSE checks[first][2]
  BY DEF FirstFailure
<1>2. CASE failing = {}
  BY <1>1, <1>2
<1>3. CASE failing # {}
  <2>1. failing \in SUBSET Nat
    OBVIOUS
  <2>2. \E i \in failing : \A j \in failing : i <= j
    BY <1>3, <2>1, LeastNatural
  <2>3. first \in failing /\ \A j \in failing : first <= j
    BY <2>2
  <2> HIDE DEF first
  <2>4. first \in DOMAIN checks /\ checks[first][1]
    BY <2>3
  <2>5. FirstFailure(checks) = checks[first][2]
    BY <1>1, <1>3
  <2>6. ASSUME NEW j \in DOMAIN checks, j < first PROVE ~checks[j][1]
    <3>1. j \in Nat /\ first \in Nat
      BY <2>4
    <3>2. j \notin failing
      BY <2>3, <2>6, <3>1
    <3> QED BY <3>2
  <2> QED BY <2>4, <2>5, <2>6
<1> QED BY <1>2, <1>3

LEMMA VerifyCases ==
  ASSUME NEW engine, NEW packet, NEW known \in BOOLEAN, NEW wireKey, NEW now
  PROVE  \/ VerifyPacket(engine, packet, known, wireKey, now) = "token_invalid"
         \/ ~known /\ VerifyPacket(engine, packet, known, wireKey, now) = "unknown_key"
         \/ /\ EnvelopeError(engine, packet) = "ok" /\ known /\ Opens(packet, wireKey)
            /\ VerifyPacket(engine, packet, known, wireKey, now) = ClaimError(engine, packet.claims, now)
<1> DEFINE envelope == EnvelopeError(engine, packet) # "ok"
           claim == ClaimError(engine, packet.claims, now)
           unknown == ~known
           shut == ~Opens(packet, wireKey)
           refused == claim # "ok"
           checks == << <<envelope, "token_invalid">>, <<unknown, "unknown_key">>,
                        <<shut, "token_invalid">>, <<refused, claim>> >>
<1>1. VerifyPacket(engine, packet, known, wireKey, now) = FirstFailure(checks)
  BY DEF VerifyPacket
<1> HIDE DEF claim, envelope, unknown, shut, refused
<1>2. DOMAIN checks = 1 .. 4
  OBVIOUS
<1>3. /\ checks[1] = <<envelope, "token_invalid">> /\ checks[2] = <<unknown, "unknown_key">>
      /\ checks[3] = <<shut, "token_invalid">> /\ checks[4] = <<refused, claim>>
  OBVIOUS
<1> HIDE DEF checks
<1>4. \/ FirstFailure(checks) = "ok" /\ ~checks[1][1] /\ ~checks[2][1] /\ ~checks[3][1] /\ ~checks[4][1]
      \/ FirstFailure(checks) = checks[1][2]
      \/ FirstFailure(checks) = checks[2][2] /\ checks[2][1]
      \/ FirstFailure(checks) = checks[3][2]
      \/ FirstFailure(checks) = checks[4][2] /\ ~checks[1][1] /\ ~checks[2][1] /\ ~checks[3][1]
  <2>1. DOMAIN checks \subseteq Nat /\ \A i \in DOMAIN checks : i = 1 \/ i = 2 \/ i = 3 \/ i = 4
    BY <1>2
  <2>2. CASE FirstFailure(checks) = "ok" /\ \A i \in DOMAIN checks : ~checks[i][1]
    BY <1>2, <2>2
  <2>3. ASSUME NEW i \in DOMAIN checks, checks[i][1], FirstFailure(checks) = checks[i][2],
               \A j \in DOMAIN checks : j < i => ~checks[j][1]
        PROVE  \/ FirstFailure(checks) = checks[1][2]
               \/ FirstFailure(checks) = checks[2][2] /\ checks[2][1]
               \/ FirstFailure(checks) = checks[3][2]
               \/ FirstFailure(checks) = checks[4][2] /\ ~checks[1][1] /\ ~checks[2][1] /\ ~checks[3][1]
    <3>1. CASE i = 4
      <4>1. ~checks[1][1] /\ ~checks[2][1] /\ ~checks[3][1]
        BY <1>2, <2>3, <3>1
      <4> QED BY <2>3, <3>1, <4>1
    <3> QED BY <2>1, <2>3, <3>1
  <2> QED BY <2>1, <2>2, <2>3, FirstFailureIs
<1>5. /\ checks[1][1] <=> envelope
      /\ checks[2][1] <=> unknown
      /\ checks[3][1] <=> shut
      /\ checks[4][1] <=> refused
      /\ checks[1][2] = "token_invalid" /\ checks[2][2] = "unknown_key" /\ checks[3][2] = "token_invalid"
      /\ checks[4][2] = claim
  BY <1>3
<1>6. claim # "ok" <=> refused
  BY DEF refused
<1>7. \/ FirstFailure(checks) = "token_invalid"
      \/ unknown /\ FirstFailure(checks) = "unknown_key"
      \/ ~envelope /\ ~unknown /\ ~shut /\ FirstFailure(checks) = claim
  BY <1>4, <1>5, <1>6
<1> QED BY <1>1, <1>7 DEF envelope, unknown, shut, claim

LEMMA EnvelopePasses ==
  ASSUME NEW engine, NEW packet, EnvelopeError(engine, packet) = "ok"
  PROVE  ~(packet.bytes < HEADER_LENGTH) /\ packet.version \in ACCEPTED_VERSIONS
<1> DEFINE long == engine.maxTokenBytes > 0 /\ packet.bytes > engine.maxTokenBytes
           short == packet.bytes < HEADER_LENGTH
           foreign == packet.version \notin ACCEPTED_VERSIONS
           checks == << <<long, "too_long">>, <<short, "too_short">>, <<foreign, "version">> >>
<1>1. FirstFailure(checks) = "ok"
  BY DEF EnvelopeError
<1> HIDE DEF long, short, foreign
<1>2. DOMAIN checks = 1 .. 3
  OBVIOUS
<1>3. checks[1] = <<long, "too_long">> /\ checks[2] = <<short, "too_short">> /\ checks[3] = <<foreign, "version">>
  OBVIOUS
<1> HIDE DEF checks
<1>4. /\ checks[2][1] <=> short
      /\ checks[3][1] <=> foreign
      /\ checks[1][2] = "too_long" /\ checks[2][2] = "too_short" /\ checks[3][2] = "version"
  BY <1>3
<1>5. DOMAIN checks \subseteq Nat /\ \A i \in DOMAIN checks : i = 1 \/ i = 2 \/ i = 3
  BY <1>2
<1>6. \A i \in DOMAIN checks : checks[i][2] # "ok"
  BY <1>4, <1>5
<1>7. \A i \in DOMAIN checks : ~checks[i][1]
  BY <1>1, <1>5, <1>6, FirstFailureIs
<1>8. ~short /\ ~foreign
  BY <1>2, <1>4, <1>7
<1> QED BY <1>8 DEF short, foreign

LEMMA ClaimCases ==
  ASSUME NEW engine, NEW claims, NEW now
  PROVE  \/ ClaimError(engine, claims, now) = "token_invalid"
         \/ /\ ClaimError(engine, claims, now) = "token_expired"
            /\ claims.exp # NoClaim /\ now >= claims.exp + engine.tolerance
         \/ /\ ClaimError(engine, claims, now) = "token_not_yet_valid"
            /\ claims.nbf # NoClaim /\ now + engine.tolerance < claims.nbf
         \/ /\ ClaimError(engine, claims, now) = "ok"
            /\ ~(now >= claims.exp + engine.tolerance)
            /\ ~(claims.nbf # NoClaim /\ now + engine.tolerance < claims.nbf)
<1> DEFINE endless == claims.exp = NoClaim
           late == now >= claims.exp + engine.tolerance
           early == claims.nbf # NoClaim /\ now + engine.tolerance < claims.nbf
           issuer == engine.issuer # "" /\ claims.iss # engine.issuer
           audience == engine.audience # "" /\ claims.aud # engine.audience
           checks == << <<endless, "token_invalid">>, <<late, "token_expired">>, <<early, "token_not_yet_valid">>,
                        <<issuer, "token_invalid">>, <<audience, "token_invalid">> >>
<1>1. ClaimError(engine, claims, now) = FirstFailure(checks)
  BY DEF ClaimError
<1> HIDE DEF endless, late, early, issuer, audience
<1>2. DOMAIN checks = 1 .. 5
  OBVIOUS
<1>3. /\ checks[1] = <<endless, "token_invalid">> /\ checks[2] = <<late, "token_expired">>
      /\ checks[3] = <<early, "token_not_yet_valid">> /\ checks[4] = <<issuer, "token_invalid">>
      /\ checks[5] = <<audience, "token_invalid">>
  OBVIOUS
<1> HIDE DEF checks
<1>4. /\ checks[1][1] <=> endless
      /\ checks[2][1] <=> late
      /\ checks[3][1] <=> early
      /\ checks[1][2] = "token_invalid" /\ checks[2][2] = "token_expired" /\ checks[3][2] = "token_not_yet_valid"
      /\ checks[4][2] = "token_invalid" /\ checks[5][2] = "token_invalid"
  BY <1>3
<1>5. DOMAIN checks \subseteq Nat /\ \A i \in DOMAIN checks : i = 1 \/ i = 2 \/ i = 3 \/ i = 4 \/ i = 5
  BY <1>2
<1>6. \/ FirstFailure(checks) = "token_invalid"
      \/ FirstFailure(checks) = "token_expired" /\ ~endless /\ late
      \/ FirstFailure(checks) = "token_not_yet_valid" /\ early
      \/ FirstFailure(checks) = "ok" /\ ~late /\ ~early
  <2>1. CASE FirstFailure(checks) = "ok" /\ \A i \in DOMAIN checks : ~checks[i][1]
    BY <1>2, <1>4, <2>1
  <2>2. ASSUME NEW i \in DOMAIN checks, checks[i][1], FirstFailure(checks) = checks[i][2],
               \A j \in DOMAIN checks : j < i => ~checks[j][1]
        PROVE  \/ FirstFailure(checks) = "token_invalid"
               \/ FirstFailure(checks) = "token_expired" /\ ~endless /\ late
               \/ FirstFailure(checks) = "token_not_yet_valid" /\ early
    <3>1. CASE i = 2
      <4>1. ~checks[1][1]
        BY <1>2, <2>2, <3>1
      <4> QED BY <1>4, <2>2, <3>1, <4>1
    <3> QED BY <1>4, <1>5, <2>2, <3>1
  <2> QED BY <1>5, <2>1, <2>2, FirstFailureIs
<1> QED BY <1>1, <1>6 DEF endless, late, early

-------------------------------------------------------------------------------
(***************************************************************************)
(* The key providers: what each server keeps of the vault.                 *)
(***************************************************************************)

ProviderFields == {"kind", "primary", "keys", "fetch", "snapshot", "polls", "due", "disposed", "failures"}
KeyAges == Nat \cup {InVault, NotCached}

ProviderOK(p) ==
  /\ DOMAIN p = ProviderFields
  /\ p.keys \in [Versions -> KeyAges]
  /\ p.disposed => p.due = Off

\* A token is what its signer's engine sealed with a key of the vault
TokenOK ==
  /\ DOMAIN token = {"age", "signer", "strangers", "packet"}
  /\ token.age \in Nat /\ token.signer \in Servers /\ token.packet.keyId \in Versions
  /\ token.packet = SignPacket(Engine[token.signer], token.packet.keyId,
                               DeriveKeyMaterial(Secret[token.packet.keyId], token.packet.keyId))

\* A key that is no longer the vault's was retired after the token was signed
KeyKept(age, old) == old > OverlapWindow \/ age = InVault \/ (age >= 0 /\ age <= old)

KeyIInv ==
  /\ DOMAIN provider = Servers
  /\ \A s \in Servers : ProviderOK(provider[s])
  /\ token # NoToken =>
       /\ TokenOK
       /\ \A s \in Servers : s \notin token.strangers => KeyKept(provider[s].keys[token.packet.keyId], token.age)

LEMMA KeyInitHolds == KeyInit => KeyIInv
<1> SUFFICES ASSUME KeyInit PROVE KeyIInv
  OBVIOUS
<1>1. provider \in [Servers -> {CloudProvider, LocalProvider, StaticProvider}] /\ token = NoToken
  BY DEF KeyInit
<1>2. ASSUME NEW kind, NEW list PROVE ProviderOK(FixedProvider(kind, list))
  <2> DEFINE p == FixedProvider(kind, list)
  <2>1. DOMAIN p = ProviderFields /\ p.disposed = FALSE
    BY DEF FixedProvider, ProviderFields
  <2>2. p.keys = [v \in Versions |-> IF v \in {list[i] : i \in DOMAIN list} THEN InVault ELSE NotCached]
    BY DEF FixedProvider
  <2>3. p.keys \in [Versions -> KeyAges]
    BY <2>2 DEF KeyAges
  <2> QED BY <2>1, <2>3 DEF ProviderOK
<1>3. ProviderOK(CloudProvider)
  <2>1. DOMAIN CloudProvider = ProviderFields /\ CloudProvider.disposed = FALSE
    BY DEF CloudProvider, ProviderFields
  <2>2. CloudProvider.keys = [v \in Versions |-> NotCached]
    BY DEF CloudProvider
  <2> QED BY <2>1, <2>2 DEF ProviderOK, KeyAges
<1>4. ProviderOK(LocalProvider) /\ ProviderOK(StaticProvider)
  BY <1>2 DEF LocalProvider, StaticProvider
<1>5. \A s \in Servers : ProviderOK(provider[s])
  BY <1>1, <1>3, <1>4
<1> QED BY <1>1, <1>5 DEF KeyIInv

\* One server's provider moves; no key of it is dropped before its time
LEMMA ServerMoves ==
  ASSUME KeyIInv, NEW s \in Servers, NEW q, provider' = [provider EXCEPT ![s] = q], token' = token, ProviderOK(q),
         \A v \in Versions : \A old \in Nat : KeyKept(provider[s].keys[v], old) => KeyKept(q.keys[v], old)
  PROVE  KeyIInv'
<1>1. DOMAIN provider' = Servers /\ provider'[s] = q /\ \A t \in Servers : t # s => provider'[t] = provider[t]
  BY DEF KeyIInv
<1>2. \A t \in Servers : ProviderOK(provider'[t])
  BY <1>1 DEF KeyIInv
<1>3. ASSUME token # NoToken, NEW t \in Servers, t \notin token.strangers
      PROVE  KeyKept(provider'[t].keys[token.packet.keyId], token.age)
  <2>1. KeyKept(provider[t].keys[token.packet.keyId], token.age) /\ token.packet.keyId \in Versions /\ token.age \in Nat
    BY <1>3 DEF KeyIInv, TokenOK
  <2> QED BY <1>1, <2>1
<1>4. ASSUME token # NoToken PROVE TokenOK'
  BY <1>4 DEF KeyIInv, TokenOK
<1>5. token' # NoToken => \A t \in Servers : t \notin token'.strangers
         => KeyKept(provider'[t].keys[token'.packet.keyId], token'.age)
  BY <1>3
<1> QED BY <1>1, <1>2, <1>4, <1>5 DEF KeyIInv, ProviderOK, KeyKept

\* ... and a move that touches no key
LEMMA ServerMovesKeyless ==
  ASSUME KeyIInv, NEW s \in Servers, NEW q, provider' = [provider EXCEPT ![s] = q], token' = token,
         DOMAIN q = ProviderFields, q.keys = provider[s].keys, q.disposed => q.due = Off
  PROVE  KeyIInv'
<1>1. ProviderOK(q)
  BY DEF KeyIInv, ProviderOK
<1> QED BY <1>1, ServerMoves

LEMMA RefreshFields ==
  ASSUME NEW p, NEW polls, DOMAIN p = ProviderFields
  PROVE  /\ DOMAIN Refresh(p, polls) = ProviderFields /\ Refresh(p, polls).keys = p.keys
         /\ Refresh(p, polls).disposed = p.disposed /\ Refresh(p, polls).due = p.due
<1> DEFINE fetch == IF p.fetch = "idle" THEN "reading" ELSE p.fetch
           a == [p EXCEPT !.fetch = fetch]
           b == [a EXCEPT !.polls = p.polls \/ polls]
<1>1. DOMAIN a = ProviderFields /\ a.keys = p.keys /\ a.disposed = p.disposed /\ a.due = p.due /\ a.polls = p.polls
  BY DEF ProviderFields
<1>2. Refresh(p, polls) = [a EXCEPT !.polls = a.polls \/ polls]
  BY DEF Refresh
<1> HIDE DEF a
<1> DEFINE both == a.polls \/ polls
           c == [a EXCEPT !.polls = both]
<1> HIDE DEF both
<1>3. DOMAIN c = ProviderFields /\ c.keys = a.keys /\ c.disposed = a.disposed /\ c.due = a.due
  BY <1>1 DEF ProviderFields
<1>4. Refresh(p, polls) = c
  BY <1>2 DEF both
<1> QED BY <1>1, <1>3, <1>4

LEMMA ScheduleFields ==
  ASSUME NEW p, NEW delay, DOMAIN p = ProviderFields
  PROVE  /\ DOMAIN ScheduleNext(p, delay) = ProviderFields /\ ScheduleNext(p, delay).keys = p.keys
         /\ ScheduleNext(p, delay).disposed => ScheduleNext(p, delay).due = Off
<1> DEFINE due == IF p.disposed THEN Off ELSE delay
           q == [p EXCEPT !.due = due]
<1>1. ScheduleNext(p, delay) = q
  BY DEF ScheduleNext
<1>2. p.disposed => due = Off
  OBVIOUS
<1> HIDE DEF due
<1>3. DOMAIN q = ProviderFields /\ q.keys = p.keys /\ q.disposed = p.disposed /\ q.due = due
  BY DEF ProviderFields
<1> QED BY <1>1, <1>2, <1>3

LEMMA PollFiresKeeps ==
  ASSUME KeyIInv, NEW s \in Servers, PollFires(s)
  PROVE  KeyIInv'
<1> DEFINE p == [provider[s] EXCEPT !.due = Off]
<1>1. provider' = [provider EXCEPT ![s] = Refresh(p, TRUE)] /\ token' = token
  BY DEF PollFires
<1>2. DOMAIN p = ProviderFields /\ p.keys = provider[s].keys /\ p.due = Off
  BY DEF KeyIInv, ProviderOK, ProviderFields
<1> HIDE DEF p
<1>3. DOMAIN Refresh(p, TRUE) = ProviderFields /\ Refresh(p, TRUE).keys = provider[s].keys /\ Refresh(p, TRUE).due = Off
  BY <1>2, RefreshFields
<1> QED BY <1>1, <1>3, ServerMovesKeyless

\* A fetch joined or started, for a refresh asked for or a call on a cold cache
LEMMA RefreshKeeps ==
  ASSUME KeyIInv, NEW s \in Servers, NEW polls, provider' = [provider EXCEPT ![s] = Refresh(provider[s], polls)],
         token' = token
  PROVE  KeyIInv'
<1>1. DOMAIN provider[s] = ProviderFields /\ (provider[s].disposed => provider[s].due = Off)
  BY DEF KeyIInv, ProviderOK
<1>2. /\ DOMAIN Refresh(provider[s], polls) = ProviderFields /\ Refresh(provider[s], polls).keys = provider[s].keys
      /\ Refresh(provider[s], polls).disposed => Refresh(provider[s], polls).due = Off
  BY <1>1, RefreshFields
<1> QED BY <1>2, ServerMovesKeyless

LEMMA NothingMoves == KeyIInv /\ provider' = provider /\ token' = token => KeyIInv'
BY DEF KeyIInv, ProviderOK, TokenOK, KeyKept

LEMMA BeginKeeps ==
  ASSUME KeyIInv, NEW s \in Servers, NEW op, Begin(s, op)
  PROVE  KeyIInv'
<1>1. token' = token /\ (provider' = provider \/ provider' = [provider EXCEPT ![s] = Refresh(provider[s], FALSE)])
  BY DEF Begin
<1> QED BY <1>1, RefreshKeeps, NothingMoves

LEMMA VaultReadsKeeps ==
  ASSUME KeyIInv, NEW s \in Servers, VaultReads(s)
  PROVE  KeyIInv'
<1> DEFINE a == [provider[s] EXCEPT !.fetch = "read"]
           q == [a EXCEPT !.snapshot = vault]
<1>1. provider' = [provider EXCEPT ![s] = q] /\ token' = token
  BY DEF VaultReads, KeyIInv
<1>2. /\ DOMAIN a = ProviderFields /\ a.keys = provider[s].keys /\ a.disposed = provider[s].disposed
      /\ a.due = provider[s].due /\ (provider[s].disposed => provider[s].due = Off)
  BY DEF KeyIInv, ProviderOK, ProviderFields
<1> HIDE DEF a
<1>3. DOMAIN q = ProviderFields /\ q.keys = provider[s].keys /\ q.disposed = provider[s].disposed /\ q.due = provider[s].due
  BY <1>2 DEF ProviderFields
<1> HIDE DEF q
<1> QED BY <1>1, <1>2, <1>3, ServerMovesKeyless

LEMMA FetchFailsKeeps ==
  ASSUME KeyIInv, NEW s \in Servers, FetchFails(s)
  PROVE  KeyIInv'
<1> DEFINE a == [provider[s] EXCEPT !.fetch = "idle"]
           b == [a EXCEPT !.snapshot = {}]
           p == [b EXCEPT !.polls = FALSE]
           attempt == Min({p.failures + 1, MaxFailures})
           r == [p EXCEPT !.failures = attempt]
<1>1. token' = token /\ (\/ provider' = [provider EXCEPT ![s] = p]
                         \/ \E delay \in BackoffDelays(attempt) :
                              provider' = [provider EXCEPT ![s] = ScheduleNext(r, delay)])
  BY DEF FetchFails
<1>2. /\ DOMAIN a = ProviderFields /\ a.keys = provider[s].keys /\ a.disposed = provider[s].disposed
      /\ a.due = provider[s].due /\ (provider[s].disposed => provider[s].due = Off)
  BY DEF KeyIInv, ProviderOK, ProviderFields
<1> HIDE DEF a
<1>3. DOMAIN b = ProviderFields /\ b.keys = provider[s].keys /\ b.disposed = provider[s].disposed /\ b.due = provider[s].due
  BY <1>2 DEF ProviderFields
<1> HIDE DEF b
<1>4. DOMAIN p = ProviderFields /\ p.keys = provider[s].keys /\ p.disposed = provider[s].disposed /\ p.due = provider[s].due
  BY <1>3 DEF ProviderFields
<1> HIDE DEF p, attempt
<1>5. DOMAIN r = ProviderFields /\ r.keys = provider[s].keys
  BY <1>4 DEF ProviderFields
<1> HIDE DEF r
<1>6. CASE provider' = [provider EXCEPT ![s] = p]
  BY <1>1, <1>2, <1>4, <1>6, ServerMovesKeyless
<1>7. ASSUME NEW delay, provider' = [provider EXCEPT ![s] = ScheduleNext(r, delay)] PROVE KeyIInv'
  <2>1. /\ DOMAIN ScheduleNext(r, delay) = ProviderFields /\ ScheduleNext(r, delay).keys = provider[s].keys
        /\ ScheduleNext(r, delay).disposed => ScheduleNext(r, delay).due = Off
    BY <1>5, ScheduleFields
  <2> QED BY <1>1, <1>7, <2>1, ServerMovesKeyless
<1> QED BY <1>1, <1>6, <1>7

LEMMA DisposeKeeps ==
  ASSUME KeyIInv, NEW s \in Servers, Dispose(s)
  PROVE  KeyIInv'
<1> DEFINE a == [provider[s] EXCEPT !.disposed = TRUE]
           q == [a EXCEPT !.due = Off]
<1>1. provider' = [provider EXCEPT ![s] = q] /\ token' = token
  BY DEF Dispose, KeyIInv
<1>2. DOMAIN a = ProviderFields /\ a.keys = provider[s].keys
  BY DEF KeyIInv, ProviderOK, ProviderFields
<1> HIDE DEF a
<1>3. DOMAIN q = ProviderFields /\ q.keys = provider[s].keys /\ q.due = Off
  BY <1>2 DEF ProviderFields
<1> HIDE DEF q
<1> QED BY <1>1, <1>3, ServerMovesKeyless

LEMMA OverlapNatural == OverlapWindow \in Nat /\ MaxAge \in Nat /\ MaxAge > OverlapWindow
BY KeysAssumption

\* A key that vanished is carried over through the overlap window
LEMMA CarriedOverKept ==
  ASSUME NEW age \in KeyAges, NEW old \in Nat, KeyKept(age, old)
  PROVE  CarriedOver(age) \in KeyAges /\ KeyKept(CarriedOver(age), old)
<1>1. CASE old > OverlapWindow
  BY <1>1 DEF CarriedOver, KeyAges, KeyKept, InVault, NotCached
<1>2. CASE age = InVault
  <2>1. CarriedOver(age) = 0
    BY <1>2, OverlapNatural DEF CarriedOver, InVault, NotCached
  <2> QED BY <2>1 DEF KeyAges, KeyKept
<1>3. CASE age >= 0 /\ age <= old /\ ~(old > OverlapWindow)
  <2>1. age \in Nat /\ age <= OverlapWindow /\ age # InVault /\ age # NotCached
    BY <1>3, OverlapNatural DEF KeyAges, InVault, NotCached
  <2>2. CarriedOver(age) = age
    BY <2>1 DEF CarriedOver
  <2> QED BY <2>2
<1> QED BY <1>1, <1>2, <1>3 DEF KeyKept

LEMMA RefreshedFields ==
  ASSUME NEW p, ProviderOK(p)
  PROVE  /\ DOMAIN Refreshed(p) = ProviderFields /\ Refreshed(p).disposed = p.disposed /\ Refreshed(p).due = p.due
         /\ Refreshed(p).keys \in [Versions -> KeyAges]
         /\ \A v \in Versions : \A old \in Nat : KeyKept(p.keys[v], old) => KeyKept(Refreshed(p).keys[v], old)
<1> DEFINE keys == [v \in Versions |-> IF v \in p.snapshot THEN InVault ELSE CarriedOver(p.keys[v])]
           a == [p EXCEPT !.keys = keys]
           b == [a EXCEPT !.primary = Max(p.snapshot)]
           c == [b EXCEPT !.fetch = "idle"]
           d == [c EXCEPT !.snapshot = {}]
           e == [d EXCEPT !.polls = FALSE]
<1>1. Refreshed(p) = e
  BY DEF Refreshed
<1>2. \A v \in Versions : p.keys[v] \in KeyAges
  BY DEF ProviderOK
<1>3. \A v \in Versions : CarriedOver(p.keys[v]) \in KeyAges
  <2>1. \A age \in KeyAges : CarriedOver(age) \in KeyAges
    BY DEF CarriedOver, KeyAges, InVault, NotCached
  <2> QED BY <1>2, <2>1
<1>4. keys \in [Versions -> KeyAges]
  BY <1>3 DEF KeyAges
<1>5. \A v \in Versions : \A old \in Nat : KeyKept(p.keys[v], old) => KeyKept(keys[v], old)
  <2>1. \A old \in Nat : KeyKept(InVault, old)
    BY DEF KeyKept
  <2> QED BY <1>2, <2>1, CarriedOverKept
<1> HIDE DEF keys
<1>6. DOMAIN a = ProviderFields /\ a.keys = keys /\ a.disposed = p.disposed /\ a.due = p.due
  BY DEF ProviderOK, ProviderFields
<1> HIDE DEF a
<1>7. DOMAIN b = ProviderFields /\ b.keys = keys /\ b.disposed = p.disposed /\ b.due = p.due
  BY <1>6 DEF ProviderFields
<1> HIDE DEF b
<1>8. DOMAIN c = ProviderFields /\ c.keys = keys /\ c.disposed = p.disposed /\ c.due = p.due
  BY <1>7 DEF ProviderFields
<1> HIDE DEF c
<1>9. DOMAIN d = ProviderFields /\ d.keys = keys /\ d.disposed = p.disposed /\ d.due = p.due
  BY <1>8 DEF ProviderFields
<1> HIDE DEF d
<1>10. DOMAIN e = ProviderFields /\ e.keys = keys /\ e.disposed = p.disposed /\ e.due = p.due
  BY <1>9 DEF ProviderFields
<1> HIDE DEF e
<1> QED BY <1>1, <1>4, <1>5, <1>10

LEMMA FetchResolvesKeeps ==
  ASSUME KeyIInv, NEW s \in Servers, FetchResolves(s)
  PROVE  KeyIInv'
<1> DEFINE p == provider[s]
           fresh == Refreshed(p)
           r == [fresh EXCEPT !.failures = 0]
           q == IF p.polls THEN ScheduleNext(r, PollInterval) ELSE fresh
<1>1. provider' = [provider EXCEPT ![s] = q] /\ token' = token
  BY DEF FetchResolves
<1>2. ProviderOK(p)
  BY DEF KeyIInv
<1>3. /\ DOMAIN fresh = ProviderFields /\ fresh.disposed = p.disposed /\ fresh.due = p.due
      /\ fresh.keys \in [Versions -> KeyAges]
      /\ \A v \in Versions : \A old \in Nat : KeyKept(p.keys[v], old) => KeyKept(fresh.keys[v], old)
  BY <1>2, RefreshedFields
<1> HIDE DEF fresh
<1>4. DOMAIN r = ProviderFields /\ r.keys = fresh.keys
  BY <1>3 DEF ProviderFields
<1> HIDE DEF r
<1>5. /\ DOMAIN ScheduleNext(r, PollInterval) = ProviderFields /\ ScheduleNext(r, PollInterval).keys = fresh.keys
      /\ ScheduleNext(r, PollInterval).disposed => ScheduleNext(r, PollInterval).due = Off
  BY <1>4, ScheduleFields
<1>6. DOMAIN q = ProviderFields /\ q.keys = fresh.keys /\ (q.disposed => q.due = Off)
  BY <1>2, <1>3, <1>5 DEF ProviderOK
<1> HIDE DEF q
<1>7. ProviderOK(q)
  BY <1>3, <1>6 DEF ProviderOK
<1>8. \A v \in Versions : \A old \in Nat : KeyKept(provider[s].keys[v], old) => KeyKept(q.keys[v], old)
  BY <1>3, <1>6
<1> QED BY <1>1, <1>7, <1>8, ServerMoves

LEMMA SignKeeps ==
  ASSUME KeyIInv, NEW s \in Servers, Sign(s)
  PROVE  KeyIInv'
<1> DEFINE k == provider[s].primary
           packet == SignPacket(Engine[s], k, DeriveKeyMaterial(Secret[k], k))
           strangers == {t \in Servers : provider[t].keys[k] # InVault}
<1>1. provider' = provider
  BY DEF Sign
<1>2. CASE ~Live(provider[s], k)
  BY <1>1, <1>2, NothingMoves DEF Sign
<1>3. CASE Live(provider[s], k)
  <2>1. token' = [age |-> 0, signer |-> s, strangers |-> strangers, packet |-> packet]
    BY <1>3 DEF Sign
  <2>2. k \in Versions
    BY <1>3 DEF Live
  <2>3. packet.keyId = k
    BY DEF SignPacket
  <2>4. DOMAIN token' = {"age", "signer", "strangers", "packet"} /\ token'.age = 0 /\ token'.signer = s
        /\ token'.strangers = strangers /\ token'.packet = packet
    BY <2>1
  <2>5. \A t \in Servers : t \notin strangers => provider[t].keys[k] = InVault
    OBVIOUS
  <2> HIDE DEF k, packet, strangers
  <2>6. token'.packet.keyId = k
    BY <2>3, <2>4
  <2>7. token'.packet = SignPacket(Engine[token'.signer], token'.packet.keyId,
                            DeriveKeyMaterial(Secret[token'.packet.keyId], token'.packet.keyId))
    BY <2>4, <2>6 DEF packet
  <2>8. TokenOK'
    BY <2>2, <2>4, <2>6, <2>7 DEF TokenOK
  <2>9. \A t \in Servers : t \notin token'.strangers => KeyKept(provider'[t].keys[token'.packet.keyId], token'.age)
    BY <1>1, <2>4, <2>5, <2>6 DEF KeyKept
  <2> QED BY <1>1, <2>8, <2>9 DEF KeyIInv, ProviderOK, KeyKept
<1> QED BY <1>2, <1>3

LEMMA AgedKept ==
  ASSUME NEW age \in KeyAges
  PROVE  /\ Aged(age) \in KeyAges
         /\ \A old \in Nat : KeyKept(age, old) => KeyKept(Aged(age), Min({old + 1, MaxAge}))
<1>1. CASE age < 0
  <2>1. Aged(age) = age
    BY <1>1 DEF Aged
  <2>2. ASSUME NEW old \in Nat, KeyKept(age, old) PROVE KeyKept(age, Min({old + 1, MaxAge}))
    <3>1. Min({old + 1, MaxAge}) = IF old + 1 <= MaxAge THEN old + 1 ELSE MaxAge
      BY OverlapNatural, LesserOfTwo
    <3>2. old > OverlapWindow => Min({old + 1, MaxAge}) > OverlapWindow
      BY <3>1, OverlapNatural
    <3> QED BY <1>1, <2>2, <3>2 DEF KeyKept, KeyAges, InVault, NotCached
  <2> QED BY <2>1, <2>2
<1>2. CASE ~(age < 0)
  <2>1. age \in Nat
    BY <1>2 DEF KeyAges, InVault, NotCached
  <2>2. Aged(age) = IF age + 1 <= OverlapWindow + 1 THEN age + 1 ELSE OverlapWindow + 1
    <3>1. age + 1 \in Int /\ OverlapWindow + 1 \in Int
      BY <2>1, OverlapNatural
    <3>2. Aged(age) = Min({age + 1, OverlapWindow + 1})
      BY <1>2 DEF Aged
    <3> QED BY <3>1, <3>2, LesserOfTwo
  <2>3. Aged(age) \in Nat /\ Aged(age) <= age + 1
    BY <2>1, <2>2, OverlapNatural
  <2>4. ASSUME NEW old \in Nat, KeyKept(age, old) PROVE KeyKept(Aged(age), Min({old + 1, MaxAge}))
    <3>1. Min({old + 1, MaxAge}) = IF old + 1 <= MaxAge THEN old + 1 ELSE MaxAge
      BY OverlapNatural, LesserOfTwo
    <3>2. old > OverlapWindow \/ age <= old
      BY <2>1, <2>4 DEF KeyKept, InVault
    <3>3. \/ Min({old + 1, MaxAge}) > OverlapWindow
          \/ Aged(age) <= Min({old + 1, MaxAge})
      BY <2>1, <2>3, <3>1, <3>2, OverlapNatural
    <3> QED BY <2>3, <3>3 DEF KeyKept
  <2> QED BY <2>3, <2>4 DEF KeyAges
<1> QED BY <1>1, <1>2

LEMMA TickKeeps ==
  ASSUME KeyIInv, Tick
  PROVE  KeyIInv'
<1> DEFINE due(s) == IF provider[s].due = Off THEN Off ELSE provider[s].due - 1
           keys(s) == [v \in Versions |-> Aged(provider[s].keys[v])]
           due1(s) == [provider[s] EXCEPT !.due = due(s)]
           moved(s) == [due1(s) EXCEPT !.keys = keys(s)]
<1>1. provider' = [s \in Servers |-> moved(s)]
  BY DEF Tick
<1>2. ASSUME NEW s \in Servers
      PROVE  ProviderOK(moved(s)) /\ moved(s).keys = keys(s)
  <2>1. ProviderOK(provider[s])
    BY DEF KeyIInv
  <2>2. provider[s].disposed => due(s) = Off
    BY <2>1 DEF ProviderOK
  <2>3. keys(s) \in [Versions -> KeyAges]
    <3>1. \A v \in Versions : Aged(provider[s].keys[v]) \in KeyAges
      BY <2>1, AgedKept DEF ProviderOK
    <3> QED BY <3>1
  <2> HIDE DEF due, keys
  <2>4. DOMAIN due1(s) = ProviderFields /\ due1(s).disposed = provider[s].disposed /\ due1(s).due = due(s)
    BY <2>1 DEF ProviderOK, ProviderFields
  <2> HIDE DEF due1
  <2>5. DOMAIN moved(s) = ProviderFields /\ moved(s).disposed = provider[s].disposed /\ moved(s).due = due(s)
        /\ moved(s).keys = keys(s)
    BY <2>4 DEF ProviderFields
  <2> QED BY <2>2, <2>3, <2>5 DEF ProviderOK
<1> HIDE DEF moved
<1>3. \A s \in Servers : ProviderOK(provider'[s]) /\ provider'[s].keys = keys(s)
  BY <1>1, <1>2
<1>4. DOMAIN provider' = Servers
  BY <1>1
<1>5. CASE token = NoToken
  <2>1. token' = token
    BY <1>5 DEF Tick
  <2> QED BY <1>3, <1>4, <1>5, <2>1 DEF KeyIInv, ProviderOK
<1>6. CASE token # NoToken
  <2> DEFINE age == Min({token.age + 1, MaxAge})
  <2>1. token' = [token EXCEPT !.age = age]
    BY <1>6 DEF Tick
  <2>2. TokenOK
    BY <1>6 DEF KeyIInv
  <2>3. token.age \in Nat /\ age \in Nat
    <3>1. token.age \in Nat
      BY <2>2 DEF TokenOK
    <3>2. age = IF token.age + 1 <= MaxAge THEN token.age + 1 ELSE MaxAge
      BY <3>1, OverlapNatural, LesserOfTwo
    <3> QED BY <3>1, <3>2, OverlapNatural
  <2>4. ASSUME NEW s \in Servers, s \notin token.strangers PROVE KeyKept(keys(s)[token.packet.keyId], age)
    <3>1. KeyKept(provider[s].keys[token.packet.keyId], token.age)
      BY <1>6, <2>4 DEF KeyIInv
    <3>2. token.packet.keyId \in Versions /\ provider[s].keys[token.packet.keyId] \in KeyAges
      BY <2>2 DEF KeyIInv, ProviderOK, TokenOK
    <3>3. keys(s)[token.packet.keyId] = Aged(provider[s].keys[token.packet.keyId])
      BY <3>2
    <3> QED BY <2>3, <3>1, <3>2, <3>3, AgedKept
  <2> HIDE DEF age, keys
  <2>5. DOMAIN token' = DOMAIN token /\ token'.age = age /\ token'.signer = token.signer
        /\ token'.strangers = token.strangers /\ token'.packet = token.packet
    BY <2>1, <2>2 DEF TokenOK
  <2>6. TokenOK'
    BY <2>2, <2>3, <2>5 DEF TokenOK
  <2>7. \A s \in Servers : s \notin token'.strangers => KeyKept(provider'[s].keys[token'.packet.keyId], token'.age)
    BY <1>3, <2>4, <2>5
  <2> QED BY <1>3, <1>4, <2>6, <2>7 DEF KeyIInv, ProviderOK, KeyKept
<1> QED BY <1>5, <1>6

LEMMA KeyIInvStep == KeyIInv /\ [KeyNext]_keyVars => KeyIInv'
<1> SUFFICES ASSUME KeyIInv, [KeyNext]_keyVars PROVE KeyIInv'
  OBVIOUS
<1>1. CASE UNCHANGED keyVars
  BY <1>1, NothingMoves DEF keyVars
<1>2. CASE VaultChanges
  BY <1>2, NothingMoves DEF VaultChanges
<1>3. CASE Tick
  BY <1>3, TickKeeps
<1>4. ASSUME NEW s \in Servers, PollFires(s) \/ RefreshNow(s) \/ VaultReads(s) \/ FetchResolves(s) \/ FetchFails(s)
             \/ Dispose(s)
      PROVE  KeyIInv'
  <2>1. CASE RefreshNow(s)
    BY <2>1, RefreshKeeps DEF RefreshNow
  <2> QED BY <1>4, <2>1, PollFiresKeeps, VaultReadsKeeps, FetchResolvesKeeps, FetchFailsKeeps, DisposeKeeps
<1>5. ASSUME NEW s \in Servers, SignCall(s) \/ Sign(s) \/ VerifyCall(s)
      PROVE  KeyIInv'
  BY <1>5, BeginKeeps, SignKeeps DEF SignCall, VerifyCall
<1>6. ASSUME NEW s \in Servers, RateLimited(s) \/ VerifyOpens(s) \/ RevocationAnswers(s) \/ RevocationRejects(s)
      PROVE  KeyIInv'
  <2>1. provider' = provider /\ token' = token
    BY <1>6 DEF RateLimited, VerifyOpens, RevocationAnswers, RevocationRejects
  <2> QED BY <2>1, NothingMoves
<1> QED BY <1>1, <1>2, <1>3, <1>4, <1>5, <1>6 DEF KeyNext

\* For every fleet and every order of polls, refreshes and failures: once
\* disposed, a provider schedules nothing more (cloud-provider.ts:203-221).
THEOREM NoPollAfterDisposeHolds == KeySpec => []NoPollAfterDispose
<1>1. KeyIInv => NoPollAfterDispose
  BY DEF KeyIInv, ProviderOK, NoPollAfterDispose
<1> QED BY <1>1, KeyInitHolds, KeyIInvStep, PTL DEF KeySpec

\* For every fleet, vault and clock: where no token lives longer than the overlap
\* window, none is refused for its key before it expires by a server that held
\* the key when it was signed (cloud-provider.ts:160-180, 225-235).
THEOREM TokenOutlivesRotationHolds ==
  ASSUME \A s \in Servers : Engine[s].expiresIn <= OverlapWindow + 1
  PROVE  KeySpec => []TokenOutlivesRotation
<1>1. KeyIInv => TokenOutlivesRotation
  <2> SUFFICES ASSUME KeyIInv, NEW s \in Servers, token # NoToken, token.age < Engine[token.signer].expiresIn,
                      s \notin token.strangers
               PROVE  Checked(s, token.packet) # "unknown_key"
    BY DEF TokenOutlivesRotation
  <2> DEFINE k == token.packet.keyId
             known == Live(provider[s], k)
             wireKey == IF k \in Versions THEN DeriveKeyMaterial(Secret[k], k) ELSE <<>>
  <2>1. TokenOK /\ KeyKept(provider[s].keys[k], token.age)
    BY DEF KeyIInv
  <2>2. k \in Versions /\ provider[s].keys[k] \in KeyAges
    BY <2>1 DEF TokenOK, KeyIInv, ProviderOK
  <2>3. token.age <= OverlapWindow
    <3>1. token.age \in Nat /\ token.signer \in Servers
      BY <2>1 DEF TokenOK
    <3>2. Engine[token.signer].expiresIn \in Nat
      BY <3>1, KeysAssumption DEF Engines
    <3>3. Engine[token.signer].expiresIn <= OverlapWindow + 1
      BY <3>1
    <3> QED BY <3>1, <3>2, <3>3, OverlapNatural
  <2>4. provider[s].keys[k] = InVault \/ (provider[s].keys[k] >= 0 /\ provider[s].keys[k] <= token.age)
    <3>1. token.age \in Nat
      BY <2>1 DEF TokenOK
    <3> QED BY <2>1, <2>3, <3>1, OverlapNatural DEF KeyKept
  <2>5. provider[s].keys[k] # NotCached /\ provider[s].keys[k] <= OverlapWindow
    <3>1. token.age \in Nat
      BY <2>1 DEF TokenOK
    <3> QED BY <2>2, <2>3, <2>4, <3>1, OverlapNatural DEF KeyAges, InVault, NotCached
  <2>6. known
    BY <2>2, <2>5 DEF Live
  <2>7. known \in BOOLEAN
    BY DEF Live
  <2>8. Checked(s, token.packet) = VerifyPacket(Engine[s], token.packet, known, wireKey, Now(s))
    BY DEF Checked
  <2> HIDE DEF k, known, wireKey
  <2> DEFINE claim == ClaimError(Engine[s], token.packet.claims, Now(s))
  <2>9. claim # "unknown_key"
    BY ClaimCases
  <2> QED BY <2>6, <2>7, <2>8, <2>9, VerifyCases
<1> QED BY <1>1, KeyInitHolds, KeyIInvStep, PTL DEF KeySpec

\* What no alteration touches, and what one of the version byte leaves alone
LEMMA AlteredLeaves ==
  ASSUME NEW engine, NEW k, NEW wireKey, NEW a \in Alterations, NEW packet, packet = SignPacket(engine, k, wireKey)
  PROVE  /\ Altered(packet, a).claims = Claims(engine)
         /\ a = "version" => /\ Altered(packet, a).keyId = k /\ Altered(packet, a).bytes = 66
                             /\ Altered(packet, a).intact /\ Altered(packet, a).sealedWith = wireKey
                             /\ Altered(packet, a).version = 3
<1>1. DOMAIN packet = {"bytes", "version", "keyId", "sealedWith", "intact", "claims"}
  BY DEF SignPacket
<1>2. packet.bytes = 66 /\ packet.version = 2 /\ packet.keyId = k /\ packet.sealedWith = wireKey
      /\ packet.intact = TRUE /\ packet.claims = Claims(engine)
  BY DEF SignPacket, HEADER_LENGTH, TOKEN_VERSION
<1>3. a \in {"none", "version", "key id", "bits", "cut"}
  BY KeysAssumption
<1>4. CASE a = "none"
  BY <1>2, <1>4 DEF Altered
<1>5. CASE a = "version"
  <2>1. Altered(packet, a) = [packet EXCEPT !.version = packet.version + 1]
    BY <1>5 DEF Altered
  <2>2. packet.version + 1 = 3
    BY <1>2
  <2>3. Altered(packet, a) = [packet EXCEPT !.version = 3]
    BY <2>1, <2>2
  <2>4. /\ Altered(packet, a).claims = Claims(engine) /\ Altered(packet, a).keyId = k
        /\ Altered(packet, a).bytes = 66 /\ Altered(packet, a).intact
        /\ Altered(packet, a).sealedWith = wireKey /\ Altered(packet, a).version = 3
    BY <1>1, <1>2, <2>3
  <2> QED BY <2>4
<1>6. CASE a = "key id"
  <2>1. Altered(packet, a) = [packet EXCEPT !.keyId = packet.keyId + 1]
    BY <1>6 DEF Altered
  <2>2. Altered(packet, a).claims = Claims(engine)
    BY <1>1, <1>2, <2>1
  <2> QED BY <1>6, <2>2
<1>7. CASE a = "bits"
  <2>1. Altered(packet, a) = [packet EXCEPT !.intact = FALSE]
    BY <1>7 DEF Altered
  <2>2. Altered(packet, a).claims = Claims(engine)
    BY <1>1, <1>2, <2>1
  <2> QED BY <1>7, <2>2
<1>8. CASE a = "cut"
  <2>1. Altered(packet, a) = [packet EXCEPT !.bytes = HEADER_LENGTH - 1]
    BY <1>8 DEF Altered
  <2>2. Altered(packet, a).claims = Claims(engine)
    BY <1>1, <1>2, <2>1
  <2> QED BY <1>8, <2>2
<1> QED BY <1>3, <1>4, <1>5, <1>6, <1>7, <1>8

\* The Boolean fields of the inspector's report
LEMMA ReportFields ==
  ASSUME NEW packet, NEW claims, NEW now
  PROVE  /\ InspectTokenHeader(packet).versionAccepted <=> packet.version \in ACCEPTED_VERSIONS
         /\ Temporal(claims, now).expired <=> (claims.exp # NoClaim /\ now >= claims.exp)
         /\ Temporal(claims, now).notYetValid <=> (claims.nbf # NoClaim /\ now < claims.nbf)
<1> DEFINE accepted == packet.version \in ACCEPTED_VERSIONS
           expired == claims.exp # NoClaim /\ now >= claims.exp
           early == claims.nbf # NoClaim /\ now < claims.nbf
<1>1. InspectTokenHeader(packet) = [keyId |-> packet.keyId, versionAccepted |-> accepted]
  BY DEF InspectTokenHeader
<1>2. Temporal(claims, now) = [expired |-> expired, notYetValid |-> early]
  BY DEF Temporal
<1> HIDE DEF accepted, expired, early
<1>3. InspectTokenHeader(packet).versionAccepted <=> accepted
  BY <1>1
<1>4. Temporal(claims, now).expired <=> expired
  BY <1>2
<1>5. Temporal(claims, now).notYetValid <=> early
  BY <1>2
<1> QED BY <1>3, <1>4, <1>5 DEF accepted, expired, early

LEMMA DecodeOpened ==
  ASSUME NEW packet, NEW secret, NEW now, ~(packet.bytes < HEADER_LENGTH), secret # "",
         Opens(packet, DeriveKeyMaterial(secret, packet.keyId))
  PROVE  /\ DecodeToken(packet, secret, now).decoded = TRUE
         /\ DecodeToken(packet, secret, now).header = InspectTokenHeader(packet)
         /\ DecodeToken(packet, secret, now).temporal = Temporal(packet.claims, now)
BY DEF DecodeToken

\* For every engine, clock and alteration: what verify() decides of a packet is
\* explained by what the inspector reports (binary-token-engine.ts, inspect.ts).
THEOREM InspectorExplainsHolds == KeySpec => []InspectorExplains
<1>1. KeyIInv => InspectorExplains
  <2> SUFFICES ASSUME KeyIInv, NEW s \in Servers, NEW a \in Alterations, token # NoToken
               PROVE  LET packet == Altered(token.packet, a)
                          error == Checked(s, packet)
                          report == DecodeToken(packet, Secret[packet.keyId], Now(s))
                      IN  /\ error = "ok" =>
                               /\ report.decoded /\ report.header.versionAccepted
                               /\ report.temporal.expired \/ report.temporal.notYetValid
                                  => Engine[s].tolerance > 0
                          /\ error = "token_expired" => report.decoded /\ report.temporal.expired
                          /\ error = "token_not_yet_valid" => report.decoded /\ report.temporal.notYetValid
                          /\ a = "version" => report.decoded /\ ~report.header.versionAccepted
    BY DEF InspectorExplains
  <2> DEFINE signed == token.packet.keyId
             sealed == DeriveKeyMaterial(Secret[signed], signed)
             packet == Altered(token.packet, a)
             k == packet.keyId
             known == Live(provider[s], k)
             wireKey == IF k \in Versions THEN DeriveKeyMaterial(Secret[k], k) ELSE <<>>
             now == Now(s)
             claims == packet.claims
             error == Checked(s, packet)
             report == DecodeToken(packet, Secret[k], now)
             tolerance == Engine[s].tolerance
  <2>1. TokenOK
    BY DEF KeyIInv
  <2>2. token.packet = SignPacket(Engine[token.signer], signed, sealed) /\ signed \in Versions /\ token.signer \in Servers
    BY <2>1 DEF TokenOK
  <2>3. /\ claims = Claims(Engine[token.signer])
        /\ a = "version" => /\ k = signed /\ packet.bytes = 66 /\ packet.intact
                            /\ packet.sealedWith = sealed /\ packet.version = 3
    <3>1. PICK p : p = token.packet
      OBVIOUS
    <3>2. p = SignPacket(Engine[token.signer], signed, sealed)
      BY <2>2, <3>1
    <3>3. /\ Altered(p, a).claims = Claims(Engine[token.signer])
          /\ a = "version" => /\ Altered(p, a).keyId = signed /\ Altered(p, a).bytes = 66
                              /\ Altered(p, a).intact /\ Altered(p, a).sealedWith = sealed
                              /\ Altered(p, a).version = 3
      <4>1. \A engine, id, key : p = SignPacket(engine, id, key) =>
               /\ Altered(p, a).claims = Claims(engine)
               /\ a = "version" => /\ Altered(p, a).keyId = id /\ Altered(p, a).bytes = 66
                                   /\ Altered(p, a).intact /\ Altered(p, a).sealedWith = key
                                   /\ Altered(p, a).version = 3
        BY AlteredLeaves
      <4> HIDE DEF signed, sealed
      <4> QED BY <3>2, <4>1
    <3> QED BY <3>1, <3>3
  <2>4. /\ claims.exp \in Int /\ claims.exp # NoClaim /\ claims.nbf \in Int /\ tolerance \in Nat /\ now \in Int
    <3>1. Engine[token.signer] \in Engines /\ Engine[s] \in Engines /\ Skew[s] \in Int /\ Skew[token.signer] \in Int
      BY <2>2, KeysAssumption
    <3>2. Engine[token.signer].expiresIn \in Nat \ {0} /\ Engine[token.signer].notBefore \in Nat /\ tolerance \in Nat
      BY <3>1 DEF Engines
    <3>3. claims.exp = Engine[token.signer].expiresIn
          /\ claims.nbf = IF Engine[token.signer].notBefore > 0 THEN Engine[token.signer].notBefore ELSE NoClaim
      BY <2>3 DEF Claims
    <3>4. token.age \in Nat
      BY <2>1 DEF TokenOK
    <3> HIDE DEF claims, tolerance
    <3>5. claims.exp \in Int /\ claims.exp # NoClaim /\ claims.nbf \in Int
      BY <3>2, <3>3 DEF NoClaim
    <3>6. now \in Int
      BY <3>1, <3>4 DEF Now
    <3> QED BY <3>2, <3>5, <3>6
  <2>5. error = VerifyPacket(Engine[s], packet, known, wireKey, now)
    BY DEF Checked
  <2>6. known \in BOOLEAN /\ (known => k \in Versions)
    BY DEF Live
  <2>7. /\ Temporal(claims, now).expired <=> now >= claims.exp
        /\ Temporal(claims, now).notYetValid <=> (claims.nbf # NoClaim /\ now < claims.nbf)
    BY <2>4, ReportFields
  <2>8. CASE error \in {"ok", "token_expired", "token_not_yet_valid"}
    <3>1. /\ EnvelopeError(Engine[s], packet) = "ok" /\ known /\ Opens(packet, wireKey)
          /\ error = ClaimError(Engine[s], claims, now)
      <4> HIDE DEF packet, known, wireKey, now, error
      <4> QED BY <2>5, <2>6, <2>8, VerifyCases
    <3>2. k \in Versions /\ Secret[k] # "" /\ wireKey = DeriveKeyMaterial(Secret[k], k)
      BY <2>6, <3>1, KeysAssumption
    <3>3. ~(packet.bytes < HEADER_LENGTH) /\ packet.version \in ACCEPTED_VERSIONS
      BY <3>1, EnvelopePasses
    <3>4. report.decoded = TRUE /\ report.header = InspectTokenHeader(packet) /\ report.temporal = Temporal(claims, now)
      <4>1. Opens(packet, DeriveKeyMaterial(Secret[packet.keyId], packet.keyId))
        BY <3>1, <3>2
      <4>2. Secret[packet.keyId] # "" /\ ~(packet.bytes < HEADER_LENGTH)
        BY <3>2, <3>3
      <4> HIDE DEF packet, now
      <4> QED BY <4>1, <4>2, DecodeOpened
    <3>5. report.header.versionAccepted
      BY <3>3, <3>4, ReportFields
    <3>6. \/ error = "token_expired" /\ now >= claims.exp + tolerance
          \/ error = "token_not_yet_valid" /\ claims.nbf # NoClaim /\ now + tolerance < claims.nbf
          \/ /\ error = "ok"
             /\ ~(now >= claims.exp + tolerance) /\ ~(claims.nbf # NoClaim /\ now + tolerance < claims.nbf)
      <4> HIDE DEF error, claims, now
      <4> QED BY <2>8, <3>1, ClaimCases
    <3>7. a # "version"
      <4>1. ~(3 \in ACCEPTED_VERSIONS)
        BY DEF ACCEPTED_VERSIONS, TOKEN_VERSION
      <4> QED BY <2>3, <3>3, <4>1
    <3> HIDE DEF packet, k, known, wireKey, now, claims, error, report, tolerance
    <3>8. /\ error = "token_expired" => report.temporal.expired
          /\ error = "token_not_yet_valid" => report.temporal.notYetValid
          /\ error = "ok" /\ (report.temporal.expired \/ report.temporal.notYetValid) => tolerance > 0
      BY <2>4, <2>7, <3>4, <3>6
    <3> QED BY <3>4, <3>5, <3>7, <3>8 DEF report, error, packet, now, k, tolerance
  <2>9. CASE error \notin {"ok", "token_expired", "token_not_yet_valid"}
    <3>1. ASSUME a = "version" PROVE report.decoded /\ ~report.header.versionAccepted
      <4>1. Opens(packet, DeriveKeyMaterial(Secret[k], k)) /\ ~(packet.bytes < HEADER_LENGTH)
        BY <2>3, <3>1 DEF Opens, HEADER_LENGTH
      <4>2. Secret[k] # ""
        BY <2>2, <2>3, <3>1, KeysAssumption
      <4>3. report.decoded = TRUE /\ report.header = InspectTokenHeader(packet)
        BY <4>1, <4>2, DecodeOpened
      <4>4. ~report.header.versionAccepted
        <5>1. packet.version \notin ACCEPTED_VERSIONS
          BY <2>3, <3>1 DEF ACCEPTED_VERSIONS, TOKEN_VERSION
        <5> QED BY <4>3, <5>1, ReportFields
      <4> QED BY <4>3, <4>4
    <3> QED BY <2>9, <3>1
  <2> QED BY <2>8, <2>9
<1> QED BY <1>1, KeyInitHolds, KeyIInvStep, PTL DEF KeySpec

-------------------------------------------------------------------------------
(***************************************************************************)
(* The key providers: polling goes on, and a warm cache signs.             *)
(***************************************************************************)

\* A poll follows the last one by the interval, or by a backoff.
LongestPause == IF PollInterval > BackoffMax THEN PollInterval ELSE BackoffMax

\* A cloud provider that was not disposed has its timer armed, no further ahead
\* than the longest pause, or has a poll under way, which arms it when it ends.
PollingGoesOn ==
  \A s \in Servers : Polls(s) =>
    \/ provider[s].due \in 0 .. LongestPause
    \/ provider[s].polls /\ provider[s].fetch # "idle"

\* The primary of a set of cached keys is its newest, and still the vault's.
Newest(keys, primary) ==
  /\ primary \in Versions /\ keys[primary] = InVault
  /\ \A v \in Versions : keys[v] = InVault => v <= primary

\* A call waits for a cache only while a fetch is under way that will wake it,
\* and one that goes on finds a live key to sign with.
CallsFindKeys ==
  /\ call.phase = "loading" => provider[call.at].fetch # "idle"
  /\ call.phase = "ready" /\ provider[call.at].kind = "cloud" =>
       LET p == provider[call.at]
       IN  Newest(p.keys, p.primary) /\ Live(p, p.primary)

ProviderTypes(p) ==
  /\ DOMAIN p = ProviderFields
  /\ p.fetch \in {"idle", "reading", "read"} /\ p.polls \in BOOLEAN /\ p.disposed \in BOOLEAN
  /\ p.failures \in 0 .. MaxFailures /\ p.snapshot \in SUBSET Versions
  /\ p.due \in {Off} \cup 0 .. LongestPause

PollsOn(p) ==
  p.kind = "cloud" /\ p.disposed = FALSE => p.due # Off \/ (p.polls = TRUE /\ p.fetch # "idle")

HasKey(p) == \E v \in Versions : p.keys[v] # NotCached
WarmSigns(p) == p.kind = "cloud" /\ HasKey(p) => Newest(p.keys, p.primary)

CallWaits ==
  /\ {"at", "phase"} \subseteq DOMAIN call
  /\ call.phase \in {"loading", "ready"} => call.at \in Servers
  /\ call.phase = "loading" => provider[call.at].fetch # "idle"
  /\ call.phase = "ready" => HasKey(provider[call.at])

PollIInv ==
  /\ KeyIInv /\ vault \in SUBSET Versions /\ CallWaits
  /\ \A s \in Servers : ProviderTypes(provider[s]) /\ PollsOn(provider[s]) /\ WarmSigns(provider[s])

LEMMA PausesNatural ==
  /\ PollInterval \in Nat \ {0} /\ BackoffMax \in Nat \ {0} /\ BackoffInitial \in Nat \ {0}
  /\ MaxFailures \in Nat \ {0}
  /\ LongestPause \in Nat /\ PollInterval <= LongestPause /\ BackoffMax <= LongestPause
<1>1. /\ PollInterval \in Nat \ {0} /\ BackoffMax \in Nat \ {0} /\ BackoffInitial \in Nat \ {0}
      /\ MaxFailures \in Nat \ {0}
  BY KeysAssumption
<1> QED BY <1>1 DEF LongestPause

\* A power of two counts the subsets of a set.
LEMMA PowerNatural == ASSUME NEW n \in Nat PROVE 2 ^ n \in Nat
<1>1. IsFiniteSet(1 .. n) /\ Cardinality(1 .. n) = n
  BY FS_Interval
<1>2. Cardinality(SUBSET (1 .. n)) = 2 ^ Cardinality(1 .. n) /\ IsFiniteSet(SUBSET (1 .. n))
  BY <1>1, FS_SUBSET
<1>3. Cardinality(SUBSET (1 .. n)) \in Nat
  BY <1>2, FS_CardinalityType
<1> QED BY <1>1, <1>2, <1>3

\* backoffDelay() never asks for more than its maximum
LEMMA BackoffBounded ==
  ASSUME NEW attempt \in Nat \ {0}
  PROVE  BackoffDelays(attempt) \subseteq 0 .. LongestPause
<1> DEFINE power == 2 ^ (attempt - 1)
           doubled == BackoffInitial * power
           ceiling == Min({BackoffMax, doubled})
<1>1. power \in Nat
  <2>1. attempt - 1 \in Nat
    OBVIOUS
  <2> QED BY <2>1, PowerNatural
<1>2. BackoffDelays(attempt) = (ceiling \div 2) .. ceiling
  BY DEF BackoffDelays
<1> HIDE DEF power
<1>3. doubled \in Nat
  BY <1>1, PausesNatural
<1> HIDE DEF doubled
<1>4. ceiling = IF BackoffMax <= doubled THEN BackoffMax ELSE doubled
  BY <1>3, PausesNatural, LesserOfTwo
<1>5. ceiling \in Nat /\ ceiling <= LongestPause
  BY <1>3, <1>4, PausesNatural
<1> HIDE DEF ceiling
<1>6. ceiling \div 2 \in Nat
  BY <1>5
<1> QED BY <1>2, <1>5, <1>6, PausesNatural

\* What refresh() and scheduleNext() leave in each field
LEMMA RefreshIs ==
  ASSUME NEW p, NEW polls, DOMAIN p = ProviderFields
  PROVE  LET q == Refresh(p, polls) IN
         /\ DOMAIN q = ProviderFields /\ q.fetch = (IF p.fetch = "idle" THEN "reading" ELSE p.fetch)
         /\ q.polls = (p.polls \/ polls) /\ q.keys = p.keys /\ q.primary = p.primary /\ q.kind = p.kind
         /\ q.disposed = p.disposed /\ q.due = p.due /\ q.failures = p.failures /\ q.snapshot = p.snapshot
<1> DEFINE fetch == IF p.fetch = "idle" THEN "reading" ELSE p.fetch
           a == [p EXCEPT !.fetch = fetch]
           both == a.polls \/ polls
           c == [a EXCEPT !.polls = both]
<1>1. Refresh(p, polls) = c
  BY DEF Refresh
<1> HIDE DEF fetch
<1>2. /\ DOMAIN a = ProviderFields /\ a.fetch = fetch /\ a.polls = p.polls /\ a.keys = p.keys /\ a.primary = p.primary
      /\ a.kind = p.kind /\ a.disposed = p.disposed /\ a.due = p.due /\ a.failures = p.failures
      /\ a.snapshot = p.snapshot
  BY DEF ProviderFields
<1> HIDE DEF a, both
<1>3. /\ DOMAIN c = ProviderFields /\ c.fetch = a.fetch /\ c.polls = both /\ c.keys = a.keys /\ c.primary = a.primary
      /\ c.kind = a.kind /\ c.disposed = a.disposed /\ c.due = a.due /\ c.failures = a.failures
      /\ c.snapshot = a.snapshot
  BY <1>2 DEF ProviderFields
<1>4. both = (p.polls \/ polls)
  BY <1>2, Zenon DEF both
<1> HIDE DEF c
<1> QED BY <1>1, <1>2, <1>3, <1>4, Zenon DEF fetch

LEMMA ScheduleIs ==
  ASSUME NEW p, NEW delay, DOMAIN p = ProviderFields
  PROVE  LET q == ScheduleNext(p, delay) IN
         /\ DOMAIN q = ProviderFields /\ q.due = (IF p.disposed THEN Off ELSE delay)
         /\ q.fetch = p.fetch /\ q.polls = p.polls /\ q.keys = p.keys /\ q.primary = p.primary /\ q.kind = p.kind
         /\ q.disposed = p.disposed /\ q.failures = p.failures /\ q.snapshot = p.snapshot
<1> DEFINE due == IF p.disposed THEN Off ELSE delay
           q == [p EXCEPT !.due = due]
<1>1. ScheduleNext(p, delay) = q
  BY DEF ScheduleNext
<1> HIDE DEF due
<1>2. /\ DOMAIN q = ProviderFields /\ q.due = due
      /\ q.fetch = p.fetch /\ q.polls = p.polls /\ q.keys = p.keys /\ q.primary = p.primary /\ q.kind = p.kind
      /\ q.disposed = p.disposed /\ q.failures = p.failures /\ q.snapshot = p.snapshot
  BY DEF ProviderFields
<1> HIDE DEF q
<1> QED BY <1>1, <1>2, Zenon DEF due

\* A bounded set of numbers has a greatest one
LEMMA GreatestOf ==
  ASSUME NEW n \in Nat, NEW S, S \subseteq 0 .. n, S # {}
  PROVE  Max(S) \in S /\ \A v \in S : v <= Max(S)
<1> DEFINE T == {n - v : v \in S}
<1>1. S \subseteq Int /\ \A v \in S : n - v \in Nat
  OBVIOUS
<1>2. T \in SUBSET Nat /\ T # {}
  BY <1>1
<1>3. PICK x \in T : \A y \in T : x <= y
  BY <1>2, LeastNatural
<1> SUFFICES ASSUME NEW m \in S, x = n - m PROVE Max(S) \in S /\ \A v \in S : v <= Max(S)
  BY <1>3
<1>4. \A v \in S : n - m <= n - v
  BY <1>3
<1>5. \A v \in S : m >= v
  BY <1>1, <1>4
<1>6. Max(S) \in S /\ \A v \in S : Max(S) >= v
  BY <1>5 DEF Max
<1> QED BY <1>6

\* One server's provider moves
LEMMA PollServerMoves ==
  ASSUME PollIInv, KeyIInv', NEW s \in Servers, NEW q, provider' = [provider EXCEPT ![s] = q], vault' = vault,
         ProviderTypes(q), PollsOn(q), WarmSigns(q), CallWaits'
  PROVE  PollIInv'
<1>1. provider'[s] = q /\ \A t \in Servers : t # s => provider'[t] = provider[t]
  BY DEF PollIInv, KeyIInv
<1>2. \A t \in Servers : ProviderTypes(provider'[t]) /\ PollsOn(provider'[t]) /\ WarmSigns(provider'[t])
  BY <1>1 DEF PollIInv
<1>3. vault' \in SUBSET Versions
  BY DEF PollIInv
<1> QED BY <1>2, <1>3 DEF PollIInv, ProviderTypes, PollsOn, WarmSigns, HasKey, Newest

\* ... without a call that waits for it, or without taking its fetch or its keys
LEMMA CallUndisturbed ==
  ASSUME PollIInv, NEW s \in Servers, NEW q, provider' = [provider EXCEPT ![s] = q], call' = call,
         call.phase = "loading" /\ call.at = s => q.fetch # "idle", HasKey(provider[s]) => HasKey(q)
  PROVE  CallWaits'
<1>1. provider'[s] = q /\ \A t \in Servers : t # s => provider'[t] = provider[t]
  BY DEF PollIInv, KeyIInv
<1>2. CallWaits
  BY DEF PollIInv
<1>3. call.phase = "loading" => provider'[call.at].fetch # "idle"
  BY <1>1, <1>2 DEF CallWaits
<1>4. call.phase = "ready" => HasKey(provider'[call.at])
  BY <1>1, <1>2 DEF CallWaits
<1>5. HasKey(provider'[call.at]) <=> HasKey(provider[call.at])'
  BY DEF HasKey
<1> QED BY <1>2, <1>3, <1>4 DEF CallWaits, HasKey

\* A call that is over, or has what it needs of the keys
LEMMA CallPastKeys ==
  ASSUME {"at", "phase"} \subseteq DOMAIN call', call'.phase \notin {"loading", "ready"}
  PROVE  CallWaits'
BY DEF CallWaits

LEMMA CallDone == ASSUME NEW status PROVE call' = Done(status) => CallWaits'
BY CallPastKeys DEF Done

LEMMA ReturnEnds == ASSUME NEW verdict PROVE Return(verdict) => CallWaits'
BY CallDone DEF Return

\* The same keys sign as before
LEMMA SameKeys ==
  ASSUME NEW p, NEW q, q.keys = p.keys, q.primary = p.primary, q.kind = p.kind
  PROVE  (WarmSigns(p) => WarmSigns(q)) /\ (HasKey(p) => HasKey(q))
BY DEF WarmSigns, HasKey

LEMMA PollFiresPolls ==
  ASSUME PollIInv, KeyIInv', NEW s \in Servers, PollFires(s)
  PROVE  PollIInv'
<1> DEFINE p == [provider[s] EXCEPT !.due = Off]
           q == Refresh(p, TRUE)
<1>1. provider' = [provider EXCEPT ![s] = q] /\ vault' = vault /\ call' = call
  BY DEF PollFires
<1>2. ProviderTypes(provider[s]) /\ PollsOn(provider[s]) /\ WarmSigns(provider[s])
  BY DEF PollIInv
<1>3. /\ DOMAIN p = ProviderFields /\ p.fetch = provider[s].fetch /\ p.polls = provider[s].polls
      /\ p.keys = provider[s].keys /\ p.primary = provider[s].primary /\ p.kind = provider[s].kind
      /\ p.disposed = provider[s].disposed /\ p.due = Off /\ p.failures = provider[s].failures
      /\ p.snapshot = provider[s].snapshot
  BY <1>2 DEF ProviderTypes, ProviderFields
<1> HIDE DEF p
<1>4. /\ DOMAIN q = ProviderFields /\ q.fetch = (IF p.fetch = "idle" THEN "reading" ELSE p.fetch)
      /\ q.polls = (p.polls \/ TRUE) /\ q.keys = p.keys /\ q.primary = p.primary /\ q.kind = p.kind
      /\ q.disposed = p.disposed /\ q.due = p.due /\ q.failures = p.failures /\ q.snapshot = p.snapshot
  BY <1>3, RefreshIs
<1> HIDE DEF q
<1>5. ProviderTypes(q) /\ PollsOn(q) /\ q.fetch # "idle"
  BY <1>2, <1>3, <1>4 DEF ProviderTypes, PollsOn
<1>6. WarmSigns(q) /\ (HasKey(provider[s]) => HasKey(q))
  BY <1>2, <1>3, <1>4, SameKeys
<1>7. CallWaits'
  BY <1>1, <1>5, <1>6, CallUndisturbed
<1> QED BY <1>1, <1>5, <1>6, <1>7, PollServerMoves

\* A refresh that is asked for joins a poll under way and leaves the timer alone
LEMMA JoinsOrStarts ==
  ASSUME PollIInv, NEW s \in Servers
  PROVE  LET q == Refresh(provider[s], FALSE) IN
         /\ ProviderTypes(q) /\ PollsOn(q) /\ WarmSigns(q) /\ q.fetch # "idle"
         /\ HasKey(provider[s]) => HasKey(q)
<1> DEFINE p == provider[s]
           q == Refresh(p, FALSE)
<1>2. ProviderTypes(p) /\ PollsOn(p) /\ WarmSigns(p)
  BY DEF PollIInv
<1> HIDE DEF p
<1>4. /\ DOMAIN q = ProviderFields /\ q.fetch = (IF p.fetch = "idle" THEN "reading" ELSE p.fetch)
      /\ q.polls = (p.polls \/ FALSE) /\ q.keys = p.keys /\ q.primary = p.primary /\ q.kind = p.kind
      /\ q.disposed = p.disposed /\ q.due = p.due /\ q.failures = p.failures /\ q.snapshot = p.snapshot
  BY <1>2, RefreshIs DEF ProviderTypes
<1> HIDE DEF q
<1>5. ProviderTypes(q) /\ PollsOn(q) /\ q.fetch # "idle"
  BY <1>2, <1>4 DEF ProviderTypes, PollsOn
<1>6. WarmSigns(q) /\ (HasKey(p) => HasKey(q))
  BY <1>2, <1>4, SameKeys
<1> QED BY <1>5, <1>6 DEF p, q

LEMMA RefreshNowPolls ==
  ASSUME PollIInv, KeyIInv', NEW s \in Servers, RefreshNow(s)
  PROVE  PollIInv'
<1> DEFINE q == Refresh(provider[s], FALSE)
<1>1. provider' = [provider EXCEPT ![s] = q] /\ vault' = vault /\ call' = call
  BY DEF RefreshNow
<1>2. ProviderTypes(q) /\ PollsOn(q) /\ WarmSigns(q) /\ q.fetch # "idle" /\ (HasKey(provider[s]) => HasKey(q))
  BY JoinsOrStarts
<1> HIDE DEF q
<1>3. CallWaits'
  BY <1>1, <1>2, CallUndisturbed
<1> QED BY <1>1, <1>2, <1>3, PollServerMoves

\* No provider moves
LEMMA NoServerMoves ==
  ASSUME PollIInv, KeyIInv', provider' = provider, vault' \in SUBSET Versions,
         CallWaits'
  PROVE  PollIInv'
<1>1. \A t \in Servers : ProviderTypes(provider'[t]) /\ PollsOn(provider'[t]) /\ WarmSigns(provider'[t])
  BY DEF PollIInv
<1> QED BY <1>1 DEF PollIInv, ProviderTypes, PollsOn, WarmSigns, HasKey, Newest

LEMMA BeginPolls ==
  ASSUME PollIInv, KeyIInv', NEW s \in Servers, NEW op, Begin(s, op)
  PROVE  PollIInv'
<1> DEFINE q == Refresh(provider[s], FALSE)
<1>1. vault' = vault /\ vault \in SUBSET Versions
  BY DEF Begin, PollIInv
<1>2. CASE Cached(provider[s]) = {}
  <2>1. provider' = [provider EXCEPT ![s] = q] /\ call' = [op |-> op, at |-> s, status |-> 0, phase |-> "loading"]
    BY <1>2 DEF Begin
  <2>2. ProviderTypes(q) /\ PollsOn(q) /\ WarmSigns(q) /\ q.fetch # "idle"
    BY JoinsOrStarts
  <2> HIDE DEF q
  <2>3. provider'[s] = q
    BY <2>1 DEF PollIInv, KeyIInv
  <2>4. CallWaits'
    BY <2>1, <2>2, <2>3 DEF CallWaits
  <2> QED BY <1>1, <2>1, <2>2, <2>4, PollServerMoves
<1>3. CASE Cached(provider[s]) # {}
  <2>1. provider' = provider /\ call' = [op |-> op, at |-> s, status |-> 0, phase |-> "ready"]
    BY <1>3 DEF Begin
  <2>2. HasKey(provider[s])
    BY <1>3 DEF HasKey, Cached
  <2>3. CallWaits'
    BY <2>1, <2>2 DEF CallWaits, HasKey
  <2> QED BY <1>1, <2>1, <2>3, NoServerMoves
<1> QED BY <1>2, <1>3

\* The vault's answer arrives: what it lists is in the vault, the highest first
LEMMA RefreshedIs ==
  ASSUME NEW p, ProviderTypes(p), p.keys \in [Versions -> KeyAges], p.snapshot # {},
         NEW n \in Nat, Versions \subseteq 0 .. n
  PROVE  LET q == Refreshed(p) IN
         /\ DOMAIN q = ProviderFields /\ q.fetch = "idle" /\ q.polls = FALSE /\ q.kind = p.kind
         /\ q.disposed = p.disposed /\ q.due = p.due /\ q.failures = p.failures /\ q.snapshot = {}
         /\ Newest(q.keys, q.primary)
<1> DEFINE keys == [v \in Versions |-> IF v \in p.snapshot THEN InVault ELSE CarriedOver(p.keys[v])]
           primary == Max(p.snapshot)
           a == [p EXCEPT !.keys = keys]
           b == [a EXCEPT !.primary = primary]
           c == [b EXCEPT !.fetch = "idle"]
           d == [c EXCEPT !.snapshot = {}]
           e == [d EXCEPT !.polls = FALSE]
<1>1. Refreshed(p) = e
  BY DEF Refreshed
<1>2. Newest(keys, primary)
  <2>1. p.snapshot \subseteq 0 .. n /\ p.snapshot \subseteq Versions
    BY DEF ProviderTypes
  <2>2. primary \in p.snapshot /\ \A v \in p.snapshot : v <= primary
    BY <2>1, GreatestOf
  <2>3. \A age \in KeyAges : CarriedOver(age) # InVault
    BY DEF CarriedOver, KeyAges, InVault, NotCached
  <2>4. \A v \in Versions : keys[v] = InVault => v \in p.snapshot
    BY <2>3
  <2>5. keys[primary] = InVault
    BY <2>1, <2>2
  <2> HIDE DEF keys, primary
  <2> QED BY <2>1, <2>2, <2>4, <2>5 DEF Newest
<1> HIDE DEF keys, primary
<1>3. /\ DOMAIN a = ProviderFields /\ a.keys = keys /\ a.kind = p.kind /\ a.disposed = p.disposed
      /\ a.due = p.due /\ a.failures = p.failures
  BY DEF ProviderTypes, ProviderFields
<1> HIDE DEF a
<1>4. /\ DOMAIN b = ProviderFields /\ b.keys = keys /\ b.primary = primary /\ b.kind = p.kind
      /\ b.disposed = p.disposed /\ b.due = p.due /\ b.failures = p.failures
  BY <1>3 DEF ProviderFields
<1> HIDE DEF b
<1>5. /\ DOMAIN c = ProviderFields /\ c.keys = keys /\ c.primary = primary /\ c.kind = p.kind
      /\ c.disposed = p.disposed /\ c.due = p.due /\ c.failures = p.failures /\ c.fetch = "idle"
  BY <1>4 DEF ProviderFields
<1> HIDE DEF c
<1>6. /\ DOMAIN d = ProviderFields /\ d.keys = keys /\ d.primary = primary /\ d.kind = p.kind
      /\ d.disposed = p.disposed /\ d.due = p.due /\ d.failures = p.failures /\ d.fetch = "idle"
      /\ d.snapshot = {}
  BY <1>5 DEF ProviderFields
<1> HIDE DEF d
<1>7. /\ DOMAIN e = ProviderFields /\ e.keys = keys /\ e.primary = primary /\ e.kind = p.kind
      /\ e.disposed = p.disposed /\ e.due = p.due /\ e.failures = p.failures /\ e.fetch = "idle"
      /\ e.snapshot = {} /\ e.polls = FALSE
  BY <1>6 DEF ProviderFields
<1> HIDE DEF e
<1> QED BY <1>1, <1>2, <1>7

LEMMA VaultReadsPolls ==
  ASSUME PollIInv, KeyIInv', NEW s \in Servers, VaultReads(s)
  PROVE  PollIInv'
<1> DEFINE p == provider[s]
           a == [p EXCEPT !.fetch = "read"]
           q == [a EXCEPT !.snapshot = vault]
<1>1. provider' = [provider EXCEPT ![s] = q] /\ vault' = vault /\ call' = call
  BY DEF VaultReads, PollIInv, KeyIInv
<1>2. ProviderTypes(p) /\ PollsOn(p) /\ WarmSigns(p) /\ vault \in SUBSET Versions /\ p.fetch = "reading"
  BY DEF PollIInv, VaultReads
<1>3. /\ DOMAIN a = ProviderFields /\ a.fetch = "read" /\ a.polls = p.polls /\ a.keys = p.keys
      /\ a.primary = p.primary /\ a.kind = p.kind /\ a.disposed = p.disposed /\ a.due = p.due
      /\ a.failures = p.failures
  BY <1>2 DEF ProviderTypes, ProviderFields
<1> HIDE DEF a
<1>4. /\ DOMAIN q = ProviderFields /\ q.fetch = "read" /\ q.polls = p.polls /\ q.keys = p.keys
      /\ q.primary = p.primary /\ q.kind = p.kind /\ q.disposed = p.disposed /\ q.due = p.due
      /\ q.failures = p.failures /\ q.snapshot = vault
  BY <1>3 DEF ProviderFields
<1> HIDE DEF q
<1>5. ProviderTypes(q) /\ PollsOn(q)
  BY <1>2, <1>4 DEF ProviderTypes, PollsOn
<1>6. WarmSigns(q) /\ (HasKey(p) => HasKey(q))
  BY <1>2, <1>4, SameKeys
<1>7. CallWaits'
  BY <1>1, <1>4, <1>6, CallUndisturbed
<1> QED BY <1>1, <1>5, <1>6, <1>7, PollServerMoves

LEMMA FetchResolvesPolls ==
  ASSUME PollIInv, KeyIInv', NEW s \in Servers, FetchResolves(s),
         NEW n \in Nat, Versions \subseteq 0 .. n
  PROVE  PollIInv'
<1> DEFINE p == provider[s]
           fresh == Refreshed(p)
           r == [fresh EXCEPT !.failures = 0]
           q == IF p.polls THEN ScheduleNext(r, PollInterval) ELSE fresh
<1>1. provider' = [provider EXCEPT ![s] = q] /\ vault' = vault /\ p.snapshot # {}
  BY DEF FetchResolves
<1>2. ProviderTypes(p) /\ PollsOn(p) /\ p.keys \in [Versions -> KeyAges]
  BY DEF PollIInv, KeyIInv, ProviderOK
<1>3. IF Loading(s) THEN call' = [call EXCEPT !.phase = "ready"] ELSE call' = call
  BY DEF FetchResolves
<1> HIDE DEF p
<1>4. /\ DOMAIN fresh = ProviderFields /\ fresh.fetch = "idle" /\ fresh.polls = FALSE /\ fresh.kind = p.kind
      /\ fresh.disposed = p.disposed /\ fresh.due = p.due /\ fresh.failures = p.failures /\ fresh.snapshot = {}
      /\ Newest(fresh.keys, fresh.primary)
  BY <1>1, <1>2, RefreshedIs
<1> HIDE DEF fresh
<1>5. /\ DOMAIN r = ProviderFields /\ r.fetch = "idle" /\ r.polls = FALSE /\ r.kind = p.kind
      /\ r.disposed = p.disposed /\ r.due = p.due /\ r.failures = 0 /\ r.snapshot = {}
      /\ r.keys = fresh.keys /\ r.primary = fresh.primary
  BY <1>4 DEF ProviderFields
<1> HIDE DEF r
<1>6. /\ ProviderTypes(q) /\ PollsOn(q) /\ q.keys = fresh.keys /\ q.primary = fresh.primary
  <2>1. CASE p.polls = FALSE
    <3>1. q = fresh
      BY <2>1
    <3>2. ProviderTypes(fresh)
      BY <1>2, <1>4 DEF ProviderTypes
    <3>3. PollsOn(fresh)
      BY <1>2, <1>4, <2>1 DEF PollsOn
    <3> QED BY <3>1, <3>2, <3>3
  <2>2. CASE p.polls = TRUE
    <3> DEFINE t == ScheduleNext(r, PollInterval)
    <3>1. q = t
      BY <2>2
    <3>2. /\ DOMAIN t = ProviderFields /\ t.due = (IF r.disposed THEN Off ELSE PollInterval)
          /\ t.fetch = r.fetch /\ t.polls = r.polls /\ t.keys = r.keys /\ t.primary = r.primary
          /\ t.kind = r.kind /\ t.disposed = r.disposed /\ t.failures = r.failures /\ t.snapshot = r.snapshot
      BY <1>5, ScheduleIs
    <3> HIDE DEF t
    <3>3. PollInterval \in 0 .. LongestPause /\ 0 \in 0 .. MaxFailures /\ PollInterval # Off
      BY PausesNatural DEF Off
    <3>4. ProviderTypes(t)
      BY <1>2, <1>5, <3>2, <3>3 DEF ProviderTypes
    <3>5. PollsOn(t)
      BY <1>2, <1>5, <3>2, <3>3 DEF PollsOn, ProviderTypes
    <3> QED BY <1>5, <3>1, <3>2, <3>4, <3>5
  <2> QED BY <1>2, <2>1, <2>2 DEF ProviderTypes
<1> HIDE DEF q
<1>7. WarmSigns(q) /\ HasKey(q)
  <2>1. Newest(q.keys, q.primary)
    BY <1>4, <1>6
  <2>2. q.primary \in Versions /\ q.keys[q.primary] # NotCached
    BY <2>1 DEF Newest, InVault, NotCached
  <2> QED BY <2>1, <2>2 DEF WarmSigns, HasKey
<1>8. provider'[s] = q
  BY <1>1 DEF PollIInv, KeyIInv
<1>9. CASE Loading(s)
  <2>1. DOMAIN call' = DOMAIN call /\ call'.phase = "ready" /\ call'.at = s
    BY <1>3, <1>9 DEF Loading, PollIInv, CallWaits
  <2>2. CallWaits'
    BY <1>7, <1>8, <2>1 DEF CallWaits, HasKey, PollIInv
  <2> QED BY <1>1, <1>6, <1>7, <2>2, PollServerMoves
<1>10. CASE ~Loading(s)
  <2>1. CallWaits'
    BY <1>1, <1>3, <1>7, <1>10, CallUndisturbed DEF Loading
  <2> QED BY <1>1, <1>6, <1>7, <2>1, PollServerMoves
<1> QED BY <1>9, <1>10

LEMMA FetchFailsPolls ==
  ASSUME PollIInv, KeyIInv', NEW s \in Servers, FetchFails(s)
  PROVE  PollIInv'
<1> DEFINE o == provider[s]
           a == [o EXCEPT !.fetch = "idle"]
           b == [a EXCEPT !.snapshot = {}]
           p == [b EXCEPT !.polls = FALSE]
           attempt == Min({p.failures + 1, MaxFailures})
           r == [p EXCEPT !.failures = attempt]
<1>1. /\ vault' = vault
      /\ \/ o.polls = FALSE /\ provider' = [provider EXCEPT ![s] = p]
         \/ \E delay \in BackoffDelays(attempt) : provider' = [provider EXCEPT ![s] = ScheduleNext(r, delay)]
      /\ IF Loading(s) THEN Return("unavailable") ELSE call' = call
  <2>1. o.polls \in BOOLEAN
    BY DEF PollIInv, ProviderTypes
  <2> QED BY <2>1 DEF FetchFails
<1>2. ProviderTypes(o) /\ PollsOn(o) /\ WarmSigns(o)
  BY DEF PollIInv
<1> HIDE DEF o
<1>3. /\ DOMAIN a = ProviderFields /\ a.fetch = "idle" /\ a.keys = o.keys
      /\ a.primary = o.primary /\ a.kind = o.kind /\ a.disposed = o.disposed /\ a.due = o.due
      /\ a.failures = o.failures
  BY <1>2 DEF ProviderTypes, ProviderFields
<1> HIDE DEF a
<1>4. /\ DOMAIN b = ProviderFields /\ b.fetch = "idle" /\ b.keys = o.keys
      /\ b.primary = o.primary /\ b.kind = o.kind /\ b.disposed = o.disposed /\ b.due = o.due
      /\ b.failures = o.failures /\ b.snapshot = {}
  BY <1>3 DEF ProviderFields
<1> HIDE DEF b
<1>5. /\ DOMAIN p = ProviderFields /\ p.fetch = "idle" /\ p.keys = o.keys
      /\ p.primary = o.primary /\ p.kind = o.kind /\ p.disposed = o.disposed /\ p.due = o.due
      /\ p.failures = o.failures /\ p.snapshot = {} /\ p.polls = FALSE
  BY <1>4 DEF ProviderFields
<1> HIDE DEF p
<1>6. attempt \in 1 .. MaxFailures
  <2>1. p.failures + 1 \in Int /\ p.failures \in Nat
    BY <1>2, <1>5 DEF ProviderTypes
  <2>2. attempt = IF p.failures + 1 <= MaxFailures THEN p.failures + 1 ELSE MaxFailures
    BY <2>1, PausesNatural, LesserOfTwo
  <2> HIDE DEF attempt
  <2> QED BY <2>1, <2>2, PausesNatural
<1> HIDE DEF attempt
<1>7. /\ DOMAIN r = ProviderFields /\ r.fetch = "idle" /\ r.keys = o.keys
      /\ r.primary = o.primary /\ r.kind = o.kind /\ r.disposed = o.disposed /\ r.due = o.due
      /\ r.failures = attempt /\ r.snapshot = {} /\ r.polls = FALSE
  BY <1>5 DEF ProviderFields
<1> HIDE DEF r
<1>8. ASSUME NEW q, provider' = [provider EXCEPT ![s] = q], ProviderTypes(q), PollsOn(q),
             q.keys = o.keys, q.primary = o.primary, q.kind = o.kind
      PROVE  PollIInv'
  <2>1. WarmSigns(q) /\ (HasKey(o) => HasKey(q))
    BY <1>2, <1>8, SameKeys
  <2>2. CallWaits'
    <3>1. CASE Loading(s)
      BY <1>1, <3>1, ReturnEnds
    <3>2. CASE ~Loading(s)
      BY <1>1, <1>8, <2>1, <3>2, CallUndisturbed DEF Loading, o
    <3> QED BY <3>1, <3>2
  <2> QED BY <1>1, <1>8, <2>1, <2>2, PollServerMoves
<1>9. CASE o.polls = FALSE /\ provider' = [provider EXCEPT ![s] = p]
  <2>1. ProviderTypes(p) /\ PollsOn(p)
    BY <1>2, <1>5, <1>9 DEF ProviderTypes, PollsOn
  <2> QED BY <1>5, <1>8, <1>9, <2>1
<1>10. ASSUME NEW delay \in BackoffDelays(attempt), provider' = [provider EXCEPT ![s] = ScheduleNext(r, delay)]
       PROVE  PollIInv'
  <2> DEFINE t == ScheduleNext(r, delay)
  <2>1. /\ DOMAIN t = ProviderFields /\ t.due = (IF r.disposed THEN Off ELSE delay)
        /\ t.fetch = r.fetch /\ t.polls = r.polls /\ t.keys = r.keys /\ t.primary = r.primary
        /\ t.kind = r.kind /\ t.disposed = r.disposed /\ t.failures = r.failures /\ t.snapshot = r.snapshot
    BY <1>7, ScheduleIs
  <2>2. delay \in 0 .. LongestPause /\ delay # Off
    <3>1. attempt \in Nat \ {0}
      BY <1>6, PausesNatural
    <3> QED BY <1>10, <3>1, BackoffBounded DEF Off
  <2>3. attempt \in 0 .. MaxFailures
    BY <1>6, PausesNatural
  <2> HIDE DEF t
  <2>4. ProviderTypes(t)
    BY <1>2, <1>7, <2>1, <2>2, <2>3 DEF ProviderTypes
  <2>5. PollsOn(t)
    BY <1>2, <1>7, <2>1, <2>2 DEF PollsOn, ProviderTypes
  <2> QED BY <1>7, <1>8, <1>10, <2>1, <2>4, <2>5 DEF t
<1> QED BY <1>1, <1>9, <1>10

LEMMA DisposePolls ==
  ASSUME PollIInv, KeyIInv', NEW s \in Servers, Dispose(s)
  PROVE  PollIInv'
<1> DEFINE p == provider[s]
           a == [p EXCEPT !.disposed = TRUE]
           q == [a EXCEPT !.due = Off]
<1>1. provider' = [provider EXCEPT ![s] = q] /\ vault' = vault /\ call' = call
  BY DEF Dispose, PollIInv, KeyIInv
<1>2. ProviderTypes(p) /\ WarmSigns(p) /\ (call.phase = "loading" /\ call.at = s => p.fetch # "idle")
  BY DEF PollIInv, CallWaits
<1> HIDE DEF p
<1>3. /\ DOMAIN a = ProviderFields /\ a.fetch = p.fetch /\ a.polls = p.polls /\ a.keys = p.keys
      /\ a.primary = p.primary /\ a.kind = p.kind /\ a.disposed = TRUE
      /\ a.failures = p.failures /\ a.snapshot = p.snapshot
  BY <1>2 DEF ProviderTypes, ProviderFields
<1> HIDE DEF a
<1>4. /\ DOMAIN q = ProviderFields /\ q.fetch = p.fetch /\ q.polls = p.polls /\ q.keys = p.keys
      /\ q.primary = p.primary /\ q.kind = p.kind /\ q.disposed = TRUE /\ q.due = Off
      /\ q.failures = p.failures /\ q.snapshot = p.snapshot
  BY <1>3 DEF ProviderFields
<1> HIDE DEF q
<1>5. ProviderTypes(q) /\ PollsOn(q)
  BY <1>2, <1>4 DEF ProviderTypes, PollsOn
<1>6. WarmSigns(q) /\ (HasKey(p) => HasKey(q))
  BY <1>2, <1>4, SameKeys
<1>7. CallWaits'
  BY <1>1, <1>2, <1>4, <1>6, CallUndisturbed DEF p
<1> QED BY <1>1, <1>5, <1>6, <1>7, PollServerMoves

\* Time does not forget a key, and makes none the vault's
LEMMA AgedState ==
  ASSUME NEW age \in KeyAges
  PROVE  (Aged(age) = NotCached <=> age = NotCached) /\ (Aged(age) = InVault <=> age = InVault)
<1>1. CASE age < 0
  BY <1>1 DEF Aged
<1>2. CASE ~(age < 0)
  <2>1. age \in Nat
    BY <1>2 DEF KeyAges, InVault, NotCached
  <2>2. Aged(age) = IF age + 1 <= OverlapWindow + 1 THEN age + 1 ELSE OverlapWindow + 1
    <3>1. age + 1 \in Int /\ OverlapWindow + 1 \in Int
      BY <2>1, OverlapNatural
    <3>2. Aged(age) = Min({age + 1, OverlapWindow + 1})
      BY <1>2 DEF Aged
    <3> QED BY <3>1, <3>2, LesserOfTwo
  <2>3. Aged(age) \in Nat
    BY <2>1, <2>2, OverlapNatural
  <2> QED BY <2>1, <2>3 DEF InVault, NotCached
<1> QED BY <1>1, <1>2

LEMMA TickPolls ==
  ASSUME PollIInv, KeyIInv', Tick
  PROVE  PollIInv'
<1> DEFINE due(s) == IF provider[s].due = Off THEN Off ELSE provider[s].due - 1
           keys(s) == [v \in Versions |-> Aged(provider[s].keys[v])]
           due1(s) == [provider[s] EXCEPT !.due = due(s)]
           moved(s) == [due1(s) EXCEPT !.keys = keys(s)]
<1>1. provider' = [s \in Servers |-> moved(s)] /\ vault' = vault /\ call' = call
      /\ \A s \in Servers : provider[s].due # 0
  BY DEF Tick
<1>2. ASSUME NEW s \in Servers
      PROVE  /\ ProviderTypes(moved(s)) /\ PollsOn(moved(s)) /\ WarmSigns(moved(s))
             /\ HasKey(provider[s]) => HasKey(moved(s))
             /\ moved(s).fetch = provider[s].fetch
  <2> DEFINE p == provider[s]
  <2>1. ProviderTypes(p) /\ PollsOn(p) /\ WarmSigns(p) /\ p.keys \in [Versions -> KeyAges] /\ p.due # 0
    BY <1>1 DEF PollIInv, KeyIInv, ProviderOK
  <2>2. due(s) \in {Off} \cup 0 .. LongestPause /\ (due(s) = Off <=> p.due = Off)
    BY <2>1, PausesNatural DEF ProviderTypes, Off
  <2>3. \A v \in Versions : /\ keys(s)[v] = NotCached <=> p.keys[v] = NotCached
                            /\ keys(s)[v] = InVault <=> p.keys[v] = InVault
    BY <2>1, AgedState
  <2> HIDE DEF due, keys, p
  <2>4. /\ DOMAIN due1(s) = ProviderFields /\ due1(s).fetch = p.fetch /\ due1(s).polls = p.polls
        /\ due1(s).primary = p.primary /\ due1(s).kind = p.kind /\ due1(s).disposed = p.disposed
        /\ due1(s).due = due(s) /\ due1(s).failures = p.failures /\ due1(s).snapshot = p.snapshot
    BY <2>1 DEF ProviderTypes, ProviderFields, p
  <2> HIDE DEF due1
  <2>5. /\ DOMAIN moved(s) = ProviderFields /\ moved(s).fetch = p.fetch /\ moved(s).polls = p.polls
        /\ moved(s).primary = p.primary /\ moved(s).kind = p.kind /\ moved(s).disposed = p.disposed
        /\ moved(s).due = due(s) /\ moved(s).failures = p.failures /\ moved(s).snapshot = p.snapshot
        /\ moved(s).keys = keys(s)
    BY <2>4 DEF ProviderFields
  <2> HIDE DEF moved
  <2>6. ProviderTypes(moved(s)) /\ PollsOn(moved(s))
    BY <2>1, <2>2, <2>5 DEF ProviderTypes, PollsOn
  <2>7. HasKey(p) <=> HasKey(moved(s))
    BY <2>3, <2>5 DEF HasKey
  <2>8. Newest(p.keys, p.primary) => Newest(keys(s), p.primary)
    BY <2>3 DEF Newest
  <2>9. WarmSigns(moved(s))
    BY <2>1, <2>5, <2>7, <2>8 DEF WarmSigns
  <2> QED BY <2>5, <2>6, <2>7, <2>9 DEF p
<1> HIDE DEF moved
<1>3. \A s \in Servers : provider'[s] = moved(s)
  BY <1>1
<1>4. \A s \in Servers : ProviderTypes(provider'[s]) /\ PollsOn(provider'[s]) /\ WarmSigns(provider'[s])
  BY <1>2, <1>3
<1>5. CallWaits'
  <2>1. CallWaits
    BY DEF PollIInv
  <2>2. call.phase = "loading" => provider'[call.at].fetch # "idle"
    BY <1>2, <1>3, <2>1 DEF CallWaits
  <2>3. call.phase = "ready" => HasKey(provider'[call.at])
    BY <1>2, <1>3, <2>1 DEF CallWaits
  <2> QED BY <1>1, <2>1, <2>2, <2>3 DEF CallWaits, HasKey
<1> QED BY <1>1, <1>4, <1>5 DEF PollIInv, ProviderTypes, PollsOn, WarmSigns, HasKey, Newest

LEMMA PollInit == KeyInit => PollIInv
<1> SUFFICES ASSUME KeyInit PROVE PollIInv
  OBVIOUS
<1>1. /\ provider \in [Servers -> {CloudProvider, LocalProvider, StaticProvider}] /\ call = Done(200)
      /\ vault \in SUBSET Versions
  BY DEF KeyInit
<1>2. ASSUME NEW kind, kind # "cloud", NEW list
      PROVE  LET p == FixedProvider(kind, list) IN ProviderTypes(p) /\ PollsOn(p) /\ WarmSigns(p)
  <2> DEFINE p == FixedProvider(kind, list)
  <2>1. /\ DOMAIN p = ProviderFields /\ p.kind = kind /\ p.fetch = "idle" /\ p.snapshot = {} /\ p.polls = FALSE
        /\ p.due = Off /\ p.disposed = FALSE /\ p.failures = 0
    BY DEF FixedProvider, ProviderFields
  <2> HIDE DEF p
  <2>2. ProviderTypes(p)
    <3>1. 0 \in 0 .. MaxFailures
      BY PausesNatural
    <3> QED BY <2>1, <3>1 DEF ProviderTypes
  <2>3. PollsOn(p) /\ WarmSigns(p)
    BY <1>2, <2>1 DEF PollsOn, WarmSigns
  <2> QED BY <2>2, <2>3 DEF p
<1>3. ProviderTypes(CloudProvider) /\ PollsOn(CloudProvider) /\ WarmSigns(CloudProvider)
  <2> DEFINE p == CloudProvider
  <2>1. /\ DOMAIN p = ProviderFields /\ p.fetch = "idle" /\ p.snapshot = {} /\ p.polls = FALSE
        /\ p.due = PollInterval /\ p.disposed = FALSE /\ p.failures = 0
        /\ p.keys = [v \in Versions |-> NotCached]
    BY DEF CloudProvider, ProviderFields
  <2>2. ~HasKey(p)
    BY <2>1 DEF HasKey
  <2> HIDE DEF p
  <2>3. PollInterval \in 0 .. LongestPause /\ 0 \in 0 .. MaxFailures /\ PollInterval # Off
    BY PausesNatural DEF Off
  <2>4. ProviderTypes(p)
    BY <2>1, <2>3 DEF ProviderTypes
  <2>5. PollsOn(p) /\ WarmSigns(p)
    BY <2>1, <2>2, <2>3 DEF PollsOn, WarmSigns
  <2> QED BY <2>4, <2>5 DEF p
<1>4. \A s \in Servers : ProviderTypes(provider[s]) /\ PollsOn(provider[s]) /\ WarmSigns(provider[s])
  BY <1>1, <1>2, <1>3 DEF LocalProvider, StaticProvider
<1>5. CallWaits
  BY <1>1 DEF Done, CallWaits
<1> QED BY <1>1, <1>4, <1>5, KeyInitHolds DEF PollIInv

\* The vault holds finitely many versions, of bounded ids
VersionsBounded == \E n \in Nat : Versions \subseteq 0 .. n

LEMMA PollStep ==
  ASSUME VersionsBounded
  PROVE  PollIInv /\ [KeyNext]_keyVars => PollIInv'
<1> SUFFICES ASSUME PollIInv, [KeyNext]_keyVars PROVE PollIInv'
  OBVIOUS
<1>1. KeyIInv' /\ vault \in SUBSET Versions /\ CallWaits
  BY KeyIInvStep DEF PollIInv
<1>2. PICK n \in Nat : Versions \subseteq 0 .. n
  BY DEF VersionsBounded
<1>3. ASSUME provider' = provider, call' = call, vault' \in SUBSET Versions PROVE PollIInv'
  <2>1. CallWaits'
    BY <1>1, <1>3 DEF CallWaits, HasKey
  <2> QED BY <1>1, <1>3, <2>1, NoServerMoves
<1>4. CASE UNCHANGED keyVars
  BY <1>1, <1>3, <1>4 DEF keyVars
<1>5. CASE VaultChanges
  BY <1>1, <1>3, <1>5 DEF VaultChanges
<1>6. CASE Tick
  BY <1>1, <1>6, TickPolls
<1>7. ASSUME NEW s \in Servers, PollFires(s) \/ RefreshNow(s) \/ VaultReads(s) \/ FetchResolves(s)
                                \/ FetchFails(s) \/ Dispose(s)
      PROVE  PollIInv'
  BY <1>1, <1>2, <1>7, PollFiresPolls, RefreshNowPolls, VaultReadsPolls, FetchResolvesPolls, FetchFailsPolls,
     DisposePolls
<1>8. ASSUME NEW s \in Servers, SignCall(s) \/ VerifyCall(s) PROVE PollIInv'
  BY <1>1, <1>8, BeginPolls DEF SignCall, VerifyCall
<1>9. ASSUME NEW s \in Servers, \/ Sign(s) \/ RateLimited(s) \/ VerifyOpens(s)
                                \/ RevocationAnswers(s) \/ RevocationRejects(s)
      PROVE  PollIInv'
  <2>1. provider' = provider /\ vault' = vault
    BY <1>9 DEF Sign, RateLimited, VerifyOpens, RevocationAnswers, RevocationRejects
  <2>2. CallWaits'
    <3>1. CASE Sign(s)
      BY <3>1, ReturnEnds DEF Sign
    <3>2. CASE RateLimited(s)
      BY <3>2, ReturnEnds DEF RateLimited
    <3>3. CASE VerifyOpens(s)
      <4>1. (\E verdict : Return(verdict)) \/ call' = [call EXCEPT !.phase = "revocation"]
        BY <3>3, Zenon DEF VerifyOpens
      <4>2. ASSUME call' = [call EXCEPT !.phase = "revocation"] PROVE CallWaits'
        <5>1. DOMAIN call' = DOMAIN call /\ call'.phase = "revocation"
          BY <1>1, <4>2 DEF CallWaits
        <5> QED BY <1>1, <5>1, CallPastKeys DEF CallWaits
      <4> QED BY <4>1, <4>2, ReturnEnds
    <3>4. CASE RevocationAnswers(s)
      BY <3>4, ReturnEnds DEF RevocationAnswers
    <3>5. CASE RevocationRejects(s)
      BY <3>5, ReturnEnds DEF RevocationRejects
    <3> QED BY <1>9, <3>1, <3>2, <3>3, <3>4, <3>5
  <2> QED BY <1>1, <2>1, <2>2, NoServerMoves
<1> QED BY <1>4, <1>5, <1>6, <1>7, <1>8, <1>9 DEF KeyNext

\* For every fleet and every order of polls, failures, forced refreshes and
\* calls on a cold cache: a poll that joins a fetch somebody else began still
\* arms the next one, within the longest pause, until dispose()
\* (cloud-provider.ts:203-260).
THEOREM PollingGoesOnHolds ==
  ASSUME VersionsBounded
  PROVE  KeySpec => []PollingGoesOn
<1>1. PollIInv => PollingGoesOn
  <2> SUFFICES ASSUME PollIInv, NEW s \in Servers, Polls(s)
               PROVE  \/ provider[s].due \in 0 .. LongestPause
                      \/ provider[s].polls /\ provider[s].fetch # "idle"
    BY DEF PollingGoesOn
  <2>1. ProviderTypes(provider[s]) /\ PollsOn(provider[s])
    BY DEF PollIInv
  <2> QED BY <2>1 DEF ProviderTypes, PollsOn, Polls
<1> QED BY <1>1, PollInit, PollStep, PTL DEF KeySpec

\* For every fleet: no call waits for a cache that nobody fetches, and a call
\* on a cloud provider that got its keys signs with the newest of those the
\* vault listed last, however long polls fail or the provider is disposed
\* (cloud-provider.ts:160-200, 225-250).
THEOREM CallsFindKeysHolds ==
  ASSUME VersionsBounded
  PROVE  KeySpec => []CallsFindKeys
<1>1. PollIInv => CallsFindKeys
  <2> SUFFICES ASSUME PollIInv PROVE CallsFindKeys
    OBVIOUS
  <2>1. CallWaits
    BY DEF PollIInv
  <2>2. ASSUME call.phase = "ready", provider[call.at].kind = "cloud"
        PROVE  LET p == provider[call.at] IN Newest(p.keys, p.primary) /\ Live(p, p.primary)
    <3>1. call.at \in Servers /\ HasKey(provider[call.at])
      BY <2>1, <2>2 DEF CallWaits
    <3>2. Newest(provider[call.at].keys, provider[call.at].primary)
      BY <2>2, <3>1 DEF PollIInv, WarmSigns
    <3> QED BY <3>2, OverlapNatural DEF Newest, Live, InVault, NotCached
  <2> QED BY <2>1, <2>2 DEF CallsFindKeys, CallWaits
<1> QED BY <1>1, PollInit, PollStep, PTL DEF KeySpec
===============================================================================
