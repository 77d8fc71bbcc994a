---------------------------- MODULE SessionStore ----------------------------
(***************************************************************************)
(* The Redis store of refresh-token sessions                               *)
(* (packages/auth/src/session/redis-store.ts).  Each operation is one Lua  *)
(* script, which Redis runs atomically: an action is a script.  What       *)
(* interleaves is the scripts of many requests and the expiry of three     *)
(* kinds of keys, each with its own deadline:                              *)
(*   refresh:{hash}  -> family             owner, tokenUntil               *)
(*   family:{id}     -> user, current, revoked           familyUntil       *)
(*   usessions:{user} sorted set of families             index, indexUntil *)
(* A key is there while now < its deadline; DEL sets the deadline to 0.    *)
(***************************************************************************)
EXTENDS Naturals, FiniteSets

CONSTANTS
  Tokens,    \* refresh tokens (hashes), each minted once
  Families,  \* family ids, each generated once
  Users,
  TTLs,      \* refreshTtlSeconds of the managers that share the store
  Cap,       \* maxSessionsPerUser, 0 for unlimited
  MaxNow,    \* bound on the clock
  Nil

ASSUME StoreAssumption ==
  /\ TTLs \subseteq Nat \ {0} /\ Cap \in Nat /\ MaxNow \in Nat
  /\ Nil \notin Tokens /\ Nil \notin Families /\ Nil \notin Users

VARIABLES
  now,          \* the clock, in steps of one second
  owner,        \* owner[t]: the value of refresh:{t}; kept when the key is gone
  tokenUntil,   \* tokenUntil[t]: when refresh:{t} expires
  user,         \* user[f], current[f], revoked[f]: the fields of family:{f}
  current,
  revoked,
  familyUntil,  \* familyUntil[f]: when family:{f} expires
  index,        \* index[u]: members of usessions:{u}
  score,        \* score[f]: the score of f in its user's set
  indexUntil,   \* indexUntil[u]: when usessions:{u} expires
  previous,     \* history: previous[f]: the token rotated into current[f]
  ended         \* history: families reused, revoked or logged out everywhere

tokenVars == <<owner, tokenUntil>>
familyVars == <<user, current, revoked, familyUntil>>
indexVars == <<index, score, indexUntil>>
vars == <<now, tokenVars, familyVars, indexVars, previous, ended>>

\* Deadlines: 0 for a key that was never set or was deleted, else a time plus a TTL.
Times == {0} \cup {n + ttl : n \in 0 .. MaxNow, ttl \in TTLs}

TypeOK ==
  /\ now \in 0 .. MaxNow
  /\ owner \in [Tokens -> Families \cup {Nil}]
  /\ tokenUntil \in [Tokens -> Times]
  /\ user \in [Families -> Users \cup {Nil}]
  /\ current \in [Families -> Tokens \cup {Nil}]
  /\ revoked \in [Families -> BOOLEAN]
  /\ familyUntil \in [Families -> Times]
  /\ index \in [Users -> SUBSET Families]
  /\ score \in [Families -> Times]
  /\ indexUntil \in [Users -> Times]
  /\ previous \in [Families -> Tokens \cup {Nil}]
  /\ ended \subseteq Families
  \* one family has one user, and a token that exists belongs to its family
  /\ \A u \in Users : \A f \in index[u] : user[f] = u
  /\ \A f \in Families : user[f] # Nil => owner[current[f]] = f

Init ==
  /\ now = 0
  /\ owner = [t \in Tokens |-> Nil]
  /\ tokenUntil = [t \in Tokens |-> 0]
  /\ user = [f \in Families |-> Nil]
  /\ current = [f \in Families |-> Nil]
  /\ revoked = [f \in Families |-> FALSE]
  /\ familyUntil = [f \in Families |-> 0]
  /\ index = [u \in Users |-> {}]
  /\ score = [f \in Families |-> 0]
  /\ indexUntil = [u \in Users |-> 0]
  /\ previous = [f \in Families |-> Nil]
  /\ ended = {}

(***************************************************************************)
(* What the scripts read.                                                  *)
(***************************************************************************)
Present(t) == owner[t] # Nil /\ now < tokenUntil[t]
Alive(f) == now < familyUntil[f]
Sessions(u) == IF now < indexUntil[u] THEN index[u] ELSE {}

\* LOOKUP: the current token of a family that lives and was not revoked.
Usable(t) ==
  /\ Present(t) /\ Alive(owner[t])
  /\ ~revoked[owner[t]]
  /\ current[owner[t]] = t

\* refresh:{current} of every family in fs that is still there.
CurrentTokens(fs) == {current[f] : f \in {g \in fs : Alive(g)}}

Deleted(until, ks) == [k \in DOMAIN until |-> IF k \in ks THEN 0 ELSE until[k]]

(***************************************************************************)
(* ISSUE: a new family.  Expired members are pruned from the user's set,   *)
(* and the members with the lowest scores evicted while it exceeds Cap.    *)
(* Members of equal score are in the order of their random ids: any order. *)
(***************************************************************************)
VictimsOffByOne(members, scores) ==   \* mutant: the cap is compared with >=
  IF Cap = 0 \/ Cardinality(members) <= Cap + 1
  THEN {{}}
  ELSE {vs \in SUBSET members :
          /\ Cardinality(vs) = Cardinality(members) - Cap
          /\ \A v \in vs, g \in members \ vs : scores[v] <= scores[g]}

Victims(members, scores) ==
  IF Cap = 0 \/ Cardinality(members) <= Cap
  THEN {{}}
  ELSE {vs \in SUBSET members :
          /\ Cardinality(vs) = Cardinality(members) - Cap
          /\ \A v \in vs, g \in members \ vs : scores[v] <= scores[g]}

Issue(t, f, u, ttl) ==
  /\ owner[t] = Nil /\ user[f] = Nil
  /\ score' = [score EXCEPT ![f] = now + ttl]
  /\ LET members == {g \in Sessions(u) : score[g] >= now} \cup {f}
     IN  \E vs \in Victims(members, score') :
           /\ index' = [index EXCEPT ![u] = members \ vs]
           /\ familyUntil' = Deleted([familyUntil EXCEPT ![f] = now + ttl], vs)
           /\ tokenUntil' = Deleted([tokenUntil EXCEPT ![t] = now + ttl],
                                    CurrentTokens(vs \ {f})
                                      \cup (IF f \in vs THEN {t} ELSE {}))
  /\ indexUntil' = [indexUntil EXCEPT ![u] = now + ttl]
  /\ owner' = [owner EXCEPT ![t] = f]
  /\ user' = [user EXCEPT ![f] = u]
  /\ current' = [current EXCEPT ![f] = t]
  /\ UNCHANGED <<now, revoked, previous, ended>>

(***************************************************************************)
(* ROTATE: the four outcomes, in the order of the script.                  *)
(***************************************************************************)
RotateInvalid(t) ==
  /\ ~(Present(t) /\ Alive(owner[t]))
  /\ UNCHANGED vars

RotateRevoked(t) ==
  /\ Present(t) /\ Alive(owner[t])
  /\ revoked[owner[t]]
  /\ UNCHANGED vars

ReuseIgnored(t) ==   \* mutant: a replay is refused, the family goes on
  /\ Present(t) /\ Alive(owner[t])
  /\ ~revoked[owner[t]] /\ current[owner[t]] # t
  /\ ended' = ended \cup {owner[t]}
  /\ UNCHANGED <<now, tokenVars, familyVars, indexVars, previous>>

\* A consumed token is replayed: the family is revoked.  It stays in the index.
RotateReuse(t) ==
  /\ Present(t) /\ Alive(owner[t])
  /\ ~revoked[owner[t]] /\ current[owner[t]] # t
  /\ revoked' = [revoked EXCEPT ![owner[t]] = TRUE]
  /\ tokenUntil' = [tokenUntil EXCEPT ![current[owner[t]]] = 0]
  /\ ended' = ended \cup {owner[t]}
  /\ UNCHANGED <<now, owner, user, current, familyUntil, indexVars, previous>>

\* mutant: the consumed token's key keeps its old deadline
RotateForgetsOld(t, n, ttl) ==
  LET f == owner[t]
  IN  /\ tokenUntil' = [tokenUntil EXCEPT ![n] = now + ttl]
      /\ familyUntil' = [familyUntil EXCEPT ![f] = now + ttl]
      /\ score' = [score EXCEPT ![f] = now + ttl]
      /\ index' = [index EXCEPT ![user[f]] = Sessions(user[f]) \cup {f}]
      /\ indexUntil' = [indexUntil EXCEPT ![user[f]] = now + ttl]

\* Every deadline of the session slides forward, the consumed token's included.
Slide(t, n, ttl) ==
  LET f == owner[t]
  IN  /\ tokenUntil' = [tokenUntil EXCEPT ![n] = now + ttl, ![t] = now + ttl]
      /\ familyUntil' = [familyUntil EXCEPT ![f] = now + ttl]
      /\ score' = [score EXCEPT ![f] = now + ttl]
      /\ index' = [index EXCEPT ![user[f]] = Sessions(user[f]) \cup {f}]
      /\ indexUntil' = [indexUntil EXCEPT ![user[f]] = now + ttl]

RotateOk(t, n, ttl) ==
  /\ Usable(t) /\ owner[n] = Nil
  /\ owner' = [owner EXCEPT ![n] = owner[t]]
  /\ current' = [current EXCEPT ![owner[t]] = n]
  /\ previous' = [previous EXCEPT ![owner[t]] = t]
  /\ Slide(t, n, ttl)
  /\ UNCHANGED <<now, user, revoked, ended>>

(***************************************************************************)
(* REVOKE by any token of the family that still has its key; REVOKE_ALL.   *)
(***************************************************************************)
Revoke(t) ==
  /\ Present(t)
  /\ LET f == owner[t]
     IN  /\ tokenUntil' = Deleted(tokenUntil, {t} \cup CurrentTokens({f}))
         /\ familyUntil' = Deleted(familyUntil, {f})
         /\ index' = IF Alive(f) THEN [index EXCEPT ![user[f]] = @ \ {f}] ELSE index
         /\ ended' = ended \cup {f}
  /\ UNCHANGED <<now, owner, user, current, revoked, score, indexUntil, previous>>

RevokeAll(u) ==
  /\ tokenUntil' = Deleted(tokenUntil, CurrentTokens(Sessions(u)))
  /\ familyUntil' = Deleted(familyUntil, Sessions(u))
  /\ index' = [index EXCEPT ![u] = {}]
  /\ indexUntil' = [indexUntil EXCEPT ![u] = 0]
  /\ ended' = ended \cup {f \in Families : user[f] = u}
  /\ UNCHANGED <<now, owner, user, current, revoked, score, previous>>

Tick ==
  /\ now < MaxNow
  /\ now' = now + 1
  /\ UNCHANGED <<tokenVars, familyVars, indexVars, previous, ended>>

Next ==
  \/ \E t \in Tokens, f \in Families, u \in Users, ttl \in TTLs : Issue(t, f, u, ttl)
  \/ \E t, n \in Tokens, ttl \in TTLs : RotateOk(t, n, ttl)
  \/ \E t \in Tokens :
       RotateInvalid(t) \/ RotateRevoked(t) \/ RotateReuse(t) \/ Revoke(t)
  \/ \E u \in Users : RevokeAll(u)
  \/ Tick

Spec == Init /\ [][Next]_vars

-------------------------------------------------------------------------------
(***************************************************************************)
(* Properties.                                                             *)
(***************************************************************************)

\* No session comes back: after a replay was detected, after a logout by any of
\* its tokens, after a logout everywhere, no token of the family is accepted.
\* Logout everywhere only finds the families that the user's set still lists.
EndedStaysEnded == \A t \in Tokens : Usable(t) => owner[t] \notin ended

Live(u) == {f \in Families : user[f] = u /\ \E t \in Tokens : owner[t] = f /\ Usable(t)}

\* A user never has more sessions than the cap, though set members, families
\* and tokens expire separately and rotation keeps moving the deadlines.
CapHolds == Cap > 0 => \A u \in Users : Cardinality(Live(u)) <= Cap

\* Replay of the token just rotated away stays detectable as long as the token
\* that replaced it is accepted.
ReplayDetectable ==
  \A t \in Tokens : Usable(t) /\ previous[owner[t]] # Nil => Present(previous[owner[t]])
==============================================================================
