-------------------------- MODULE SessionStoreProofs --------------------------
(***************************************************************************)
(* The safety invariants of SessionStore hold for every number of tokens,  *)
(* families and users.                                                     *)
(*                                                                         *)
(* TypeOK and ReplayDetectable hold for any mix of TTLs.  EndedStaysEnded  *)
(* and CapHolds need one TTL (OneTtl): they rest on Listed, that the       *)
(* user's set knows every family that lives, which a shorter TTL breaks.   *)
(***************************************************************************)
EXTENDS SessionStore, FiniteSetTheorems, TLAPS

\* A key that exists was written by the script that made its family.
Wellformed ==
  /\ \A t \in Tokens : owner[t] # Nil => user[owner[t]] # Nil
  /\ \A f \in Families :
       /\ user[f] # Nil => current[f] \in Tokens
       /\ user[f] = Nil => familyUntil[f] = 0 /\ previous[f] = Nil

\* While a family lives, the token it consumed last outlives its current one.
ReplayKnown ==
  \A f \in Families : previous[f] # Nil =>
    /\ owner[previous[f]] = f
    /\ previous[f] # current[f]
    /\ Alive(f) => tokenUntil[current[f]] <= tokenUntil[previous[f]]

IInv == TypeOK /\ Wellformed /\ ReplayKnown

\* All managers that share the store use one TTL.
OneTtl == \A a, b \in TTLs : a = b

\* The user's set lists every family that lives, and outlives it.
Listed ==
  \A f \in Families : Alive(f) =>
    /\ f \in index[user[f]]
    /\ score[f] = familyUntil[f]
    /\ familyUntil[f] <= indexUntil[user[f]]

\* No family outlives a TTL from now.
WithinTtl == \A f \in Families, ttl \in TTLs : familyUntil[f] <= now + ttl

\* An ended family is revoked or gone.
EndedIsDead == \A f \in ended : user[f] # Nil /\ (revoked[f] \/ ~Alive(f))

ListInv == Listed /\ WithinTtl /\ EndedIsDead

\* The set itself never grows over the cap.
IndexCapped == Cap > 0 => \A u \in Users : Cardinality(index[u]) <= Cap

USE StoreAssumption

-------------------------------------------------------------------------------
(***************************************************************************)
(* Any TTLs: types, well-formed keys, and detectable replays.              *)
(***************************************************************************)

\* Every deadline a script writes is 0 or a TTL from now.
LEMMA Deadline ==
  ASSUME now \in 0 .. MaxNow, NEW ttl \in TTLs
  PROVE  /\ now + ttl \in Times /\ now + ttl > now
  BY DEF Times

\* Deadlines are natural numbers, 0 among them.
LEMMA TimesNat == 0 \in Times /\ Times \subseteq Nat
  BY DEF Times

\* Deadlines and the clock are natural numbers.
LEMMA ClockNat ==
  ASSUME IInv
  PROVE  /\ now \in Nat
         /\ \A t \in Tokens : tokenUntil[t] \in Nat
         /\ \A f \in Families : familyUntil[f] \in Nat /\ score[f] \in Nat
         /\ \A u \in Users : indexUntil[u] \in Nat
<1>1. now \in Nat
  BY DEF IInv, TypeOK
<1>2. /\ tokenUntil \in [Tokens -> Times] /\ familyUntil \in [Families -> Times]
      /\ score \in [Families -> Times] /\ indexUntil \in [Users -> Times]
  BY DEF IInv, TypeOK
<1> QED BY <1>1, <1>2, TimesNat

\* An empty store.
LEMMA InitIInv == Init => IInv
  BY TimesNat DEF Init, IInv, TypeOK, Wellformed, ReplayKnown

\* What Issue does to the set and the deadlines once the victims vs are chosen.
IssueEffect(t, f, u, ttl, vs) ==
  /\ index' = [index EXCEPT ![u] =
                 ({g \in Sessions(u) : score[g] >= now} \cup {f}) \ vs]
  /\ vs \subseteq Sessions(u) \cup {f}
  /\ familyUntil' \in [Families -> Times]
  /\ tokenUntil' \in [Tokens -> Times]
  /\ \A g \in Families :
       familyUntil'[g] = IF g \in vs THEN 0
                         ELSE IF g = f THEN now + ttl ELSE familyUntil[g]
  /\ \A n \in Tokens :
       tokenUntil'[n] =
         IF n \in CurrentTokens(vs \ {f}) \/ (f \in vs /\ n = t) THEN 0
         ELSE IF n = t THEN now + ttl ELSE tokenUntil[n]

\* What ISSUE leaves of the families and tokens that are not its own.
LEMMA IssueKeeps ==
  ASSUME IInv,
         NEW t \in Tokens, NEW f \in Families, NEW u \in Users, NEW ttl \in TTLs,
         Issue(t, f, u, ttl)
  PROVE  \E vs \in SUBSET Families :
           /\ IssueEffect(t, f, u, ttl, vs)
           /\ vs \in Victims({g \in Sessions(u) : score[g] >= now} \cup {f}, score')
<1> DEFINE members == {g \in Sessions(u) : score[g] >= now} \cup {f}
<1>1. PICK vs \in Victims(members, score') :
        /\ index' = [index EXCEPT ![u] = members \ vs]
        /\ familyUntil' = Deleted([familyUntil EXCEPT ![f] = now + ttl], vs)
        /\ tokenUntil' = Deleted([tokenUntil EXCEPT ![t] = now + ttl],
                                 CurrentTokens(vs \ {f})
                                   \cup (IF f \in vs THEN {t} ELSE {}))
  BY DEF Issue
<1>2. vs \subseteq members
  BY <1>1 DEF Victims
<1>3. Sessions(u) \subseteq Families
  BY DEF IInv, TypeOK, Sessions
<1>5. /\ [familyUntil EXCEPT ![f] = now + ttl] \in [Families -> Times]
      /\ [tokenUntil EXCEPT ![t] = now + ttl] \in [Tokens -> Times]
  BY Deadline DEF IInv, TypeOK
<1>6. /\ familyUntil' \in [Families -> Times]
      /\ \A g \in Families :
           familyUntil'[g] = IF g \in vs THEN 0
                             ELSE IF g = f THEN now + ttl ELSE familyUntil[g]
  BY <1>1, <1>5, TimesNat DEF Deleted, IInv, TypeOK
<1>7. /\ tokenUntil' \in [Tokens -> Times]
      /\ \A n \in Tokens :
           tokenUntil'[n] =
             IF n \in CurrentTokens(vs \ {f}) \/ (f \in vs /\ n = t) THEN 0
             ELSE IF n = t THEN now + ttl ELSE tokenUntil[n]
  BY <1>1, <1>5, TimesNat DEF Deleted, IInv, TypeOK
<1>8. vs \in SUBSET Families /\ vs \subseteq Sessions(u) \cup {f}
  BY <1>2, <1>3
<1> QED BY <1>1, <1>6, <1>7, <1>8 DEF IssueEffect

\* A fresh token and a fresh family: nothing that exists refers to them.
LEMMA IssueInv ==
  ASSUME IInv,
         NEW t \in Tokens, NEW f \in Families, NEW u \in Users, NEW ttl \in TTLs,
         Issue(t, f, u, ttl)
  PROVE  IInv'
<1>1. PICK vs \in SUBSET Families : IssueEffect(t, f, u, ttl, vs)
  BY IssueKeeps
<1> USE DEF IInv, IssueEffect
<1>2. /\ owner[t] = Nil /\ user[f] = Nil
      /\ owner' = [owner EXCEPT ![t] = f]
      /\ user' = [user EXCEPT ![f] = u]
      /\ current' = [current EXCEPT ![f] = t]
      /\ score' = [score EXCEPT ![f] = now + ttl]
      /\ indexUntil' = [indexUntil EXCEPT ![u] = now + ttl]
      /\ UNCHANGED <<now, revoked, previous, ended>>
  BY DEF Issue
<1>3. \A g \in Families : user[g] # Nil => g # f /\ current[g] \in Tokens \ {t}
  BY <1>2 DEF TypeOK, Wellformed
<1>4. TypeOK'
  <2>1. /\ Sessions(u) \subseteq index[u] /\ index[u] \subseteq Families
        /\ \A g \in index[u] : user[g] = u
    BY DEF Sessions, TypeOK
  <2>2. index' \in [Users -> SUBSET Families]
    BY <1>1, <2>1 DEF TypeOK
  <2>3. \A v \in Users : \A g \in index'[v] : user'[g] = v
    BY <1>1, <1>2, <1>3, <2>1 DEF TypeOK
  <2>4. \A g \in Families : user'[g] # Nil => owner'[current'[g]] = g
    BY <1>2, <1>3 DEF TypeOK
  <2> QED BY <1>1, <1>2, <2>2, <2>3, <2>4, Deadline DEF TypeOK
<1>5. Wellformed'
  BY <1>1, <1>2, <1>3 DEF Wellformed, TypeOK
<1>6. ReplayKnown'
  <2> SUFFICES ASSUME NEW g \in Families, previous[g] # Nil
               PROVE  /\ owner'[previous[g]] = g
                      /\ previous[g] # current'[g]
                      /\ Alive(g)' => tokenUntil'[current'[g]] <= tokenUntil'[previous[g]]
    BY <1>2 DEF ReplayKnown
  <2>1. /\ user[g] # Nil /\ g # f
        /\ previous[g] \in Tokens \ {t} /\ owner[previous[g]] = g
        /\ current'[g] = current[g] /\ current[g] \in Tokens \ {t}
    BY <1>2, <1>3 DEF ReplayKnown, Wellformed, TypeOK
  <2>2. owner'[previous[g]] = g /\ previous[g] # current'[g]
    BY <1>2, <2>1 DEF ReplayKnown
  <2>3. ASSUME Alive(g)'
        PROVE  tokenUntil'[current'[g]] <= tokenUntil'[previous[g]]
    <3>1. g \notin vs /\ Alive(g)
      BY <1>1, <1>2, <2>1, <2>3, TimesNat DEF Alive, TypeOK
    <3>2. previous[g] \notin CurrentTokens(vs \ {f})
      <4> SUFFICES ASSUME NEW h \in vs, Alive(h), previous[g] = current[h]
                   PROVE  FALSE
        BY DEF CurrentTokens
      <4>1. user[h] # Nil
        BY DEF Alive, Wellformed, TypeOK
      <4>2. owner[current[h]] = h
        BY <4>1 DEF TypeOK
      <4> QED BY <2>1, <3>1, <4>2
    <3>3. tokenUntil[current[g]] <= tokenUntil[previous[g]]
      BY <3>1 DEF ReplayKnown
    <3>4. /\ tokenUntil'[previous[g]] = tokenUntil[previous[g]]
          /\ tokenUntil'[current[g]] \in {0, tokenUntil[current[g]]}
      BY <1>1, <2>1, <3>2
    <3>5. tokenUntil[previous[g]] \in Nat /\ tokenUntil[current[g]] \in Nat
      BY <2>1, TimesNat DEF TypeOK
    <3> QED BY <2>1, <3>3, <3>4, <3>5
  <2> QED BY <2>2, <2>3
<1> QED BY <1>4, <1>5, <1>6

\* The consumed token and its successor get the same deadline.
LEMMA RotateInv ==
  ASSUME IInv,
         NEW t \in Tokens, NEW n \in Tokens, NEW ttl \in TTLs,
         RotateOk(t, n, ttl)
  PROVE  IInv'
<1> USE DEF IInv
<1> DEFINE f == owner[t]
<1>1. /\ f \in Families /\ user[f] \in Users /\ current[f] = t /\ n # t
      /\ owner[n] = Nil /\ Alive(f)
  BY DEF RotateOk, Usable, Present, Wellformed, TypeOK
<1>2. /\ owner' = [owner EXCEPT ![n] = f]
      /\ current' = [current EXCEPT ![f] = n]
      /\ previous' = [previous EXCEPT ![f] = t]
      /\ tokenUntil' = [tokenUntil EXCEPT ![n] = now + ttl, ![t] = now + ttl]
      /\ familyUntil' = [familyUntil EXCEPT ![f] = now + ttl]
      /\ score' = [score EXCEPT ![f] = now + ttl]
      /\ index' = [index EXCEPT ![user[f]] = Sessions(user[f]) \cup {f}]
      /\ indexUntil' = [indexUntil EXCEPT ![user[f]] = now + ttl]
      /\ UNCHANGED <<now, user, revoked, ended>>
  BY DEF RotateOk, Slide
<1>3. \A g \in Families : user[g] # Nil => current[g] \in Tokens \ {n}
  BY <1>1 DEF TypeOK, Wellformed
<1>4. TypeOK'
  <2>1. /\ Sessions(user[f]) \subseteq index[user[f]]
        /\ \A v \in Users : \A g \in index'[v] : user[g] = v
    BY <1>1, <1>2 DEF Sessions, TypeOK
  <2>2. index' \in [Users -> SUBSET Families]
    BY <1>1, <1>2, <2>1 DEF TypeOK
  <2>3. \A g \in Families : user[g] # Nil => owner'[current'[g]] = g
    BY <1>1, <1>2, <1>3 DEF TypeOK
  <2> QED BY <1>1, <1>2, <2>1, <2>2, <2>3, Deadline DEF TypeOK
<1>5. Wellformed'
  BY <1>1, <1>2, <1>3 DEF Wellformed, TypeOK
<1>6. ReplayKnown'
  <2> SUFFICES ASSUME NEW g \in Families, previous'[g] # Nil
               PROVE  /\ owner'[previous'[g]] = g
                      /\ previous'[g] # current'[g]
                      /\ Alive(g)' => tokenUntil'[current'[g]] <= tokenUntil'[previous'[g]]
    BY DEF ReplayKnown
  <2>1. CASE g = f
    BY <1>1, <1>2, <2>1, TimesNat, Deadline DEF TypeOK
  <2>2. CASE g # f
    <3>1. /\ previous'[g] = previous[g] /\ current'[g] = current[g]
          /\ previous[g] \in Tokens \ {n, t} /\ owner[previous[g]] = g
          /\ user[g] # Nil /\ current[g] \in Tokens \ {n, t}
      BY <1>1, <1>2, <1>3, <2>2 DEF ReplayKnown, Wellformed, TypeOK
    <3>2. /\ tokenUntil'[previous[g]] = tokenUntil[previous[g]]
          /\ tokenUntil'[current[g]] = tokenUntil[current[g]]
          /\ owner'[previous[g]] = g /\ (Alive(g)' <=> Alive(g))
      BY <1>1, <1>2, <2>2, <3>1 DEF Alive, TypeOK
    <3> QED BY <3>1, <3>2 DEF ReplayKnown
  <2> QED BY <2>1, <2>2
<1> QED BY <1>4, <1>5, <1>6

\* The other scripts only take keys away, and the clock only lets them expire.
LEMMA TakeAway ==
  ASSUME IInv,
         UNCHANGED <<owner, user, current, score, previous>>,
         now' \in 0 .. MaxNow, now <= now',
         tokenUntil' \in [Tokens -> Times], familyUntil' \in [Families -> Times],
         revoked' \in [Families -> BOOLEAN], ended' \subseteq Families,
         index' \in [Users -> SUBSET Families], indexUntil' \in [Users -> Times],
         \A u \in Users : index'[u] \subseteq index[u],
         \A f \in Families : familyUntil'[f] \in {0, familyUntil[f]},
         \A t \in Tokens : tokenUntil'[t] \in {0, tokenUntil[t]},
         \* a family that lives on keeps its previous token
         \A f \in Families : Alive(f)' /\ previous[f] # Nil =>
           tokenUntil'[previous[f]] = tokenUntil[previous[f]]
  PROVE  IInv'
<1>1. TypeOK'
  BY DEF IInv, TypeOK
<1>2. Wellformed'
  BY DEF IInv, Wellformed, TypeOK
<1>3. ReplayKnown'
  <2> SUFFICES ASSUME NEW f \in Families, previous[f] # Nil
               PROVE  /\ owner[previous[f]] = f
                      /\ previous[f] # current[f]
                      /\ Alive(f)' => tokenUntil'[current[f]] <= tokenUntil'[previous[f]]
    BY DEF ReplayKnown
  <2>1. owner[previous[f]] = f /\ previous[f] # current[f]
    BY DEF IInv, ReplayKnown
  <2>2. ASSUME Alive(f)'
        PROVE  tokenUntil'[current[f]] <= tokenUntil'[previous[f]]
    <3>1. previous[f] \in Tokens /\ current[f] \in Tokens
      BY DEF IInv, Wellformed, TypeOK
    <3>2. /\ tokenUntil[previous[f]] \in Nat /\ tokenUntil'[previous[f]] \in Nat
          /\ tokenUntil[current[f]] \in Nat /\ tokenUntil'[current[f]] \in Nat
      BY <3>1, TimesNat DEF IInv, TypeOK
    <3>3. /\ familyUntil[f] \in Nat /\ now \in Nat /\ now' \in Nat
          /\ familyUntil'[f] \in {0, familyUntil[f]}
      BY ClockNat
    <3>4. Alive(f)
      BY <2>2, <3>3 DEF Alive
    <3>5. tokenUntil[current[f]] <= tokenUntil[previous[f]]
      BY <3>4 DEF IInv, ReplayKnown
    <3>6. tokenUntil'[current[f]] \in {0, tokenUntil[current[f]]}
      BY <3>1
    <3>7. tokenUntil'[previous[f]] = tokenUntil[previous[f]]
      BY <2>2
    <3> QED BY <3>2, <3>5, <3>6, <3>7
  <2> QED BY <2>1, <2>2
<1> QED BY <1>1, <1>2, <1>3 DEF IInv

\* ROTATE of a consumed token revokes its family.
LEMMA ReuseInv ==
  ASSUME IInv, NEW t \in Tokens, RotateReuse(t)
  PROVE  IInv'
<1> DEFINE f == owner[t]
<1>1. f \in Families /\ user[f] # Nil /\ current[f] \in Tokens
  BY DEF RotateReuse, Present, IInv, TypeOK, Wellformed
<1>2. /\ revoked' = [revoked EXCEPT ![f] = TRUE]
      /\ tokenUntil' = [tokenUntil EXCEPT ![current[f]] = 0]
      /\ ended' = ended \cup {f}
      /\ UNCHANGED <<now, owner, user, current, familyUntil, index, score, indexUntil, previous>>
  BY DEF RotateReuse, indexVars
<1>3. /\ now' \in 0 .. MaxNow /\ now <= now' /\ familyUntil' \in [Families -> Times]
      /\ revoked' \in [Families -> BOOLEAN] /\ ended' \subseteq Families
      /\ index' \in [Users -> SUBSET Families] /\ indexUntil' \in [Users -> Times]
      /\ tokenUntil' \in [Tokens -> Times]
  BY <1>1, <1>2, TimesNat DEF IInv, TypeOK
<1>4. \A n \in Tokens : tokenUntil'[n] \in {0, tokenUntil[n]}
  BY <1>1, <1>2 DEF IInv, TypeOK
<1>5. ASSUME NEW g \in Families, previous[g] # Nil
      PROVE  tokenUntil'[previous[g]] = tokenUntil[previous[g]]
  <2>1. previous[g] \in Tokens /\ owner[previous[g]] = g /\ previous[g] # current[g]
    BY <1>5 DEF IInv, TypeOK, ReplayKnown
  <2>2. previous[g] # current[f]
    BY <1>1, <2>1 DEF IInv, TypeOK
  <2> QED BY <1>1, <1>2, <2>1, <2>2 DEF IInv, TypeOK
<1> QED BY <1>2, <1>3, <1>4, <1>5, TakeAway

\* REVOKE deletes one family and its current token.
LEMMA RevokeInv ==
  ASSUME IInv, NEW t \in Tokens, Revoke(t)
  PROVE  IInv'
<1> DEFINE f == owner[t]
           gone == {t} \cup CurrentTokens({f})
<1>1. f \in Families /\ user[f] \in Users
  BY DEF Revoke, Present, IInv, TypeOK, Wellformed
<1>2. /\ tokenUntil' = Deleted(tokenUntil, gone)
      /\ familyUntil' = Deleted(familyUntil, {f})
      /\ index' = IF Alive(f) THEN [index EXCEPT ![user[f]] = @ \ {f}] ELSE index
      /\ ended' = ended \cup {f}
      /\ UNCHANGED <<now, owner, user, current, revoked, score, indexUntil, previous>>
  BY DEF Revoke
<1>3. /\ tokenUntil' \in [Tokens -> Times]
      /\ \A n \in Tokens : tokenUntil'[n] = IF n \in gone THEN 0 ELSE tokenUntil[n]
  BY <1>2, TimesNat DEF Deleted, IInv, TypeOK
<1>4. /\ familyUntil' \in [Families -> Times]
      /\ \A g \in Families : familyUntil'[g] = IF g = f THEN 0 ELSE familyUntil[g]
  BY <1>2, TimesNat DEF Deleted, IInv, TypeOK
<1>5. ASSUME NEW g \in Families, Alive(g)', previous[g] # Nil
      PROVE  tokenUntil'[previous[g]] = tokenUntil[previous[g]]
  <2>1. g # f
    <3>1. now' \in Nat /\ now' < familyUntil'[g]
      BY <1>2, <1>5, ClockNat DEF Alive
    <3>2. g = f => familyUntil'[g] = 0
      BY <1>4
    <3> QED BY <3>1, <3>2
  <2>2. previous[g] \in Tokens /\ owner[previous[g]] = g
    BY <1>5 DEF IInv, TypeOK, ReplayKnown
  <2>3. previous[g] # t /\ previous[g] # current[f]
    BY <1>1, <2>1, <2>2 DEF IInv, TypeOK
  <2> QED BY <1>3, <2>2, <2>3 DEF CurrentTokens
<1>6. /\ index' \in [Users -> SUBSET Families]
      /\ \A u \in Users : index'[u] \subseteq index[u]
  BY <1>1, <1>2 DEF IInv, TypeOK
<1>7. /\ now' \in 0 .. MaxNow /\ now <= now' /\ revoked' \in [Families -> BOOLEAN]
      /\ ended' \subseteq Families /\ indexUntil' \in [Users -> Times]
  BY <1>1, <1>2 DEF IInv, TypeOK
<1>8. /\ \A g \in Families : familyUntil'[g] \in {0, familyUntil[g]}
      /\ \A n \in Tokens : tokenUntil'[n] \in {0, tokenUntil[n]}
  BY <1>3, <1>4
<1> QED BY <1>2, <1>3, <1>4, <1>5, <1>6, <1>7, <1>8, TakeAway

\* REVOKE_ALL deletes every family the set of the user still names.
LEMMA RevokeAllInv ==
  ASSUME IInv, NEW u \in Users, RevokeAll(u)
  PROVE  IInv'
<1> DEFINE gone == CurrentTokens(Sessions(u))
<1>1. /\ tokenUntil' = Deleted(tokenUntil, gone)
      /\ familyUntil' = Deleted(familyUntil, Sessions(u))
      /\ index' = [index EXCEPT ![u] = {}]
      /\ ended' = ended \cup {f \in Families : user[f] = u}
      /\ UNCHANGED <<now, owner, user, current, revoked, score, previous>>
  BY DEF RevokeAll
<1>2. /\ tokenUntil' \in [Tokens -> Times]
      /\ \A n \in Tokens : tokenUntil'[n] = IF n \in gone THEN 0 ELSE tokenUntil[n]
  BY <1>1, TimesNat DEF Deleted, IInv, TypeOK
<1>3. /\ familyUntil' \in [Families -> Times]
      /\ \A g \in Families :
           familyUntil'[g] = IF g \in Sessions(u) THEN 0 ELSE familyUntil[g]
  BY <1>1, TimesNat DEF Deleted, IInv, TypeOK
<1>4. ASSUME NEW g \in Families, Alive(g)', previous[g] # Nil
      PROVE  tokenUntil'[previous[g]] = tokenUntil[previous[g]]
  <2>1. g \notin Sessions(u)
    BY <1>1, <1>3, <1>4, ClockNat DEF Alive
  <2>2. previous[g] \in Tokens /\ owner[previous[g]] = g
    BY <1>4 DEF IInv, TypeOK, ReplayKnown
  <2>3. previous[g] \notin gone
    <3> SUFFICES ASSUME NEW h \in Sessions(u), previous[g] = current[h]
                 PROVE  FALSE
      BY DEF CurrentTokens
    <3>1. h \in Families /\ user[h] # Nil
      BY DEF Sessions, IInv, TypeOK
    <3> QED BY <2>1, <2>2, <3>1 DEF IInv, TypeOK
  <2> QED BY <1>2, <2>2, <2>3
<1>5. /\ index' \in [Users -> SUBSET Families] /\ indexUntil' \in [Users -> Times]
      /\ \A v \in Users : index'[v] \subseteq index[v]
  BY TimesNat DEF RevokeAll, IInv, TypeOK
<1>6. /\ now' \in 0 .. MaxNow /\ now <= now' /\ revoked' \in [Families -> BOOLEAN]
      /\ ended' \subseteq Families
  BY <1>1 DEF IInv, TypeOK
<1>7. /\ \A g \in Families : familyUntil'[g] \in {0, familyUntil[g]}
      /\ \A n \in Tokens : tokenUntil'[n] \in {0, tokenUntil[n]}
  BY <1>2, <1>3
<1> QED BY <1>1, <1>2, <1>3, <1>4, <1>5, <1>6, <1>7, TakeAway

\* Time passes: keys expire, nothing else changes.
LEMMA TickInv ==
  ASSUME IInv, Tick
  PROVE  IInv'
<1>1. /\ now' \in 0 .. MaxNow /\ now <= now'
      /\ UNCHANGED <<tokenVars, familyVars, indexVars, previous, ended>>
  BY DEF Tick, IInv, TypeOK
<1> QED BY <1>1, TakeAway DEF tokenVars, familyVars, indexVars, IInv, TypeOK

\* A step that changes nothing.
LEMMA StutterInv == IInv /\ UNCHANGED vars => IInv'
  BY DEF IInv, TypeOK, Wellformed, ReplayKnown, Alive, vars, tokenVars, familyVars, indexVars

\* The invariant of every mix of TTLs, one case per script.
THEOREM Invariance == Spec => []IInv
<1>1. IInv /\ [Next]_vars => IInv'
  <2> SUFFICES ASSUME IInv, [Next]_vars
               PROVE  IInv'
    OBVIOUS
  <2>1. CASE \E t \in Tokens, f \in Families, u \in Users, ttl \in TTLs : Issue(t, f, u, ttl)
    BY <2>1, IssueInv
  <2>2. CASE \E t, n \in Tokens, ttl \in TTLs : RotateOk(t, n, ttl)
    BY <2>2, RotateInv
  <2>3. CASE \E t \in Tokens : RotateInvalid(t) \/ RotateRevoked(t)
    BY <2>3, StutterInv DEF RotateInvalid, RotateRevoked
  <2>4. CASE \E t \in Tokens : RotateReuse(t)
    BY <2>4, ReuseInv
  <2>5. CASE \E t \in Tokens : Revoke(t)
    BY <2>5, RevokeInv
  <2>6. CASE \E u \in Users : RevokeAll(u)
    BY <2>6, RevokeAllInv
  <2>7. CASE Tick
    BY <2>7, TickInv
  <2>8. CASE UNCHANGED vars
    BY <2>8, StutterInv
  <2> QED BY <2>1, <2>2, <2>3, <2>4, <2>5, <2>6, <2>7, <2>8 DEF Next
<1> QED BY <1>1, InitIInv, PTL DEF Spec

\* Every variable keeps its type, members of a user's set are the user's, and
\* the current token of a family belongs to it.
THEOREM TypeCorrect == Spec => []TypeOK
<1>1. IInv => TypeOK
  BY DEF IInv
<1> QED BY <1>1, Invariance, PTL

\* The replay of the token just consumed is detectable while its successor is
\* accepted, for any mix of TTLs.
THEOREM ReplaysDetectable == Spec => []ReplayDetectable
<1>1. IInv => ReplayDetectable
  <2> SUFFICES ASSUME IInv, NEW t \in Tokens, Usable(t), previous[owner[t]] # Nil
               PROVE  Present(previous[owner[t]])
    BY DEF ReplayDetectable
  <2> DEFINE f == owner[t]
  <2>1. f \in Families /\ Alive(f) /\ current[f] = t /\ now < tokenUntil[t]
    BY DEF Usable, Present, IInv, TypeOK
  <2>2. previous[f] \in Tokens /\ owner[previous[f]] = f
    BY <2>1 DEF IInv, TypeOK, ReplayKnown
  <2>3. tokenUntil[t] <= tokenUntil[previous[f]]
    BY <2>1 DEF IInv, ReplayKnown
  <2>4. now \in Nat /\ tokenUntil[t] \in Nat /\ tokenUntil[previous[f]] \in Nat
    BY <2>2, ClockNat
  <2>5. now < tokenUntil[previous[f]]
    BY <2>1, <2>3, <2>4
  <2>6. owner[previous[f]] # Nil
    BY <2>1, <2>2
  <2> QED BY <2>5, <2>6 DEF Present
<1> QED BY <1>1, Invariance, PTL
-------------------------------------------------------------------------------
(***************************************************************************)
(* One TTL: the user's set knows every family that lives.                  *)
(***************************************************************************)

\* An empty store lists everyone.
LEMMA InitListInv == Init => ListInv /\ IndexCapped
<1> SUFFICES ASSUME Init PROVE ListInv /\ IndexCapped
  OBVIOUS
<1>1. Listed /\ EndedIsDead
  BY DEF Init, Listed, EndedIsDead, Alive
<1>2. WithinTtl
  BY DEF Init, WithinTtl
<1>3. \A u \in Users : Cardinality(index[u]) = 0
  BY FS_EmptySet DEF Init
<1> QED BY <1>1, <1>2, <1>3 DEF ListInv, IndexCapped

\* The set of the new session's user keeps whoever is alive, the victims aside.
LEMMA IssueListed ==
  ASSUME OneTtl, IInv, ListInv,
         NEW t \in Tokens, NEW f \in Families, NEW u \in Users, NEW ttl \in TTLs,
         Issue(t, f, u, ttl)
  PROVE  ListInv'
<1>1. PICK vs \in SUBSET Families : IssueEffect(t, f, u, ttl, vs)
  BY IssueKeeps
<1>2. /\ user[f] = Nil
      /\ user' = [user EXCEPT ![f] = u]
      /\ score' = [score EXCEPT ![f] = now + ttl]
      /\ indexUntil' = [indexUntil EXCEPT ![u] = now + ttl]
      /\ UNCHANGED <<now, revoked, ended>>
  BY DEF Issue
<1>3. /\ index' = [index EXCEPT ![u] = ({g \in Sessions(u) : score[g] >= now} \cup {f}) \ vs]
      /\ \A g \in Families :
           familyUntil'[g] = IF g \in vs THEN 0
                             ELSE IF g = f THEN now + ttl ELSE familyUntil[g]
  BY <1>1 DEF IssueEffect
<1>4. /\ now \in Nat /\ ttl \in Nat /\ indexUntil[u] \in Nat
      /\ \A g \in Families : familyUntil[g] \in Nat /\ score[g] \in Nat
  BY ClockNat
<1>5. \A g \in Families : familyUntil[g] <= now + ttl
  BY DEF ListInv, WithinTtl
<1>6. Listed'
  <2> SUFFICES ASSUME NEW g \in Families, Alive(g)'
               PROVE  /\ g \in index'[user'[g]]
                      /\ score'[g] = familyUntil'[g]
                      /\ familyUntil'[g] <= indexUntil'[user'[g]]
    BY DEF Listed
  <2>1. g \notin vs
    BY <1>2, <1>3, <1>4 DEF Alive
  <2>2. CASE g = f
    BY <1>2, <1>3, <1>4, <2>1, <2>2 DEF IInv, TypeOK
  <2>3. CASE g # f
    <3>1. Alive(g) /\ familyUntil'[g] = familyUntil[g] /\ user'[g] = user[g]
          /\ score'[g] = score[g]
      BY <1>2, <1>3, <2>1, <2>3 DEF Alive, IInv, TypeOK
    <3>2. user[g] \in Users
      BY <1>4, <3>1 DEF Alive, IInv, TypeOK, Wellformed
    <3>3. /\ g \in index[user[g]] /\ score[g] = familyUntil[g]
          /\ familyUntil[g] <= indexUntil[user[g]]
      BY <3>1 DEF ListInv, Listed
    <3>4. CASE user[g] = u
      <4>1. now < familyUntil[g]
        BY <3>1 DEF Alive
      <4>2. now < indexUntil[u] /\ score[g] >= now
        BY <1>4, <3>3, <3>4, <4>1
      <4>3. g \in index'[u]
        BY <1>3, <2>1, <3>3, <3>4, <4>2 DEF Sessions, IInv, TypeOK
      <4> QED BY <1>2, <1>5, <3>1, <3>3, <3>4, <4>3 DEF IInv, TypeOK
    <3>5. CASE user[g] # u
      BY <1>2, <1>3, <3>1, <3>2, <3>3, <3>5 DEF IInv, TypeOK
    <3> QED BY <3>4, <3>5
  <2> QED BY <2>2, <2>3
<1>7. WithinTtl'
  <2> SUFFICES ASSUME NEW g \in Families, NEW d \in TTLs
               PROVE  familyUntil'[g] <= now + d
    BY <1>2 DEF WithinTtl
  <2>1. d = ttl /\ familyUntil'[g] \in {0, now + ttl, familyUntil[g]}
    BY <1>3 DEF OneTtl
  <2> QED BY <1>4, <1>5, <2>1
<1>8. EndedIsDead'
  BY <1>2, <1>3, <1>4 DEF ListInv, EndedIsDead, Alive, IInv, TypeOK
<1> QED BY <1>6, <1>7, <1>8 DEF ListInv

\* A rotation leaves the members of the set alone, and moves its expiry to a
\* point no other family reaches beyond.
LEMMA RotateListed ==
  ASSUME OneTtl, IInv, ListInv,
         NEW t \in Tokens, NEW n \in Tokens, NEW ttl \in TTLs,
         RotateOk(t, n, ttl)
  PROVE  ListInv' /\ index' = index
<1> DEFINE f == owner[t]
<1>1. f \in Families /\ user[f] \in Users /\ Alive(f) /\ ~revoked[f]
  BY DEF RotateOk, Usable, Present, Wellformed, IInv, TypeOK
<1>2. /\ familyUntil' = [familyUntil EXCEPT ![f] = now + ttl]
      /\ score' = [score EXCEPT ![f] = now + ttl]
      /\ index' = [index EXCEPT ![user[f]] = Sessions(user[f]) \cup {f}]
      /\ indexUntil' = [indexUntil EXCEPT ![user[f]] = now + ttl]
      /\ UNCHANGED <<now, user, revoked, ended>>
  BY DEF RotateOk, Slide
<1>3. /\ now \in Nat /\ ttl \in Nat
      /\ \A g \in Families : familyUntil[g] \in Nat
      /\ \A u \in Users : indexUntil[u] \in Nat
  BY ClockNat
<1>4. \A g \in Families : familyUntil[g] <= now + ttl
  BY DEF ListInv, WithinTtl
<1>5. index' = index
  <2>1. f \in index[user[f]] /\ now < indexUntil[user[f]]
    BY <1>1, <1>3 DEF ListInv, Listed, Alive
  <2> QED BY <1>1, <1>2, <2>1 DEF Sessions, IInv, TypeOK
<1>6. Listed'
  <2> SUFFICES ASSUME NEW g \in Families, Alive(g)'
               PROVE  /\ g \in index[user[g]]
                      /\ score'[g] = familyUntil'[g]
                      /\ familyUntil'[g] <= indexUntil'[user[g]]
    BY <1>2, <1>5 DEF Listed
  <2>1. CASE g = f
    BY <1>1, <1>2, <1>3, <2>1 DEF ListInv, Listed, IInv, TypeOK
  <2>2. CASE g # f
    <3>1. Alive(g) /\ familyUntil'[g] = familyUntil[g] /\ score'[g] = score[g]
      BY <1>2, <2>2 DEF Alive, IInv, TypeOK
    <3>2. /\ g \in index[user[g]] /\ score[g] = familyUntil[g]
          /\ familyUntil[g] <= indexUntil[user[g]]
      BY <3>1 DEF ListInv, Listed
    <3>3. user[g] \in Users
      BY <1>3, <3>1 DEF Alive, IInv, TypeOK, Wellformed
    <3> QED BY <1>1, <1>2, <1>4, <3>1, <3>2, <3>3 DEF IInv, TypeOK
  <2> QED BY <2>1, <2>2
<1>7. WithinTtl'
  <2> SUFFICES ASSUME NEW g \in Families, NEW d \in TTLs
               PROVE  familyUntil'[g] <= now + d
    BY <1>2 DEF WithinTtl
  <2>1. d = ttl /\ familyUntil'[g] \in {now + ttl, familyUntil[g]}
    BY <1>1, <1>2 DEF OneTtl, IInv, TypeOK
  <2> QED BY <1>3, <1>4, <2>1
<1>8. EndedIsDead'
  BY <1>1, <1>2 DEF ListInv, EndedIsDead, Alive, IInv, TypeOK
<1> QED BY <1>5, <1>6, <1>7, <1>8 DEF ListInv

\* Scripts that take keys away, and the clock: whoever still lives stays listed.
LEMMA TakeAwayListed ==
  ASSUME IInv, ListInv,
         UNCHANGED <<user, score>>, now' \in Nat, now <= now',
         \A f \in Families : familyUntil'[f] \in {0, familyUntil[f]},
         \A f \in Families : revoked[f] => revoked'[f],
         \A f \in Families : Alive(f) /\ Alive(f)' =>
           f \in index'[user[f]] /\ indexUntil'[user[f]] = indexUntil[user[f]],
         \A f \in ended' :
           f \in ended \/ (f \in Families /\ user[f] # Nil /\ (revoked'[f] \/ ~Alive(f)'))
  PROVE  ListInv'
<1>1. now \in Nat /\ \A f \in Families : familyUntil[f] \in Nat
  BY ClockNat
<1>2. \A f \in Families : Alive(f)' => Alive(f) /\ familyUntil'[f] = familyUntil[f]
  BY <1>1 DEF Alive
<1>3. Listed'
  BY <1>2 DEF ListInv, Listed
<1>4. WithinTtl'
  <2> SUFFICES ASSUME NEW f \in Families, NEW ttl \in TTLs
               PROVE  familyUntil'[f] <= now' + ttl
    BY DEF WithinTtl
  <2>1. familyUntil[f] <= now + ttl /\ ttl \in Nat
    BY DEF ListInv, WithinTtl
  <2> QED BY <1>1, <2>1
<1>5. EndedIsDead'
  <2> SUFFICES ASSUME NEW f \in ended'
               PROVE  user[f] # Nil /\ (revoked'[f] \/ ~Alive(f)')
    BY DEF EndedIsDead
  <2>1. CASE f \in ended
    BY <1>2, <2>1 DEF ListInv, EndedIsDead, IInv, TypeOK
  <2>2. CASE f \notin ended
    BY <2>2
  <2> QED BY <2>1, <2>2
<1> QED BY <1>3, <1>4, <1>5 DEF ListInv

\* Reuse detection ends a family and leaves it in the set.
LEMMA ReuseListed ==
  ASSUME IInv, ListInv, NEW t \in Tokens, RotateReuse(t)
  PROVE  ListInv'
<1> DEFINE f == owner[t]
<1>1. f \in Families /\ user[f] # Nil
  BY DEF RotateReuse, Present, IInv, TypeOK, Wellformed
<1>2. /\ revoked' = [revoked EXCEPT ![f] = TRUE]
      /\ ended' = ended \cup {f}
      /\ UNCHANGED <<now, user, familyUntil, index, score, indexUntil>>
  BY DEF RotateReuse, indexVars
<1>3. \A g \in Families : revoked'[g] = (revoked[g] \/ g = f)
  BY <1>1, <1>2 DEF IInv, TypeOK
<1>4. \A g \in Families : Alive(g) =>
        g \in index'[user[g]] /\ indexUntil'[user[g]] = indexUntil[user[g]]
  BY <1>2 DEF ListInv, Listed
<1>5. now' \in Nat /\ now <= now'
  BY <1>2, ClockNat
<1>6. \A g \in ended' : g \in ended \/ (g \in Families /\ user[g] # Nil /\ revoked'[g])
  BY <1>1, <1>2, <1>3
<1> QED BY <1>2, <1>3, <1>4, <1>5, <1>6, TakeAwayListed

\* REVOKE takes the family it ends out of the set.
LEMMA RevokeListed ==
  ASSUME IInv, ListInv, NEW t \in Tokens, Revoke(t)
  PROVE  ListInv'
<1> DEFINE f == owner[t]
<1>1. f \in Families /\ user[f] \in Users
  BY DEF Revoke, Present, IInv, TypeOK, Wellformed
<1>2. /\ familyUntil' = Deleted(familyUntil, {f})
      /\ index' = IF Alive(f) THEN [index EXCEPT ![user[f]] = @ \ {f}] ELSE index
      /\ ended' = ended \cup {f}
      /\ UNCHANGED <<now, owner, user, revoked, score, indexUntil>>
  BY DEF Revoke
<1>3. \A g \in Families : familyUntil'[g] = IF g = f THEN 0 ELSE familyUntil[g]
  BY <1>2 DEF Deleted, IInv, TypeOK
<1>4. now' \in Nat /\ now <= now' /\ now' = now
  BY <1>2, ClockNat
<1>5. ~Alive(f)'
  <2>1. familyUntil'[f] = 0 /\ f' = f
    BY <1>1, <1>2, <1>3
  <2> QED BY <1>4, <2>1 DEF Alive
<1>6. ASSUME NEW g \in Families, Alive(g), Alive(g)'
      PROVE  g \in index'[user[g]] /\ indexUntil'[user[g]] = indexUntil[user[g]]
  <2>1. g # f /\ g \in index[user[g]]
    BY <1>2, <1>5, <1>6 DEF ListInv, Listed
  <2>2. index[user[g]] \ {f} \subseteq index'[user[g]]
    BY <1>1, <1>2 DEF IInv, TypeOK
  <2> QED BY <1>2, <2>1, <2>2
<1>7. \A g \in ended' :
        g \in ended \/ (g \in Families /\ user[g] # Nil /\ ~Alive(g)')
  BY <1>1, <1>2, <1>5
<1>8. /\ \A g \in Families : familyUntil'[g] \in {0, familyUntil[g]}
      /\ \A g \in Families : revoked[g] => revoked'[g]
  BY <1>2, <1>3
<1> QED BY <1>2, <1>4, <1>6, <1>7, <1>8, TakeAwayListed

\* Logout everywhere finds every family that lives: Listed is what it needs.
LEMMA RevokeAllListed ==
  ASSUME IInv, ListInv, NEW u \in Users, RevokeAll(u)
  PROVE  ListInv'
<1>1. /\ familyUntil' = Deleted(familyUntil, Sessions(u))
      /\ index' = [index EXCEPT ![u] = {}]
      /\ indexUntil' = [indexUntil EXCEPT ![u] = 0]
      /\ ended' = ended \cup {f \in Families : user[f] = u}
      /\ UNCHANGED <<now, user, revoked, score>>
  BY DEF RevokeAll
<1>2. \A g \in Families :
        familyUntil'[g] = IF g \in Sessions(u) THEN 0 ELSE familyUntil[g]
  BY <1>1 DEF Deleted, IInv, TypeOK
<1>3. now' \in Nat /\ now <= now' /\ now' = now
  BY <1>1, ClockNat
<1>4. ASSUME NEW g \in Families, Alive(g)'
      PROVE  Alive(g) /\ user[g] # u
  <2>1. g \notin Sessions(u)
    BY <1>2, <1>3, <1>4 DEF Alive
  <2>2. Alive(g)
    BY <1>2, <1>3, <1>4, <2>1 DEF Alive
  <2>3. /\ g \in index[user[g]] /\ familyUntil[g] <= indexUntil[user[g]]
        /\ now < familyUntil[g]
    BY <2>2 DEF ListInv, Listed, Alive
  <2>4. user[g] = u => g \in Sessions(u)
    <3> SUFFICES ASSUME user[g] = u PROVE now < indexUntil[u]
      BY <2>3 DEF Sessions
    <3>1. now \in Nat /\ familyUntil[g] \in Nat /\ indexUntil[u] \in Nat
      BY ClockNat
    <3> QED BY <2>3, <3>1
  <2> QED BY <2>1, <2>2, <2>4
<1>5. \A g \in Families : Alive(g) /\ Alive(g)' =>
        g \in index'[user[g]] /\ indexUntil'[user[g]] = indexUntil[user[g]]
  <2> SUFFICES ASSUME NEW g \in Families, Alive(g), Alive(g)'
               PROVE  g \in index'[user[g]] /\ indexUntil'[user[g]] = indexUntil[user[g]]
    OBVIOUS
  <2>1. user[g] # u /\ g \in index[user[g]]
    BY <1>4 DEF ListInv, Listed
  <2>2. user[g] \in Users
    <3>1. now \in Nat /\ now < familyUntil[g]
      BY ClockNat DEF Alive
    <3> QED BY <3>1 DEF IInv, TypeOK, Wellformed
  <2> QED BY <1>1, <2>1, <2>2 DEF IInv, TypeOK
<1>6. \A g \in ended' :
        g \in ended \/ (g \in Families /\ user[g] # Nil /\ ~Alive(g)')
  BY <1>1, <1>4
<1>7. /\ \A g \in Families : familyUntil'[g] \in {0, familyUntil[g]}
      /\ \A g \in Families : revoked[g] => revoked'[g]
  BY <1>1, <1>2
<1> QED BY <1>1, <1>3, <1>5, <1>6, <1>7, TakeAwayListed

\* A set outlives the families it names, so expiry hides none of them.
LEMMA TickListed ==
  ASSUME IInv, ListInv, Tick
  PROVE  ListInv'
<1>1. now' \in Nat /\ now <= now'
  BY ClockNat DEF Tick
<1>2. UNCHANGED <<user, revoked, familyUntil, index, score, indexUntil, ended>>
  BY DEF Tick, familyVars, indexVars
<1>3. \A g \in Families : Alive(g) => g \in index[user[g]]
  BY DEF ListInv, Listed
<1> QED BY <1>1, <1>2, <1>3, TakeAwayListed

\* A step that changes nothing.
LEMMA StutterListed == ListInv /\ UNCHANGED vars => ListInv'
  BY DEF ListInv, Listed, WithinTtl, EndedIsDead, Alive, vars, familyVars, indexVars

\* With one TTL the user's set knows every family that lives, in every state.
THEOREM ListInvariance == ASSUME OneTtl PROVE Spec => []ListInv
<1>1. IInv /\ ListInv /\ [Next]_vars => ListInv'
  <2> SUFFICES ASSUME IInv, ListInv, [Next]_vars
               PROVE  ListInv'
    OBVIOUS
  <2>1. CASE \E t \in Tokens, f \in Families, u \in Users, ttl \in TTLs : Issue(t, f, u, ttl)
    BY <2>1, IssueListed, OneTtl
  <2>2. CASE \E t, n \in Tokens, ttl \in TTLs : RotateOk(t, n, ttl)
    BY <2>2, RotateListed, OneTtl
  <2>3. CASE \E t \in Tokens : RotateInvalid(t) \/ RotateRevoked(t)
    BY <2>3, StutterListed DEF RotateInvalid, RotateRevoked
  <2>4. CASE \E t \in Tokens : RotateReuse(t)
    BY <2>4, ReuseListed
  <2>5. CASE \E t \in Tokens : Revoke(t)
    BY <2>5, RevokeListed
  <2>6. CASE \E u \in Users : RevokeAll(u)
    BY <2>6, RevokeAllListed
  <2>7. CASE Tick
    BY <2>7, TickListed
  <2>8. CASE UNCHANGED vars
    BY <2>8, StutterListed
  <2> QED BY <2>1, <2>2, <2>3, <2>4, <2>5, <2>6, <2>7, <2>8 DEF Next
<1> QED BY <1>1, InitListInv, Invariance, PTL DEF Spec

\* No session comes back after a detected replay, a logout or a logout
\* everywhere, if all managers on the store use one TTL.
THEOREM EndedForGood == ASSUME OneTtl PROVE Spec => []EndedStaysEnded
<1>1. IInv /\ ListInv => EndedStaysEnded
  BY DEF ListInv, EndedIsDead, EndedStaysEnded, Usable, IInv, TypeOK
<1> QED BY <1>1, Invariance, ListInvariance, OneTtl, PTL

-------------------------------------------------------------------------------
(***************************************************************************)
(* The cap.                                                                *)
(***************************************************************************)

\* What Issue leaves in the user's set is within the cap.
LEMMA VictimsSuffice ==
  ASSUME Cap > 0, NEW members, IsFiniteSet(members), NEW scores,
         NEW vs \in Victims(members, scores)
  PROVE  Cardinality(members \ vs) <= Cap
<1>1. Cardinality(members) \in Nat
  BY FS_CardinalityType
<1>2. CASE Cardinality(members) <= Cap
  <2>1. vs = {}
    BY <1>2 DEF Victims
  <2>2. members \ vs = members
    BY <2>1
  <2> QED BY <1>2, <2>2
<1>3. CASE ~(Cardinality(members) <= Cap)
  <2>1. vs \in SUBSET members /\ Cardinality(vs) = Cardinality(members) - Cap
    BY <1>3 DEF Victims
  <2>2. members \cap vs = vs
    BY <2>1
  <2>3. Cardinality(members \ vs) = Cardinality(members) - Cardinality(vs)
    BY <2>2, FS_Difference
  <2> QED BY <1>1, <2>1, <2>3
<1> QED BY <1>2, <1>3

LEMMA CappedStep ==
  ASSUME OneTtl, IsFiniteSet(Families), IInv, ListInv, IndexCapped, [Next]_vars
  PROVE  IndexCapped'
<1> SUFFICES ASSUME Cap > 0, NEW v \in Users
             PROVE  Cardinality(index'[v]) <= Cap
  BY DEF IndexCapped
<1>1. /\ Cardinality(index[v]) <= Cap
      /\ index[v] \subseteq Families /\ IsFiniteSet(index[v])
  BY FS_Subset DEF IndexCapped, IInv, TypeOK
<1>2. ASSUME index'[v] \subseteq index[v]
      PROVE  Cardinality(index'[v]) <= Cap
  <2>1. /\ Cardinality(index'[v]) <= Cardinality(index[v])
        /\ Cardinality(index'[v]) \in Nat /\ Cardinality(index[v]) \in Nat
    BY <1>1, <1>2, FS_Subset, FS_CardinalityType
  <2> QED BY <1>1, <2>1
<1>3. ASSUME NEW t \in Tokens, NEW f \in Families, NEW u \in Users, NEW ttl \in TTLs,
             Issue(t, f, u, ttl)
      PROVE  Cardinality(index'[v]) <= Cap
  <2> DEFINE members == {g \in Sessions(u) : score[g] >= now} \cup {f}
  <2>1. PICK vs \in SUBSET Families :
          IssueEffect(t, f, u, ttl, vs) /\ vs \in Victims(members, score')
    BY <1>3, IssueKeeps
  <2>2. index' = [index EXCEPT ![u] = members \ vs]
    BY <2>1 DEF IssueEffect
  <2>3. members \subseteq Families
    BY DEF Sessions, IInv, TypeOK
  <2>4. IsFiniteSet(members)
    BY <2>3, FS_Subset
  <2>5. Cardinality(members \ vs) <= Cap
    <3> HIDE DEF members
    <3> QED BY <2>1, <2>4, VictimsSuffice
  <2> QED BY <1>1, <2>2, <2>5 DEF IInv, TypeOK
<1>4. CASE \E t, n \in Tokens, ttl \in TTLs : RotateOk(t, n, ttl)
  BY <1>2, <1>4, RotateListed
<1>5. CASE \E t \in Tokens : Revoke(t)
  <2>1. PICK t \in Tokens : Revoke(t)
    BY <1>5
  <2>2. index'[v] \subseteq index[v]
    BY <2>1 DEF Revoke, IInv, TypeOK
  <2> QED BY <1>2, <2>2
<1>6. CASE \E u \in Users : RevokeAll(u)
  <2>1. index'[v] \subseteq index[v]
    BY <1>6 DEF RevokeAll, IInv, TypeOK
  <2> QED BY <1>2, <2>1
<1>7. CASE \/ \E t \in Tokens : RotateInvalid(t) \/ RotateRevoked(t) \/ RotateReuse(t)
           \/ Tick \/ UNCHANGED vars
  <2>1. index' = index
    BY <1>7 DEF RotateInvalid, RotateRevoked, RotateReuse, Tick, vars, indexVars
  <2> QED BY <1>1, <2>1
<1> QED BY <1>3, <1>4, <1>5, <1>6, <1>7 DEF Next

\* A user never has more sessions than the cap, if all managers on the store
\* use one TTL.
THEOREM CapCorrect == ASSUME OneTtl, IsFiniteSet(Families) PROVE Spec => []CapHolds
<1>1. IInv /\ ListInv /\ IndexCapped => CapHolds
  <2> SUFFICES ASSUME IInv, ListInv, IndexCapped, Cap > 0, NEW u \in Users
               PROVE  Cardinality(Live(u)) <= Cap
    BY DEF CapHolds
  <2>1. Live(u) \subseteq index[u]
    BY DEF Live, Usable, ListInv, Listed
  <2>2. index[u] \subseteq Families /\ Cardinality(index[u]) <= Cap
    BY DEF IndexCapped, IInv, TypeOK
  <2>3. IsFiniteSet(index[u])
    BY <2>2, FS_Subset
  <2>4. /\ Cardinality(Live(u)) <= Cardinality(index[u])
        /\ Cardinality(Live(u)) \in Nat /\ Cardinality(index[u]) \in Nat
    BY <2>1, <2>3, FS_Subset, FS_CardinalityType
  <2> QED BY <2>2, <2>4
<1>2. IInv /\ ListInv /\ IndexCapped /\ [Next]_vars => IndexCapped'
  BY CappedStep, OneTtl, IsFiniteSet(Families)
<1> QED BY <1>1, <1>2, InitListInv, Invariance, ListInvariance, OneTtl, PTL DEF Spec
==============================================================================
