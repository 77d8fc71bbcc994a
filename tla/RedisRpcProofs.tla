---------------------------- MODULE RedisRpcProofs ----------------------------
(***************************************************************************)
(* Proofs about RedisRpc: type correctness, the correlator's map, that a   *)
(* retry is not executed again, and the safety half of the refinement of   *)
(* RpcCall.  IInv follows an answer from the run that gave it through the  *)
(* store, the reply and the caller's outcome, and with it the fact that    *)
(* its key is recorded, or was evicted, in the store of the worker that    *)
(* ran it: nothing but an eviction makes a store forget a key.             *)
(***************************************************************************)
EXTENDS RedisRpc, SequenceTheorems, TLAPS

Keys == {IdemKey(c) : c \in Calls}

\* A store that had the key once knows it, unless it evicted it.
Kept(s, k) == Recorded(s, k) \/ <<s, k>> \in evicted

\* r is an answer to c: a run of c's operation, on a store that has its key.
Answers(c, r) ==
  /\ r \in runs
  /\ OpOf[r[2]] = OpOf[c]
  /\ KeyOf[c] # Nil => Kept(StoreOf[r[1]], IdemKey(c))

-------------------------------------------------------------------------------
(* The inductive invariant. *)

\* A call whose subscription is awaited has not settled.
ParkedWaits == \A c \in Calls : call[c] = "inbox" => outcome[c] = None

\* Nothing reaches a worker before the call was sent.
SentFirst == \A j \in Jobs : j \in requests \/ job[j] # "none" => call[j[2]] = "sent"

\* What a store holds under a key is a run of that operation by one of its workers.
EntriesAreRuns ==
  \A s \in Stores : \A n \in DOMAIN entries[s] :
    LET e == entries[s][n]
    IN  e.value \in runs /\ OpOf[e.value[2]] = e.key /\ StoreOf[e.value[1]] = s

\* What a job answers with is a run of the same operation on its store ...
JobsAnswer ==
  \A j \in Jobs : job[j] \notin {"none", "get"} =>
    value[j] \in runs /\ OpOf[value[j][2]] = OpOf[j[2]] /\ StoreOf[value[j][1]] = StoreOf[j[1]]

\* ... and it is recorded before it is published.
RecordedFirst ==
  \A j \in Jobs : job[j] \in {"reply", "done"} /\ KeyOf[j[2]] # Nil
    => Kept(StoreOf[j[1]], IdemKey(j[2]))

RepliesAnswer == \A c \in Calls, r \in Jobs : <<c, r>> \in replies => Answers(c, r)

OutcomesAnswer == \A c \in Calls : outcome[c] \in Jobs => Answers(c, outcome[c])

AnsweredKept ==
  \A c \in Calls, s \in Stores : KeyOf[c] # Nil /\ s \in answered[c] => Kept(s, IdemKey(c))

\* A job that has not looked up its key has not run, and will answer for itself.
Unstarted == \A j \in Jobs : job[j] \in {"none", "get"} => j \notin runs /\ value[j] = j

IInv ==
  /\ TypeOK
  /\ ParkedWaits /\ PendingIffWaiting
  /\ SentFirst /\ Unstarted
  /\ EntriesAreRuns /\ JobsAnswer /\ RecordedFirst
  /\ RepliesAnswer /\ OutcomesAnswer
  /\ AnsweredKept /\ RetryDoesNotRerun

-------------------------------------------------------------------------------
(* Sequences with one element less, and what set() does with them. *)

\* r is q without its i-th element.
Without(r, q, i) ==
  /\ Len(r) = Len(q) - 1
  /\ \A n \in 1 .. Len(r) : r[n] = q[IF n < i THEN n ELSE n + 1]

LEMMA RemoveAtProperties ==
  ASSUME NEW S, NEW q \in Seq(S), NEW i \in 1 .. Len(q)
  PROVE  RemoveAt(q, i) \in Seq(S) /\ Without(RemoveAt(q, i), q, i)
<1> DEFINE a == SubSeq(q, 1, i - 1)
           b == SubSeq(q, i + 1, Len(q))
<1>1. Len(q) \in Nat /\ i \in Nat /\ i >= 1 /\ i <= Len(q)
  OBVIOUS
<1>2. \A n \in 1 .. Len(q) : q[n] \in S
  BY ElementOfSeq
<1>3. a \in Seq(S) /\ Len(a) = i - 1 /\ \A n \in 1 .. i - 1 : a[n] = q[n]
  <2>1. 1 \in Int /\ i - 1 \in Int /\ \A n \in 1 .. i - 1 : q[n] \in S
    BY <1>1, <1>2
  <2> HIDE DEF a
  <2>2. /\ a \in Seq(S)
        /\ Len(a) = IF 1 <= i - 1 THEN (i - 1) - 1 + 1 ELSE 0
        /\ \A n \in 1 .. (i - 1) - 1 + 1 : a[n] = q[1 + n - 1]
    BY <2>1, SubSeqProperties DEF a
  <2> QED BY <1>1, <2>2
<1>4. b \in Seq(S) /\ Len(b) = Len(q) - i /\ \A n \in 1 .. Len(q) - i : b[n] = q[i + n]
  <2>1. \A n \in i + 1 .. Len(q) : q[n] \in S
    BY <1>1, <1>2
  <2>2. i + 1 \in Int /\ Len(q) \in Int
    BY <1>1
  <2> HIDE DEF b
  <2>3. /\ b \in Seq(S)
        /\ Len(b) = IF i + 1 <= Len(q) THEN Len(q) - (i + 1) + 1 ELSE 0
        /\ \A n \in 1 .. Len(q) - (i + 1) + 1 : b[n] = q[i + 1 + n - 1]
    BY <2>1, <2>2, SubSeqProperties DEF b
  <2> QED BY <1>1, <2>3
<1> HIDE DEF a, b
<1>5. /\ a \o b \in Seq(S)
      /\ Len(a \o b) = Len(a) + Len(b)
      /\ \A n \in 1 .. Len(a) + Len(b) : (a \o b)[n] = IF n <= Len(a) THEN a[n] ELSE b[n - Len(a)]
  BY <1>3, <1>4, ConcatProperties
<1>6. RemoveAt(q, i) = a \o b
  BY DEF RemoveAt, a, b
<1>7. Len(a \o b) = Len(q) - 1
  BY <1>1, <1>3, <1>4, <1>5
<1>8. ASSUME NEW n \in 1 .. Len(q) - 1
      PROVE  (a \o b)[n] = q[IF n < i THEN n ELSE n + 1]
  <2>1. CASE n < i
    BY <1>1, <1>3, <1>4, <1>5, <2>1
  <2>2. CASE ~(n < i)
    <3>1. (a \o b)[n] = b[n - (i - 1)] /\ n - (i - 1) \in 1 .. Len(q) - i
      BY <1>1, <1>3, <1>4, <1>5, <2>2
    <3> QED BY <1>1, <1>4, <2>2, <3>1
  <2> QED BY <2>1, <2>2
<1> QED BY <1>5, <1>6, <1>7, <1>8 DEF Without

LEMMA TailWithout ==
  ASSUME NEW S, NEW q \in Seq(S), q # <<>>
  PROVE  /\ 1 \in 1 .. Len(q) /\ Head(q) = q[1]
         /\ Tail(q) \in Seq(S) /\ Without(Tail(q), q, 1)
<1>1. Tail(q) \in Seq(S) /\ Len(Tail(q)) = Len(q) - 1 /\ \A n \in 1 .. Len(Tail(q)) : Tail(q)[n] = q[n + 1]
  BY HeadTailProperties
<1>2. Len(q) \in Nat \ {0}
  BY EmptySeq
<1>3. 1 \in 1 .. Len(q) /\ \A n \in 1 .. Len(Tail(q)) : ~(n < 1)
  BY <1>1, <1>2
<1> QED BY <1>1, <1>2, <1>3 DEF Without

\* What a Map holds.
Has(q, k) == \E n \in DOMAIN q : q[n].key = k
DistinctKeys(q) == \A m, n \in DOMAIN q : q[m].key = q[n].key => m = n

\* Appending e where the store has room keeps a Map a Map, and so does appending e in
\* the place of its own entry, or of any one if e's key is new.
LEMMA AppendedWithRoom ==
  ASSUME NEW q \in Seq(Entries), NEW r \in Seq(Entries), NEW e \in Entries,
         DistinctKeys(q), r = q, Len(q) < MaxEntries, ~Has(q, e.key)
  PROVE  /\ Append(r, e) \in Seq(Entries)
         /\ Len(Append(r, e)) <= MaxEntries
         /\ DistinctKeys(Append(r, e))
         /\ \A n \in DOMAIN Append(r, e) :
              Append(r, e)[n] = e \/ \E m \in DOMAIN q : Append(r, e)[n] = q[m]
         /\ Has(Append(r, e), e.key)
         /\ \A k : Has(q, k) => Has(Append(r, e), k)
<1> DEFINE a == Append(r, e)
<1>1. /\ a \in Seq(Entries) /\ Len(a) = Len(r) + 1
      /\ \A n \in 1 .. Len(r) : a[n] = r[n]
      /\ a[Len(r) + 1] = e
  BY AppendProperties
<1>2. /\ DOMAIN a = 1 .. Len(a) /\ DOMAIN q = 1 .. Len(q) /\ DOMAIN r = 1 .. Len(r)
      /\ Len(q) \in Nat /\ Len(r) \in Nat /\ MaxEntries \in Nat
  BY <1>1, EntriesAssumption
<1> HIDE DEF a
<1>3. \A n \in DOMAIN q : n \in DOMAIN a /\ a[n] = q[n] /\ a[n].key # e.key
  BY <1>1, <1>2 DEF Has
<1>4. \A n \in DOMAIN a : n \in DOMAIN q \/ (n = Len(q) + 1 /\ a[n] = e)
  <2>1. \A n \in 1 .. Len(r) + 1 : n \in 1 .. Len(r) \/ n = Len(r) + 1
    BY <1>2
  <2> QED BY <1>1, <1>2, <2>1
<1>5. DistinctKeys(a)
  BY <1>3, <1>4 DEF DistinctKeys
<1>6. Len(a) <= MaxEntries
  BY <1>1, <1>2
<1>7. Has(a, e.key)
  BY <1>1, <1>2 DEF Has
<1>8. \A k : Has(q, k) => Has(a, k)
  BY <1>3 DEF Has
<1> QED BY <1>1, <1>3, <1>4, <1>5, <1>6, <1>7, <1>8 DEF a

LEMMA AppendedInPlace ==
  ASSUME NEW q \in Seq(Entries), NEW r \in Seq(Entries), NEW e \in Entries,
         DistinctKeys(q), Len(q) <= MaxEntries,
         NEW i \in 1 .. Len(q), Without(r, q, i), q[i].key = e.key \/ ~Has(q, e.key)
  PROVE  /\ Append(r, e) \in Seq(Entries)
         /\ Len(Append(r, e)) <= MaxEntries
         /\ DistinctKeys(Append(r, e))
         /\ \A n \in DOMAIN Append(r, e) :
              Append(r, e)[n] = e \/ \E m \in DOMAIN q : Append(r, e)[n] = q[m]
         /\ Has(Append(r, e), e.key)
         /\ \A k : Has(q, k) => Has(Append(r, e), k) \/ (~Has(q, e.key) /\ k = q[i].key)
<1> DEFINE a == Append(r, e)
<1>1. /\ a \in Seq(Entries) /\ Len(a) = Len(r) + 1
      /\ \A n \in 1 .. Len(r) : a[n] = r[n]
      /\ a[Len(r) + 1] = e
  BY AppendProperties
<1>2. /\ DOMAIN a = 1 .. Len(a) /\ DOMAIN q = 1 .. Len(q) /\ DOMAIN r = 1 .. Len(r)
      /\ Len(q) \in Nat /\ Len(r) \in Nat /\ MaxEntries \in Nat
  BY <1>1, EntriesAssumption
<1> HIDE DEF a
<1> DEFINE o(n) == IF n < i THEN n ELSE n + 1
<1>3. Len(r) = Len(q) - 1 /\ \A n \in 1 .. Len(r) : r[n] = q[o(n)]
  BY DEF Without
<1>4. \A n \in 1 .. Len(r) : o(n) \in DOMAIN q /\ o(n) # i
  BY <1>2, <1>3
<1>5. \A m, n \in 1 .. Len(r) : o(m) = o(n) => m = n
  BY <1>2, <1>3
<1>6. \A m \in DOMAIN q : m # i => \E n \in 1 .. Len(r) : o(n) = m
  <2> TAKE m \in DOMAIN q
  <2> HAVE m # i
  <2>1. CASE m < i
    BY <1>2, <1>3, <2>1
  <2>2. CASE m > i
    <3>1. m - 1 \in 1 .. Len(r) /\ o(m - 1) = m
      BY <1>2, <1>3, <2>2
    <3> QED BY <3>1
  <2> QED BY <1>2, <2>1, <2>2
<1> HIDE DEF o
<1>7. \A n \in 1 .. Len(r) : n \in DOMAIN a /\ a[n] = q[o(n)]
  BY <1>1, <1>2, <1>3
<1>8. \A n \in DOMAIN a : n \in 1 .. Len(r) \/ (n = Len(r) + 1 /\ a[n] = e)
  <2>1. \A n \in 1 .. Len(r) + 1 : n \in 1 .. Len(r) \/ n = Len(r) + 1
    BY <1>2
  <2> QED BY <1>1, <1>2, <2>1
<1>9. \A n \in 1 .. Len(r) : a[n].key # e.key
  BY <1>2, <1>4, <1>7 DEF Has, DistinctKeys
<1>10. DistinctKeys(a)
  <2> SUFFICES ASSUME NEW m \in DOMAIN a, NEW n \in DOMAIN a, a[m].key = a[n].key
               PROVE  m = n
    BY DEF DistinctKeys
  <2>1. CASE m \in 1 .. Len(r) /\ n \in 1 .. Len(r)
    <3>1. q[o(m)].key = q[o(n)].key
      BY <1>7, <2>1
    <3>2. o(m) = o(n)
      BY <1>4, <2>1, <3>1 DEF DistinctKeys
    <3> QED BY <1>5, <2>1, <3>2
  <2> QED BY <1>8, <1>9, <2>1
<1>11. Len(a) <= MaxEntries
  BY <1>1, <1>2, <1>3
<1>12. \A n \in DOMAIN a : a[n] = e \/ \E m \in DOMAIN q : a[n] = q[m]
  BY <1>4, <1>7, <1>8
<1>13. ASSUME NEW k, Has(q, k)
       PROVE  Has(a, k) \/ (~Has(q, e.key) /\ k = q[i].key)
  <2>1. PICK m \in DOMAIN q : q[m].key = k
    BY <1>13 DEF Has
  <2>2. CASE m # i
    <3>1. PICK n \in 1 .. Len(r) : o(n) = m
      BY <1>6, <2>2
    <3>2. n \in DOMAIN a /\ a[n].key = k
      BY <1>7, <2>1, <3>1
    <3> QED BY <3>2 DEF Has
  <2>3. CASE m = i /\ q[i].key = e.key
    BY <1>1, <1>2, <2>1, <2>3 DEF Has
  <2> QED BY <2>1, <2>2, <2>3
<1>14. Has(a, e.key)
  BY <1>1, <1>2 DEF Has
<1> QED BY <1>1, <1>10, <1>11, <1>12, <1>13, <1>14 DEF a

\* set() on a typed store: it stays a Map, gains the entry, and forgets no key that it
\* does not count as evicted.
LEMMA SetEffects ==
  ASSUME TypeOK, NEW s \in Stores, NEW k \in Keys, NEW v \in Jobs, Set(s, k, v)
  PROVE  /\ entries' \in [Stores -> Seq(Entries)]
         /\ \A t \in Stores : Len(entries'[t]) <= MaxEntries /\ DistinctKeys(entries'[t])
         /\ evicted' \subseteq Stores \X Keys
         /\ \A t \in Stores : \A n \in DOMAIN entries'[t] :
              \/ \E m \in DOMAIN entries[t] : entries'[t][n] = entries[t][m]
              \/ t = s /\ entries'[t][n] = [key |-> k, value |-> v]
         /\ Has(entries'[s], k)
         /\ \A t \in Stores : \A l : Has(entries[t], l) \/ <<t, l>> \in evicted
              => Has(entries'[t], l) \/ <<t, l>> \in evicted'
<1> DEFINE q == entries[s]
           e == [key |-> k, value |-> v]
           full == ~Recorded(s, k) /\ Len(q) >= MaxEntries
           rest == IF Recorded(s, k) THEN RemoveAt(q, Position(s, k))
                   ELSE IF full THEN Tail(q) ELSE q
           a == Append(rest, e)
<1>1. e \in Entries /\ e.key = k
  BY DEF Entries, Keys
<1>2. q \in Seq(Entries) /\ Len(q) <= MaxEntries /\ DistinctKeys(q)
  BY DEF TypeOK, DistinctKeys
<1>3. entries' = [entries EXCEPT ![s] = a]
  BY DEF Set
<1>4. evicted' = IF full THEN evicted \cup {<<s, Head(q).key>>} ELSE evicted
  BY DEF Set
<1>5. Recorded(s, k) <=> Has(q, k)
  BY DEF Recorded, Has
<1>6. DOMAIN q = 1 .. Len(q) /\ Len(q) \in Nat /\ MaxEntries \in Nat \ {0}
  BY <1>2, EntriesAssumption
<1> DEFINE Good ==
      /\ a \in Seq(Entries) /\ Len(a) <= MaxEntries /\ DistinctKeys(a) /\ Has(a, k)
      /\ \A n \in DOMAIN a : a[n] = e \/ \E m \in DOMAIN q : a[n] = q[m]
      /\ \A l : Has(q, l) => Has(a, l) \/ <<s, l>> \in evicted'
      /\ evicted \subseteq evicted' /\ evicted' \subseteq Stores \X Keys
<1>7. evicted \subseteq Stores \X Keys
  BY DEF TypeOK, Keys
<1> HIDE DEF e
<1>8. ASSUME Has(q, k)
      PROVE  Good
  <2> DEFINE i == Position(s, k)
  <2>1. i \in 1 .. Len(q) /\ q[i].key = k
    BY <1>6, <1>8 DEF Has, Position
  <2>2. rest = RemoveAt(q, i) /\ evicted' = evicted
    BY <1>4, <1>5, <1>8
  <2> HIDE DEF q, i, rest
  <2>3. rest \in Seq(Entries) /\ Without(rest, q, i)
    BY <1>2, <2>1, <2>2, RemoveAtProperties
  <2>4. /\ a \in Seq(Entries) /\ Len(a) <= MaxEntries /\ DistinctKeys(a) /\ Has(a, e.key)
        /\ \A n \in DOMAIN a : a[n] = e \/ \E m \in DOMAIN q : a[n] = q[m]
        /\ \A l : Has(q, l) => Has(a, l) \/ (~Has(q, e.key) /\ l = q[i].key)
    BY <1>1, <1>2, <2>1, <2>3, AppendedInPlace
  <2> HIDE DEF a, full
  <2>5. Good
    BY <1>1, <1>7, <1>8, <2>2, <2>4
  <2> QED BY <2>5
<1>9. ASSUME ~Has(q, k) /\ Len(q) >= MaxEntries
      PROVE  Good
  <2>1. rest = Tail(q) /\ evicted' = evicted \cup {<<s, Head(q).key>>}
    BY <1>4, <1>5, <1>9
  <2>2. q # <<>>
    BY <1>6, <1>9
  <2> HIDE DEF q, rest
  <2>3. 1 \in 1 .. Len(q) /\ Head(q) = q[1] /\ rest \in Seq(Entries) /\ Without(rest, q, 1)
    BY <1>2, <2>1, <2>2, TailWithout
  <2>4. q[1] \in Entries
    BY <1>2, <2>3, ElementOfSeq
  <2>5. q[1].key \in Keys
    BY <2>4 DEF Entries, Keys
  <2>6. /\ a \in Seq(Entries) /\ Len(a) <= MaxEntries /\ DistinctKeys(a) /\ Has(a, e.key)
        /\ \A n \in DOMAIN a : a[n] = e \/ \E m \in DOMAIN q : a[n] = q[m]
        /\ \A l : Has(q, l) => Has(a, l) \/ (~Has(q, e.key) /\ l = q[1].key)
    BY <1>1, <1>2, <1>9, <2>3, AppendedInPlace
  <2> HIDE DEF a, full
  <2>7. Good
    BY <1>1, <1>7, <2>1, <2>3, <2>5, <2>6
  <2> QED BY <2>7
<1>10. ASSUME ~Has(q, k) /\ ~(Len(q) >= MaxEntries)
      PROVE  Good
  <2>1. rest = q /\ evicted' = evicted /\ Len(q) < MaxEntries
    BY <1>4, <1>5, <1>6, <1>10
  <2> HIDE DEF q, rest
  <2>2. /\ a \in Seq(Entries) /\ Len(a) <= MaxEntries /\ DistinctKeys(a) /\ Has(a, e.key)
        /\ \A n \in DOMAIN a : a[n] = e \/ \E m \in DOMAIN q : a[n] = q[m]
        /\ \A l : Has(q, l) => Has(a, l)
    BY <1>1, <1>2, <1>10, <2>1, AppendedWithRoom
  <2> HIDE DEF a, full
  <2>3. Good
    BY <1>1, <1>7, <2>1, <2>2
  <2> QED BY <2>3
<1> HIDE DEF Good
<1>11. Good
  BY <1>8, <1>9, <1>10
<1> USE DEF Good
<1>12. entries \in [Stores -> Seq(Entries)] /\ \A t \in Stores : Len(entries[t]) <= MaxEntries /\ DistinctKeys(entries[t])
  BY DEF TypeOK, DistinctKeys
<1>13. entries'[s] = a /\ \A t \in Stores \ {s} : entries'[t] = entries[t]
  BY <1>3, <1>12
<1> HIDE DEF a
<1>14. entries' \in [Stores -> Seq(Entries)]
  BY <1>3, <1>11, <1>12
<1>15. \A t \in Stores : t = s \/ t \in Stores \ {s}
  OBVIOUS
<1>16. \A t \in Stores : Len(entries'[t]) <= MaxEntries /\ DistinctKeys(entries'[t])
  BY <1>11, <1>12, <1>13, <1>15
<1>17. \A t \in Stores : \A n \in DOMAIN entries'[t] :
         \/ \E m \in DOMAIN entries[t] : entries'[t][n] = entries[t][m]
         \/ t = s /\ entries'[t][n] = [key |-> k, value |-> v]
  <2> SUFFICES ASSUME NEW t \in Stores, NEW n \in DOMAIN entries'[t]
               PROVE  \/ \E m \in DOMAIN entries[t] : entries'[t][n] = entries[t][m]
                      \/ t = s /\ entries'[t][n] = e
    BY DEF e
  <2>1. CASE t = s
    BY <1>11, <1>13, <2>1
  <2>2. CASE t # s
    BY <1>13, <2>2
  <2> QED BY <2>1, <2>2
<1>18. Has(entries'[s], k)
  BY <1>11, <1>13
<1>19. \A t \in Stores : \A l : Has(entries[t], l) \/ <<t, l>> \in evicted
                          => Has(entries'[t], l) \/ <<t, l>> \in evicted'
  <2> SUFFICES ASSUME NEW t \in Stores, NEW l, Has(entries[t], l) \/ <<t, l>> \in evicted
               PROVE  Has(entries'[t], l) \/ <<t, l>> \in evicted'
    OBVIOUS
  <2>1. CASE t = s
    BY <1>11, <1>13, <2>1
  <2>2. CASE t # s
    BY <1>11, <1>13, <2>2
  <2> QED BY <2>1, <2>2
<1> QED BY <1>11, <1>14, <1>16, <1>17, <1>18, <1>19

-------------------------------------------------------------------------------
(* The invariant holds at the start and is kept by every step. *)

LEMMA InitIInv == Init => IInv
<1> SUFFICES ASSUME Init PROVE IInv
  OBVIOUS
<1> USE DEF Init
<1>1. TypeOK
  <2>1. entries \in [Stores -> Seq(Entries)] /\ \A s \in Stores : Len(entries[s]) = 0 /\ DOMAIN entries[s] = {}
    OBVIOUS
  <2> QED BY <2>1, EntriesAssumption DEF TypeOK
<1>2. ParkedWaits /\ PendingIffWaiting /\ SentFirst /\ Unstarted /\ RepliesAnswer /\ AnsweredKept
      /\ RetryDoesNotRerun
  BY DEF ParkedWaits, PendingIffWaiting, SentFirst, Unstarted, RepliesAnswer, AnsweredKept, RetryDoesNotRerun
<1>3. EntriesAreRuns
  <2>1. \A s \in Stores : DOMAIN entries[s] = {}
    OBVIOUS
  <2> QED BY <2>1 DEF EntriesAreRuns
<1>4. JobsAnswer /\ RecordedFirst
  BY DEF JobsAnswer, RecordedFirst
<1>5. OutcomesAnswer
  BY OutcomesAssumption DEF OutcomesAnswer
<1> QED BY <1>1, <1>2, <1>3, <1>4, <1>5 DEF IInv

\* An answer stays one while runs and stores only learn.
LEMMA AnswersStay ==
  ASSUME NEW c \in Calls, NEW r \in Jobs, Answers(c, r), runs \subseteq runs',
         \A s \in Stores : \A k : Kept(s, k) => Kept(s, k)'
  PROVE  Answers(c, r)'
<1>1. StoreOf[r[1]] \in Stores
  BY StoresAssumption DEF Jobs
<1> QED BY <1>1 DEF Answers

\* The client's steps leave the workers and their stores alone.
LEMMA ServerUntouched ==
  ASSUME IInv, UNCHANGED serverVars
  PROVE  /\ Unstarted' /\ EntriesAreRuns' /\ JobsAnswer' /\ RecordedFirst'
         /\ \A s \in Stores : \A k : Kept(s, k) <=> Kept(s, k)'
         /\ \A c \in Calls, r \in Jobs : Answers(c, r) => Answers(c, r)'
<1>1. runs' = runs /\ job' = job /\ value' = value /\ entries' = entries /\ evicted' = evicted
  BY DEF serverVars, storeVars
<1>2. \A s \in Stores : \A k : Kept(s, k) <=> Kept(s, k)'
  BY <1>1 DEF Kept, Recorded
<1>3. Unstarted' /\ EntriesAreRuns' /\ JobsAnswer'
  BY <1>1 DEF IInv, Unstarted, EntriesAreRuns, JobsAnswer
<1>4. RecordedFirst'
  BY <1>1 DEF IInv, RecordedFirst, Kept, Recorded
<1>5. \A c \in Calls, r \in Jobs : Answers(c, r) => Answers(c, r)'
  BY <1>1, <1>2, AnswersStay
<1> QED BY <1>2, <1>3, <1>4, <1>5

\* What a client's step that sends nothing and answers nobody has to keep.
LEMMA QuietClient ==
  ASSUME IInv, UNCHANGED <<serverVars, requests, answered>>,
         \A c \in Calls : call[c] = "sent" => call'[c] = "sent",
         replies' \subseteq replies,
         \A c \in Calls : outcome'[c] \in Jobs => outcome'[c] = outcome[c]
  PROVE  /\ SentFirst' /\ Unstarted' /\ EntriesAreRuns' /\ JobsAnswer' /\ RecordedFirst'
         /\ RepliesAnswer' /\ OutcomesAnswer' /\ AnsweredKept' /\ RetryDoesNotRerun'
<1>1. requests' = requests /\ answered' = answered /\ job' = job /\ runs' = runs /\ evicted' = evicted
  BY DEF serverVars, storeVars
<1>2. /\ Unstarted' /\ EntriesAreRuns' /\ JobsAnswer' /\ RecordedFirst'
      /\ \A s \in Stores : \A k : Kept(s, k) <=> Kept(s, k)'
      /\ \A c \in Calls, r \in Jobs : Answers(c, r) => Answers(c, r)'
  BY ServerUntouched
<1>3. SentFirst'
  BY <1>1 DEF IInv, SentFirst, Jobs
<1>4. RepliesAnswer'
  BY <1>2 DEF IInv, RepliesAnswer
<1>5. OutcomesAnswer'
  BY <1>2 DEF IInv, OutcomesAnswer
<1>6. AnsweredKept'
  BY <1>1, <1>2 DEF IInv, AnsweredKept
<1>7. RetryDoesNotRerun'
  BY <1>1 DEF IInv, RetryDoesNotRerun
<1> QED BY <1>2, <1>3, <1>4, <1>5, <1>6, <1>7

\* The types of a step that leaves the workers alone.
LEMMA ClientTypes ==
  ASSUME TypeOK, UNCHANGED serverVars,
         client' \in {"open", "draining", "quitting", "closed"},
         inboxSetup' \in {"none", "running", "done", "rejected"},
         call' \in [Calls -> {"idle", "inbox", "sent"}],
         pending' \subseteq Calls,
         outcome' \in [Calls -> {None, Failed} \cup Jobs],
         requests' \subseteq Jobs, replies' \subseteq Calls \X Jobs,
         answered' \in [Calls -> SUBSET Stores]
  PROVE  TypeOK'
<1>1. runs' = runs /\ job' = job /\ value' = value /\ entries' = entries /\ evicted' = evicted
  BY DEF serverVars, storeVars
<1> QED BY <1>1 DEF TypeOK

\* What the steps that fail some waiting calls, or none, have in common.
LEMMA FailingStep ==
  ASSUME IInv, NEW cs \in SUBSET Calls,
         UNCHANGED <<serverVars, requests, replies, answered>>,
         client' \in {"open", "draining", "quitting", "closed"},
         inboxSetup' \in {"none", "running", "done", "rejected"},
         pending' = pending \ cs,
         outcome' = [c \in Calls |-> IF c \in cs THEN Failed ELSE outcome[c]],
         call' \in [Calls -> {"idle", "inbox", "sent"}],
         \A c \in Calls : call[c] = "sent" <=> call'[c] = "sent",
         \A c \in Calls : call'[c] = "inbox" => call[c] = "inbox" /\ c \notin cs
  PROVE  IInv'
<1>1. None # Failed /\ None \notin Jobs /\ Failed \notin Jobs
  BY OutcomesAssumption
<1>2. TypeOK
  BY DEF IInv
<1>3. TypeOK'
  <2>1. pending' \subseteq Calls /\ outcome' \in [Calls -> {None, Failed} \cup Jobs]
    BY <1>2 DEF TypeOK
  <2>2. requests' \subseteq Jobs /\ replies' \subseteq Calls \X Jobs /\ answered' \in [Calls -> SUBSET Stores]
    BY <1>2 DEF TypeOK
  <2> QED BY <1>2, <2>1, <2>2, ClientTypes
<1>4. ParkedWaits'
  BY DEF IInv, ParkedWaits
<1>5. PendingIffWaiting'
  BY <1>1 DEF IInv, PendingIffWaiting
<1>6. \A c \in Calls : outcome'[c] \in Jobs => outcome'[c] = outcome[c]
  BY <1>1
<1>7. /\ SentFirst' /\ Unstarted' /\ EntriesAreRuns' /\ JobsAnswer' /\ RecordedFirst'
      /\ RepliesAnswer' /\ OutcomesAnswer' /\ AnsweredKept' /\ RetryDoesNotRerun'
  BY <1>6, QuietClient
<1> QED BY <1>3, <1>4, <1>5, <1>7 DEF IInv

LEMMA SubscribeFailsKeeps == IInv /\ SubscribeFails => IInv'
<1> SUFFICES ASSUME IInv, SubscribeFails PROVE IInv'
  OBVIOUS
<1>1. TypeOK /\ PendingIffWaiting
  BY DEF IInv
<1>2. pending' = pending \ Parked
  BY <1>1 DEF SubscribeFails, Parked, PendingIffWaiting
<1>3. call' \in [Calls -> {"idle", "inbox", "sent"}]
  BY <1>1 DEF SubscribeFails, TypeOK
<1>4. /\ UNCHANGED <<serverVars, requests, replies, answered>>
      /\ client' = client /\ inboxSetup' = "rejected"
      /\ outcome' = [c \in Calls |-> IF c \in Parked THEN Failed ELSE outcome[c]]
      /\ call' = [c \in Calls |-> IF c \in Parked THEN "idle" ELSE call[c]]
  BY DEF SubscribeFails
<1>5. \A c \in Calls : call[c] = "sent" <=> call'[c] = "sent"
  BY <1>4 DEF Parked
<1>6. \A c \in Calls : call'[c] = "inbox" => call[c] = "inbox" /\ c \notin Parked
  BY <1>4 DEF Parked
<1>7. Parked \in SUBSET Calls /\ client \in {"open", "draining", "quitting", "closed"}
  BY <1>1 DEF Parked, TypeOK
<1> HIDE DEF Parked
<1> QED BY <1>2, <1>3, <1>4, <1>5, <1>6, <1>7, FailingStep

LEMMA GivingUpKeeps ==
  ASSUME IInv, NEW c \in Calls, TimesOut(c) \/ PublishFails(c)
  PROVE  IInv'
<1>1. TypeOK /\ PendingIffWaiting /\ c \in pending
  BY DEF IInv, TimesOut, PublishFails
<1>2. /\ UNCHANGED <<client, inboxSetup, call, serverVars, requests, replies, answered>>
      /\ pending' = pending \ {c} /\ outcome' = [outcome EXCEPT ![c] = Failed]
  BY DEF TimesOut, PublishFails, Settle
<1>3. outcome' = [d \in Calls |-> IF d \in {c} THEN Failed ELSE outcome[d]]
  BY <1>1, <1>2 DEF TypeOK
<1>4. \A d \in Calls : call'[d] = "inbox" => call[d] = "inbox" /\ d \notin {c}
  BY <1>1, <1>2 DEF PendingIffWaiting
<1>5. /\ client' \in {"open", "draining", "quitting", "closed"}
      /\ inboxSetup' \in {"none", "running", "done", "rejected"}
      /\ call' \in [Calls -> {"idle", "inbox", "sent"}]
      /\ \A d \in Calls : call[d] = "sent" <=> call'[d] = "sent"
      /\ UNCHANGED <<serverVars, requests, replies, answered>>
  BY <1>1, <1>2 DEF TypeOK
<1> QED BY <1>2, <1>3, <1>4, <1>5, FailingStep

LEMMA ClosingKeeps == IInv /\ (Close \/ RejectAll \/ QuitEnds) => IInv'
<1> SUFFICES ASSUME IInv, Close \/ RejectAll \/ QuitEnds PROVE IInv'
  OBVIOUS
<1>1. TypeOK /\ PendingIffWaiting
  BY DEF IInv
<1>2. /\ UNCHANGED <<call, serverVars, requests, replies, answered>>
      /\ client' \in {"open", "draining", "quitting", "closed"}
      /\ inboxSetup' \in {"none", "running", "done", "rejected"}
      /\ \/ pending' = pending /\ outcome' = outcome
         \/ pending' = {} /\ outcome' = [c \in Calls |-> IF c \in pending THEN Failed ELSE outcome[c]]
  BY <1>1 DEF Close, RejectAll, QuitEnds, TypeOK
<1>3. /\ call' \in [Calls -> {"idle", "inbox", "sent"}]
      /\ \A c \in Calls : call[c] = "sent" <=> call'[c] = "sent"
      /\ UNCHANGED <<serverVars, requests, replies, answered>>
  BY <1>1, <1>2 DEF TypeOK
<1>4. CASE pending' = pending /\ outcome' = outcome
  <2>1. pending' = pending \ {} /\ outcome' = [c \in Calls |-> IF c \in {} THEN Failed ELSE outcome[c]]
    BY <1>1, <1>4 DEF TypeOK
  <2>2. \A c \in Calls : call'[c] = "inbox" => call[c] = "inbox" /\ c \notin {}
    BY <1>2
  <2>3. {} \in SUBSET Calls
    OBVIOUS
  <2> QED BY <1>2, <1>3, <2>1, <2>2, <2>3, FailingStep
<1>5. CASE pending' = {} /\ outcome' = [c \in Calls |-> IF c \in pending THEN Failed ELSE outcome[c]]
  <2>1. pending' = pending \ pending
    BY <1>5
  <2>2. \A c \in Calls : call'[c] = "inbox" => call[c] = "inbox" /\ c \notin pending
    BY <1>1, <1>2 DEF PendingIffWaiting
  <2>3. pending \in SUBSET Calls
    BY <1>1 DEF TypeOK
  <2> QED BY <1>2, <1>3, <1>5, <2>1, <2>2, <2>3, FailingStep
<1> QED BY <1>2, <1>4, <1>5

LEMMA DeliversKeeps ==
  ASSUME IInv, NEW c \in Calls, NEW r \in Jobs, Delivers(c, r)
  PROVE  IInv'
<1>1. TypeOK /\ PendingIffWaiting /\ ParkedWaits /\ RepliesAnswer /\ OutcomesAnswer
  BY DEF IInv
<1>2. /\ <<c, r>> \in replies /\ replies' = replies \ {<<c, r>>}
      /\ UNCHANGED <<client, inboxSetup, call, requests, serverVars, answered>>
      /\ \/ c \in pending /\ pending' = pending \ {c} /\ outcome' = [outcome EXCEPT ![c] = r]
         \/ pending' = pending /\ outcome' = outcome
  BY DEF Delivers, Settle
<1>3. /\ Unstarted' /\ EntriesAreRuns' /\ JobsAnswer' /\ RecordedFirst'
      /\ \A s \in Stores : \A k : Kept(s, k) <=> Kept(s, k)'
      /\ \A d \in Calls, q \in Jobs : Answers(d, q) => Answers(d, q)'
  BY <1>2, ServerUntouched
<1>4. call' = call /\ requests' = requests /\ answered' = answered /\ runs' = runs /\ job' = job /\ evicted' = evicted
  BY <1>2 DEF serverVars, storeVars
<1>5. TypeOK'
  <2>1. outcome' \in [Calls -> {None, Failed} \cup Jobs] /\ pending' \subseteq Calls
    BY <1>1, <1>2 DEF TypeOK
  <2>2. /\ client' \in {"open", "draining", "quitting", "closed"}
        /\ inboxSetup' \in {"none", "running", "done", "rejected"}
        /\ call' \in [Calls -> {"idle", "inbox", "sent"}]
        /\ requests' \subseteq Jobs /\ replies' \subseteq Calls \X Jobs
        /\ answered' \in [Calls -> SUBSET Stores]
        /\ UNCHANGED serverVars
    BY <1>1, <1>2 DEF TypeOK
  <2> QED BY <1>1, <2>1, <2>2, ClientTypes
<1>6. ParkedWaits' /\ PendingIffWaiting'
  <2>1. r # None
    BY OutcomesAssumption
  <2>2. ASSUME NEW d \in Calls, d # c
        PROVE  outcome'[d] = outcome[d] /\ (d \in pending' <=> d \in pending)
    BY <1>1, <1>2, <2>2 DEF TypeOK
  <2>3. \/ outcome'[c] = outcome[c] /\ (c \in pending' <=> c \in pending)
        \/ c \in pending /\ outcome'[c] = r /\ c \notin pending'
    BY <1>1, <1>2 DEF TypeOK
  <2> QED BY <1>1, <1>4, <2>1, <2>2, <2>3 DEF ParkedWaits, PendingIffWaiting
<1>7. SentFirst'
  BY <1>4 DEF IInv, SentFirst
<1>8. RepliesAnswer'
  BY <1>1, <1>2, <1>3 DEF RepliesAnswer
<1>9. OutcomesAnswer'
  <2>1. ASSUME NEW d \in Calls, NEW q \in Jobs, outcome'[d] = q
        PROVE  Answers(d, q)'
    <3>1. outcome[d] = q \/ (d = c /\ q = r)
      BY <1>1, <1>2, <2>1 DEF TypeOK
    <3>2. Answers(d, q)
      BY <1>1, <1>2, <3>1 DEF OutcomesAnswer, RepliesAnswer
    <3> QED BY <1>3, <3>2
  <2> QED BY <2>1 DEF OutcomesAnswer, Answers
<1>10. AnsweredKept' /\ RetryDoesNotRerun'
  BY <1>3, <1>4 DEF IInv, AnsweredKept, RetryDoesNotRerun
<1> QED BY <1>3, <1>5, <1>6, <1>7, <1>8, <1>9, <1>10 DEF IInv

\* The stores whose answers the client has when it sends c have c's key.
LEMMA AnsweredByKept ==
  ASSUME IInv, NEW c \in Calls
  PROVE  /\ AnsweredBy(c) \subseteq Stores
         /\ KeyOf[c] # Nil => \A s \in AnsweredBy(c) : Kept(s, IdemKey(c))
<1> SUFFICES ASSUME NEW d \in Calls, SameOp(d, c), outcome[d] \in Jobs
             PROVE  /\ StoreOf[outcome[d][1]] \in Stores
                    /\ KeyOf[c] # Nil => Kept(StoreOf[outcome[d][1]], IdemKey(c))
  BY DEF AnsweredBy
<1>1. StoreOf[outcome[d][1]] \in Stores
  BY StoresAssumption DEF Jobs
<1>2. KeyOf[d] # Nil /\ IdemKey(d) = IdemKey(c)
  BY DEF SameOp, IdemKey
<1>3. Answers(d, outcome[d])
  BY DEF IInv, OutcomesAnswer
<1> QED BY <1>1, <1>2, <1>3 DEF Answers

LEMMA SendRemembers ==
  ASSUME IInv, NEW c \in Calls, Send(c)
  PROVE  answered' \in [Calls -> SUBSET Stores] /\ AnsweredKept' /\ RetryDoesNotRerun'
<1>1. TypeOK /\ call[c] = "idle" /\ UNCHANGED serverVars /\ answered' = [answered EXCEPT ![c] = AnsweredBy(c)]
  BY DEF IInv, Send
<1>2. runs' = runs /\ evicted' = evicted
  BY <1>1 DEF serverVars, storeVars
<1>3. \A s \in Stores : \A k : Kept(s, k) <=> Kept(s, k)'
  BY <1>1, ServerUntouched
<1>4. /\ answered \in [Calls -> SUBSET Stores] /\ answered'[c] = AnsweredBy(c)
      /\ \A d \in Calls : d # c => answered'[d] = answered[d]
  BY <1>1 DEF TypeOK
<1>5. answered' \in [Calls -> SUBSET Stores]
  BY <1>1, <1>4, AnsweredByKept
<1>6. AnsweredKept'
  <2> SUFFICES ASSUME NEW d \in Calls, NEW s \in Stores, KeyOf[d] # Nil, s \in answered'[d]
               PROVE  Kept(s, IdemKey(d))'
    BY DEF AnsweredKept, IdemKey
  <2>1. Kept(s, IdemKey(d))
    BY <1>4, AnsweredByKept DEF IInv, AnsweredKept
  <2> QED BY <1>3, <2>1
<1>7. \A j \in runs : j \in Jobs /\ j[2] # c
  BY <1>1 DEF IInv, TypeOK, Unstarted, SentFirst
<1>8. RetryDoesNotRerun'
  <2>1. \A j \in runs : answered'[j[2]] = answered[j[2]]
    BY <1>4, <1>7 DEF Jobs
  <2> QED BY <1>2, <2>1 DEF IInv, RetryDoesNotRerun
<1> QED BY <1>5, <1>6, <1>8

\* Several calls are sent at once.
LEMMA SendingKeeps ==
  ASSUME IInv, NEW cs \in SUBSET Calls, Register(cs),
         \A c \in cs : outcome[c] = None,
         call' = [c \in Calls |-> IF c \in cs THEN "sent" ELSE call[c]],
         \A c \in Calls : call'[c] = "inbox" => c \notin cs,
         client' \in {"open", "draining", "quitting", "closed"},
         inboxSetup' \in {"none", "running", "done", "rejected"},
         UNCHANGED <<outcome, replies, serverVars>>,
         answered' \in [Calls -> SUBSET Stores], AnsweredKept', RetryDoesNotRerun'
  PROVE  IInv'
<1>1. TypeOK /\ PendingIffWaiting /\ ParkedWaits
  BY DEF IInv
<1>2. pending' = pending \cup cs
  BY DEF Register
<1>3. PICK heard \in SUBSET (Workers \X cs) : requests' = requests \cup heard
  BY DEF Register
<1>4. job' = job
  BY DEF serverVars
<1>5. /\ Unstarted' /\ EntriesAreRuns' /\ JobsAnswer' /\ RecordedFirst'
      /\ \A d \in Calls, q \in Jobs : Answers(d, q) => Answers(d, q)'
  BY ServerUntouched
<1>6. TypeOK'
  <2>1. requests' \subseteq Jobs
    BY <1>1, <1>3 DEF TypeOK, Jobs
  <2>2. call' \in [Calls -> {"idle", "inbox", "sent"}] /\ pending' \subseteq Calls
    BY <1>1, <1>2 DEF TypeOK
  <2>3. outcome' \in [Calls -> {None, Failed} \cup Jobs] /\ replies' \subseteq Calls \X Jobs
    BY <1>1 DEF TypeOK
  <2> QED BY <1>1, <2>1, <2>2, <2>3, ClientTypes
<1>7. ParkedWaits' /\ PendingIffWaiting'
  BY <1>1, <1>2 DEF ParkedWaits, PendingIffWaiting
<1>8. SentFirst'
  <2> SUFFICES ASSUME NEW j \in Jobs, j \in requests' \/ job'[j] # "none"
               PROVE  call'[j[2]] = "sent"
    BY DEF SentFirst
  <2>1. j[2] \in Calls
    BY DEF Jobs
  <2>2. CASE j \in heard
    BY <1>3, <2>1, <2>2
  <2>3. CASE j \notin heard
    <3>1. j \in requests \/ job[j] # "none"
      BY <1>3, <1>4, <2>3
    <3>2. call[j[2]] = "sent"
      BY <3>1 DEF IInv, SentFirst
    <3> QED BY <2>1, <3>2
  <2> QED BY <2>2, <2>3
<1>9. RepliesAnswer'
  BY <1>5 DEF IInv, RepliesAnswer
<1>10. OutcomesAnswer'
  <2>1. \A d \in Calls, q \in Jobs : outcome'[d] = q => Answers(d, q)'
    BY <1>5 DEF IInv, OutcomesAnswer
  <2> QED BY <2>1 DEF OutcomesAnswer, Answers
<1> QED BY <1>5, <1>6, <1>7, <1>8, <1>9, <1>10 DEF IInv

LEMMA SubscribedKeeps == IInv /\ Subscribed => IInv'
<1> SUFFICES ASSUME IInv, Subscribed PROVE IInv'
  OBVIOUS
<1>1. TypeOK /\ ParkedWaits
  BY DEF IInv
<1>2. /\ Register(Parked) /\ call' = [c \in Calls |-> IF c \in Parked THEN "sent" ELSE call[c]]
      /\ client' = client /\ inboxSetup' = "done"
      /\ UNCHANGED <<outcome, replies, serverVars, answered>>
  BY DEF Subscribed
<1>3. \A c \in Parked : outcome[c] = None
  BY <1>1 DEF Parked, ParkedWaits
<1>4. \A c \in Calls : call'[c] = "inbox" => c \notin Parked
  BY <1>2
<1>5. Parked \in SUBSET Calls /\ client' \in {"open", "draining", "quitting", "closed"}
      /\ answered' \in [Calls -> SUBSET Stores]
  BY <1>1, <1>2 DEF Parked, TypeOK
<1>6. AnsweredKept' /\ RetryDoesNotRerun'
  <2>1. answered' = answered /\ runs' = runs /\ evicted' = evicted
    BY <1>2 DEF serverVars, storeVars
  <2>2. \A s \in Stores : \A k : Kept(s, k) <=> Kept(s, k)'
    BY <1>2, ServerUntouched
  <2> QED BY <2>1, <2>2 DEF IInv, AnsweredKept, RetryDoesNotRerun
<1> HIDE DEF Parked
<1> QED BY <1>2, <1>3, <1>4, <1>5, <1>6, SendingKeeps

LEMMA SendKeeps ==
  ASSUME IInv, NEW c \in Calls, Send(c)
  PROVE  IInv'
<1>1. TypeOK /\ PendingIffWaiting /\ ParkedWaits
  BY DEF IInv
<1>2. /\ call[c] = "idle" /\ outcome[c] = None
      /\ UNCHANGED <<client, replies, serverVars>>
  BY DEF Send
<1>3. answered' \in [Calls -> SUBSET Stores] /\ AnsweredKept' /\ RetryDoesNotRerun'
  BY SendRemembers
<1>4. client' \in {"open", "draining", "quitting", "closed"} /\ inboxSetup \in {"none", "running", "done", "rejected"}
  BY <1>1, <1>2 DEF TypeOK
<1>5. CASE /\ call' = [call EXCEPT ![c] = "sent"] /\ Register({c})
           /\ UNCHANGED <<inboxSetup, outcome>>
  <2>1. call' = [d \in Calls |-> IF d \in {c} THEN "sent" ELSE call[d]]
    BY <1>1, <1>5 DEF TypeOK
  <2>2. \A d \in {c} : outcome[d] = None
    BY <1>2
  <2>3. \A d \in Calls : call'[d] = "inbox" => d \notin {c}
    BY <2>1
  <2> QED BY <1>2, <1>3, <1>4, <1>5, <2>1, <2>2, <2>3, SendingKeeps
<1>6. CASE /\ UNCHANGED <<pending, requests>> /\ inboxSetup' \in {"running", inboxSetup}
           /\ \/ call' = [call EXCEPT ![c] = "inbox"] /\ outcome' = outcome
              \/ call' = call /\ outcome' = [outcome EXCEPT ![c] = Failed]
  <2>1. None # Failed /\ Failed \notin Jobs
    BY OutcomesAssumption
  <2>2. TypeOK'
    <3>1. call' \in [Calls -> {"idle", "inbox", "sent"}] /\ outcome' \in [Calls -> {None, Failed} \cup Jobs]
      BY <1>1, <1>6 DEF TypeOK
    <3>2. pending' \subseteq Calls /\ requests' \subseteq Jobs /\ replies' \subseteq Calls \X Jobs
      BY <1>1, <1>2, <1>6 DEF TypeOK
    <3>3. inboxSetup' \in {"none", "running", "done", "rejected"}
      BY <1>4, <1>6
    <3> QED BY <1>1, <1>2, <1>3, <1>4, <3>1, <3>2, <3>3, ClientTypes
  <2>3. /\ \A d \in Calls : d # c => call'[d] = call[d] /\ outcome'[d] = outcome[d]
        /\ \/ call'[c] = "inbox" /\ outcome'[c] = None
           \/ call'[c] = "idle" /\ outcome'[c] = Failed
    BY <1>1, <1>2, <1>6 DEF TypeOK
  <2>4. ParkedWaits' /\ PendingIffWaiting'
    BY <1>1, <1>2, <1>6, <2>1, <2>3 DEF ParkedWaits, PendingIffWaiting
  <2>5. /\ Unstarted' /\ EntriesAreRuns' /\ JobsAnswer' /\ RecordedFirst'
        /\ \A d \in Calls, q \in Jobs : Answers(d, q) => Answers(d, q)'
    BY <1>2, ServerUntouched
  <2>6. SentFirst'
    <3>1. job' = job
      BY <1>2 DEF serverVars
    <3>2. \A d \in Calls : call[d] = "sent" => call'[d] = "sent"
      BY <1>2, <2>3
    <3> QED BY <1>6, <3>1, <3>2 DEF IInv, SentFirst, Jobs
  <2>7. RepliesAnswer'
    BY <1>2, <2>5 DEF IInv, RepliesAnswer
  <2>8. OutcomesAnswer'
    <3>1. \A d \in Calls, q \in Jobs : outcome'[d] = q => outcome[d] = q
      BY <2>1, <2>3, OutcomesAssumption
    <3>2. \A d \in Calls, q \in Jobs : outcome'[d] = q => Answers(d, q)'
      BY <2>5, <3>1 DEF IInv, OutcomesAnswer
    <3> QED BY <3>2 DEF OutcomesAnswer, Answers
  <2> QED BY <1>3, <2>2, <2>4, <2>5, <2>6, <2>7, <2>8 DEF IInv
<1> QED BY <1>2, <1>5, <1>6 DEF Send

\* What every step of a worker's job j keeps: it starts for a request, and leaves the
\* client, the other jobs and what is settled alone.
LEMMA WorkerStep ==
  ASSUME IInv, NEW j \in Jobs, NEW phase \in {"get", "handler", "record", "reply", "done"},
         UNCHANGED <<clientVars, answered>>, job' = [job EXCEPT ![j] = phase],
         j \in requests \/ job[j] # "none", requests' \subseteq requests,
         runs \subseteq runs', \A s \in Stores : \A k : Kept(s, k) => Kept(s, k)'
  PROVE  /\ ParkedWaits' /\ PendingIffWaiting' /\ SentFirst'
         /\ OutcomesAnswer' /\ AnsweredKept'
         /\ job' \in [Jobs -> {"none", "get", "handler", "record", "reply", "done"}]
         /\ job'[j] = phase /\ \A i \in Jobs : i # j => job'[i] = job[i]
         /\ \A c \in Calls, r \in Jobs : Answers(c, r) => Answers(c, r)'
         /\ call[j[2]] = "sent"
<1>1. UNCHANGED <<client, inboxSetup, call, pending, outcome, answered>>
  BY DEF clientVars
<1>2. TypeOK
  BY DEF IInv
<1>3. ParkedWaits' /\ PendingIffWaiting'
  BY <1>1 DEF IInv, ParkedWaits, PendingIffWaiting
<1>4. /\ job' \in [Jobs -> {"none", "get", "handler", "record", "reply", "done"}]
      /\ job'[j] = phase /\ \A i \in Jobs : i # j => job'[i] = job[i]
  BY <1>2 DEF TypeOK
<1>5. call[j[2]] = "sent"
  BY DEF IInv, SentFirst
<1>6. SentFirst'
  BY <1>1, <1>4, <1>5 DEF IInv, SentFirst
<1>7. \A c \in Calls, r \in Jobs : Answers(c, r) => Answers(c, r)'
  BY AnswersStay
<1>8. OutcomesAnswer'
  <2>1. \A d \in Calls, q \in Jobs : outcome'[d] = q => Answers(d, q)'
    BY <1>1, <1>7 DEF IInv, OutcomesAnswer
  <2> QED BY <2>1 DEF OutcomesAnswer, Answers
<1>9. AnsweredKept'
  <2> SUFFICES ASSUME NEW c \in Calls, NEW s \in Stores, KeyOf[c] # Nil, s \in answered'[c]
               PROVE  Kept(s, IdemKey(c))'
    BY DEF AnsweredKept, IdemKey
  <2>1. Kept(s, IdemKey(c))
    BY <1>1 DEF IInv, AnsweredKept
  <2> QED BY <2>1
<1> QED BY <1>3, <1>4, <1>5, <1>6, <1>7, <1>8, <1>9

LEMMA SameStores ==
  ASSUME UNCHANGED storeVars
  PROVE  \A s \in Stores : \A k : Kept(s, k) <=> Kept(s, k)'
BY DEF storeVars, Kept, Recorded

\* The types of a step that leaves the client and the stores alone.
LEMMA WorkerTypes ==
  ASSUME TypeOK, UNCHANGED <<clientVars, answered, storeVars>>,
         requests' \subseteq Jobs, replies' \subseteq Calls \X Jobs,
         job' \in [Jobs -> {"none", "get", "handler", "record", "reply", "done"}],
         value' \in [Jobs -> Jobs], runs' \subseteq Jobs
  PROVE  TypeOK'
<1>1. UNCHANGED <<client, inboxSetup, call, pending, outcome, answered, entries, evicted>>
  BY DEF clientVars, storeVars
<1> QED BY <1>1 DEF TypeOK

\* Receive, HandlerReturns and Reply change neither a run nor a store.
LEMMA QuietJobKeeps ==
  ASSUME IInv, NEW j \in Jobs, Receive(j) \/ HandlerReturns(j) \/ Reply(j)
  PROVE  IInv'
<1>1. TypeOK
  BY DEF IInv
<1>2. /\ UNCHANGED <<clientVars, value, runs, storeVars, answered>>
      /\ requests' \subseteq requests /\ (j \in requests \/ job[j] # "none")
      /\ \/ job[j] = "none" /\ job' = [job EXCEPT ![j] = "get"] /\ replies' = replies
         \/ job[j] = "handler" /\ job' = [job EXCEPT ![j] = "record"] /\ replies' = replies
         \/ /\ job[j] = "reply" /\ job' = [job EXCEPT ![j] = "done"]
            /\ replies' \in {replies, replies \cup {<<j[2], value[j]>>}}
  BY DEF Receive, HandlerReturns, Reply
<1>3. PICK phase \in {"get", "record", "done"} : job' = [job EXCEPT ![j] = phase]
  BY <1>2
<1>4. \A s \in Stores : \A k : Kept(s, k) <=> Kept(s, k)'
  BY <1>2, SameStores
<1>5. UNCHANGED <<clientVars, answered>> /\ runs' = runs /\ value' = value /\ entries' = entries /\ evicted' = evicted
  BY <1>2 DEF storeVars
<1>6. /\ ParkedWaits' /\ PendingIffWaiting' /\ SentFirst'
      /\ OutcomesAnswer' /\ AnsweredKept'
      /\ job' \in [Jobs -> {"none", "get", "handler", "record", "reply", "done"}]
      /\ job'[j] = phase /\ \A i \in Jobs : i # j => job'[i] = job[i]
      /\ \A c \in Calls, r \in Jobs : Answers(c, r) => Answers(c, r)'
  BY <1>2, <1>3, <1>4, <1>5, WorkerStep
<1>7. j[2] \in Calls /\ value[j] \in Jobs /\ StoreOf[j[1]] \in Stores
  BY <1>1, StoresAssumption DEF TypeOK, Jobs
<1>8. TypeOK'
  <2>1. requests' \subseteq Jobs /\ replies' \subseteq Calls \X Jobs
    BY <1>1, <1>2, <1>7 DEF TypeOK
  <2> QED BY <1>1, <1>2, <1>6, <2>1, WorkerTypes DEF TypeOK
<1>9. \/ job[j] \in {"none", "get"} /\ job'[j] = "get"
      \/ job[j] = "handler" /\ job'[j] = "record"
      \/ job[j] = "reply" /\ job'[j] = "done"
  BY <1>1, <1>2, <1>7 DEF TypeOK
<1>10. Unstarted'
  BY <1>1, <1>5, <1>6, <1>9 DEF IInv, Unstarted, TypeOK
<1>11. EntriesAreRuns'
  BY <1>5 DEF IInv, EntriesAreRuns
<1>12. JobsAnswer'
  <2> SUFFICES ASSUME NEW i \in Jobs, job'[i] \notin {"none", "get"}
               PROVE  value[i] \in runs /\ OpOf[value[i][2]] = OpOf[i[2]] /\ StoreOf[value[i][1]] = StoreOf[i[1]]
    BY <1>5 DEF JobsAnswer
  <2>1. job[i] \notin {"none", "get"}
    BY <1>6, <1>9
  <2> QED BY <2>1 DEF IInv, JobsAnswer
<1>13. RecordedFirst'
  <2> SUFFICES ASSUME NEW i \in Jobs, job'[i] \in {"reply", "done"}, KeyOf[i[2]] # Nil
               PROVE  Kept(StoreOf[i[1]], IdemKey(i[2]))'
    BY DEF RecordedFirst, IdemKey
  <2>1. job[i] \in {"reply", "done"}
    BY <1>6, <1>9
  <2>2. Kept(StoreOf[i[1]], IdemKey(i[2])) /\ StoreOf[i[1]] \in Stores
    BY <2>1, StoresAssumption DEF IInv, RecordedFirst, Jobs
  <2> QED BY <1>4, <2>2
<1>14. RepliesAnswer'
  <2> SUFFICES ASSUME NEW c \in Calls, NEW r \in Jobs, <<c, r>> \in replies'
               PROVE  Answers(c, r)'
    BY DEF RepliesAnswer
  <2>1. CASE <<c, r>> \in replies
    BY <1>6, <2>1 DEF IInv, RepliesAnswer
  <2>2. CASE <<c, r>> \notin replies
    <3>1. job[j] = "reply" /\ c = j[2] /\ r = value[j]
      BY <1>2, <2>2
    <3>2. /\ value[j] \in runs /\ OpOf[value[j][2]] = OpOf[j[2]] /\ StoreOf[value[j][1]] = StoreOf[j[1]]
          /\ KeyOf[j[2]] # Nil => Kept(StoreOf[j[1]], IdemKey(j[2]))
      BY <3>1 DEF IInv, JobsAnswer, RecordedFirst
    <3>3. Answers(c, r)
      BY <3>1, <3>2 DEF Answers
    <3> QED BY <1>6, <3>3
  <2> QED BY <2>1, <2>2
<1>15. RetryDoesNotRerun'
  BY <1>5 DEF IInv, RetryDoesNotRerun
<1> QED BY <1>6, <1>8, <1>10, <1>11, <1>12, <1>13, <1>14, <1>15 DEF IInv

LEMMA GetKeeps ==
  ASSUME IInv, NEW j \in Jobs, Get(j)
  PROVE  IInv'
<1> DEFINE s == StoreOf[j[1]]
           k == IdemKey(j[2])
           e == entries[s][Position(s, k)]
<1>1. TypeOK /\ job[j] = "get" /\ j[2] \in Calls /\ s \in Stores /\ value[j] = j
  BY StoresAssumption DEF IInv, Get, Unstarted, Jobs
<1>2. /\ UNCHANGED <<clientVars, requests, replies, storeVars, answered>>
      /\ \/ /\ KeyOf[j[2]] # Nil /\ Recorded(s, k)
            /\ value' = [value EXCEPT ![j] = e.value]
            /\ job' = [job EXCEPT ![j] = "record"] /\ runs' = runs
         \/ /\ ~(KeyOf[j[2]] # Nil /\ Recorded(s, k))
            /\ runs' = runs \cup {j}
            /\ job' = [job EXCEPT ![j] = "handler"] /\ value' = value
  BY DEF Get
<1>3. PICK phase \in {"handler", "record"} : job' = [job EXCEPT ![j] = phase]
  BY <1>2
<1>4. \A t \in Stores : \A l : Kept(t, l) <=> Kept(t, l)'
  BY <1>2, SameStores
<1>5. /\ ParkedWaits' /\ PendingIffWaiting' /\ SentFirst'
      /\ OutcomesAnswer' /\ AnsweredKept'
      /\ job' \in [Jobs -> {"none", "get", "handler", "record", "reply", "done"}]
      /\ job'[j] = phase /\ \A i \in Jobs : i # j => job'[i] = job[i]
      /\ \A c \in Calls, r \in Jobs : Answers(c, r) => Answers(c, r)'
  BY <1>1, <1>2, <1>3, <1>4, WorkerStep
<1>6. UNCHANGED <<entries, evicted, answered>> /\ runs \subseteq runs' /\ runs' \subseteq runs \cup {j}
  BY <1>2 DEF storeVars
\* What the job answers with from now on.
<1>7. /\ value'[j] \in runs' /\ OpOf[value'[j][2]] = OpOf[j[2]] /\ StoreOf[value'[j][1]] = s
      /\ \A i \in Jobs : i # j => value'[i] = value[i]
      /\ value' \in [Jobs -> Jobs]
  <2>1. CASE KeyOf[j[2]] # Nil /\ Recorded(s, k)
    <3>1. Position(s, k) \in DOMAIN entries[s] /\ e.key = k
      BY <2>1 DEF Recorded, Position
    <3>2. e.value \in runs /\ OpOf[e.value[2]] = e.key /\ StoreOf[e.value[1]] = s
      BY <1>1, <3>1 DEF IInv, EntriesAreRuns
    <3>3. OpOf[j[2]] = k
      BY <1>1, <2>1 DEF OpOf, IdemKey
    <3> HIDE DEF e, s, k
    <3>4. e.value \in Jobs /\ value \in [Jobs -> Jobs] /\ runs' = runs
      BY <1>1, <1>2, <2>1, <3>2 DEF TypeOK
    <3>5. value' = [value EXCEPT ![j] = e.value]
      BY <1>2, <2>1
    <3> QED BY <3>1, <3>2, <3>3, <3>4, <3>5
  <2>2. CASE ~(KeyOf[j[2]] # Nil /\ Recorded(s, k))
    BY <1>1, <1>2, <2>2 DEF TypeOK
  <2> QED BY <2>1, <2>2
<1>8. TypeOK'
  <2>1. requests' \subseteq Jobs /\ replies' \subseteq Calls \X Jobs /\ runs' \subseteq Jobs
    BY <1>1, <1>2, <1>6 DEF TypeOK
  <2> QED BY <1>1, <1>2, <1>5, <1>7, <2>1, WorkerTypes
<1>9. Unstarted'
  BY <1>5, <1>6, <1>7 DEF IInv, Unstarted
<1>10. EntriesAreRuns'
  BY <1>6 DEF IInv, EntriesAreRuns
<1>11. JobsAnswer'
  <2> SUFFICES ASSUME NEW i \in Jobs, job'[i] \notin {"none", "get"}
               PROVE  /\ value'[i] \in runs' /\ OpOf[value'[i][2]] = OpOf[i[2]]
                      /\ StoreOf[value'[i][1]] = StoreOf[i[1]]
    BY DEF JobsAnswer, OpOf, IdemKey
  <2>1. CASE i # j
    BY <1>5, <1>6, <1>7, <2>1 DEF IInv, JobsAnswer
  <2> QED BY <1>7, <2>1
<1>12. RecordedFirst'
  <2> SUFFICES ASSUME NEW i \in Jobs, job'[i] \in {"reply", "done"}, KeyOf[i[2]] # Nil
               PROVE  Kept(StoreOf[i[1]], IdemKey(i[2]))'
    BY DEF RecordedFirst, IdemKey
  <2>1. job[i] \in {"reply", "done"}
    BY <1>5
  <2>2. Kept(StoreOf[i[1]], IdemKey(i[2])) /\ StoreOf[i[1]] \in Stores
    BY <2>1, StoresAssumption DEF IInv, RecordedFirst, Jobs
  <2> QED BY <1>4, <2>2
<1>13. RepliesAnswer'
  BY <1>2, <1>5 DEF IInv, RepliesAnswer
<1>14. RetryDoesNotRerun'
  <2> SUFFICES ASSUME NEW i \in runs', KeyOf[i[2]] # Nil, StoreOf[i[1]] \in answered[i[2]]
               PROVE  <<StoreOf[i[1]], IdemKey(i[2])>> \in evicted
    BY <1>6 DEF RetryDoesNotRerun, IdemKey
  <2>1. CASE i \in runs
    BY <2>1 DEF IInv, RetryDoesNotRerun
  <2>2. CASE i \notin runs
    <3>1. i = j /\ ~Recorded(s, k)
      BY <1>2, <1>6, <2>2
    <3>2. Kept(s, k)
      BY <1>1, <3>1 DEF IInv, AnsweredKept
    <3> QED BY <3>1, <3>2 DEF Kept
  <2> QED BY <2>1, <2>2
<1> QED BY <1>5, <1>8, <1>9, <1>10, <1>11, <1>12, <1>13, <1>14 DEF IInv

LEMMA RecordKeeps ==
  ASSUME IInv, NEW j \in Jobs, Record(j)
  PROVE  IInv'
<1> DEFINE s == StoreOf[j[1]]
           k == IdemKey(j[2])
           v == value[j]
<1>1. TypeOK /\ job[j] = "record" /\ j[2] \in Calls /\ s \in Stores /\ v \in Jobs /\ k \in Keys
  BY StoresAssumption DEF IInv, Record, TypeOK, Jobs, Keys
<1>2. /\ UNCHANGED <<clientVars, requests, replies, value, runs, answered>>
      /\ job' = [job EXCEPT ![j] = "reply"]
      /\ \/ KeyOf[j[2]] # Nil /\ Set(s, k, v)
         \/ KeyOf[j[2]] = Nil /\ UNCHANGED storeVars
  BY DEF Record
<1>3. v \in runs /\ OpOf[v[2]] = OpOf[j[2]] /\ StoreOf[v[1]] = s
  BY <1>1 DEF IInv, JobsAnswer
\* What the step does to the stores.
<1> DEFINE Fine ==
      /\ entries' \in [Stores -> Seq(Entries)]
      /\ \A t \in Stores : Len(entries'[t]) <= MaxEntries /\ DistinctKeys(entries'[t])
      /\ evicted' \subseteq Stores \X Keys
      /\ \A t \in Stores : \A n \in DOMAIN entries'[t] :
           \/ \E m \in DOMAIN entries[t] : entries'[t][n] = entries[t][m]
           \/ KeyOf[j[2]] # Nil /\ t = s /\ entries'[t][n] = [key |-> k, value |-> v]
      /\ KeyOf[j[2]] # Nil => Has(entries'[s], k)
      /\ \A t \in Stores : \A l : Has(entries[t], l) \/ <<t, l>> \in evicted
           => Has(entries'[t], l) \/ <<t, l>> \in evicted'
<1> HIDE DEF s, k, v
<1>4. Fine
  <2>1. CASE KeyOf[j[2]] # Nil /\ Set(s, k, v)
    BY <1>1, <2>1, SetEffects
  <2>2. CASE KeyOf[j[2]] = Nil /\ UNCHANGED storeVars
    BY <1>1, <2>2 DEF storeVars, TypeOK, DistinctKeys, Keys
  <2> QED BY <1>2, <2>1, <2>2
<1>5. \A t \in Stores : \A l : Kept(t, l) => Kept(t, l)'
  BY <1>4 DEF Kept, Recorded, Has
<1>6. KeyOf[j[2]] # Nil => Kept(s, k)'
  BY <1>4 DEF Kept, Recorded, Has
<1>7. /\ ParkedWaits' /\ PendingIffWaiting' /\ SentFirst'
      /\ OutcomesAnswer' /\ AnsweredKept'
      /\ job' \in [Jobs -> {"none", "get", "handler", "record", "reply", "done"}]
      /\ job'[j] = "reply" /\ \A i \in Jobs : i # j => job'[i] = job[i]
      /\ \A c \in Calls, r \in Jobs : Answers(c, r) => Answers(c, r)'
  BY <1>1, <1>2, <1>5, WorkerStep
<1>8. UNCHANGED <<client, inboxSetup, call, pending, outcome, requests, replies, value, runs, answered>>
  BY <1>2 DEF clientVars
<1>9. TypeOK'
  BY <1>1, <1>4, <1>7, <1>8 DEF TypeOK, DistinctKeys, Keys
<1>10. Unstarted'
  BY <1>1, <1>7, <1>8 DEF IInv, Unstarted
<1>11. EntriesAreRuns'
  <2> SUFFICES ASSUME NEW t \in Stores, NEW n \in DOMAIN entries'[t]
               PROVE  /\ entries'[t][n].value \in runs
                      /\ OpOf[entries'[t][n].value[2]] = entries'[t][n].key
                      /\ StoreOf[entries'[t][n].value[1]] = t
    BY <1>8 DEF EntriesAreRuns, OpOf, IdemKey
  <2>1. CASE \E m \in DOMAIN entries[t] : entries'[t][n] = entries[t][m]
    BY <2>1 DEF IInv, EntriesAreRuns
  <2>2. CASE KeyOf[j[2]] # Nil /\ t = s /\ entries'[t][n] = [key |-> k, value |-> v]
    <3>1. OpOf[j[2]] = k
      BY <1>1, <2>2 DEF OpOf, IdemKey, k
    <3> QED BY <1>3, <2>2, <3>1
  <2> QED BY <1>4, <2>1, <2>2
<1>12. JobsAnswer'
  <2> SUFFICES ASSUME NEW i \in Jobs, job'[i] \notin {"none", "get"}
               PROVE  value[i] \in runs /\ OpOf[value[i][2]] = OpOf[i[2]] /\ StoreOf[value[i][1]] = StoreOf[i[1]]
    BY <1>8 DEF JobsAnswer
  <2>1. job[i] \notin {"none", "get"}
    BY <1>1, <1>7
  <2> QED BY <2>1 DEF IInv, JobsAnswer
<1>13. RecordedFirst'
  <2> SUFFICES ASSUME NEW i \in Jobs, job'[i] \in {"reply", "done"}, KeyOf[i[2]] # Nil
               PROVE  Kept(StoreOf[i[1]], IdemKey(i[2]))'
    BY DEF RecordedFirst, IdemKey
  <2>1. CASE i = j
    BY <1>6, <2>1 DEF s, k
  <2>2. CASE i # j
    <3>1. Kept(StoreOf[i[1]], IdemKey(i[2])) /\ StoreOf[i[1]] \in Stores
      BY <1>7, <2>2, StoresAssumption DEF IInv, RecordedFirst, Jobs
    <3> QED BY <1>5, <3>1
  <2> QED BY <2>1, <2>2
<1>14. RepliesAnswer'
  BY <1>7, <1>8 DEF IInv, RepliesAnswer
<1>15. evicted \subseteq evicted'
  <2>1. CASE KeyOf[j[2]] # Nil /\ Set(s, k, v)
    BY <2>1 DEF Set
  <2>2. CASE KeyOf[j[2]] = Nil /\ UNCHANGED storeVars
    BY <2>2 DEF storeVars
  <2> QED BY <1>2, <2>1, <2>2
<1>16. RetryDoesNotRerun'
  BY <1>8, <1>15 DEF IInv, RetryDoesNotRerun
<1> QED BY <1>7, <1>9, <1>10, <1>11, <1>12, <1>13, <1>14, <1>16 DEF IInv

LEMMA NextIInv == IInv /\ [Next]_vars => IInv'
<1> SUFFICES ASSUME IInv, [Next]_vars PROVE IInv'
  OBVIOUS
<1>1. ASSUME NEW c \in Calls, Send(c) \/ TimesOut(c) \/ PublishFails(c)
      PROVE  IInv'
  BY <1>1, SendKeeps, GivingUpKeeps
<1>2. ASSUME NEW c \in Calls, NEW r \in Jobs, Delivers(c, r)
      PROVE  IInv'
  BY <1>2, DeliversKeeps
<1>3. CASE Subscribed \/ SubscribeFails
  BY <1>3, SubscribedKeeps, SubscribeFailsKeeps
<1>4. CASE Close \/ RejectAll \/ QuitEnds
  BY <1>4, ClosingKeeps
<1>5. ASSUME NEW j \in Jobs, JobStep(j)
      PROVE  IInv'
  BY <1>5, QuietJobKeeps, GetKeeps, RecordKeeps DEF JobStep
<1>6. CASE UNCHANGED vars
  <2>1. UNCHANGED <<call, pending, outcome, requests, replies, answered, serverVars>>
    BY <1>6 DEF vars, clientVars
  <2>2. UNCHANGED <<client, inboxSetup, job, value, entries, evicted, runs>>
    BY <1>6 DEF vars, clientVars, serverVars, storeVars
  <2>3. TypeOK' /\ ParkedWaits' /\ PendingIffWaiting'
    BY <2>1, <2>2 DEF IInv, TypeOK, ParkedWaits, PendingIffWaiting
  <2>4. /\ SentFirst' /\ Unstarted' /\ EntriesAreRuns' /\ JobsAnswer' /\ RecordedFirst'
        /\ RepliesAnswer' /\ OutcomesAnswer' /\ AnsweredKept' /\ RetryDoesNotRerun'
    BY <2>1, QuietClient
  <2> QED BY <2>3, <2>4 DEF IInv
<1>7. CASE Finished
  BY <1>6, <1>7 DEF Finished
<1> QED BY <1>1, <1>2, <1>3, <1>4, <1>5, <1>6, <1>7 DEF Next

THEOREM Invariance == Spec => []IInv
BY InitIInv, NextIInv, PTL DEF Spec

\* The variables of client, workers and stores keep their types, and a store is a
\* bounded Map: at most maxEntries entries, one for a key (MemoryIdempotencyStore).
THEOREM TypeCorrect == Spec => []TypeOK
<1>1. IInv => TypeOK
  BY DEF IInv
<1> QED BY <1>1, Invariance, PTL

\* The correlator's map is exactly the calls whose caller waits (RpcCorrelator, send()).
THEOREM PendingIffWaitingHolds == Spec => []PendingIffWaiting
<1>1. IInv => PendingIffWaiting
  BY DEF IInv
<1> QED BY <1>1, Invariance, PTL

\* A retry of an answered operation runs on no worker of the store that answered it,
\* unless the store evicted the key (the idempotent handler of MicroserviceBuilder).
THEOREM RetryDoesNotRerunHolds == Spec => []RetryDoesNotRerun
<1>1. IInv => RetryDoesNotRerun
  BY DEF IInv
<1> QED BY <1>1, Invariance, PTL

-------------------------------------------------------------------------------
(***************************************************************************)
(* The refinement of RpcCall, without its liveness: what send() reports is *)
(* what the abstract call may report.                                      *)
(***************************************************************************)

LEMMA CallInit == Init => Call!Init
<1> SUFFICES ASSUME Init PROVE Call!Init
  OBVIOUS
<1>1. Seen = [c \in Calls |-> None]
  BY DEF Init, Seen
<1> QED BY <1>1 DEF Init, Call!Init

\* A step that changes neither runs nor what callers see is none of the abstract call's.
LEMMA Stutters ==
  ASSUME runs' = runs, call' = call, outcome' = outcome
  PROVE  UNCHANGED Call!vars
BY DEF Call!vars, Seen

\* Failing calls that had not settled.
LEMMA FailsCalls ==
  ASSUME NEW cs \in SUBSET Calls, \A c \in cs : Seen[c] \in {None, Waiting},
         runs' = runs, \A c \in cs : Seen'[c] = Failed,
         \A c \in Calls \ cs : Seen'[c] = Seen[c]
  PROVE  Call!Next
<1>1. Seen' = [c \in Calls |-> IF c \in cs THEN Failed ELSE Seen[c]]
  BY DEF Seen
<1>2. Call!Fail(cs)
  BY <1>1 DEF Call!Fail
<1> QED BY <1>2 DEF Call!Next

LEMMA AsksCalls ==
  ASSUME NEW cs \in SUBSET Calls, \A c \in cs : Seen[c] = None,
         runs' = runs, \A c \in cs : Seen'[c] = Waiting,
         \A c \in Calls \ cs : Seen'[c] = Seen[c]
  PROVE  Call!Next
<1>1. Seen' = [c \in Calls |-> IF c \in cs THEN Waiting ELSE Seen[c]]
  BY DEF Seen
<1>2. Call!Ask(cs)
  BY <1>1 DEF Call!Ask
<1> QED BY <1>2 DEF Call!Next

LEMMA CallStep == IInv /\ [Next]_vars => [Call!Next]_(Call!vars)
<1> SUFFICES ASSUME IInv, [Next]_vars PROVE Call!Next \/ UNCHANGED Call!vars
  OBVIOUS
<1>1. TypeOK /\ PendingIffWaiting /\ ParkedWaits
  BY DEF IInv
<1>2. \A c \in Calls : Seen[c] = IF call[c] = "sent" /\ outcome[c] = None THEN Waiting ELSE outcome[c]
  BY DEF Seen
<1>3. \A c \in Calls : Seen'[c] = IF call'[c] = "sent" /\ outcome'[c] = None THEN Waiting ELSE outcome'[c]
  BY DEF Seen
<1>4. /\ call \in [Calls -> {"idle", "inbox", "sent"}]
      /\ outcome \in [Calls -> {None, Failed} \cup Jobs] /\ pending \subseteq Calls
  BY <1>1 DEF TypeOK
<1>5. /\ None # Waiting /\ None # Failed /\ None \notin Jobs
  BY OutcomesAssumption
<1>6. ASSUME NEW c \in Calls, Send(c)
      PROVE  Call!Next \/ UNCHANGED Call!vars
  <2>1. runs' = runs /\ call[c] = "idle" /\ outcome[c] = None /\ Seen[c] = None
    BY <1>2, <1>6 DEF Send, serverVars
  <2>2. CASE call' = [call EXCEPT ![c] = "inbox"] /\ outcome' = outcome
    <3>1. Seen' = Seen
      BY <1>4, <2>1, <2>2 DEF Seen
    <3> QED BY <2>1, <3>1 DEF Call!vars
  <2>3. CASE call' = [call EXCEPT ![c] = "sent"] /\ outcome' = outcome
    <3>1. Seen'[c] = Waiting /\ \A d \in Calls \ {c} : Seen'[d] = Seen[d]
      BY <1>2, <1>3, <1>4, <2>1, <2>3
    <3>2. {c} \in SUBSET Calls /\ \A d \in {c} : Seen[d] = None /\ Seen'[d] = Waiting
      BY <2>1, <3>1
    <3> QED BY <2>1, <3>1, <3>2, AsksCalls
  <2>4. CASE call' = call /\ outcome' = [outcome EXCEPT ![c] = Failed]
    <3>1. Seen'[c] = Failed /\ \A d \in Calls \ {c} : Seen'[d] = Seen[d]
      BY <1>2, <1>3, <1>4, <2>1, <2>4
    <3>2. {c} \in SUBSET Calls /\ \A d \in {c} : Seen[d] \in {None, Waiting} /\ Seen'[d] = Failed
      BY <2>1, <3>1
    <3> QED BY <2>1, <3>1, <3>2, FailsCalls
  <2> QED BY <1>6, <2>2, <2>3, <2>4 DEF Send
<1>7. CASE Subscribed
  <2>1. /\ runs' = runs /\ outcome' = outcome
        /\ call' = [c \in Calls |-> IF c \in Parked THEN "sent" ELSE call[c]]
    BY <1>7 DEF Subscribed, serverVars
  <2>2. Parked \in SUBSET Calls /\ \A c \in Parked : call[c] = "inbox" /\ outcome[c] = None
    BY <1>1 DEF Parked, ParkedWaits
  <2> HIDE DEF Parked
  <2>3. /\ \A c \in Parked : Seen[c] = None /\ Seen'[c] = Waiting
        /\ \A c \in Calls \ Parked : Seen'[c] = Seen[c]
    BY <1>2, <1>3, <2>1, <2>2
  <2> QED BY <2>1, <2>2, <2>3, AsksCalls
<1>8. CASE SubscribeFails
  <2>1. /\ runs' = runs
        /\ outcome' = [c \in Calls |-> IF c \in Parked THEN Failed ELSE outcome[c]]
        /\ call' = [c \in Calls |-> IF c \in Parked THEN "idle" ELSE call[c]]
    BY <1>8 DEF SubscribeFails, serverVars
  <2>2. Parked \in SUBSET Calls /\ \A c \in Parked : call[c] = "inbox" /\ outcome[c] = None
    BY <1>1 DEF Parked, ParkedWaits
  <2> HIDE DEF Parked
  <2>3. /\ \A c \in Parked : Seen[c] \in {None, Waiting} /\ Seen'[c] = Failed
        /\ \A c \in Calls \ Parked : Seen'[c] = Seen[c]
    BY <1>2, <1>3, <1>5, <2>1, <2>2
  <2> QED BY <2>1, <2>2, <2>3, FailsCalls
<1>9. ASSUME NEW c \in Calls, TimesOut(c) \/ PublishFails(c)
      PROVE  Call!Next
  <2>1. c \in pending /\ runs' = runs /\ call' = call /\ outcome' = [outcome EXCEPT ![c] = Failed]
    BY <1>9 DEF TimesOut, PublishFails, Settle, serverVars
  <2>2. Seen[c] = Waiting /\ Seen'[c] = Failed /\ \A d \in Calls \ {c} : Seen'[d] = Seen[d]
    BY <1>1, <1>2, <1>3, <1>4, <1>5, <2>1 DEF PendingIffWaiting
  <2>3. {c} \in SUBSET Calls /\ \A d \in {c} : Seen[d] \in {None, Waiting} /\ Seen'[d] = Failed
    BY <2>2
  <2> QED BY <2>1, <2>2, <2>3, FailsCalls
<1>10. ASSUME NEW c \in Calls, NEW r \in Jobs, Delivers(c, r)
       PROVE  Call!Next \/ UNCHANGED Call!vars
  <2>1. runs' = runs /\ call' = call /\ Answers(c, r)
    BY <1>10 DEF Delivers, serverVars, IInv, RepliesAnswer
  <2>2. CASE pending' = pending /\ outcome' = outcome
    BY <2>1, <2>2, Stutters
  <2>3. CASE c \in pending /\ outcome' = [outcome EXCEPT ![c] = r]
    <3>1. Seen[c] = Waiting /\ Seen'[c] = r /\ \A d \in Calls \ {c} : Seen'[d] = Seen[d]
      BY <1>1, <1>2, <1>3, <1>4, <1>5, <2>1, <2>3 DEF PendingIffWaiting
    <3>2. Seen' = [Seen EXCEPT ![c] = r]
      BY <3>1 DEF Seen
    <3>3. Call!Answer(c)
      BY <2>1, <3>1, <3>2 DEF Call!Answer, Answers
    <3> QED BY <3>3 DEF Call!Next
  <2> QED BY <1>10, <2>2, <2>3 DEF Delivers, Settle
<1>11. CASE Close \/ QuitEnds
  BY <1>11, Stutters DEF Close, QuitEnds, serverVars
<1>12. CASE RejectAll
  <2>1. runs' = runs /\ call' = call /\ outcome' = [c \in Calls |-> IF c \in pending THEN Failed ELSE outcome[c]]
    BY <1>12 DEF RejectAll, serverVars
  <2>2. /\ \A c \in pending : Seen[c] \in {None, Waiting} /\ Seen'[c] = Failed
        /\ \A c \in Calls \ pending : Seen'[c] = Seen[c]
    BY <1>1, <1>2, <1>3, <1>4, <1>5, <2>1 DEF PendingIffWaiting
  <2>3. pending \in SUBSET Calls
    BY <1>4
  <2> QED BY <2>1, <2>2, <2>3, FailsCalls
<1>13. ASSUME NEW j \in Jobs, JobStep(j)
       PROVE  Call!Next \/ UNCHANGED Call!vars
  <2>1. call' = call /\ outcome' = outcome
    BY <1>13 DEF JobStep, Receive, Get, HandlerReturns, Record, Reply, clientVars
  <2>2. runs' = runs \/ (runs' = runs \cup {j} /\ job[j] = "get")
    BY <1>13 DEF JobStep, Receive, Get, HandlerReturns, Record, Reply
  <2>3. CASE runs' = runs
    BY <2>1, <2>3, Stutters
  <2>4. CASE runs' = runs \cup {j} /\ job[j] = "get"
    <3>1. PICK w \in Workers, c \in Calls : j = <<w, c>>
      BY DEF Jobs
    <3>2. call[c] = "sent"
      BY <2>4, <3>1 DEF IInv, SentFirst
    <3>3. Seen[c] # None /\ Seen' = Seen
      BY <1>2, <1>5, <2>1, <3>2 DEF Seen
    <3>4. Call!Execute(w, c)
      BY <2>4, <3>1, <3>3 DEF Call!Execute
    <3> QED BY <3>4 DEF Call!Next
  <2> QED BY <2>2, <2>3, <2>4
<1>14. CASE UNCHANGED vars
  BY <1>14, Stutters DEF vars, clientVars, serverVars
<1>15. CASE Finished
  BY <1>14, <1>15 DEF Finished
<1> QED BY <1>6, <1>7, <1>8, <1>9, <1>10, <1>11, <1>12, <1>13, <1>14, <1>15 DEF Next

\* Every behaviour of the Redis transport and its workers is, seen by the callers of
\* send(), one of the abstract call's: settled once, with a failure or with the result
\* of a run of the same operation.
THEOREM RefinesRpcCall == Spec => Call!Safety
BY CallInit, CallStep, Invariance, PTL DEF Spec, Call!Safety
===============================================================================
