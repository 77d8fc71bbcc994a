---------------------------- MODULE HttpAppProofs -----------------------------
(***************************************************************************)
(* Proofs about packages/core: the shutdown of an application process and  *)
(* the agreement of its lists of routes (AppLifecycle), and one request    *)
(* through both engines (HttpPipeline, HttpDecisions).                     *)
(***************************************************************************)
EXTENDS AppLifecycle, HttpPipeline, FiniteSetTheorems, SequenceTheorems, WellFoundedInduction, TLAPS

-------------------------------------------------------------------------------
(* Sequences and naturals. *)

LEMMA TailStep ==
  ASSUME NEW S, NEW q \in Seq(S), q # <<>>
  PROVE  /\ Tail(q) \in Seq(S) /\ 1 \in DOMAIN q /\ Head(q) = q[1]
         /\ \A n \in DOMAIN q : n = 1 \/ (n - 1 \in DOMAIN Tail(q) /\ Tail(q)[n - 1] = q[n])
         /\ \A n \in DOMAIN Tail(q) : n + 1 \in DOMAIN q /\ Tail(q)[n] = q[n + 1]
<1>1. Tail(q) \in Seq(S) /\ Len(Tail(q)) = Len(q) - 1 /\ \A n \in 1 .. Len(Tail(q)) : Tail(q)[n] = q[n + 1]
  BY HeadTailProperties
<1>2. Len(q) \in Nat \ {0}
  BY EmptySeq
<1>3. DOMAIN q = 1 .. Len(q) /\ DOMAIN Tail(q) = 1 .. Len(q) - 1
  BY <1>1
<1> DEFINE t == Tail(q)
<1> HIDE DEF t
<1>4. \A n \in 1 .. Len(q) - 1 : t[n] = q[n + 1]
  BY <1>1 DEF t
<1>5. \A n \in 1 .. Len(q) : n = 1 \/ (n - 1 \in 1 .. Len(q) - 1 /\ t[n - 1] = q[n])
  <2> SUFFICES ASSUME NEW n \in 1 .. Len(q), n # 1
               PROVE  n - 1 \in 1 .. Len(q) - 1 /\ t[n - 1] = q[n]
    OBVIOUS
  <2>1. n - 1 \in 1 .. Len(q) - 1 /\ (n - 1) + 1 = n
    BY <1>2
  <2> QED BY <1>4, <2>1
<1> QED BY <1>1, <1>2, <1>3, <1>4, <1>5 DEF t

LEMMA ReverseProperties ==
  ASSUME NEW S, NEW q \in Seq(S)
  PROVE  /\ Reverse(q) \in Seq(S) /\ Len(q) \in Nat
         /\ DOMAIN q = 1 .. Len(q) /\ DOMAIN Reverse(q) = 1 .. Len(q)
         /\ \A n \in 1 .. Len(q) : Reverse(q)[n] = q[Len(q) - n + 1]
<1>1. Len(q) \in Nat /\ DOMAIN q = 1 .. Len(q)
  OBVIOUS
<1>2. \A n \in 1 .. Len(q) : q[(Len(q) - n) + 1] \in S
  <2> SUFFICES ASSUME NEW n \in 1 .. Len(q) PROVE q[(Len(q) - n) + 1] \in S
    OBVIOUS
  <2>1. (Len(q) - n) + 1 \in 1 .. Len(q)
    BY <1>1
  <2> QED BY <2>1, ElementOfSeq
<1>3. Reverse(q) \in [1 .. Len(q) -> S]
  BY <1>2 DEF Reverse
<1>4. Reverse(q) \in Seq(S)
  BY <1>1, <1>3
<1> QED BY <1>1, <1>4 DEF Reverse

\* A set of naturals has a least element.
LEMMA LeastOf ==
  ASSUME NEW T \in SUBSET Nat, T # {}
  PROVE  \E m \in T : \A n \in T : m <= n
<1>1. \E m \in T : \A n \in T : <<n, m>> \notin OpToRel(<, Nat)
  BY NatLessThanWellFounded, WFMin
<1>2. \A m, n \in Nat : n < m => <<n, m>> \in OpToRel(<, Nat)
  BY DEF OpToRel
<1>3. PICK m \in T : \A n \in T : <<n, m>> \notin OpToRel(<, Nat)
  BY <1>1
<1>4. \A n \in T : ~(n < m)
  BY <1>2, <1>3
<1>5. \A n \in T : n \in Nat /\ m \in Nat
  OBVIOUS
<1>6. \A n \in T : m <= n
  BY <1>4, <1>5
<1> QED BY <1>6

-------------------------------------------------------------------------------
(***************************************************************************)
(* Shutdown.                                                               *)
(***************************************************************************)

ProviderTypes ==
  /\ process \in {"up", "exited", "killed", "crashed"}
  /\ boot \in [Providers -> {"unregistered", "setup", "registered", "failed"}]
  /\ instance \in [Providers -> {"null", "live"}]
  /\ providers \in Seq(Providers)
  /\ handlers \subseteq Signals
  /\ sweeps \in [Signals -> Seq(Providers)]
  /\ awaiting \subseteq Signals
  /\ promised \subseteq Providers

\* While the process runs, the list holds every registered provider once.
ListedOnce ==
  /\ process = "up" =>
       \A p \in Providers : boot[p] = "registered" => \E i \in DOMAIN providers : providers[i] = p
  /\ \A i \in DOMAIN providers : boot[providers[i]] = "registered"
  /\ \A i, j \in DOMAIN providers : providers[i] = providers[j] => i = j

\* Only registered providers are swept or promised.
SweepsRegistered == \A s \in Signals : \A i \in DOMAIN sweeps[s] : boot[sweeps[s][i]] = "registered"
PromisedRegistered == \A p \in promised : boot[p] = "registered"

\* A sweep is under way only after its handler was armed and used up.
SweepsArmed ==
  /\ handlers # {} => HooksAttached
  /\ \A s \in Signals : sweeps[s] # <<>> => Sweeping(s)
  /\ \A s \in awaiting : sweeps[s] # <<>>

\* p needs no teardown any more, or its teardown failed.
Disposed(p) == p \in NoTeardown \/ p \in faulty \/ instance[p] = "null"

\* What was promised is disposed of or still ahead, in every sweep.
AheadOrDisposed ==
  process = "up" => \A s \in Signals : Sweeping(s) =>
    \A p \in promised : Disposed(p) \/ \E i \in DOMAIN sweeps[s] : sweeps[s][i] = p

\* A sweep has its providers in the opposite order of the list.
SweepsBackwards ==
  \A s \in Signals : \A i, j \in DOMAIN sweeps[s] : \A a, b \in DOMAIN providers :
    i < j /\ sweeps[s][i] = providers[a] /\ sweeps[s][j] = providers[b] => b < a

ProviderIInv ==
  /\ ProviderTypes
  /\ ListedOnce /\ PromisedRegistered /\ SweepsRegistered /\ SweepsArmed
  /\ AheadOrDisposed /\ SweepsBackwards
  /\ GracefulExitDisposes

LEMMA ProviderInit == AppInit => ProviderIInv
<1> SUFFICES ASSUME AppInit PROVE ProviderIInv
  OBVIOUS
<1>1. /\ process = "up" /\ providers = <<>> /\ handlers = {} /\ awaiting = {} /\ promised = {} /\ faulty = {}
      /\ boot = [p \in Providers |-> "unregistered"] /\ instance = [p \in Providers |-> "null"]
      /\ sweeps = [s \in Signals |-> <<>>]
  BY DEF AppInit
<1>2. ProviderTypes
  BY <1>1 DEF ProviderTypes
<1>3. ListedOnce /\ PromisedRegistered /\ SweepsRegistered
  BY <1>1 DEF ListedOnce, PromisedRegistered, SweepsRegistered
<1>4. SweepsArmed
  BY <1>1 DEF SweepsArmed
<1>5. AheadOrDisposed /\ GracefulExitDisposes
  BY <1>1 DEF AheadOrDisposed, GracefulExitDisposes
<1>6. SweepsBackwards
  BY <1>1 DEF SweepsBackwards
<1> QED BY <1>2, <1>3, <1>4, <1>5, <1>6 DEF ProviderIInv

\* Steps that start or give up a setup, or do not concern providers at all.
LEMMA QuietKeepsProviders ==
  ASSUME ProviderIInv, UNCHANGED <<instance, providers, handlers, sweeps, awaiting, faulty, promised>>,
         boot' \in [Providers -> {"unregistered", "setup", "registered", "failed"}],
         \A p \in Providers : boot'[p] = "registered" <=> boot[p] = "registered",
         process' = process \/ (process = "up" /\ process' \in {"crashed", "killed"})
  PROVE  ProviderIInv'
<1>1. ProviderTypes
  BY DEF ProviderIInv
<1>2. \A p \in promised : p \in Providers
  BY <1>1 DEF ProviderTypes
<1>3. \A i \in DOMAIN providers : providers[i] \in Providers
  BY <1>1, ElementOfSeq DEF ProviderTypes
<1>4. ProviderTypes'
  BY <1>1 DEF ProviderTypes
<1>5. HooksAttached' <=> HooksAttached
  BY DEF HooksAttached
<1>6. \A s : Sweeping(s)' <=> Sweeping(s)
  BY <1>5 DEF Sweeping
<1>7. ListedOnce'
  BY <1>3 DEF ProviderIInv, ListedOnce
<1>8. PromisedRegistered' /\ SweepsRegistered'
  <2>1. \A s \in Signals : \A i \in DOMAIN sweeps[s] : sweeps[s][i] \in Providers
    BY <1>1, ElementOfSeq DEF ProviderTypes
  <2> QED BY <1>2, <2>1 DEF ProviderIInv, PromisedRegistered, SweepsRegistered
<1>9. SweepsArmed'
  BY <1>5, <1>6 DEF ProviderIInv, SweepsArmed
<1>10. AheadOrDisposed' /\ GracefulExitDisposes'
  BY <1>6 DEF ProviderIInv, AheadOrDisposed, Disposed, GracefulExitDisposes
<1>11. SweepsBackwards'
  BY DEF ProviderIInv, SweepsBackwards
<1> QED BY <1>4, <1>7, <1>8, <1>9, <1>10, <1>11 DEF ProviderIInv

LEMMA SetupResolvesKeeps ==
  ASSUME ProviderIInv, NEW p \in Providers, SetupResolves(p)
  PROVE  ProviderIInv'
<1>1. /\ ProviderTypes /\ ListedOnce /\ PromisedRegistered /\ SweepsRegistered /\ SweepsArmed /\ AheadOrDisposed /\ SweepsBackwards
      /\ process = "up" /\ process' = "up" /\ boot[p] = "setup"
      /\ boot' = [boot EXCEPT ![p] = "registered"]
      /\ instance' = [instance EXCEPT ![p] = "live"]
      /\ providers' = Append(providers, p)
      /\ handlers' = IF HooksAttached THEN handlers ELSE Signals
      /\ promised' = IF \E s \in Signals : Sweeping(s) THEN promised ELSE promised \cup {p}
      /\ UNCHANGED <<sweeps, awaiting, faulty>>
  BY DEF ProviderIInv, SetupResolves
<1>2. /\ boot'[p] = "registered" /\ instance'[p] = "live"
      /\ \A q \in Providers : q # p => boot'[q] = boot[q] /\ instance'[q] = instance[q]
      /\ providers \in Seq(Providers) /\ DOMAIN providers = 1 .. Len(providers) /\ Len(providers) \in Nat
  BY <1>1 DEF ProviderTypes
<1>3. /\ providers' \in Seq(Providers) /\ Len(providers') = Len(providers) + 1
      /\ \A i \in 1 .. Len(providers) : providers'[i] = providers[i]
      /\ providers'[Len(providers) + 1] = p
  BY <1>1, <1>2, AppendProperties
<1>4. DOMAIN providers' = 1 .. Len(providers) + 1
  BY <1>3
<1>5. \A i \in DOMAIN providers' : i \in DOMAIN providers \/ (i = Len(providers) + 1 /\ providers'[i] = p)
  <2>1. \A i \in 1 .. Len(providers) + 1 : i \in 1 .. Len(providers) \/ i = Len(providers) + 1
    BY <1>2
  <2> QED BY <1>2, <1>3, <1>4, <2>1
<1>6. \A i \in DOMAIN providers : i \in DOMAIN providers' /\ providers'[i] = providers[i] /\ providers[i] # p
                                 /\ providers[i] \in Providers
  <2>1. \A i \in DOMAIN providers : i \in DOMAIN providers' /\ providers'[i] = providers[i]
    BY <1>2, <1>3, <1>4
  <2>2. \A i \in DOMAIN providers : providers[i] # p
    BY <1>1 DEF ListedOnce
  <2>3. \A i \in DOMAIN providers : providers[i] \in Providers
    BY <1>2, ElementOfSeq
  <2> QED BY <2>1, <2>2, <2>3
<1>7. ProviderTypes'
  <2>1. boot' \in [Providers -> {"unregistered", "setup", "registered", "failed"}] /\ instance' \in [Providers -> {"null", "live"}]
    BY <1>1 DEF ProviderTypes
  <2>2. handlers' \subseteq Signals /\ promised' \subseteq Providers
    BY <1>1 DEF ProviderTypes
  <2> QED BY <1>1, <1>3, <2>1, <2>2 DEF ProviderTypes
<1>8. ListedOnce'
  <2>1. ASSUME NEW q \in Providers, boot'[q] = "registered"
        PROVE  \E i \in DOMAIN providers' : providers'[i] = q
    <3>1. CASE q = p
      <4>1. Len(providers) + 1 \in DOMAIN providers'
        BY <1>2, <1>4
      <4> QED BY <1>3, <3>1, <4>1
    <3>2. CASE q # p
      BY <1>1, <1>2, <1>6, <2>1, <3>2 DEF ListedOnce
    <3> QED BY <3>1, <3>2
  <2>2. \A i \in DOMAIN providers' : boot'[providers'[i]] = "registered"
    BY <1>1, <1>2, <1>5, <1>6 DEF ListedOnce
  <2>3. \A i, j \in DOMAIN providers' : providers'[i] = providers'[j] => i = j
    BY <1>1, <1>5, <1>6 DEF ListedOnce
  <2> QED BY <2>1, <2>2, <2>3 DEF ListedOnce
<1>9. PromisedRegistered' /\ SweepsRegistered'
  <2>1. \A s \in Signals : \A i \in DOMAIN sweeps[s] : sweeps[s][i] \in Providers
    BY <1>1, ElementOfSeq DEF ProviderTypes
  <2> QED BY <1>1, <1>2, <2>1 DEF PromisedRegistered, SweepsRegistered, ProviderTypes
<1>10. HooksAttached'
  BY <1>2 DEF HooksAttached
<1>11. \A s \in Signals : Sweeping(s)' <=> Sweeping(s)
  BY <1>1, <1>10 DEF Sweeping
<1>12. SweepsArmed'
  BY <1>1, <1>10, <1>11 DEF SweepsArmed
<1>13. AheadOrDisposed'
  <2> SUFFICES ASSUME NEW s \in Signals, Sweeping(s), NEW q \in promised'
               PROVE  Disposed(q)' \/ \E i \in DOMAIN sweeps[s] : sweeps[s][i] = q
    BY <1>1, <1>11 DEF AheadOrDisposed
  <2>1. q \in promised /\ q # p /\ q \in Providers
    BY <1>1 DEF PromisedRegistered, ProviderTypes
  <2>2. Disposed(q) \/ \E i \in DOMAIN sweeps[s] : sweeps[s][i] = q
    BY <1>1, <2>1 DEF AheadOrDisposed
  <2>3. Disposed(q) => Disposed(q)'
    BY <1>1, <1>2, <2>1 DEF Disposed
  <2> QED BY <2>2, <2>3
<1>14. SweepsBackwards'
  <2> SUFFICES ASSUME NEW s \in Signals, NEW i \in DOMAIN sweeps[s], NEW j \in DOMAIN sweeps[s],
                      NEW a \in DOMAIN providers', NEW b \in DOMAIN providers',
                      i < j, sweeps[s][i] = providers'[a], sweeps[s][j] = providers'[b]
               PROVE  b < a
    BY <1>1 DEF SweepsBackwards
  <2>1. CASE a \in DOMAIN providers /\ b \in DOMAIN providers
    <3>1. providers'[a] = providers[a] /\ providers'[b] = providers[b]
      BY <1>6, <2>1
    <3> QED BY <1>1, <2>1, <3>1 DEF SweepsBackwards
  <2>2. CASE b = Len(providers) + 1   \* p is in no sweep yet
    BY <1>1, <1>3, <2>2 DEF SweepsRegistered
  <2>3. CASE a = Len(providers) + 1
    BY <1>1, <1>3, <2>3 DEF SweepsRegistered
  <2> QED BY <1>5, <2>1, <2>2, <2>3
<1>15. GracefulExitDisposes'
  BY <1>1 DEF GracefulExitDisposes
<1> QED BY <1>7, <1>8, <1>9, <1>12, <1>13, <1>14, <1>15 DEF ProviderIInv

LEMMA SignalKeeps ==
  ASSUME ProviderIInv, NEW s \in Signals, Signal(s)
  PROVE  ProviderIInv'
<1>1. CASE s \notin handlers
  BY <1>1, QuietKeepsProviders DEF Signal, ProviderIInv, ProviderTypes
<1>2. CASE s \in handlers
  <2>1. /\ ProviderTypes /\ ListedOnce /\ PromisedRegistered /\ SweepsRegistered /\ SweepsArmed
        /\ AheadOrDisposed /\ SweepsBackwards
        /\ process = "up" /\ process' = "up" /\ handlers' = handlers \ {s}
        /\ sweeps' = [sweeps EXCEPT ![s] = Reverse(providers)]
        /\ UNCHANGED <<boot, instance, providers, awaiting, faulty, promised>>
    BY <1>2 DEF ProviderIInv, Signal
  <2> DEFINE q == providers
             t == Reverse(q)
  <2>2. /\ t \in Seq(Providers) /\ Len(q) \in Nat
        /\ DOMAIN q = 1 .. Len(q) /\ DOMAIN t = 1 .. Len(q)
        /\ \A n \in 1 .. Len(q) : t[n] = q[Len(q) - n + 1]
    BY <2>1, ReverseProperties DEF ProviderTypes
  <2>3. \A n \in DOMAIN q : Len(q) - n + 1 \in DOMAIN q /\ Len(q) - (Len(q) - n + 1) + 1 = n
    BY <2>2
  <2> HIDE DEF t
  <2>4. sweeps'[s] = t /\ \A r \in Signals : r # s => sweeps'[r] = sweeps[r]
    BY <2>1 DEF ProviderTypes, t
  <2>5. HooksAttached /\ HooksAttached'
    BY <1>2, <2>1 DEF SweepsArmed, HooksAttached
  <2>6. Sweeping(s)' /\ ~Sweeping(s) /\ \A r \in Signals : r # s => (Sweeping(r)' <=> Sweeping(r))
    BY <1>2, <2>1, <2>5 DEF Sweeping
  <2>7. ProviderTypes'
    BY <2>1, <2>2 DEF ProviderTypes, t
  <2>8. ListedOnce' /\ PromisedRegistered'
    BY <2>1 DEF ListedOnce, PromisedRegistered
  <2>9. SweepsRegistered'
    <3>1. \A n \in DOMAIN t : boot[t[n]] = "registered"
      BY <2>1, <2>2, <2>3 DEF ListedOnce
    <3> QED BY <2>1, <2>4, <3>1 DEF SweepsRegistered
  <2>10. SweepsArmed'
    <3>1. s \notin awaiting
      BY <1>2, <2>1 DEF SweepsArmed, Sweeping, ProviderTypes
    <3>2. \A r \in awaiting : r \in Signals
      BY <2>1 DEF ProviderTypes
    <3> QED BY <2>1, <2>4, <2>5, <2>6, <3>1, <3>2 DEF SweepsArmed
  <2>11. AheadOrDisposed'
    <3> SUFFICES ASSUME NEW r \in Signals, Sweeping(r)', NEW p \in promised
                 PROVE  Disposed(p) \/ \E i \in DOMAIN sweeps'[r] : sweeps'[r][i] = p
      BY <2>1 DEF AheadOrDisposed, Disposed
    <3>1. CASE r # s
      BY <2>1, <2>4, <2>6, <3>1 DEF AheadOrDisposed
    <3>2. CASE r = s
      <4>1. PICK n \in DOMAIN q : q[n] = p
        BY <2>1 DEF ListedOnce, PromisedRegistered, ProviderTypes
      <4>2. Len(q) - n + 1 \in DOMAIN t /\ t[Len(q) - n + 1] = p
        BY <2>2, <2>3, <4>1
      <4> QED BY <2>4, <3>2, <4>2
    <3> QED BY <3>1, <3>2
  <2>12. SweepsBackwards'
    <3> SUFFICES ASSUME NEW r \in Signals, NEW i \in DOMAIN sweeps'[r], NEW j \in DOMAIN sweeps'[r],
                        NEW a \in DOMAIN q, NEW b \in DOMAIN q,
                        i < j, sweeps'[r][i] = q[a], sweeps'[r][j] = q[b]
                 PROVE  b < a
      BY <2>1 DEF SweepsBackwards
    <3>1. CASE r # s
      BY <2>1, <2>4, <3>1 DEF SweepsBackwards
    <3>2. CASE r = s
      <4>1. q[a] = q[Len(q) - i + 1] /\ q[b] = q[Len(q) - j + 1]
        BY <2>2, <2>4, <3>2
      <4>2. a = Len(q) - i + 1 /\ b = Len(q) - j + 1
        BY <2>1, <2>2, <2>3, <2>4, <3>2, <4>1 DEF ListedOnce
      <4> QED BY <2>2, <2>4, <3>2, <4>2
    <3> QED BY <3>1, <3>2
  <2>13. GracefulExitDisposes'
    BY <2>1 DEF GracefulExitDisposes
  <2> QED BY <2>7, <2>8, <2>9, <2>10, <2>11, <2>12, <2>13 DEF ProviderIInv
<1> QED BY <1>1, <1>2

\* The head of a sweep is taken off once nothing is left to do for it.
LEMMA SweepAdvances ==
  ASSUME ProviderIInv, NEW s \in Signals, process = "up", process' = "up", sweeps[s] # <<>>,
         sweeps' = [sweeps EXCEPT ![s] = Tail(sweeps[s])],
         instance' \in [Providers -> {"null", "live"}], awaiting' \subseteq awaiting \ {s},
         UNCHANGED <<boot, providers, handlers, promised>>,
         \A p \in Providers : Disposed(p) => Disposed(p)',
         NEW h \in Providers, h = Head(sweeps[s]), Disposed(h)'
  PROVE  ProviderIInv'
<1>1. /\ ProviderTypes /\ ListedOnce /\ PromisedRegistered /\ SweepsRegistered /\ SweepsArmed
      /\ AheadOrDisposed /\ SweepsBackwards
  BY DEF ProviderIInv
<1> DEFINE q == sweeps[s]
           t == Tail(q)
<1>2. /\ t \in Seq(Providers) /\ 1 \in DOMAIN q /\ Head(q) = q[1]
      /\ \A n \in DOMAIN q : n = 1 \/ (n - 1 \in DOMAIN t /\ t[n - 1] = q[n])
      /\ \A n \in DOMAIN t : n + 1 \in DOMAIN q /\ t[n] = q[n + 1]
  BY <1>1, TailStep DEF ProviderTypes
<1>3. DOMAIN t \subseteq Nat
  BY <1>2
<1>4. q \in Seq(Providers)
  BY <1>1 DEF ProviderTypes
<1> HIDE DEF t
<1>5. sweeps'[s] = t /\ \A r \in Signals : r # s => sweeps'[r] = sweeps[r]
  BY <1>1 DEF ProviderTypes, t
<1> HIDE DEF q
<1>6. HooksAttached' <=> HooksAttached
  BY DEF HooksAttached
<1>7. \A r \in Signals : Sweeping(r)' <=> Sweeping(r)
  BY <1>6 DEF Sweeping
<1>8. ProviderTypes'
  <2>1. sweeps' \in [Signals -> Seq(Providers)]
    BY <1>1, <1>2 DEF ProviderTypes, t, q
  <2> QED BY <1>1, <2>1 DEF ProviderTypes
<1>9. ListedOnce' /\ PromisedRegistered'
  BY <1>1 DEF ListedOnce, PromisedRegistered
<1>10. SweepsRegistered'
  BY <1>1, <1>2, <1>5 DEF SweepsRegistered, q
<1>11. SweepsArmed'
  <2>1. \A r \in Signals : sweeps'[r] # <<>> => Sweeping(r)
    BY <1>1, <1>5 DEF SweepsArmed
  <2>2. \A r \in awaiting' : r \in Signals /\ r # s /\ r \in awaiting
    BY <1>1 DEF ProviderTypes
  <2> QED BY <1>1, <1>5, <1>6, <1>7, <2>1, <2>2 DEF SweepsArmed
<1>12. AheadOrDisposed'
  <2> SUFFICES ASSUME NEW r \in Signals, Sweeping(r), NEW p \in promised
               PROVE  Disposed(p)' \/ \E i \in DOMAIN sweeps'[r] : sweeps'[r][i] = p
    BY <1>7 DEF AheadOrDisposed
  <2>1. p \in Providers
    BY <1>1 DEF ProviderTypes
  <2>2. Disposed(p) \/ \E i \in DOMAIN sweeps[r] : sweeps[r][i] = p
    BY <1>1 DEF AheadOrDisposed
  <2>3. CASE r # s
    BY <1>5, <2>1, <2>2, <2>3
  <2>4. CASE r = s /\ ~Disposed(p)
    <3>1. PICK n \in DOMAIN q : q[n] = p
      BY <2>2, <2>4 DEF q
    <3>2. CASE n = 1
      <4>1. p = h
        BY <1>2, <3>1, <3>2 DEF q
      <4> QED BY <4>1 DEF Disposed
    <3>3. CASE n # 1
      <4>1. n - 1 \in DOMAIN t /\ t[n - 1] = p
        BY <1>2, <3>1, <3>3
      <4>2. sweeps'[r] = t
        BY <1>5, <2>4
      <4> QED BY <4>1, <4>2
    <3> QED BY <3>2, <3>3
  <2> QED BY <2>1, <2>3, <2>4
<1>13. SweepsBackwards'
  <2> SUFFICES ASSUME NEW r \in Signals, NEW i \in DOMAIN sweeps'[r], NEW j \in DOMAIN sweeps'[r],
                      NEW a \in DOMAIN providers, NEW b \in DOMAIN providers,
                      i < j, sweeps'[r][i] = providers[a], sweeps'[r][j] = providers[b]
               PROVE  b < a
    BY DEF SweepsBackwards
  <2>1. CASE r # s
    BY <1>1, <1>5, <2>1 DEF SweepsBackwards
  <2>2. CASE r = s
    <3>1. i + 1 \in DOMAIN q /\ j + 1 \in DOMAIN q /\ q[i + 1] = providers[a] /\ q[j + 1] = providers[b]
      BY <1>2, <1>5, <2>2
    <3>2. i + 1 < j + 1
      BY <1>3, <1>5, <2>2
    <3> QED BY <1>1, <3>1, <3>2 DEF SweepsBackwards, q
  <2> QED BY <2>1, <2>2
<1>14. GracefulExitDisposes'
  BY DEF GracefulExitDisposes
<1> QED BY <1>8, <1>9, <1>10, <1>11, <1>12, <1>13, <1>14 DEF ProviderIInv

LEMMA DestroyNextKeeps ==
  ASSUME ProviderIInv, NEW s \in Signals, DestroyNext(s)
  PROVE  ProviderIInv'
<1>1. ProviderTypes /\ process = "up" /\ process' = "up" /\ sweeps[s] # <<>>
      /\ UNCHANGED <<boot, instance, providers, handlers, faulty, promised>>
  BY DEF ProviderIInv, DestroyNext
<1>2. PICK p \in Providers : p = Head(sweeps[s])
  BY <1>1, HeadTailProperties DEF ProviderTypes
<1>3. CASE instance[p] = "live" /\ p \notin NoTeardown
  <2>1. awaiting' = awaiting \cup {s} /\ sweeps' = sweeps
    BY <1>2, <1>3 DEF DestroyNext
  <2>2. HooksAttached' <=> HooksAttached
    BY <1>1 DEF HooksAttached
  <2>3. ProviderTypes'
    BY <1>1, <2>1 DEF ProviderTypes
  <2>4. ListedOnce' /\ PromisedRegistered' /\ SweepsRegistered' /\ SweepsBackwards'
    BY <1>1, <2>1 DEF ProviderIInv, ListedOnce, PromisedRegistered, SweepsRegistered, SweepsBackwards
  <2>5. SweepsArmed'
    BY <1>1, <2>1, <2>2 DEF ProviderIInv, SweepsArmed, Sweeping
  <2>6. AheadOrDisposed' /\ GracefulExitDisposes'
    BY <1>1, <2>1, <2>2 DEF ProviderIInv, AheadOrDisposed, Sweeping, Disposed, GracefulExitDisposes
  <2> QED BY <2>3, <2>4, <2>5, <2>6 DEF ProviderIInv
<1>4. CASE ~(instance[p] = "live" /\ p \notin NoTeardown)
  <2>1. sweeps' = [sweeps EXCEPT ![s] = Tail(sweeps[s])] /\ awaiting' = awaiting /\ s \notin awaiting
    BY <1>2, <1>4 DEF DestroyNext
  <2>2. \A r \in Providers : Disposed(r) => Disposed(r)'
    BY <1>1 DEF Disposed
  <2>3. Disposed(p)'
    BY <1>1, <1>4 DEF Disposed, ProviderTypes
  <2> QED BY <1>1, <1>2, <2>1, <2>2, <2>3, SweepAdvances DEF ProviderTypes
<1> QED BY <1>3, <1>4

LEMMA TeardownKeeps ==
  ASSUME ProviderIInv, NEW s \in Signals, NEW ok \in BOOLEAN, TeardownSettles(s, ok)
  PROVE  ProviderIInv'
<1>1. /\ ProviderTypes /\ SweepsArmed /\ process = "up" /\ process' = "up" /\ s \in awaiting
      /\ sweeps' = [sweeps EXCEPT ![s] = Tail(sweeps[s])] /\ awaiting' = awaiting \ {s}
      /\ UNCHANGED <<boot, providers, handlers, promised>>
  BY DEF ProviderIInv, TeardownSettles
<1>2. sweeps[s] # <<>>
  BY <1>1 DEF SweepsArmed
<1>3. PICK p \in Providers : p = Head(sweeps[s])
  BY <1>1, <1>2, HeadTailProperties DEF ProviderTypes
<1>4. \/ instance' = [instance EXCEPT ![p] = "null"] /\ faulty' = faulty
      \/ faulty' = faulty \cup {p} /\ instance' = instance
  BY <1>3 DEF TeardownSettles
<1>5. instance' \in [Providers -> {"null", "live"}]
  BY <1>1, <1>4 DEF ProviderTypes
<1>6. \A r \in Providers : (instance[r] = "null" => instance'[r] = "null") /\ (r \in faulty => r \in faulty')
  BY <1>1, <1>4 DEF ProviderTypes
<1>7. \A r \in Providers : Disposed(r) => Disposed(r)'
  BY <1>6 DEF Disposed
<1>8. Disposed(p)'
  BY <1>1, <1>4 DEF Disposed, ProviderTypes
<1> QED BY <1>1, <1>2, <1>3, <1>5, <1>7, <1>8, SweepAdvances

LEMMA SweepEndsKeeps ==
  ASSUME ProviderIInv, NEW s \in Signals, SweepEnds(s)
  PROVE  ProviderIInv'
<1>1. /\ ProviderTypes /\ ListedOnce /\ PromisedRegistered /\ SweepsRegistered /\ SweepsArmed /\ AheadOrDisposed
      /\ process = "up" /\ process' = "exited" /\ providers' = <<>> /\ Sweeping(s) /\ sweeps[s] = <<>>
      /\ UNCHANGED <<boot, instance, handlers, sweeps, awaiting, faulty, promised>>
  BY DEF ProviderIInv, SweepEnds
<1>2. ProviderTypes'
  BY <1>1 DEF ProviderTypes
<1>3. ListedOnce' /\ PromisedRegistered' /\ SweepsRegistered'
  BY <1>1 DEF ListedOnce, PromisedRegistered, SweepsRegistered
<1>4. SweepsArmed'
  BY <1>1 DEF SweepsArmed, Sweeping, HooksAttached
<1>5. AheadOrDisposed' /\ SweepsBackwards'
  BY <1>1 DEF AheadOrDisposed, SweepsBackwards
<1>6. \A p \in promised : Disposed(p)
  BY <1>1 DEF AheadOrDisposed
<1>7. GracefulExitDisposes'
  BY <1>1, <1>6 DEF GracefulExitDisposes, Disposed
<1> QED BY <1>2, <1>3, <1>4, <1>5, <1>7 DEF ProviderIInv

LEMMA ProviderStep ==
  ASSUME ProviderIInv, [ProviderNext \/ RouteNext \/ PortNext]_appVars
  PROVE  ProviderIInv'
<1>1. ProviderTypes
  BY DEF ProviderIInv
<1> USE DEF ProviderTypes
<1>2. ASSUME NEW p \in Providers, RegisterProvider(p) PROVE ProviderIInv'
  BY <1>1, <1>2, QuietKeepsProviders DEF RegisterProvider
<1>3. ASSUME NEW p \in Providers, SetupRejects(p) PROVE ProviderIInv'
  BY <1>1, <1>3, QuietKeepsProviders DEF SetupRejects
<1>4. ASSUME NEW s \in Signals, NEW ok \in BOOLEAN, TeardownSettles(s, ok) PROVE ProviderIInv'
  BY <1>4, TeardownKeeps
<1>5. ASSUME NEW batch \in Seq(Routes), NEW reserved \in BOOLEAN, RegisterModule(batch, reserved) PROVE ProviderIInv'
  BY <1>1, <1>5, QuietKeepsProviders DEF RegisterModule, providerVars
<1>6. CASE Start
  BY <1>1, <1>6, QuietKeepsProviders DEF Start, providerVars
<1>7. CASE Probe
  BY <1>1, <1>7, QuietKeepsProviders DEF Probe, providerVars
<1>8. CASE Bind
  BY <1>1, <1>8, QuietKeepsProviders DEF Bind, providerVars
<1>9. ASSUME NEW n \in Ports, OthersMove(n) PROVE ProviderIInv'
  BY <1>1, <1>9, QuietKeepsProviders DEF OthersMove, providerVars
<1>10. CASE UNCHANGED appVars
  BY <1>1, <1>10, QuietKeepsProviders DEF appVars, providerVars
<1>11. CASE ProviderNext
  BY <1>11, <1>2, <1>3, <1>4, SetupResolvesKeeps, SignalKeeps, DestroyNextKeeps, SweepEndsKeeps DEF ProviderNext
<1> QED BY <1>5, <1>6, <1>7, <1>8, <1>9, <1>10, <1>11 DEF RouteNext, PortNext

LEMMA ProvidersStay == AppSpec => []ProviderIInv
<1>1. ProviderIInv /\ [ProviderNext \/ RouteNext \/ PortNext]_appVars => ProviderIInv'
  BY ProviderStep
<1> QED BY <1>1, ProviderInit, PTL DEF AppSpec

\* Whatever the interleaving of two signals, late registrations and rejected
\* teardowns: a process that ended by a sweep has disposed of every provider
\* registered before the first signal, save those whose teardown rejected
\* (nural.ts:236-276).
THEOREM GracefulExitHolds == AppSpec => []GracefulExitDisposes
<1>1. ProviderIInv => GracefulExitDisposes
  BY DEF ProviderIInv
<1> QED BY <1>1, ProvidersStay, PTL

\* A teardown begins only after every later registered provider of the first
\* signal's list is disposed of or has failed to be, for any number of signals
\* and of sweeps under way at once (nural.ts:242-258).
THEOREM LifoHolds == AppSpec => LifoTeardown
<1>1. ASSUME ProviderIInv, [ProviderNext \/ RouteNext \/ PortNext]_appVars PROVE [TeardownsAreLifo]_appVars
  <2> SUFFICES ASSUME NEW s \in awaiting' \ awaiting, NEW j \in DOMAIN providers, NEW i \in DOMAIN providers,
                      j \in 1 .. (i - 1), providers[j] = Head(sweeps[s]),
                      providers[i] \in promised, providers[i] \notin NoTeardown
               PROVE  instance[providers[i]] = "null" \/ providers[i] \in faulty
    <3>1. ProviderTypes
      BY <1>1 DEF ProviderIInv
    <3>2. \A i \in DOMAIN providers : \A j \in 1 .. (i - 1) : j \in DOMAIN providers
      <4>1. DOMAIN providers = 1 .. Len(providers) /\ Len(providers) \in Nat
        BY <3>1 DEF ProviderTypes
      <4> QED BY <4>1
    <3> QED BY <3>2 DEF TeardownsAreLifo
  <2>1. /\ ProviderTypes /\ ListedOnce /\ SweepsArmed /\ AheadOrDisposed /\ SweepsBackwards
    BY <1>1 DEF ProviderIInv
  <2>2. s \in Signals /\ process = "up" /\ sweeps[s] # <<>>
    BY <1>1, <2>1 DEF ProviderNext, RouteNext, PortNext, appVars, providerVars, RegisterProvider, SetupResolves, SetupRejects,
       Signal, DestroyNext, SweepEnds, TeardownSettles, RegisterModule, Start, Probe, Bind, OthersMove, ProviderTypes
  <2>3. Sweeping(s)
    BY <2>1, <2>2 DEF SweepsArmed
  <2>4. Disposed(providers[i]) \/ \E k \in DOMAIN sweeps[s] : sweeps[s][k] = providers[i]
    BY <2>1, <2>2, <2>3 DEF AheadOrDisposed
  <2>5. ASSUME NEW k \in DOMAIN sweeps[s], sweeps[s][k] = providers[i] PROVE FALSE
    <3>1. sweeps[s] \in Seq(Providers) /\ providers \in Seq(Providers)
      BY <2>1, <2>2 DEF ProviderTypes
    <3>2. 1 \in DOMAIN sweeps[s] /\ Head(sweeps[s]) = sweeps[s][1] /\ DOMAIN sweeps[s] = 1 .. Len(sweeps[s])
      BY <3>1, <2>2, TailStep
    <3>3. i \in Nat /\ j \in Nat /\ j < i
      BY <3>1
    <3>4. k # 1
      BY <2>1, <2>5, <3>2, <3>3 DEF ListedOnce
    <3>5. 1 < k
      BY <3>1, <3>2, <3>4
    <3> QED BY <2>1, <2>2, <2>5, <3>2, <3>3, <3>5 DEF SweepsBackwards
  <2> QED BY <2>4, <2>5 DEF Disposed
<1> QED BY <1>1, ProvidersStay, PTL DEF AppSpec, LifoTeardown

-------------------------------------------------------------------------------
(***************************************************************************)
(* Routes.                                                                 *)
(***************************************************************************)

LEMMA SetOfConcat ==
  ASSUME NEW S, NEW q \in Seq(S), NEW t \in Seq(S)
  PROVE  ToSet(q \o t) = ToSet(q) \cup ToSet(t)
<1>1. /\ q \o t \in Seq(S) /\ Len(q \o t) = Len(q) + Len(t)
      /\ \A i \in 1 .. Len(q) + Len(t) : (q \o t)[i] = IF i <= Len(q) THEN q[i] ELSE t[i - Len(q)]
  BY ConcatProperties
<1> DEFINE c == q \o t
<1> HIDE DEF c
<1>2. /\ Len(q) \in Nat /\ Len(t) \in Nat
      /\ DOMAIN q = 1 .. Len(q) /\ DOMAIN t = 1 .. Len(t) /\ DOMAIN c = 1 .. Len(q) + Len(t)
  BY <1>1 DEF c
<1>3. \A i \in DOMAIN c : c[i] \in ToSet(q) \cup ToSet(t)
  <2> SUFFICES ASSUME NEW i \in DOMAIN c PROVE c[i] \in ToSet(q) \cup ToSet(t)
    OBVIOUS
  <2>1. CASE i <= Len(q)
    <3>1. i \in DOMAIN q /\ c[i] = q[i]
      BY <1>1, <1>2, <2>1 DEF c
    <3> QED BY <3>1 DEF ToSet
  <2>2. CASE ~(i <= Len(q))
    <3>1. i - Len(q) \in DOMAIN t /\ c[i] = t[i - Len(q)]
      BY <1>1, <1>2, <2>2 DEF c
    <3> QED BY <3>1 DEF ToSet
  <2> QED BY <2>1, <2>2
<1>4. \A i \in DOMAIN q : i \in DOMAIN c /\ c[i] = q[i]
  BY <1>1, <1>2 DEF c
<1>5. \A i \in DOMAIN t : i + Len(q) \in DOMAIN c /\ c[i + Len(q)] = t[i]
  <2> SUFFICES ASSUME NEW i \in DOMAIN t PROVE i + Len(q) \in DOMAIN c /\ c[i + Len(q)] = t[i]
    OBVIOUS
  <2>1. i + Len(q) \in 1 .. Len(q) + Len(t) /\ ~(i + Len(q) <= Len(q)) /\ (i + Len(q)) - Len(q) = i
    BY <1>2
  <2> QED BY <1>1, <1>2, <2>1 DEF c
<1>6. ToSet(c) = ToSet(q) \cup ToSet(t)
  BY <1>3, <1>4, <1>5 DEF ToSet
<1> QED BY <1>6 DEF c

LEMMA SetOfPrefix ==
  ASSUME NEW S, NEW q \in Seq(S), NEW n \in 0 .. Len(q)
  PROVE  SubSeq(q, 1, n) \in Seq(S) /\ Len(SubSeq(q, 1, n)) = n /\ ToSet(SubSeq(q, 1, n)) = {q[i] : i \in 1 .. n}
<1>1. Len(q) \in Nat /\ n \in Nat /\ DOMAIN q = 1 .. Len(q)
  OBVIOUS
<1>2. \A i \in 1 .. n : q[i] \in S
  <2> SUFFICES ASSUME NEW i \in 1 .. n PROVE q[i] \in S
    OBVIOUS
  <2>1. i \in 1 .. Len(q)
    BY <1>1
  <2> QED BY <2>1, ElementOfSeq
<1> DEFINE p == SubSeq(q, 1, n)
<1>3. p \in Seq(S) /\ Len(p) = n /\ \A i \in 1 .. n : p[i] = q[i]
  <2>1. 1 \in Int /\ n \in Int /\ n - 1 + 1 = n
    BY <1>1
  <2>2. \A i \in 1 .. n : q[i] \in S /\ 1 + i - 1 = i
    BY <1>1, <1>2
  <2> QED BY <1>1, <2>1, <2>2, SubSeqProperties
<1> HIDE DEF p
<1>4. DOMAIN p = 1 .. n
  BY <1>3
<1>5. ToSet(p) = {q[i] : i \in 1 .. n}
  BY <1>3, <1>4 DEF ToSet
<1> QED BY <1>3, <1>5 DEF p

\* Of a batch, the routes before the first refused one are served, and that
\* one is listed as well.
LEMMA RegisterAllSplits ==
  ASSUME NEW batch \in Seq(Routes), RegisterAll(batch)
  PROVE  \E good, tried \in Seq(Routes) :
            /\ listing' = listing \o tried /\ served' = served \o good
            /\ documented' = (IF docs THEN documented \o good ELSE documented) /\ docs' = docs
            /\ ToSet(good) \subseteq ToSet(tried)
            /\ \A r \in ToSet(tried) \ ToSet(good) : Refused(r)
<1> DEFINE bad == {i \in DOMAIN batch : Refused(batch[i])}
<1>1. CASE bad = {}
  <2>1. /\ listing' = listing \o batch /\ served' = served \o batch
        /\ documented' = (IF docs THEN documented \o batch ELSE documented) /\ docs' = docs
    BY <1>1 DEF RegisterAll
  <2> QED BY <2>1
<1>2. CASE bad # {}
  <2> DEFINE k == CHOOSE i \in bad : \A j \in bad : i <= j
  <2>1. /\ listing' = listing \o SubSeq(batch, 1, Len(SubSeq(batch, 1, k - 1)) + 1)
        /\ served' = served \o SubSeq(batch, 1, k - 1)
        /\ documented' = (IF docs THEN documented \o SubSeq(batch, 1, k - 1) ELSE documented) /\ docs' = docs
    <3>1. /\ listing' = listing \o SubSeq(batch, 1, Len(SubSeq(batch, 1, k - 1)) + 1)
          /\ served' = served \o SubSeq(batch, 1, k - 1)
      BY <1>2 DEF RegisterAll
    <3>2. docs' = docs /\ (docs => documented' = documented \o SubSeq(batch, 1, k - 1))
      BY <1>2 DEF RegisterAll
    <3>3. ~docs => documented' = documented
      BY <1>2 DEF RegisterAll
    <3> QED BY <3>1, <3>2, <3>3
  <2>2. DOMAIN batch = 1 .. Len(batch) /\ Len(batch) \in Nat
    OBVIOUS
  <2>3. bad \in SUBSET Nat
    BY <2>2
  <2>4. \E i \in bad : \A j \in bad : i <= j
    <3> HIDE DEF bad
    <3> QED BY <1>2, <2>3, LeastOf
  <2>5. k \in DOMAIN batch /\ Refused(batch[k])
    BY <2>4
  <2> HIDE DEF k, bad
  <2>6. k - 1 \in 0 .. Len(batch) /\ k \in 0 .. Len(batch) /\ (k - 1) + 1 = k
    BY <2>2, <2>5
  <2>7. /\ SubSeq(batch, 1, k - 1) \in Seq(Routes) /\ Len(SubSeq(batch, 1, k - 1)) = k - 1
        /\ ToSet(SubSeq(batch, 1, k - 1)) = {batch[i] : i \in 1 .. k - 1}
    BY <2>6, SetOfPrefix
  <2>8. SubSeq(batch, 1, k) \in Seq(Routes) /\ ToSet(SubSeq(batch, 1, k)) = {batch[i] : i \in 1 .. k}
    BY <2>6, SetOfPrefix
  <2> DEFINE good == SubSeq(batch, 1, k - 1)
             tried == SubSeq(batch, 1, k)
  <2>9. /\ listing' = listing \o tried /\ served' = served \o good
        /\ documented' = (IF docs THEN documented \o good ELSE documented) /\ docs' = docs
    BY <2>1, <2>6, <2>7
  <2>10. \A i \in 1 .. k - 1 : i \in 1 .. k
    BY <2>6
  <2>11. \A i \in 1 .. k : i \in 1 .. k - 1 \/ i = k
    BY <2>6
  <2> HIDE DEF good, tried
  <2>12. ToSet(good) \subseteq ToSet(tried) /\ \A r \in ToSet(tried) \ ToSet(good) : Refused(r)
    BY <2>5, <2>7, <2>8, <2>10, <2>11 DEF good, tried
  <2>13. good \in Seq(Routes) /\ tried \in Seq(Routes)
    BY <2>7, <2>8 DEF good, tried
  <2> QED BY <2>9, <2>12, <2>13
<1> QED BY <1>1, <1>2

RouteIInv ==
  /\ listing \in Seq(Routes) /\ served \in Seq(Routes)
  /\ RoutesAgree

LEMMA RouteStep ==
  ASSUME RouteIInv, [ProviderNext \/ RouteNext \/ PortNext]_appVars
  PROVE  RouteIInv'
<1>1. ASSUME UNCHANGED routeVars, engine' = engine, server = "bound" => server' = "bound" PROVE RouteIInv'
  BY <1>1 DEF RouteIInv, RoutesAgree, routeVars
<1>2. CASE UNCHANGED appVars
  BY <1>1, <1>2 DEF appVars, portVars
<1>3. CASE ProviderNext
  BY <1>1, <1>3 DEF ProviderNext, RegisterProvider, SetupResolves, SetupRejects, Signal, DestroyNext, SweepEnds,
     TeardownSettles, portVars
<1>4. CASE PortNext
  BY <1>1, <1>4 DEF PortNext, Start, Probe, Bind, OthersMove
<1>5. ASSUME NEW batch \in Seq(Routes), NEW reserved \in BOOLEAN, RegisterModule(batch, reserved) PROVE RouteIInv'
  <2>1. engine' = engine /\ server' = server
    BY <1>5 DEF RegisterModule, portVars
  <2>2. CASE reserved
    BY <1>1, <1>5, <2>1, <2>2 DEF RegisterModule
  <2>3. CASE ~reserved
    <3>1. RegisterAll(batch)
      BY <1>5, <2>3 DEF RegisterModule
    <3>2. PICK good \in Seq(Routes), tried \in Seq(Routes) :
            /\ listing' = listing \o tried /\ served' = served \o good
            /\ documented' = (IF docs THEN documented \o good ELSE documented) /\ docs' = docs
            /\ ToSet(good) \subseteq ToSet(tried)
            /\ \A r \in ToSet(tried) \ ToSet(good) : Refused(r)
      BY <3>1, RegisterAllSplits
    <3>3. /\ ToSet(listing') = ToSet(listing) \cup ToSet(tried)
          /\ ToSet(served') = ToSet(served) \cup ToSet(good)
      BY <3>2, SetOfConcat DEF RouteIInv
    <3>4. listing' \in Seq(Routes) /\ served' \in Seq(Routes)
      BY <3>2, ConcatProperties DEF RouteIInv
    <3>5. RoutesAgree'
      BY <2>1, <3>2, <3>3 DEF RouteIInv, RoutesAgree, Refused
    <3> QED BY <3>4, <3>5 DEF RouteIInv
  <2> QED BY <2>2, <2>3
<1> QED BY <1>2, <1>3, <1>4, <1>5 DEF RouteNext

\* Whenever a registration throws, at any route of any batch and before or
\* after the server listens, the documentation and the engine hold the same
\* routes and whatever else is listed was refused (nural.ts:138-146, 202-208).
THEOREM RoutesAgreeHolds == AppSpec => []RoutesAgree
<1>1. AppInit => RouteIInv
  BY DEF AppInit, RouteIInv, RoutesAgree, ToSet
<1>2. RouteIInv /\ [ProviderNext \/ RouteNext \/ PortNext]_appVars => RouteIInv'
  BY RouteStep
<1>3. RouteIInv => RoutesAgree
  BY DEF RouteIInv
<1> QED BY <1>1, <1>2, <1>3, PTL DEF AppSpec

-------------------------------------------------------------------------------
(***************************************************************************)
(* One request through both engines.                                       *)
(***************************************************************************)

BadSlots == {s \in Slots : Bad(s)}
RunFields == {"pc", "at", "ctx", "err", "sent", "ran", "cors", "helmet"}

\* What the handler may rely on
CleanRequest == case.values["body"] # "malformed" /\ BadSlots = {}

LEMMA ModesOfSlots ==
  ASSUME DOMAIN case.slots = Slots, NEW s \in Slots
  PROVE  /\ Modes[s] = IF case.slots[s] = NoSchema THEN "raw" ELSE CompileSlot(case.slots[s])
         /\ Modes[s] \in {"raw", "compiled", "runtime"}
         /\ Bad(s) => Modes[s] \in {"compiled", "runtime"}
<1>1. Modes[s] = IF case.slots[s] = NoSchema THEN "raw" ELSE CompileSlot(case.slots[s])
  BY DEF Modes, CompileRouteSchema
<1>2. Modes[s] \in {"raw", "compiled", "runtime"}
  BY <1>1 DEF CompileSlot
<1>3. Modes[s] = "raw" => ~Bad(s)
  BY DEF Bad, SlotAccepts
<1> QED BY <1>1, <1>2, <1>3

\* What either compiler's choice lets through, Zod itself would accept.
LEMMA GoodSlotsAreValid ==
  ASSUME DOMAIN case.slots = Slots, NEW s \in Slots, ~Bad(s), case.slots[s] # NoSchema
  PROVE  ZodAccepts(case.slots[s], case.values[s])
<1>1. Modes[s] = CompileSlot(case.slots[s])
  BY ModesOfSlots
<1>2. SlotAccepts(Modes[s], case.slots[s], case.values[s])
  BY DEF Bad
<1>3. CASE Modes[s] = "runtime"
  BY <1>2, <1>3 DEF SlotAccepts
<1>4. CASE Modes[s] = "compiled"
  <2>1. "custom" \notin case.slots[s]
    BY <1>1, <1>4 DEF CompileSlot, SchemaNeedsRuntimeZod
  <2>2. AjvAccepts(case.values[s])
    BY <1>2, <1>4 DEF SlotAccepts
  <2> QED BY <2>1, <2>2 DEF AjvAccepts, ZodAccepts
<1> QED BY <1>1, <1>3, <1>4 DEF CompileSlot

\* FirstBad names a bad slot of the asked modes whenever there is one.
LEMMA FirstBadOf ==
  ASSUME NEW order, NEW modes, order \in {ExpressOrder, FastifyOrder}
  PROVE  \/ /\ FirstBad(order, modes) = "none"
            /\ \A s \in Slots : Modes[s] \in modes => ~Bad(s)
         \/ /\ FirstBad(order, modes) # "none"
            /\ FirstBad(order, modes) \in BadSlots /\ Modes[FirstBad(order, modes)] \in modes
<1>1. /\ DOMAIN order = 1 .. 3 /\ \A i \in 1 .. 3 : order[i] \in Slots
      /\ \A s \in Slots : \E i \in 1 .. 3 : order[i] = s
  BY DEF ExpressOrder, FastifyOrder, Slots
<1> DEFINE bad == {i \in DOMAIN order : Modes[order[i]] \in modes /\ Bad(order[i])}
<1>2. CASE bad = {}
  <2>1. FirstBad(order, modes) = "none"
    BY <1>2 DEF FirstBad
  <2>2. \A s \in Slots : Modes[s] \in modes => ~Bad(s)
    BY <1>1, <1>2
  <2> QED BY <2>1, <2>2
<1>3. CASE bad # {}
  <2>1. FirstBad(order, modes) = order[Min(bad)]
    BY <1>3 DEF FirstBad
  <2>2. bad \in SUBSET Nat
    BY <1>1
  <2>3. \E m \in bad : \A n \in bad : m <= n
    <3> HIDE DEF bad
    <3> QED BY <1>3, <2>2, LeastOf
  <2>4. Min(bad) \in bad
    <3> HIDE DEF bad
    <3> QED BY <2>3 DEF Min
  <2>5. PICK m \in bad : m = Min(bad)
    BY <2>4
  <2>6. order[m] \in Slots /\ Bad(order[m]) /\ Modes[order[m]] \in modes
    BY <1>1
  <2>7. order[m] # "none"
    BY <2>6 DEF Slots
  <2> QED BY <2>1, <2>5, <2>6, <2>7 DEF BadSlots
<1> QED BY <1>2, <1>3

LEMMA FailFields ==
  ASSUME NEW r, DOMAIN r = RunFields, NEW err
  PROVE  /\ DOMAIN Fail(r, err) = RunFields /\ Fail(r, err).pc = "error" /\ Fail(r, err).err = err
         /\ Fail(r, err).sent = r.sent /\ Fail(r, err).ran = r.ran /\ Fail(r, err).at = r.at
         /\ Fail(r, err).ctx = r.ctx
BY DEF Fail, RunFields

LEMMA SendFields ==
  ASSUME NEW r, DOMAIN r = RunFields, NEW reply
  PROVE  /\ DOMAIN Send(r, reply) = RunFields /\ Send(r, reply).pc = r.pc /\ Send(r, reply).ctx = r.ctx
         /\ Send(r, reply).sent = (IF r.sent = NotSent THEN reply ELSE r.sent)
         /\ Send(r, reply).ran = r.ran /\ Send(r, reply).at = r.at
BY DEF Send, RunFields

LEMMA DoneFields ==
  ASSUME NEW r, DOMAIN r = RunFields
  PROVE  /\ DOMAIN Done(r) = RunFields /\ Done(r).pc = "done" /\ Done(r).sent = r.sent /\ Done(r).ran = r.ran
BY DEF Done, RunFields

\* How a middleware refuses: by an error of its own, or for want of a user.
Refusal(mw) == HttpError(IF mw = "throws" THEN 401 ELSE 403)

LEMMA MiddlewareFields ==
  ASSUME NEW r, DOMAIN r = RunFields, NEW mw \in MiddlewareKinds, NEW seen
  PROVE  /\ DOMAIN MiddlewareEffect(r, mw, seen) = RunFields
         /\ MiddlewareEffect(r, mw, seen).ran = r.ran /\ MiddlewareEffect(r, mw, seen).at = r.at + 1
         /\ mw \in {"adds", "responds"} => MiddlewareEffect(r, mw, seen).pc = r.pc
         /\ mw # "adds" => MiddlewareEffect(r, mw, seen).ctx = r.ctx
         /\ mw # "responds" => MiddlewareEffect(r, mw, seen).sent = r.sent
         /\ mw = "reads" /\ "user" \in seen => MiddlewareEffect(r, mw, seen).pc = r.pc
         /\ mw = "throws" \/ (mw = "reads" /\ "user" \notin seen) =>
               /\ MiddlewareEffect(r, mw, seen).pc = "error"
               /\ MiddlewareEffect(r, mw, seen).err = Refusal(mw)
<1> DEFINE next == [r EXCEPT !.at = @ + 1]
<1>1. /\ DOMAIN next = RunFields /\ next.ran = r.ran /\ next.sent = r.sent /\ next.pc = r.pc /\ next.at = r.at + 1
      /\ next.ctx = r.ctx
  BY DEF RunFields
<1>2. CASE mw = "adds"
  <2>1. MiddlewareEffect(r, mw, seen) = [next EXCEPT !.ctx = Assign(@, {"user", "body", "status"}, "middleware")]
    BY <1>2 DEF MiddlewareEffect
  <2> HIDE DEF next
  <2> QED BY <1>1, <1>2, <2>1 DEF RunFields
<1>3. CASE mw = "responds"
  <2>1. MiddlewareEffect(r, mw, seen) = Send(next, [by |-> "middleware", status |-> 429])
    BY <1>3 DEF MiddlewareEffect
  <2> DEFINE reply == [by |-> "middleware", status |-> 429]
  <2> HIDE DEF next, reply
  <2>2. MiddlewareEffect(r, mw, seen) = Send(next, reply)
    BY <2>1 DEF reply
  <2> QED BY <1>1, <1>3, <2>2, SendFields
<1>4. CASE mw = "reads" /\ "user" \in seen
  <2>1. MiddlewareEffect(r, mw, seen) = next
    BY <1>4 DEF MiddlewareEffect
  <2> HIDE DEF next
  <2> QED BY <1>1, <1>4, <2>1
<1>5. CASE mw = "throws" \/ (mw = "reads" /\ "user" \notin seen)
  <2>1. MiddlewareEffect(r, mw, seen) = Fail(next, Refusal(mw))
    BY <1>5 DEF MiddlewareEffect, Refusal
  <2> HIDE DEF next
  <2> QED BY <1>1, <1>5, <2>1, FailFields
<1> QED BY <1>2, <1>3, <1>4, <1>5 DEF MiddlewareKinds

LEMMA HandlerFields ==
  ASSUME NEW r, DOMAIN r = RunFields
  PROVE  /\ DOMAIN HandlerEffect(r) = RunFields /\ HandlerEffect(r).ran = TRUE
         /\ case.handler \in {"throws", "fails"} =>
              /\ HandlerEffect(r).pc = "error" /\ HandlerEffect(r).sent = r.sent
              /\ HandlerEffect(r).err = IF case.handler = "throws" THEN HttpError(404) ELSE PlainError(case.words)
         /\ case.handler \notin {"throws", "fails"} =>
              /\ HandlerEffect(r).pc = "reply"
              /\ HandlerEffect(r).sent = IF case.handler = "sends" /\ r.sent = NotSent
                                         THEN [by |-> "handler", status |-> 202] ELSE r.sent
<1> DEFINE called == [r EXCEPT !.ran = TRUE, !.ctx = Assign(@, Injected, "provider"), !.pc = "reply"]
           reply == [by |-> "handler", status |-> 202]
<1>1. DOMAIN called = RunFields /\ called.ran = TRUE /\ called.sent = r.sent /\ called.pc = "reply"
  BY DEF RunFields
<1>2. HandlerEffect(r) = CASE case.handler = "throws" -> Fail(called, HttpError(404))
                           [] case.handler = "fails" -> Fail(called, PlainError(case.words))
                           [] case.handler = "sends" -> Send(called, reply)
                           [] OTHER -> called
  BY DEF HandlerEffect
<1> HIDE DEF called
<1>3. CASE case.handler = "throws"
  <2>1. HandlerEffect(r) = Fail(called, HttpError(404))
    BY <1>2, <1>3
  <2> QED BY <1>1, <1>3, <2>1, FailFields
<1>4. CASE case.handler = "fails"
  <2>1. HandlerEffect(r) = Fail(called, PlainError(case.words))
    BY <1>2, <1>4
  <2> QED BY <1>1, <1>4, <2>1, FailFields
<1>5. CASE case.handler = "sends"
  <2>1. HandlerEffect(r) = Send(called, reply)
    BY <1>2, <1>5
  <2> HIDE DEF reply
  <2>2. /\ DOMAIN HandlerEffect(r) = RunFields /\ HandlerEffect(r).ran = TRUE /\ HandlerEffect(r).pc = "reply"
        /\ HandlerEffect(r).sent = IF r.sent = NotSent THEN reply ELSE r.sent
    BY <1>1, <2>1, SendFields
  <2> QED BY <1>5, <2>2 DEF reply
<1>6. CASE case.handler \notin {"throws", "fails", "sends"}
  <2>1. HandlerEffect(r) = called
    BY <1>2, <1>6
  <2> QED BY <1>1, <1>6, <2>1
<1> QED BY <1>3, <1>4, <1>5, <1>6

-------------------------------------------------------------------------------
(* Where the route and the request alone decide the outcome.               *)

Answered == case.cors.on /\ case.method = "OPTIONS" /\ ~case.cors.preflightContinue
\* Where no middleware reads what an earlier one added, each that reads refuses,
\* and the first that throws or reads decides.
Refusals == {i \in DOMAIN ModuleMiddleware : ModuleMiddleware[i] \in {"throws", "reads"}}
Throws == Refusals # {}
Refuser == CHOOSE i \in Refusals : \A j \in Refusals : i <= j
Runs == ~Answered /\ ~Throws /\ BadSlots = {}
ReplyFits == case.handler \in {"sends", "bare"} \/ ResultFits
Fails == Throws \/ BadSlots # {} \/ case.handler \in {"throws", "fails"} \/ ~ReplyFits
Failure ==
  IF Throws THEN Refusal(ModuleMiddleware[Refuser])
  ELSE IF BadSlots # {} THEN SlotError(CHOOSE s \in BadSlots : TRUE)
  ELSE IF case.handler = "throws" THEN HttpError(404)
  ELSE IF case.handler = "fails" THEN PlainError(case.words)
  ELSE IF ResponseMode = "runtime" THEN ZodError("response", "zod")
  ELSE PlainError({})
HandlerAnswer == [by |-> "handler", status |-> 202]
ErrorReply == [by |-> "error", status |-> ErrorStatus(Failure), body |-> "full", of |-> Failure]
Outcome ==
  IF Answered THEN [by |-> "cors", status |-> 204]
  ELSE IF Fails THEN ErrorReply
  ELSE IF case.handler = "sends" THEN HandlerAnswer
  ELSE Reply

\* How far an engine's checks have come when it calls the handler
Checked(e) ==
  IF e = "express" THEN BadSlots = {}
  ELSE \A s \in Slots : Modes[s] = "compiled" => ~Bad(s)

RunValid(e, r) ==
  /\ r.pc \in {"onRequest", "parsing", "middleware"} => r.at \in Nat \ {0}
  /\ r.pc \in {"middleware", "validate", "handler"} => case.values["body"] # "malformed"
  /\ r.pc = "handler" => Checked(e)
  /\ r.ran => CleanRequest

RunAgrees(r) ==
  /\ r.pc \in {"onRequest", "parsing", "middleware", "validate", "handler"} => r.sent = NotSent /\ r.ran = FALSE
  /\ r.pc \notin {"onRequest", "done"} => ~Answered
  /\ r.pc \in {"onRequest", "parsing", "middleware"} =>
        /\ \A j \in Refusals : j >= r.at
        /\ "user" \in DOMAIN r.ctx => \E j \in DOMAIN ModuleMiddleware : j < r.at /\ ModuleMiddleware[j] = "adds"
  /\ r.pc \in {"validate", "handler", "reply"} => ~Throws
  /\ r.pc = "reply" =>
        /\ r.ran = Runs /\ BadSlots = {} /\ case.handler \notin {"throws", "fails"}
        /\ r.sent = IF case.handler = "sends" THEN HandlerAnswer ELSE NotSent
  /\ r.pc = "error" => r.sent = NotSent /\ r.ran = Runs /\ Fails /\ r.err = Failure
  /\ r.pc = "done" => r.sent = Outcome /\ r.ran = Runs

RunInv(e, r) ==
  /\ DOMAIN r = RunFields
  /\ RunValid(e, r)
  /\ ~EnginesDiffer => RunAgrees(r)

PipelineIInv ==
  /\ case \in Cases /\ DOMAIN run = HttpEngines
  /\ \A e \in HttpEngines : RunInv(e, run[e])

LEMMA MiddlewareIsSeq ==
  ASSUME case \in Cases
  PROVE  ModuleMiddleware \in Seq(MiddlewareKinds) /\ DOMAIN case.slots = Slots
<1>1. /\ case.baseMiddleware \in Seq(MiddlewareKinds) /\ case.builder \in Seq(MiddlewareKinds)
      /\ case.middleware \in Seq(MiddlewareKinds) /\ DOMAIN case.slots = Slots
  BY CasesAssumption
<1>2. RouteMiddleware \in Seq(MiddlewareKinds)
  BY <1>1, ConcatProperties DEF RouteMiddleware
<1>3. ModuleMiddleware \in Seq(MiddlewareKinds)
  BY <1>1, <1>2, ConcatProperties DEF ModuleMiddleware
<1> QED BY <1>1, <1>3

\* What the invariant says of a run depends on the case alone, which stays.
LEMMA CaseKept ==
  ASSUME case \in Cases, case' = case, DOMAIN run' = HttpEngines, \A f \in HttpEngines : RunInv(f, run'[f])
  PROVE  PipelineIInv'
<1>1. case' = case
  OBVIOUS
<1>2. /\ ModuleMiddleware' = ModuleMiddleware /\ BadSlots' = BadSlots /\ Modes' = Modes
      /\ \A s \in Slots : Bad(s)' <=> Bad(s)
  BY <1>1 DEF ModuleMiddleware, RouteMiddleware, BadSlots, Bad, Modes
<1>2a. Refusals' = Refusals
  BY <1>2 DEF Refusals
<1>3. \A f \in HttpEngines : Checked(f)' <=> Checked(f)
  BY <1>2 DEF Checked
<1>4. (CleanRequest' <=> CleanRequest) /\ (Answered' <=> Answered) /\ (Throws' <=> Throws) /\ (Fails' <=> Fails)
      /\ Runs' = Runs /\ (EnginesDiffer' <=> EnginesDiffer)
  BY <1>1, <1>2, <1>2a DEF CleanRequest, Answered, Throws, Fails, ReplyFits, ResultFits, ResponseMode, Runs,
     EnginesDiffer, ReadsUpstream
<1>5. Failure' = Failure
  BY <1>1, <1>2, <1>2a, <1>4 DEF Failure, Refuser, ResponseMode, SlotError
<1>6. Outcome' = Outcome
  BY <1>1, <1>4, <1>5 DEF Outcome, ErrorReply, ErrorStatus
<1>7. \A f \in HttpEngines : RunInv(f, run'[f])
  OBVIOUS
<1>8. \A f \in HttpEngines : RunValid(f, run'[f]) => RunValid(f, run[f])'
  BY <1>1, <1>3, <1>4 DEF RunValid
<1>9. \A f \in HttpEngines : RunAgrees(run'[f]) => RunAgrees(run[f])'
  BY <1>1, <1>2, <1>2a, <1>4, <1>5, <1>6 DEF RunAgrees
<1>10. \A f \in HttpEngines : RunInv(f, run[f])'
  BY <1>4, <1>7, <1>8, <1>9 DEF RunInv
<1> QED BY <1>1, <1>10 DEF PipelineIInv

LEMMA BecomeKeeps ==
  ASSUME PipelineIInv, NEW e \in HttpEngines, NEW r, Become(e, r), RunInv(e, r)
  PROVE  PipelineIInv'
<1>1. case' = case /\ run' = [run EXCEPT ![e] = r]
  BY DEF Become
<1>2. DOMAIN run' = HttpEngines /\ \A f \in HttpEngines : RunInv(f, run'[f])
  BY <1>1 DEF PipelineIInv
<1> QED BY <1>1, <1>2, CaseKept DEF PipelineIInv

LEMMA OnRequestKeeps ==
  ASSUME PipelineIInv, NEW e \in HttpEngines, OnRequest(e)
  PROVE  PipelineIInv'
<1> DEFINE r == [run[e] EXCEPT !.cors = IF case.cors.on
                                       THEN BuildCorsHeaders(case.origin, case.cors, case.method = "OPTIONS")
                                       ELSE NoCorsHeaders,
                               !.helmet = HelmetHeaders]
           reply == [by |-> "cors", status |-> 204]
           v == IF Answered THEN Done(Send(r, reply)) ELSE [r EXCEPT !.pc = "parsing"]
<1>1. run[e].pc = "onRequest" /\ Become(e, v) /\ RunInv(e, run[e])
  BY DEF OnRequest, At, Answered, PipelineIInv
<1>2. /\ DOMAIN r = RunFields /\ r.pc = run[e].pc /\ r.sent = run[e].sent /\ r.ran = run[e].ran /\ r.at = run[e].at
      /\ r.ctx = run[e].ctx
  BY <1>1 DEF RunInv, RunFields
<1>3. RunInv(e, v)
  <2> HIDE DEF r
  <2>1. CASE Answered
    <3> HIDE DEF reply
    <3> DEFINE w == Send(r, reply)
    <3>1. /\ DOMAIN w = RunFields /\ w.pc = r.pc /\ w.ran = r.ran
          /\ w.sent = (IF r.sent = NotSent THEN reply ELSE r.sent)
      BY <1>2, SendFields
    <3> HIDE DEF w
    <3>2. v = Done(w)
      BY <2>1 DEF w
    <3> HIDE DEF v
    <3>3. DOMAIN v = RunFields /\ v.pc = "done" /\ v.sent = w.sent /\ v.ran = w.ran
      BY <3>1, <3>2, DoneFields
    <3>4. RunValid(e, v)
      BY <1>1, <1>2, <3>1, <3>3 DEF RunInv, RunValid
    <3>5. ASSUME ~EnginesDiffer PROVE RunAgrees(v)
      BY <1>1, <1>2, <2>1, <3>1, <3>3, <3>5 DEF RunInv, RunAgrees, Outcome, Runs, reply
    <3> QED BY <3>3, <3>4, <3>5 DEF RunInv
  <2>2. CASE ~Answered
    <3>1. v = [r EXCEPT !.pc = "parsing"]
      BY <2>2
    <3> HIDE DEF v
    <3>2. DOMAIN v = RunFields /\ v.pc = "parsing" /\ v.sent = r.sent /\ v.ran = r.ran /\ v.at = r.at /\ v.ctx = r.ctx
      BY <1>2, <3>1 DEF RunFields
    <3>4. RunValid(e, v)
      BY <1>1, <1>2, <3>2 DEF RunInv, RunValid
    <3>5. ASSUME ~EnginesDiffer PROVE RunAgrees(v)
      BY <1>1, <1>2, <2>2, <3>2, <3>5 DEF RunInv, RunAgrees
    <3> QED BY <3>2, <3>4, <3>5 DEF RunInv
  <2> QED BY <2>1, <2>2
<1> HIDE DEF v
<1> QED BY <1>1, <1>3, BecomeKeeps

LEMMA MoveFields ==
  ASSUME NEW r, DOMAIN r = RunFields, NEW pc
  PROVE  /\ DOMAIN [r EXCEPT !.pc = pc] = RunFields /\ [r EXCEPT !.pc = pc].pc = pc
         /\ [r EXCEPT !.pc = pc].sent = r.sent /\ [r EXCEPT !.pc = pc].ran = r.ran
         /\ [r EXCEPT !.pc = pc].at = r.at /\ [r EXCEPT !.pc = pc].ctx = r.ctx
BY DEF RunFields

LEMMA ParseKeeps ==
  ASSUME PipelineIInv, ExpressParse \/ FastifyParse
  PROVE  PipelineIInv'
<1>0. PICK e \in HttpEngines :
        /\ run[e].pc = "parsing" /\ RunInv(e, run[e])
        /\ \/ case.values["body"] # "malformed" /\ Become(e, [run[e] EXCEPT !.pc = "middleware"])
           \/ /\ case.values["body"] = "malformed"
              /\ \/ Become(e, Done(Send(run[e], [by |-> "framework", status |-> 400])))
                 \/ Become(e, Fail(run[e], PlainError({})))
  <2>1. CASE ExpressParse
    <3>1. "express" \in HttpEngines /\ RunInv("express", run["express"]) /\ run["express"].pc = "parsing"
      BY <2>1 DEF ExpressParse, At, PipelineIInv, HttpEngines
    <3> QED BY <2>1, <3>1 DEF ExpressParse
  <2>2. CASE FastifyParse
    <3>1. "fastify" \in HttpEngines /\ RunInv("fastify", run["fastify"]) /\ run["fastify"].pc = "parsing"
      BY <2>2 DEF FastifyParse, At, PipelineIInv, HttpEngines
    <3> QED BY <2>2, <3>1 DEF FastifyParse
  <2> QED BY <2>1, <2>2
<1>1. PICK r :
        /\ r = run[e] /\ r.pc = "parsing" /\ RunInv(e, r)
        /\ \/ case.values["body"] # "malformed" /\ Become(e, [r EXCEPT !.pc = "middleware"])
           \/ /\ case.values["body"] = "malformed"
              /\ \/ Become(e, Done(Send(r, [by |-> "framework", status |-> 400])))
                 \/ Become(e, Fail(r, PlainError({})))
  BY <1>0
<1>2. DOMAIN r = RunFields
  BY <1>1 DEF RunInv
<1>3. CASE case.values["body"] # "malformed" /\ Become(e, [r EXCEPT !.pc = "middleware"])
  <2> DEFINE v == [r EXCEPT !.pc = "middleware"]
  <2>1. DOMAIN v = RunFields /\ v.pc = "middleware" /\ v.sent = r.sent /\ v.ran = r.ran /\ v.at = r.at /\ v.ctx = r.ctx
    BY <1>2, MoveFields
  <2>2. Become(e, v)
    BY <1>3
  <2> HIDE DEF v
  <2>3. RunValid(e, v)
    BY <1>1, <1>3, <2>1 DEF RunInv, RunValid
  <2>4. ASSUME ~EnginesDiffer PROVE RunAgrees(v)
    BY <1>1, <2>1, <2>4 DEF RunInv, RunAgrees
  <2>5. RunInv(e, v)
    BY <2>1, <2>3, <2>4 DEF RunInv
  <2> QED BY <2>2, <2>5, BecomeKeeps
<1>4. CASE case.values["body"] = "malformed" /\ Become(e, Done(Send(r, [by |-> "framework", status |-> 400])))
  <2> DEFINE reply == [by |-> "framework", status |-> 400]
             w == Send(r, reply)
             v == Done(w)
  <2>1. Become(e, v)
    BY <1>4
  <2> HIDE DEF reply
  <2>2. DOMAIN w = RunFields /\ w.ran = r.ran
    BY <1>2, SendFields
  <2> HIDE DEF w
  <2>3. DOMAIN v = RunFields /\ v.pc = "done" /\ v.ran = r.ran
    BY <2>2, DoneFields
  <2> HIDE DEF v
  <2>4. RunInv(e, v)
    BY <1>1, <1>4, <2>3 DEF RunInv, RunValid, EnginesDiffer
  <2> QED BY <2>1, <2>4, BecomeKeeps
<1>5. CASE case.values["body"] = "malformed" /\ Become(e, Fail(r, PlainError({})))
  <2> DEFINE v == Fail(r, PlainError({}))
  <2>1. DOMAIN v = RunFields /\ v.pc = "error" /\ v.ran = r.ran
    BY <1>2, FailFields
  <2> HIDE DEF v
  <2>2. RunInv(e, v)
    BY <1>1, <1>5, <2>1 DEF RunInv, RunValid, EnginesDiffer
  <2> QED BY <1>5, <2>2, BecomeKeeps DEF v
<1> QED BY <1>1, <1>3, <1>4, <1>5

LEMMA MiddlewareStageKeeps ==
  ASSUME PipelineIInv, NEW e \in HttpEngines, NEW r, r = run[e], r.pc = "middleware",
         NEW seen, seen \in {{}, DOMAIN r.ctx},
         \/ r.at <= Len(ModuleMiddleware) /\ Become(e, MiddlewareEffect(r, ModuleMiddleware[r.at], seen))
         \/ r.at > Len(ModuleMiddleware) /\ Become(e, [r EXCEPT !.pc = "validate"])
         \/ r.at > Len(ModuleMiddleware) /\ r.sent # NotSent /\ Become(e, Done(r))
  PROVE  PipelineIInv'
<1>1. RunInv(e, r) /\ DOMAIN r = RunFields /\ r.at \in Nat \ {0}
  BY DEF PipelineIInv, RunInv, RunValid
<1>2. /\ ModuleMiddleware \in Seq(MiddlewareKinds)
      /\ Len(ModuleMiddleware) \in Nat /\ DOMAIN ModuleMiddleware = 1 .. Len(ModuleMiddleware)
  BY MiddlewareIsSeq DEF PipelineIInv
<1>3. CASE r.at <= Len(ModuleMiddleware) /\ Become(e, MiddlewareEffect(r, ModuleMiddleware[r.at], seen))
  <2> DEFINE v == MiddlewareEffect(r, ModuleMiddleware[r.at], seen)
  <2>1. r.at \in DOMAIN ModuleMiddleware
    BY <1>1, <1>2, <1>3
  <2>2. PICK mw \in MiddlewareKinds : mw = ModuleMiddleware[r.at]
    BY <1>2, <2>1, ElementOfSeq
  <2>3. /\ DOMAIN v = RunFields /\ v.ran = r.ran /\ v.at = r.at + 1
        /\ mw \in {"adds", "responds"} => v.pc = r.pc
        /\ mw # "adds" => v.ctx = r.ctx
        /\ mw # "responds" => v.sent = r.sent
        /\ mw = "reads" /\ "user" \in seen => v.pc = r.pc
        /\ mw = "throws" \/ (mw = "reads" /\ "user" \notin seen) => v.pc = "error" /\ v.err = Refusal(mw)
    BY <1>1, <2>2, MiddlewareFields
  <2> HIDE DEF v
  <2>4. RunValid(e, v)
    <3>1. v.pc \in {"middleware", "error"} /\ v.at \in Nat \ {0}
      BY <1>1, <2>3 DEF MiddlewareKinds
    <3> QED BY <1>1, <2>3, <3>1 DEF RunInv, RunValid
  <2>5. ASSUME ~EnginesDiffer PROVE RunAgrees(v)
    <3>1. mw # "responds"
      BY <2>1, <2>2, <2>5 DEF EnginesDiffer, ToSet
    <3>2. /\ r.sent = NotSent /\ r.ran = FALSE /\ ~Answered
          /\ \A j \in Refusals : j >= r.at
          /\ "user" \in DOMAIN r.ctx => \E j \in DOMAIN ModuleMiddleware : j < r.at /\ ModuleMiddleware[j] = "adds"
      BY <1>1, <2>5 DEF RunInv, RunAgrees
    <3>3. CASE mw \in {"throws", "reads"}
      <4>1. r.at \in Refusals
        BY <2>1, <2>2, <3>3 DEF Refusals
      <4>2. Refuser = r.at
        <5>1. \A j \in Refusals : j \in Nat
          BY <1>2 DEF Refusals
        <5>2. Refuser \in Refusals /\ \A j \in Refusals : Refuser <= j
          BY <3>2, <4>1 DEF Refuser
        <5> QED BY <1>1, <3>2, <4>1, <5>1, <5>2
      <4>3. mw = "throws" \/ (mw = "reads" /\ "user" \notin seen)
        BY <2>1, <2>2, <2>5, <3>2, <3>3 DEF EnginesDiffer, ReadsUpstream
      <4>4. Throws /\ Failure = Refusal(mw)
        BY <2>2, <4>1, <4>2 DEF Throws, Failure
      <4>5. v.pc = "error" /\ v.err = Refusal(mw) /\ v.sent = r.sent /\ v.ran = r.ran
        BY <2>3, <3>1, <4>3
      <4> HIDE DEF Refusal
      <4> QED BY <3>2, <4>4, <4>5 DEF RunAgrees, Runs, Fails
    <3>4. CASE mw = "adds"
      <4>1. r.at \notin Refusals /\ \A j \in Refusals : j \in Nat
        <5>1. r.at \notin Refusals
          BY <2>2, <3>4 DEF Refusals
        <5>2. \A j \in Refusals : j \in Nat
          BY <1>2 DEF Refusals
        <5> QED BY <5>1, <5>2
      <4>2. \A j \in Refusals : j >= v.at
        BY <1>1, <2>3, <3>2, <4>1
      <4>3. r.at < v.at
        BY <1>1, <2>3
      <4> QED BY <2>1, <2>2, <2>3, <3>2, <3>4, <4>2, <4>3 DEF RunAgrees
    <3> QED BY <3>1, <3>3, <3>4 DEF MiddlewareKinds
  <2>6. RunInv(e, v)
    BY <2>3, <2>4, <2>5 DEF RunInv
  <2> QED BY <1>3, <2>6, BecomeKeeps DEF v
<1>4. CASE r.at > Len(ModuleMiddleware) /\ Become(e, [r EXCEPT !.pc = "validate"])
  <2> DEFINE v == [r EXCEPT !.pc = "validate"]
  <2>1. DOMAIN v = RunFields /\ v.pc = "validate" /\ v.sent = r.sent /\ v.ran = r.ran
    BY <1>1, MoveFields
  <2>2. Become(e, v)
    BY <1>4
  <2> HIDE DEF v
  <2>3. RunValid(e, v)
    BY <1>1, <2>1 DEF RunInv, RunValid
  <2>4. ASSUME ~EnginesDiffer PROVE RunAgrees(v)
    <3>1. \A j \in DOMAIN ModuleMiddleware : j < r.at
      BY <1>1, <1>2, <1>4
    <3>2. ~Throws
      <4>1. \A j \in Refusals : j \in DOMAIN ModuleMiddleware /\ j \in Nat /\ j >= r.at
        BY <1>1, <1>2, <2>4 DEF RunInv, RunAgrees, Refusals
      <4> QED BY <1>1, <3>1, <4>1 DEF Throws
    <3> QED BY <1>1, <2>1, <2>4, <3>2 DEF RunInv, RunAgrees
  <2>5. RunInv(e, v)
    BY <2>1, <2>3, <2>4 DEF RunInv
  <2> QED BY <2>2, <2>5, BecomeKeeps
<1>5. CASE r.sent # NotSent /\ Become(e, Done(r))
  <2> DEFINE v == Done(r)
  <2>1. DOMAIN v = RunFields /\ v.pc = "done" /\ v.ran = r.ran
    BY <1>1, DoneFields
  <2> HIDE DEF v
  <2>2. RunInv(e, v)
    BY <1>1, <1>5, <2>1 DEF RunInv, RunValid, RunAgrees
  <2> QED BY <1>5, <2>2, BecomeKeeps DEF v
<1> QED BY <1>3, <1>4, <1>5

LEMMA OneBadSlot ==
  ASSUME ~EnginesDiffer, NEW a \in BadSlots, NEW b \in BadSlots
  PROVE  a = b
<1> SUFFICES ASSUME a # b PROVE FALSE
  OBVIOUS
<1>1. IsFiniteSet(Slots)
  <2>1. IsFiniteSet({"query"})
    BY FS_Singleton
  <2>2. IsFiniteSet({"query"} \cup {"body"})
    BY <2>1, FS_AddElement
  <2>3. IsFiniteSet(({"query"} \cup {"body"}) \cup {"params"})
    BY <2>2, FS_AddElement
  <2>4. Slots = ({"query"} \cup {"body"}) \cup {"params"}
    BY DEF Slots
  <2> QED BY <2>3, <2>4
<1>2. BadSlots \subseteq Slots /\ BadSlots = {s \in Slots : Bad(s)}
  BY DEF BadSlots
<1> HIDE DEF BadSlots
<1>3. IsFiniteSet(BadSlots) /\ Cardinality(BadSlots) \in Nat
  BY <1>1, <1>2, FS_Subset, FS_CardinalityType
<1>4. Cardinality(BadSlots) <= 1
  BY <1>2, <1>3 DEF EnginesDiffer
<1>5. Cardinality({a, b}) <= Cardinality(BadSlots)
  <2>1. {a, b} \subseteq BadSlots
    OBVIOUS
  <2> QED BY <1>3, <2>1, FS_Subset
<1>6. Cardinality({a, b}) = 2
  <2>1. IsFiniteSet({a}) /\ Cardinality({a}) = 1
    BY FS_Singleton
  <2>2. Cardinality({a} \cup {b}) = 2
    BY <2>1, FS_AddElement
  <2>3. {a} \cup {b} = {a, b}
    OBVIOUS
  <2> QED BY <2>2, <2>3
<1> QED BY <1>3, <1>4, <1>5, <1>6

LEMMA RefusalKeeps ==
  ASSUME PipelineIInv, NEW e \in HttpEngines, NEW r, r = run[e], r.pc \in {"validate", "handler"},
         NEW s \in BadSlots, Become(e, Fail(r, SlotError(s)))
  PROVE  PipelineIInv'
<1> DEFINE v == Fail(r, SlotError(s))
<1>1. RunInv(e, r) /\ DOMAIN r = RunFields
  BY DEF PipelineIInv, RunInv
<1>2. DOMAIN v = RunFields /\ v.pc = "error" /\ v.ran = r.ran /\ v.sent = r.sent /\ v.err = SlotError(s)
  BY <1>1, FailFields
<1>3. Become(e, v)
  OBVIOUS
<1> HIDE DEF v
<1>4. RunValid(e, v)
  BY <1>1, <1>2 DEF RunInv, RunValid
<1>5. ASSUME ~EnginesDiffer PROVE RunAgrees(v)
  <2>1. PICK a \in BadSlots : a = CHOOSE x \in BadSlots : TRUE
    OBVIOUS
  <2>2. a = s
    BY <1>5, OneBadSlot
  <2>3. r.sent = NotSent /\ r.ran = FALSE /\ ~Answered /\ ~Throws
    BY <1>1, <1>5 DEF RunInv, RunAgrees
  <2>4. Failure = SlotError(s)
    BY <2>1, <2>2, <2>3 DEF Failure
  <2>5. Runs = FALSE /\ Fails
    BY DEF Runs, Fails
  <2> QED BY <1>2, <2>3, <2>4, <2>5 DEF RunAgrees
<1>6. RunInv(e, v)
  BY <1>2, <1>4, <1>5 DEF RunInv
<1> QED BY <1>3, <1>6, BecomeKeeps

\* A request whose checks in the validate stage passed goes on to the handler.
LEMMA CheckedKeeps ==
  ASSUME PipelineIInv, NEW e \in HttpEngines, NEW r, r = run[e], r.pc = "validate", Checked(e),
         NEW v, DOMAIN v = RunFields, v.pc = "handler", v.sent = r.sent, v.ran = r.ran, Become(e, v)
  PROVE  PipelineIInv'
<1>1. RunInv(e, r)
  BY DEF PipelineIInv
<1>2. RunInv(e, v)
  BY <1>1 DEF RunInv, RunValid, RunAgrees
<1> QED BY <1>2, BecomeKeeps

LEMMA HandlerKeeps ==
  ASSUME PipelineIInv, NEW e \in HttpEngines, NEW r, r = run[e], r.pc = "handler", BadSlots = {},
         NEW q, DOMAIN q = RunFields, q.sent = r.sent, Become(e, HandlerEffect(q))
  PROVE  PipelineIInv'
<1> DEFINE v == HandlerEffect(q)
<1>1. RunInv(e, r)
  BY DEF PipelineIInv
<1>2. /\ DOMAIN v = RunFields /\ v.ran = TRUE
      /\ case.handler \in {"throws", "fails"} =>
           /\ v.pc = "error" /\ v.sent = r.sent
           /\ v.err = IF case.handler = "throws" THEN HttpError(404) ELSE PlainError(case.words)
      /\ case.handler \notin {"throws", "fails"} =>
           /\ v.pc = "reply"
           /\ v.sent = IF case.handler = "sends" /\ r.sent = NotSent
                       THEN [by |-> "handler", status |-> 202] ELSE r.sent
  BY HandlerFields
<1>3. Become(e, v)
  OBVIOUS
<1> HIDE DEF v
<1>4. RunValid(e, v)
  BY <1>1, <1>2 DEF RunInv, RunValid, CleanRequest
<1>5. ASSUME ~EnginesDiffer PROVE RunAgrees(v)
  <2>1. r.sent = NotSent /\ ~Answered /\ ~Throws
    BY <1>1, <1>5 DEF RunInv, RunAgrees
  <2>2. Runs = TRUE
    BY <2>1 DEF Runs
  <2>3. CASE case.handler \in {"throws", "fails"}
    <3>1. Failure = (IF case.handler = "throws" THEN HttpError(404) ELSE PlainError(case.words)) /\ Fails
      BY <2>1, <2>3 DEF Failure, Fails
    <3> QED BY <1>2, <2>1, <2>2, <2>3, <3>1 DEF RunAgrees
  <2>4. CASE case.handler \notin {"throws", "fails"}
    BY <1>2, <2>1, <2>2, <2>4 DEF RunAgrees, HandlerAnswer
  <2> QED BY <2>3, <2>4
<1>6. RunInv(e, v)
  BY <1>2, <1>4, <1>5 DEF RunInv
<1> QED BY <1>3, <1>6, BecomeKeeps

LEMMA ReplyKeeps ==
  ASSUME PipelineIInv, NEW e \in HttpEngines, NEW r, r = run[e], r.pc = "reply",
         NEW v, DOMAIN v = RunFields, v.ran = r.ran, Become(e, v),
         \/ /\ r.sent # NotSent \/ case.handler = "bare" \/ ResultFits
            /\ v.pc = "done" /\ v.sent = IF r.sent = NotSent THEN Reply ELSE r.sent
         \/ /\ r.sent = NotSent /\ case.handler # "bare" /\ ~ResultFits
            /\ v.pc = "error" /\ v.sent = r.sent
            /\ v.err = IF ResponseMode = "runtime" THEN ZodError("response", "zod") ELSE PlainError({})
  PROVE  PipelineIInv'
<1>1. RunInv(e, r)
  BY DEF PipelineIInv
<1>2. RunValid(e, v)
  BY <1>1 DEF RunInv, RunValid
<1>3. ASSUME ~EnginesDiffer PROVE RunAgrees(v)
  <2>1. /\ r.ran = Runs /\ BadSlots = {} /\ case.handler \notin {"throws", "fails"} /\ ~Answered /\ ~Throws
        /\ r.sent = IF case.handler = "sends" THEN HandlerAnswer ELSE NotSent
    BY <1>1, <1>3 DEF RunInv, RunAgrees
  <2>2. HandlerAnswer # NotSent
    <3>1. HandlerAnswer.by = "handler" /\ NotSent.by = "nobody"
      BY DEF HandlerAnswer, NotSent
    <3> QED BY <3>1
  <2>3. CASE r.sent # NotSent \/ case.handler = "bare" \/ ResultFits
    <3>1. ~Fails
      BY <2>1, <2>3 DEF Fails, ReplyFits
    <3>2. Outcome = IF case.handler = "sends" THEN HandlerAnswer ELSE Reply
      BY <2>1, <3>1 DEF Outcome
    <3> QED BY <2>1, <2>2, <2>3, <3>2 DEF RunAgrees
  <2>4. CASE r.sent = NotSent /\ case.handler # "bare" /\ ~ResultFits
    <3>1. case.handler # "sends"
      BY <2>1, <2>2, <2>4
    <3>2. Fails /\ Failure = IF ResponseMode = "runtime" THEN ZodError("response", "zod") ELSE PlainError({})
      BY <2>1, <2>4, <3>1 DEF Fails, ReplyFits, Failure
    <3> QED BY <2>1, <2>4, <3>2 DEF RunAgrees
  <2> QED BY <2>3, <2>4
<1>4. RunInv(e, v)
  BY <1>2, <1>3 DEF RunInv
<1> QED BY <1>4, BecomeKeeps

LEMMA ErrorKeeps ==
  ASSUME PipelineIInv, NEW e \in HttpEngines, NEW r, r = run[e], r.pc = "error",
         NEW body, case.declares = {} => body = "full",
         Become(e, Done(Send(r, [by |-> "error", status |-> ErrorStatus(r.err), body |-> body, of |-> r.err])))
  PROVE  PipelineIInv'
<1> DEFINE reply == [by |-> "error", status |-> ErrorStatus(r.err), body |-> body, of |-> r.err]
           w == Send(r, reply)
           v == Done(w)
<1>1. RunInv(e, r) /\ DOMAIN r = RunFields
  BY DEF PipelineIInv, RunInv
<1>2. Become(e, v)
  OBVIOUS
<1>3. ASSUME ~EnginesDiffer PROVE reply = ErrorReply /\ Outcome = ErrorReply /\ r.ran = Runs /\ r.sent = NotSent
  <2>1. r.ran = Runs /\ r.sent = NotSent /\ r.err = Failure /\ Fails /\ ~Answered
    BY <1>1, <1>3 DEF RunInv, RunAgrees
  <2>2. body = "full"
    BY <1>3 DEF EnginesDiffer
  <2> QED BY <2>1, <2>2 DEF ErrorReply, Outcome
<1> HIDE DEF reply
<1>4. DOMAIN w = RunFields /\ w.ran = r.ran /\ w.sent = (IF r.sent = NotSent THEN reply ELSE r.sent)
  BY <1>1, SendFields
<1> HIDE DEF w
<1>5. DOMAIN v = RunFields /\ v.pc = "done" /\ v.ran = r.ran /\ v.sent = w.sent
  BY <1>4, DoneFields
<1> HIDE DEF v
<1>6. RunValid(e, v)
  BY <1>1, <1>5 DEF RunInv, RunValid
<1>7. ASSUME ~EnginesDiffer PROVE RunAgrees(v)
  BY <1>3, <1>4, <1>5, <1>7 DEF RunAgrees
<1>8. RunInv(e, v)
  BY <1>5, <1>6, <1>7 DEF RunInv
<1> QED BY <1>2, <1>8, BecomeKeeps

LEMMA PipelineStep ==
  ASSUME PipelineIInv, [HttpNext]_httpVars
  PROVE  PipelineIInv'
<1>1. CASE UNCHANGED httpVars
  <2>1. case' = case /\ run' = run
    BY <1>1 DEF httpVars
  <2> QED BY <2>1, CaseKept DEF PipelineIInv
<1>2. ASSUME NEW e \in HttpEngines, OnRequest(e) PROVE PipelineIInv'
  BY <1>2, OnRequestKeeps
<1>3. CASE ExpressParse \/ FastifyParse
  BY <1>3, ParseKeeps
<1> DEFINE ex == run["express"]
           fa == run["fastify"]
<1>4. /\ "express" \in HttpEngines /\ "fastify" \in HttpEngines
      /\ RunInv("express", ex) /\ RunInv("fastify", fa) /\ DOMAIN ex = RunFields /\ DOMAIN fa = RunFields
      /\ DOMAIN case.slots = Slots /\ Len(ModuleMiddleware) \in Nat
  BY MiddlewareIsSeq DEF PipelineIInv, RunInv, HttpEngines
<1>5. CASE ExpressMiddleware
  <2>1. ex.at \in Nat /\ ex.pc = "middleware"
    BY <1>4, <1>5 DEF ExpressMiddleware, At, RunInv, RunValid
  <2>2. \/ ex.at <= Len(ModuleMiddleware) /\ Become("express", MiddlewareEffect(ex, ModuleMiddleware[ex.at], NuralCtx("express")))
        \/ ~(ex.at <= Len(ModuleMiddleware)) /\ Become("express", [ex EXCEPT !.pc = "validate"])
    BY <1>5 DEF ExpressMiddleware
  <2>3. ~(ex.at <= Len(ModuleMiddleware)) => ex.at > Len(ModuleMiddleware)
    BY <1>4, <2>1
  <2>4. NuralCtx("express") = {}
    BY DEF NuralCtx
  <2> HIDE DEF ex
  <2> QED BY <1>4, <2>1, <2>2, <2>3, <2>4, MiddlewareStageKeeps DEF ex
<1>6. CASE FastifyPreValidation
  <2>1. fa.at \in Nat /\ fa.pc = "middleware"
    BY <1>4, <1>6 DEF FastifyPreValidation, At, RunInv, RunValid
  <2>2. \/ fa.at <= Len(ModuleMiddleware) /\ Become("fastify", MiddlewareEffect(fa, ModuleMiddleware[fa.at], NuralCtx("fastify")))
        \/ ~(fa.at <= Len(ModuleMiddleware)) /\ fa.sent # NotSent /\ Become("fastify", Done(fa))
        \/ ~(fa.at <= Len(ModuleMiddleware)) /\ Become("fastify", [fa EXCEPT !.pc = "validate"])
    BY <1>6 DEF FastifyPreValidation
  <2>3. ~(fa.at <= Len(ModuleMiddleware)) => fa.at > Len(ModuleMiddleware)
    BY <1>4, <2>1
  <2>4. NuralCtx("fastify") = DOMAIN fa.ctx
    BY DEF NuralCtx
  <2> HIDE DEF fa
  <2> QED BY <1>4, <2>1, <2>2, <2>3, <2>4, MiddlewareStageKeeps DEF fa
<1>7. CASE ExpressValidate
  <2> DEFINE bad == FirstBad(ExpressOrder, {"compiled", "runtime"})
             v == [ex EXCEPT !.ctx = Assign(@, ContextKeys, "adapter"), !.pc = "handler"]
  <2>1. ex.pc = "validate" /\ Become("express", IF bad # "none" THEN Fail(ex, SlotError(bad)) ELSE v)
    BY <1>7 DEF ExpressValidate, At
  <2>2. \/ bad = "none" /\ \A s \in Slots : Modes[s] \in {"compiled", "runtime"} => ~Bad(s)
        \/ bad # "none" /\ bad \in BadSlots
    BY FirstBadOf
  <2>3. DOMAIN v = RunFields /\ v.pc = "handler" /\ v.sent = ex.sent /\ v.ran = ex.ran
    BY <1>4 DEF RunFields
  <2> HIDE DEF bad, v, ex
  <2>4. CASE bad # "none"
    BY <1>4, <2>1, <2>2, <2>4, RefusalKeeps DEF ex
  <2>5. CASE bad = "none"
    <3>1. Become("express", v)
      BY <2>1, <2>5
    <3>2. Checked("express")
      BY <1>4, <2>2, <2>5, ModesOfSlots DEF Checked, BadSlots
    <3> QED BY <1>4, <2>1, <2>3, <3>1, <3>2, CheckedKeeps DEF ex
  <2> QED BY <2>4, <2>5
<1>8. CASE FastifyAjv
  <2> DEFINE bad == FirstBad(FastifyOrder, {"compiled"})
             v == [fa EXCEPT !.pc = "handler"]
  <2>1. fa.pc = "validate" /\ Become("fastify", IF bad # "none" THEN Fail(fa, SlotError(bad)) ELSE v)
    BY <1>8 DEF FastifyAjv, At
  <2>2. \/ bad = "none" /\ \A s \in Slots : Modes[s] \in {"compiled"} => ~Bad(s)
        \/ bad # "none" /\ bad \in BadSlots
    BY FirstBadOf
  <2>3. DOMAIN v = RunFields /\ v.pc = "handler" /\ v.sent = fa.sent /\ v.ran = fa.ran
    BY <1>4, MoveFields
  <2> HIDE DEF bad, v, fa
  <2>4. CASE bad # "none"
    BY <1>4, <2>1, <2>2, <2>4, RefusalKeeps DEF fa
  <2>5. CASE bad = "none"
    <3>1. Become("fastify", v)
      BY <2>1, <2>5
    <3>2. Checked("fastify")
      BY <2>2, <2>5 DEF Checked
    <3> QED BY <1>4, <2>1, <2>3, <3>1, <3>2, CheckedKeeps DEF fa
  <2> QED BY <2>4, <2>5
<1>9. CASE ExpressHandler
  <2>1. ex.pc = "handler" /\ Become("express", HandlerEffect(ex))
    BY <1>9 DEF ExpressHandler, At
  <2>2. BadSlots = {}
    BY <1>4, <2>1 DEF RunInv, RunValid, Checked
  <2> HIDE DEF ex
  <2> QED BY <1>4, <2>1, <2>2, HandlerKeeps DEF ex
<1>10. CASE FastifyHandler
  <2> DEFINE bad == FirstBad(ExpressOrder, {"runtime"})
             q == [fa EXCEPT !.ctx = Assign(@, ContextKeys, "adapter")]
  <2>1. fa.pc = "handler" /\ Become("fastify", IF bad # "none" THEN Fail(fa, SlotError(bad)) ELSE HandlerEffect(q))
    BY <1>10 DEF FastifyHandler, At
  <2>2. \/ bad = "none" /\ \A s \in Slots : Modes[s] \in {"runtime"} => ~Bad(s)
        \/ bad # "none" /\ bad \in BadSlots
    BY FirstBadOf
  <2>3. DOMAIN q = RunFields /\ q.sent = fa.sent
    BY <1>4 DEF RunFields
  <2>4. Checked("fastify")
    BY <1>4, <2>1 DEF RunInv, RunValid
  <2> HIDE DEF bad, q, fa
  <2>5. CASE bad # "none"
    BY <1>4, <2>1, <2>2, <2>5, RefusalKeeps DEF fa
  <2>6. CASE bad = "none"
    <3>1. Become("fastify", HandlerEffect(q))
      BY <2>1, <2>6
    <3>2. BadSlots = {}
      BY <1>4, <2>2, <2>4, <2>6, ModesOfSlots DEF Checked, BadSlots
    <3> QED BY <1>4, <2>1, <2>3, <3>1, <3>2, HandlerKeeps DEF fa
  <2> QED BY <2>5, <2>6
<1> DEFINE refusal == IF ResponseMode = "runtime" THEN ZodError("response", "zod") ELSE PlainError({})
<1>11. CASE ExpressReply
  <2> DEFINE fits == ex.sent # NotSent \/ case.handler = "bare" \/ ResultFits
             w == Send(ex, Reply)
  <2>1. ex.pc = "reply" /\ Become("express", IF fits THEN Done(w) ELSE Fail(ex, refusal))
    BY <1>11 DEF ExpressReply, At
  <2>2. DOMAIN w = RunFields /\ w.ran = ex.ran /\ w.sent = (IF ex.sent = NotSent THEN Reply ELSE ex.sent)
    BY <1>4, SendFields
  <2> HIDE DEF w, refusal
  <2>3. DOMAIN Done(w) = RunFields /\ Done(w).pc = "done" /\ Done(w).ran = ex.ran
        /\ Done(w).sent = (IF ex.sent = NotSent THEN Reply ELSE ex.sent)
    BY <2>2, DoneFields
  <2>4. /\ DOMAIN Fail(ex, refusal) = RunFields /\ Fail(ex, refusal).pc = "error" /\ Fail(ex, refusal).ran = ex.ran
        /\ Fail(ex, refusal).sent = ex.sent /\ Fail(ex, refusal).err = refusal
    BY <1>4, FailFields
  <2>5. CASE fits
    <3> DEFINE v == Done(w)
    <3>1. Become("express", v) /\ DOMAIN v = RunFields /\ v.pc = "done" /\ v.ran = ex.ran
          /\ v.sent = (IF ex.sent = NotSent THEN Reply ELSE ex.sent)
      BY <2>1, <2>3, <2>5
    <3> HIDE DEF v, ex
    <3> QED BY <1>4, <2>1, <2>5, <3>1, ReplyKeeps DEF ex
  <2>6. CASE ~fits
    <3> DEFINE v == Fail(ex, refusal)
    <3>1. Become("express", v) /\ DOMAIN v = RunFields /\ v.pc = "error" /\ v.ran = ex.ran
          /\ v.sent = ex.sent /\ v.err = refusal
      BY <2>1, <2>4, <2>6
    <3> HIDE DEF v, ex
    <3> QED BY <1>4, <2>1, <2>6, <3>1, ReplyKeeps DEF ex, refusal
  <2> QED BY <2>5, <2>6
<1>12. CASE FastifyReply
  <2> DEFINE fits == fa.sent # NotSent \/ case.handler = "bare" \/ ResultFits
             w == Send(fa, Reply)
  <2>1. /\ fa.pc = "reply"
        /\ \/ fa.sent # NotSent /\ Become("fastify", Done(fa))
           \/ fa.sent = NotSent /\ fits /\ Become("fastify", Done(w))
           \/ ~fits /\ Become("fastify", Fail(fa, refusal))
    BY <1>12 DEF FastifyReply, At
  <2>2. DOMAIN w = RunFields /\ w.ran = fa.ran /\ w.sent = (IF fa.sent = NotSent THEN Reply ELSE fa.sent)
    BY <1>4, SendFields
  <2> HIDE DEF w, refusal
  <2>3. CASE fa.sent # NotSent /\ Become("fastify", Done(fa))
    <3> DEFINE v == Done(fa)
    <3>1. Become("fastify", v) /\ DOMAIN v = RunFields /\ v.pc = "done" /\ v.ran = fa.ran /\ v.sent = fa.sent
      BY <1>4, <2>3, DoneFields
    <3> HIDE DEF v, fa
    <3> QED BY <1>4, <2>1, <2>3, <3>1, ReplyKeeps DEF fa
  <2>4. CASE fa.sent = NotSent /\ fits /\ Become("fastify", Done(w))
    <3> DEFINE v == Done(w)
    <3>1. Become("fastify", v) /\ DOMAIN v = RunFields /\ v.pc = "done" /\ v.ran = fa.ran
          /\ v.sent = (IF fa.sent = NotSent THEN Reply ELSE fa.sent)
      BY <2>2, <2>4, DoneFields
    <3> HIDE DEF v, fa
    <3> QED BY <1>4, <2>1, <2>4, <3>1, ReplyKeeps DEF fa
  <2>5. CASE ~fits /\ Become("fastify", Fail(fa, refusal))
    <3> DEFINE v == Fail(fa, refusal)
    <3>1. Become("fastify", v) /\ DOMAIN v = RunFields /\ v.pc = "error" /\ v.ran = fa.ran
          /\ v.sent = fa.sent /\ v.err = refusal
      BY <1>4, <2>5, FailFields
    <3> HIDE DEF v, fa
    <3> QED BY <1>4, <2>1, <2>5, <3>1, ReplyKeeps DEF fa, refusal
  <2> QED BY <2>1, <2>3, <2>4, <2>5
<1>13. CASE ExpressError
  <2>1. ex.pc = "error" /\ Become("express", Done(Send(ex,
           [by |-> "error", status |-> ErrorStatus(ex.err), body |-> "full", of |-> ex.err])))
    BY <1>13 DEF ExpressError, At
  <2> HIDE DEF ex
  <2> QED BY <1>4, <2>1, ErrorKeeps DEF ex
<1>14. CASE FastifyError
  <2>1. PICK body : /\ fa.pc = "error" /\ (case.declares = {} => body = "full")
                    /\ Become("fastify", Done(Send(fa,
                         [by |-> "error", status |-> ErrorStatus(fa.err), body |-> body, of |-> fa.err])))
    BY <1>14 DEF FastifyError, At
  <2> HIDE DEF fa
  <2> QED BY <1>4, <2>1, ErrorKeeps DEF fa
<1> QED BY <1>1, <1>2, <1>3, <1>5, <1>6, <1>7, <1>8, <1>9, <1>10, <1>11, <1>12, <1>13, <1>14 DEF HttpNext

LEMMA PipelineInit == HttpInit => PipelineIInv
<1> SUFFICES ASSUME HttpInit PROVE PipelineIInv
  OBVIOUS
<1>1. case \in Cases /\ DOMAIN run = HttpEngines /\ \A e \in HttpEngines : run[e] = FreshRun
  BY DEF HttpInit
<1>2. /\ DOMAIN FreshRun = RunFields /\ FreshRun.pc = "onRequest" /\ FreshRun.at = 1
      /\ FreshRun.sent = NotSent /\ FreshRun.ran = FALSE /\ DOMAIN FreshRun.ctx = {}
  BY DEF FreshRun, RunFields
<1>3. DOMAIN ModuleMiddleware \subseteq Nat /\ \A j \in DOMAIN ModuleMiddleware : j >= 1
  BY <1>1, MiddlewareIsSeq
<1>4. RunAgrees(FreshRun)
  BY <1>2, <1>3 DEF RunAgrees, Refusals
<1>5. \A e \in HttpEngines : RunInv(e, FreshRun)
  BY <1>2, <1>4 DEF RunInv, RunValid
<1> QED BY <1>1, <1>5 DEF PipelineIInv

LEMMA PipelineStays == HttpSpec => []PipelineIInv
<1>1. PipelineIInv /\ [HttpNext]_httpVars => PipelineIInv'
  BY PipelineStep
<1> QED BY <1>1, PipelineInit, PTL DEF HttpSpec

\* In both engines, whatever mix of ajv and Zod checks a route compiles to,
\* the handler runs only on slots its own Zod schemas accept and on a body
\* that parsed (schema-compiler.ts:16-28, express.ts:263-277, fastify.ts:286-288).
THEOREM HandlerSeesValidHolds == HttpSpec => []HandlerSeesValid
<1>1. ASSUME PipelineIInv PROVE HandlerSeesValid
  <2> SUFFICES ASSUME NEW e \in HttpEngines, run[e].ran
               PROVE  /\ case.values["body"] # "malformed"
                      /\ \A s \in Slots : case.slots[s] # NoSchema => ZodAccepts(case.slots[s], case.values[s])
    BY DEF HandlerSeesValid
  <2>1. CleanRequest /\ DOMAIN case.slots = Slots
    BY <1>1, MiddlewareIsSeq DEF PipelineIInv, RunInv, RunValid
  <2> QED BY <2>1, GoodSlotsAreValid DEF CleanRequest, BadSlots
<1> QED BY <1>1, PipelineStays, PTL

\* For every route, request and configuration outside the five named kinds,
\* Express and Fastify send the same response and agree on whether the handler
\* ran: both reach the outcome that the case alone determines
\* (express.ts:81-83).
THEOREM EnginesAgreeHolds == HttpSpec => []EnginesAgree
<1>1. ASSUME PipelineIInv PROVE EnginesAgree
  <2> SUFFICES ASSUME ~EnginesDiffer, \A e \in HttpEngines : run[e].pc = "done"
               PROVE  run["express"].sent = run["fastify"].sent /\ run["express"].ran = run["fastify"].ran
    BY DEF EnginesAgree
  <2>1. \A e \in HttpEngines : run[e].sent = Outcome /\ run[e].ran = Runs
    BY <1>1 DEF PipelineIInv, RunInv, RunAgrees
  <2> QED BY <2>1 DEF HttpEngines
<1> QED BY <1>1, PipelineStays, PTL
===============================================================================
