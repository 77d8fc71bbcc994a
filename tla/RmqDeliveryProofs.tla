--------------------------- MODULE RmqDeliveryProofs ---------------------------
(***************************************************************************)
(* Part 1: no message is lost, for every number of messages, runs, retries *)
(* and lost connections, while the broker does not restart and the queue's *)
(* name, which is the routing key of a retried message, has a handler.     *)
(*                                                                         *)
(* NotLost is not inductive: a delivery whose ack is on its way still      *)
(* counts as pending, though its last trace vanishes with that ack.        *)
(* Accounted asks for a delivery that owes its outcome, and the order of   *)
(* the frames makes that enough.                                           *)
(*                                                                         *)
(* Part 2: a message is handled fewer than 2^(k+1) times when k            *)
(* connections were lost, with no proviso.  A connection loss brings back  *)
(* more than Lineages counts: deliveries whose outcome the broker has and  *)
(* whose ack it has not.  Spent counts them, against wins, and Weight      *)
(* counts the rest.                                                        *)
(***************************************************************************)
EXTENDS RmqDelivery, FiniteSetTheorems, SequenceTheorems, TLAPS

\* What the theorem needs of the environment.
RetryHandled == Queue \in Topics
BrokerStays == MaxRestarts = 0
Provisos == RetryHandled /\ BrokerStays

\* Only runs that are over have frames on the wire.
FrameSlots == \A n \in DOMAIN wire : run[wire[n].slot] \in {"acking", "ended"}

\* An ack is the last frame of its run.
AckLast ==
  \A m, n \in DOMAIN wire : m < n /\ wire[m].op = "ack" => wire[n].slot # wire[m].slot

\* A copy on the wire has a retry left.
RetryFits ==
  \A n \in DOMAIN wire : wire[n].op = "retry" => holds[wire[n].slot].retries < MaxRetries

\* The delivery has yet to be settled, by its handler or by a frame.
Owes(s) ==
  \/ run[s] = "handling"
  \/ \E n \in DOMAIN wire : wire[n].slot = s /\ wire[n].op # "ack"

Accounted(i) ==
  Settled(i) \/ Queued(i) \/ \E s \in Unacked : holds[s].id = i /\ Owes(s)

AllAccounted == Provisos => \A i \in sent : Accounted(i)

IInv == TypeOK /\ FrameSlots /\ AckLast /\ RetryFits /\ AllAccounted

USE MessagesAssumption, BoundsAssumption

-------------------------------------------------------------------------------
(***************************************************************************)
(* Frames.                                                                 *)
(***************************************************************************)

\* Every frame names a run and one of the four operations.
LEMMA FrameType ==
  ASSUME wire \in Seq(Frames), NEW n \in DOMAIN wire
  PROVE  wire[n].slot \in Slots /\ wire[n].op \in {"retry", "dead", "reply", "ack"}
<1>1. wire[n] \in Frames
  BY ElementOfSeq
<1> QED BY <1>1 DEF Frames

\* What a run may write at once.
Writes == {<<"retry", "ack">>, <<"dead", "ack">>, <<"reply", "ack">>, <<"reply">>, <<"ack">>}

\* What a run's frames look like at the end of the wire.
LEMMA WriteExact ==
  ASSUME wire \in Seq(Frames), NEW s \in Slots, NEW ops \in Writes, Write(s, ops)
  PROVE  /\ wire' \in Seq(Frames)
         /\ DOMAIN wire = 1 .. Len(wire) /\ Len(wire) \in Nat
         /\ DOMAIN ops = 1 .. Len(ops) /\ Len(ops) \in {1, 2}
         /\ DOMAIN wire' = 1 .. Len(wire) + Len(ops)
         /\ \A n \in 1 .. Len(wire) : wire'[n] = wire[n]
         /\ \A n \in 1 .. Len(ops) : wire'[Len(wire) + n] = [op |-> ops[n], slot |-> s]
<1> DEFINE new == [n \in DOMAIN ops |-> [op |-> ops[n], slot |-> s]]
<1>1. /\ DOMAIN ops = 1 .. Len(ops) /\ Len(ops) \in {1, 2}
      /\ \A n \in DOMAIN ops : ops[n] \in {"retry", "dead", "reply", "ack"}
  BY DEF Writes
<1>2. new \in Seq(Frames) /\ Len(new) = Len(ops)
  BY <1>1 DEF Frames
<1>3. wire' = wire \o new
  BY DEF Write
<1>4. \A n \in 1 .. Len(ops) : new[n] = [op |-> ops[n], slot |-> s]
  BY <1>1 DEF new
<1> HIDE DEF new
<1>5. /\ wire \o new \in Seq(Frames) /\ Len(wire \o new) = Len(wire) + Len(new)
      /\ \A n \in 1 .. Len(wire) + Len(new) :
           (wire \o new)[n] = IF n <= Len(wire) THEN wire[n] ELSE new[n - Len(wire)]
  BY <1>2, ConcatProperties, Zenon
<1>6. Len(wire) \in Nat /\ DOMAIN wire = 1 .. Len(wire)
      /\ Len(new) = Len(ops) /\ Len(ops) \in {1, 2}
  BY <1>1, <1>2
<1>7. ASSUME NEW n \in 1 .. Len(ops)
      PROVE  (wire \o new)[Len(wire) + n] = new[n]
  <2>1. /\ Len(wire) + n \in 1 .. Len(wire) + Len(new)
        /\ ~(Len(wire) + n <= Len(wire)) /\ (Len(wire) + n) - Len(wire) = n
    BY <1>6
  <2> QED BY <1>5, <2>1
<1>8. ASSUME NEW n \in 1 .. Len(wire)
      PROVE  (wire \o new)[n] = wire[n]
  <2>1. n \in 1 .. Len(wire) + Len(new) /\ n <= Len(wire)
    BY <1>6
  <2> QED BY <1>5, <2>1
<1>9. DOMAIN wire' = 1 .. Len(wire) + Len(ops)
  BY <1>3, <1>5, <1>6
<1> QED BY <1>1, <1>3, <1>4, <1>5, <1>6, <1>7, <1>8, <1>9

LEMMA WriteAppends ==
  ASSUME wire \in Seq(Frames), NEW s \in Slots, NEW ops \in Writes, Write(s, ops)
  PROVE  /\ wire' \in Seq(Frames)
         /\ DOMAIN wire \subseteq DOMAIN wire'
         /\ \A n \in DOMAIN wire : wire'[n] = wire[n]
         /\ \A n \in DOMAIN wire' \ DOMAIN wire : wire'[n].slot = s
         /\ \A m, n \in DOMAIN wire' \ DOMAIN wire : m < n => wire'[m].op # "ack"
         /\ \A n \in DOMAIN wire' \ DOMAIN wire : wire'[n].op = "retry" => ops[1] = "retry"
         /\ ops[1] # "ack" =>
              \E n \in DOMAIN wire' : wire'[n].slot = s /\ wire'[n].op # "ack"
<1>1. /\ DOMAIN ops = 1 .. Len(ops) /\ Len(ops) \in {1, 2}
      /\ \A n \in DOMAIN ops : ops[n] \in {"retry", "dead", "reply", "ack"}
      /\ ops[1] = "ack" => Len(ops) = 1
      /\ Len(ops) = 2 => ops[2] = "ack" /\ ops[1] # "ack"
  BY DEF Writes
<1>2. /\ wire' \in Seq(Frames)
      /\ Len(wire') = Len(wire) + Len(ops)
      /\ \A n \in 1 .. Len(wire) : wire'[n] = wire[n]
      /\ \A n \in 1 .. Len(ops) : wire'[Len(wire) + n] = [op |-> ops[n], slot |-> s]
  BY WriteExact
<1>3. /\ DOMAIN wire = 1 .. Len(wire) /\ DOMAIN wire' = 1 .. Len(wire')
      /\ Len(wire) \in Nat
  BY <1>2
<1>4. \A n \in DOMAIN wire' \ DOMAIN wire :
        \E k \in 1 .. Len(ops) : n = Len(wire) + k /\ wire'[n] = [op |-> ops[k], slot |-> s]
  <2> SUFFICES ASSUME NEW n \in DOMAIN wire' \ DOMAIN wire
               PROVE  n - Len(wire) \in 1 .. Len(ops) /\ n = Len(wire) + (n - Len(wire))
    BY <1>2
  <2> QED BY <1>1, <1>2, <1>3
<1>5. \A m, n \in DOMAIN wire' \ DOMAIN wire : m < n => wire'[m].op # "ack"
  <2> SUFFICES ASSUME NEW m \in DOMAIN wire' \ DOMAIN wire,
                      NEW n \in DOMAIN wire' \ DOMAIN wire, m < n
               PROVE  wire'[m].op # "ack"
    OBVIOUS
  <2>1. PICK k \in 1 .. Len(ops) : m = Len(wire) + k /\ wire'[m] = [op |-> ops[k], slot |-> s]
    BY <1>4
  <2>2. PICK l \in 1 .. Len(ops) : n = Len(wire) + l
    BY <1>4
  <2>3. k < l
    BY <1>1, <1>3, <2>1, <2>2
  <2>4. Len(ops) = 2 /\ k = 1
    BY <1>1, <2>3
  <2> QED BY <1>1, <2>1, <2>4
<1>6. \A n \in DOMAIN wire' \ DOMAIN wire : wire'[n].op = "retry" => ops[1] = "retry"
  BY <1>1, <1>4
<1>7. ops[1] # "ack" => \E n \in DOMAIN wire' : wire'[n].slot = s /\ wire'[n].op # "ack"
  <2>1. Len(wire) + 1 \in DOMAIN wire' /\ wire'[Len(wire) + 1] = [op |-> ops[1], slot |-> s]
    BY <1>1, <1>2, <1>3
  <2> QED BY <2>1
<1> QED BY <1>2, <1>3, <1>4, <1>5, <1>6, <1>7

\* A run that had no frame yet writes its frames: the order on the wire holds.
LEMMA WriteKeeps ==
  ASSUME IInv, NEW s \in Slots, NEW ops \in Writes, Write(s, ops),
         run[s] \notin {"acking", "ended"}, run'[s] \in {"acking", "ended"},
         \A r \in Slots \ {s} : run'[r] = run[r] /\ holds'[r] = holds[r],
         ops[1] = "retry" => holds'[s].retries < MaxRetries
  PROVE  wire' \in Seq(Frames) /\ FrameSlots' /\ AckLast' /\ RetryFits'
<1>1. /\ wire \in Seq(Frames) /\ FrameSlots /\ AckLast /\ RetryFits
      /\ \A n \in DOMAIN wire : wire[n].slot \in Slots
  BY FrameType DEF IInv, TypeOK
<1>2. /\ wire' \in Seq(Frames)
      /\ DOMAIN wire \subseteq DOMAIN wire'
      /\ \A n \in DOMAIN wire : wire'[n] = wire[n]
      /\ \A n \in DOMAIN wire' \ DOMAIN wire : wire'[n].slot = s
      /\ \A m, n \in DOMAIN wire' \ DOMAIN wire : m < n => wire'[m].op # "ack"
      /\ \A n \in DOMAIN wire' \ DOMAIN wire : wire'[n].op = "retry" => ops[1] = "retry"
  BY <1>1, WriteAppends
<1>3. \A n \in DOMAIN wire : wire[n].slot # s
  BY <1>1 DEF FrameSlots
<1>4. FrameSlots'
  BY <1>1, <1>2, <1>3 DEF FrameSlots
<1>5. AckLast'
  <2> SUFFICES ASSUME NEW m \in DOMAIN wire', NEW n \in DOMAIN wire',
                      m < n, wire'[m].op = "ack"
               PROVE  wire'[n].slot # wire'[m].slot
    BY DEF AckLast
  <2>1. CASE m \in DOMAIN wire /\ n \in DOMAIN wire
    BY <1>1, <1>2, <2>1 DEF AckLast
  <2>2. CASE m \in DOMAIN wire /\ n \notin DOMAIN wire
    BY <1>2, <1>3, <2>2
  <2>3. CASE m \notin DOMAIN wire /\ n \in DOMAIN wire
    <3>1. DOMAIN wire = 1 .. Len(wire) /\ DOMAIN wire' = 1 .. Len(wire') /\ Len(wire) \in Nat
          /\ Len(wire') \in Nat
      BY <1>1, <1>2
    <3> QED BY <2>3, <3>1
  <2>4. CASE m \notin DOMAIN wire /\ n \notin DOMAIN wire
    BY <1>2, <2>4
  <2> QED BY <2>1, <2>2, <2>3, <2>4
<1>6. RetryFits'
  BY <1>1, <1>2, <1>3 DEF RetryFits
<1> QED BY <1>2, <1>4, <1>5, <1>6

-------------------------------------------------------------------------------
(***************************************************************************)
(* Steps of the runs.                                                      *)
(***************************************************************************)

\* A run that had no frame yet hands over its message: to a frame, or to wins.
LEMMA WriteAccounts ==
  ASSUME IInv, NEW s \in Slots, NEW ops \in Writes, Write(s, ops),
         run[s] \notin {"acking", "ended"},
         \A r \in Slots \ {s} : run'[r] = run[r] /\ holds'[r] = holds[r],
         run[s] = "handling" =>
           /\ run'[s] = "acking" /\ holds'[s] = holds[s]
           /\ ops[1] # "ack" \/ wins'[holds[s].id] > 0,
         UNCHANGED <<sent, ready, dlq>>,
         wins' \in [Messages -> Nat],
         \A i \in Messages : wins[i] > 0 => wins'[i] > 0
  PROVE  AllAccounted'
<1>1. /\ wire \in Seq(Frames) /\ AllAccounted /\ sent \subseteq Messages
      /\ \A n \in DOMAIN wire : wire[n].slot \in Slots
  BY FrameType DEF IInv, TypeOK
<1>2. /\ DOMAIN wire \subseteq DOMAIN wire'
      /\ \A n \in DOMAIN wire : wire'[n] = wire[n]
      /\ ops[1] # "ack" => \E n \in DOMAIN wire' : wire'[n].slot = s /\ wire'[n].op # "ack"
  BY <1>1, WriteAppends
<1> SUFFICES ASSUME Provisos, NEW i \in sent PROVE Accounted(i)'
  BY DEF AllAccounted
<1>3. i \in Messages /\ Accounted(i)
  BY <1>1 DEF AllAccounted
<1>4. CASE Settled(i) \/ Queued(i)
  BY <1>3, <1>4 DEF Accounted, Settled, Queued
<1>5. CASE \E r \in Unacked : holds[r].id = i /\ Owes(r)
  <2>1. PICK r \in Slots : /\ run[r] \in {"handling", "acking"}
                           /\ holds[r].id = i /\ Owes(r)
    BY <1>5 DEF Unacked
  <2>2. CASE r # s
    <3>1. run'[r] = run[r] /\ holds'[r] = holds[r]
      BY <2>2
    <3>2. Owes(r)'
      BY <1>2, <2>1, <3>1 DEF Owes
    <3> QED BY <2>1, <3>1, <3>2 DEF Accounted, Unacked
  <2>3. CASE r = s
    <3>1. run'[s] = "acking" /\ holds'[s] = holds[s]
      BY <2>1, <2>3
    <3>2. CASE ops[1] # "ack"
      <4>1. Owes(s)'
        BY <1>2, <3>2 DEF Owes
      <4> QED BY <2>1, <2>3, <3>1, <4>1 DEF Accounted, Unacked
    <3>3. CASE wins'[holds[s].id] > 0
      BY <2>1, <2>3, <3>3 DEF Accounted, Settled
    <3> QED BY <2>1, <2>3, <3>2, <3>3
  <2> QED BY <2>2, <2>3
<1> QED BY <1>3, <1>4, <1>5 DEF Accounted

\* A run whose channel is gone ends without a frame, and loses nothing: its
\* message went back to the queue with its connection.
LEMMA RejectedKeeps ==
  ASSUME IInv, NEW s \in Slots, Rejected(s), run[s] = "stale",
         UNCHANGED <<sent, ready, dlq, conn, cuts, restarts>>,
         wins' \in [Messages -> Nat],
         \A i \in Messages : wins[i] > 0 => wins'[i] > 0
  PROVE  IInv'
<1>1. TypeOK /\ FrameSlots /\ AckLast /\ RetryFits /\ AllAccounted
  BY DEF IInv
<1>2. /\ process' = "rejected" /\ holds' = holds /\ wire' = wire
      /\ run' = [run EXCEPT ![s] = "ended"]
  BY DEF Rejected
<1>3. TypeOK'
  BY <1>1, <1>2 DEF TypeOK
<1>4. /\ \A r \in Slots \ {s} : run'[r] = run[r]
      /\ run'[s] = "ended" /\ run \in [Slots -> {"free", "handling", "acking", "stale", "ended"}]
  BY <1>1, <1>2 DEF TypeOK
<1>5. wire \in Seq(Frames)
  BY <1>1 DEF TypeOK
<1>6. FrameSlots'
  <2> SUFFICES ASSUME NEW n \in DOMAIN wire PROVE run'[wire[n].slot] \in {"acking", "ended"}
    BY <1>2 DEF FrameSlots
  <2>1. wire[n].slot \in Slots /\ run[wire[n].slot] \in {"acking", "ended"}
    BY <1>1, <1>5, FrameType DEF FrameSlots
  <2> QED BY <1>4, <2>1
<1>7. AckLast' /\ RetryFits'
  BY <1>1, <1>2 DEF AckLast, RetryFits
<1>8. AllAccounted'
  <2> SUFFICES ASSUME Provisos, NEW i \in sent PROVE Accounted(i)'
    BY DEF AllAccounted
  <2>1. i \in Messages /\ Accounted(i)
    BY <1>1 DEF TypeOK, AllAccounted
  <2>2. CASE Settled(i) \/ Queued(i)
    BY <2>1, <2>2 DEF Accounted, Settled, Queued
  <2>3. CASE \E r \in Unacked : holds[r].id = i /\ Owes(r)
    <3>1. PICK r \in Slots : /\ run[r] \in {"handling", "acking"}
                             /\ holds[r].id = i /\ Owes(r)
      BY <2>3 DEF Unacked
    <3>2. run'[r] = run[r]
      BY <1>4, <3>1
    <3> QED BY <1>2, <3>1, <3>2 DEF Accounted, Unacked, Owes
  <2> QED BY <2>1, <2>2, <2>3 DEF Accounted
<1> QED BY <1>3, <1>6, <1>7, <1>8 DEF IInv

\* A run in a handler ends it by writing frames on its own channel.
LEMMA AckingKeeps ==
  ASSUME IInv, NEW s \in Slots, NEW ops \in Writes, Write(s, ops),
         run[s] = "handling", run' = [run EXCEPT ![s] = "acking"],
         ops[1] = "retry" => holds[s].retries < MaxRetries,
         ops[1] = "ack" => wins'[holds[s].id] > 0,
         UNCHANGED <<sent, ready, dlq, conn, process, holds, cuts, restarts>>,
         wins' \in [Messages -> Nat],
         \A i \in Messages : wins[i] > 0 => wins'[i] > 0
  PROVE  IInv'
<1>1. TypeOK
  BY DEF IInv
<1>2. /\ \A r \in Slots \ {s} : run'[r] = run[r] /\ holds'[r] = holds[r]
      /\ run'[s] = "acking" /\ holds'[s] = holds[s]
  BY <1>1 DEF TypeOK
<1>3. wire' \in Seq(Frames) /\ FrameSlots' /\ AckLast' /\ RetryFits'
  BY <1>2, WriteKeeps
<1>4. AllAccounted'
  BY <1>2, WriteAccounts
<1>5. TypeOK'
  BY <1>1, <1>2, <1>3 DEF TypeOK
<1> QED BY <1>3, <1>4, <1>5 DEF IInv

LEMMA RouteKeeps ==
  ASSUME IInv, NEW s \in Slots, NEW retryable \in BOOLEAN,
         Handling(s), RouteFailedMessage(s, retryable),
         UNCHANGED <<sent, ready, dlq, conn, wins, cuts, restarts>>
  PROVE  IInv'
<1>1. wins' \in [Messages -> Nat] /\ \A i \in Messages : wins[i] > 0 => wins'[i] > 0
  BY DEF IInv, TypeOK
<1>2. CASE run[s] = "stale"
  BY <1>1, <1>2, RejectedKeeps DEF RouteFailedMessage
<1>3. CASE run[s] # "stale"
  <2>1. /\ run[s] = "handling" /\ RouteFailed(s, retryable)
        /\ run' = [run EXCEPT ![s] = "acking"] /\ UNCHANGED <<holds, process>>
    BY <1>3 DEF RouteFailedMessage, Handling
  <2>2. CASE retryable /\ holds[s].retries < MaxRetries
    <3>1. Write(s, <<"retry", "ack">>) /\ <<"retry", "ack">> \in Writes
      BY <2>1, <2>2 DEF RouteFailed, Writes
    <3>2. <<"retry", "ack">>[1] # "ack"
      OBVIOUS
    <3> QED BY <1>1, <2>1, <2>2, <3>1, <3>2, AckingKeeps
  <2>3. CASE ~(retryable /\ holds[s].retries < MaxRetries)
    <3>1. Write(s, <<"dead", "ack">>) /\ <<"dead", "ack">> \in Writes
      BY <2>1, <2>3 DEF RouteFailed, Writes
    <3>2. <<"dead", "ack">>[1] \notin {"ack", "retry"}
      OBVIOUS
    <3> QED BY <1>1, <2>1, <3>1, <3>2, AckingKeeps
  <2> QED BY <2>2, <2>3
<1> QED BY <1>2, <1>3

LEMMA EventSucceedsKeeps ==
  ASSUME IInv, NEW s \in Slots, EventSucceeds(s)
  PROVE  IInv'
<1>1. TypeOK /\ run[s] \in {"handling", "stale"}
  BY DEF IInv, EventSucceeds, Handling
<1>2. holds[s] \in Copy /\ holds[s].id \in Messages
  BY <1>1 DEF TypeOK, Copy
<1>3. wins \in [Messages -> Nat] /\ wins' = [wins EXCEPT ![holds[s].id] = @ + 1]
  BY <1>1 DEF TypeOK, EventSucceeds
<1>4. /\ wins' \in [Messages -> Nat] /\ wins'[holds[s].id] > 0
      /\ \A i \in Messages : wins[i] > 0 => wins'[i] > 0
  BY <1>2, <1>3
<1>5. CASE run[s] = "stale"
  BY <1>4, <1>5, RejectedKeeps DEF EventSucceeds, Ack
<1>6. CASE run[s] = "handling"
  <2>1. /\ Write(s, <<"ack">>) /\ run' = [run EXCEPT ![s] = "acking"]
        /\ UNCHANGED <<sent, ready, dlq, conn, process, holds, cuts, restarts>>
    BY <1>6 DEF EventSucceeds, Ack
  <2>2. <<"ack">> \in Writes /\ <<"ack">>[1] = "ack"
    BY DEF Writes
  <2> QED BY <1>4, <1>6, <2>1, <2>2, AckingKeeps
<1> QED BY <1>1, <1>5, <1>6

LEMMA RpcRepliesKeeps ==
  ASSUME IInv, NEW s \in Slots, RpcReplies(s)
  PROVE  IInv'
<1>1. TypeOK /\ run[s] \in {"handling", "stale"}
  BY DEF IInv, RpcReplies, Handling
<1>2. wins' \in [Messages -> Nat] /\ \A i \in Messages : wins[i] > 0 => wins'[i] > 0
  BY <1>1 DEF TypeOK, RpcReplies
<1>3. CASE run[s] = "handling"
  <2>1. /\ Write(s, <<"reply", "ack">>) /\ run' = [run EXCEPT ![s] = "acking"]
        /\ UNCHANGED <<sent, ready, dlq, conn, process, holds, cuts, restarts>>
    BY <1>3 DEF RpcReplies
  <2>2. <<"reply", "ack">> \in Writes /\ <<"reply", "ack">>[1] = "reply"
    BY DEF Writes
  <2> QED BY <1>2, <1>3, <2>1, <2>2, AckingKeeps
<1>4. CASE run[s] = "stale"
  <2>1. /\ Write(s, <<"reply">>) /\ run' = [run EXCEPT ![s] = "ended"]
        /\ process' = "rejected"
        /\ UNCHANGED <<sent, ready, dlq, conn, holds, wins, cuts, restarts>>
    BY <1>4 DEF RpcReplies
  <2>2. <<"reply">> \in Writes /\ <<"reply">>[1] = "reply"
    BY DEF Writes
  <2>3. /\ \A r \in Slots \ {s} : run'[r] = run[r] /\ holds'[r] = holds[r]
        /\ run'[s] = "ended"
    BY <1>1, <2>1 DEF TypeOK
  <2>4. wire' \in Seq(Frames) /\ FrameSlots' /\ AckLast' /\ RetryFits'
    BY <1>4, <2>1, <2>2, <2>3, WriteKeeps
  <2>5. AllAccounted'
    BY <1>2, <1>4, <2>1, <2>2, <2>3, WriteAccounts
  <2>6. TypeOK'
    BY <1>1, <1>4, <2>1, <2>4 DEF TypeOK
  <2> QED BY <2>4, <2>5, <2>6 DEF IInv
<1> QED BY <1>1, <1>3, <1>4

LEMMA FinishKeeps ==
  ASSUME IInv, NEW s \in Slots, Finish(s)
  PROVE  IInv'
<1>1. CASE EventSucceeds(s)
  BY <1>1, EventSucceedsKeeps
<1>2. CASE EventFails(s, TRUE)
  BY <1>2, RouteKeeps DEF EventFails
<1>3. CASE EventFails(s, FALSE)
  BY <1>3, RouteKeeps DEF EventFails
<1>4. CASE RpcReplies(s)
  BY <1>4, RpcRepliesKeeps
<1>5. CASE RpcReplyThrows(s)
  BY <1>5, RouteKeeps DEF RpcReplyThrows
<1> QED BY <1>1, <1>2, <1>3, <1>4, <1>5 DEF Finish

-------------------------------------------------------------------------------
(***************************************************************************)
(* Steps of the broker.                                                    *)
(***************************************************************************)

LEMMA PublishKeeps ==
  ASSUME IInv, NEW i \in Messages, Publish(i)
  PROVE  IInv'
<1>1. TypeOK /\ FrameSlots /\ AckLast /\ RetryFits /\ AllAccounted
  BY DEF IInv
<1>2. PICK t \in Topics :
        ready' = [ready EXCEPT ![[id |-> i, key |-> t, retries |-> 0]] = @ + 1]
  BY DEF Publish
<1> DEFINE new == [id |-> i, key |-> t, retries |-> 0]
<1>3. new \in Copy /\ new.id = i
  BY DEF Copy
<1>4. /\ sent' = sent \cup {i}
      /\ UNCHANGED <<dlq, conn, process, run, holds, wire, wins, cuts, restarts>>
  BY DEF Publish, runVars
<1> HIDE DEF new
<1>5. ready \in [Copy -> Nat] /\ ready' = [ready EXCEPT ![new] = @ + 1]
  BY <1>1, <1>2 DEF TypeOK, new
<1>6. /\ ready' \in [Copy -> Nat] /\ ready'[new] > 0
      /\ \A c \in Copy : ready[c] > 0 => ready'[c] > 0
  BY <1>3, <1>5
<1>7. TypeOK'
  BY <1>1, <1>4, <1>6 DEF TypeOK
<1>8. FrameSlots' /\ AckLast' /\ RetryFits'
  BY <1>1, <1>4 DEF FrameSlots, AckLast, RetryFits
<1>9. AllAccounted'
  <2> SUFFICES ASSUME Provisos, NEW j \in sent' PROVE Accounted(j)'
    BY DEF AllAccounted
  <2>1. CASE j = i
    BY <1>3, <1>6, <2>1 DEF Accounted, Queued
  <2>2. CASE j \in sent
    <3>1. Accounted(j)
      BY <1>1, <2>2 DEF AllAccounted
    <3>2. CASE Queued(j)
      BY <1>6, <3>2 DEF Accounted, Queued
    <3>3. CASE ~Queued(j)
      BY <1>4, <3>1, <3>3 DEF Accounted, Settled, Unacked, Owes
    <3> QED BY <3>2, <3>3
  <2> QED BY <1>4, <2>1, <2>2
<1> QED BY <1>7, <1>8, <1>9 DEF IInv

LEMMA DeliverKeeps ==
  ASSUME IInv, NEW s \in Slots, Deliver(s)
  PROVE  IInv'
<1>1. TypeOK /\ FrameSlots /\ AckLast /\ RetryFits /\ AllAccounted
  BY DEF IInv
<1>2. PICK c \in Copy :
        /\ ready[c] > 0
        /\ ready' = [ready EXCEPT ![c] = @ - 1]
        /\ holds' = [holds EXCEPT ![s] = c]
        /\ \/ /\ c.key \notin Topics
              /\ Write(s, <<"ack">>)
              /\ run' = [run EXCEPT ![s] = "acking"]
           \/ /\ c.key \in Topics /\ c.id \in Malformed
              /\ Write(s, <<"dead", "ack">>)
              /\ run' = [run EXCEPT ![s] = "acking"]
           \/ /\ c.key \in Topics /\ c.id \notin Malformed
              /\ run' = [run EXCEPT ![s] = "handling"]
              /\ UNCHANGED wire
  BY DEF Deliver
<1>3. run[s] = "free" /\ UNCHANGED <<sent, dlq, conn, process, wins, cuts, restarts>>
  BY DEF Deliver
<1>4. Provisos => c.key \in Topics
  BY DEF Copy, Provisos, RetryHandled
<1>5. /\ ready' \in [Copy -> Nat]
      /\ \A d \in Copy \ {c} : ready'[d] = ready[d]
  BY <1>1, <1>2 DEF TypeOK
<1>6. /\ \A r \in Slots \ {s} : run'[r] = run[r] /\ holds'[r] = holds[r]
      /\ holds'[s] = c
  BY <1>1, <1>2 DEF TypeOK
<1>7. /\ wire \in Seq(Frames)
      /\ \A n \in DOMAIN wire : wire[n].slot \in Slots /\ wire[n].slot # s
  BY <1>1, <1>3, FrameType DEF TypeOK, FrameSlots
<1>8. /\ wire' \in Seq(Frames) /\ FrameSlots' /\ AckLast' /\ RetryFits'
      /\ DOMAIN wire \subseteq DOMAIN wire'
      /\ \A n \in DOMAIN wire : wire'[n] = wire[n]
      /\ run'[s] \in {"handling", "acking"} /\ (Provisos => Owes(s)')
  <2>1. CASE /\ c.id \in Malformed /\ Write(s, <<"dead", "ack">>)
             /\ run' = [run EXCEPT ![s] = "acking"]
    <3>1. <<"dead", "ack">> \in Writes /\ <<"dead", "ack">>[1] = "dead"
      BY DEF Writes
    <3>2. run'[s] = "acking"
      BY <1>1, <2>1 DEF TypeOK
    <3>3. wire' \in Seq(Frames) /\ FrameSlots' /\ AckLast' /\ RetryFits'
      BY <1>3, <1>6, <2>1, <3>1, <3>2, WriteKeeps
    <3>4. /\ DOMAIN wire \subseteq DOMAIN wire'
          /\ \A n \in DOMAIN wire : wire'[n] = wire[n]
          /\ \E n \in DOMAIN wire' : wire'[n].slot = s /\ wire'[n].op # "ack"
      BY <1>7, <2>1, <3>1, WriteAppends
    <3> QED BY <3>2, <3>3, <3>4 DEF Owes
  <2>2. CASE run' = [run EXCEPT ![s] = "handling"] /\ UNCHANGED wire
    <3>1. run'[s] = "handling"
      BY <1>1, <2>2 DEF TypeOK
    <3>2. FrameSlots' /\ AckLast' /\ RetryFits'
      BY <1>1, <1>6, <1>7, <2>2 DEF FrameSlots, AckLast, RetryFits
    <3> QED BY <1>7, <2>2, <3>1, <3>2 DEF Owes
  <2>3. CASE /\ c.key \notin Topics /\ Write(s, <<"ack">>)
             /\ run' = [run EXCEPT ![s] = "acking"]
    <3>1. <<"ack">> \in Writes /\ <<"ack">>[1] = "ack"
      BY DEF Writes
    <3>2. run'[s] = "acking"
      BY <1>1, <2>3 DEF TypeOK
    <3>3. wire' \in Seq(Frames) /\ FrameSlots' /\ AckLast' /\ RetryFits'
      BY <1>3, <1>6, <2>3, <3>1, <3>2, WriteKeeps
    <3>4. /\ DOMAIN wire \subseteq DOMAIN wire'
          /\ \A n \in DOMAIN wire : wire'[n] = wire[n]
      BY <1>7, <2>3, <3>1, WriteAppends
    <3> QED BY <1>4, <2>3, <3>2, <3>3, <3>4
  <2> QED BY <1>2, <2>1, <2>2, <2>3
<1>9. TypeOK'
  <2>1. /\ run' \in [Slots -> {"free", "handling", "acking", "stale", "ended"}]
        /\ holds' \in [Slots -> Copy \cup {NoCopy}]
    BY <1>1, <1>2 DEF TypeOK
  <2>2. \A r \in Slots : run'[r] # "free" => holds'[r] \in Copy
    BY <1>1, <1>6 DEF TypeOK
  <2> QED BY <1>1, <1>3, <1>5, <1>8, <2>1, <2>2 DEF TypeOK
<1>10. AllAccounted'
  <2> SUFFICES ASSUME Provisos, NEW i \in sent PROVE Accounted(i)'
    BY <1>3 DEF AllAccounted
  <2>1. Accounted(i)
    BY <1>1 DEF AllAccounted
  <2>2. CASE Settled(i)
    BY <1>3, <2>2 DEF Accounted, Settled
  <2>3. CASE Queued(i)
    <3>1. PICK d \in Copy : d.id = i /\ ready[d] > 0
      BY <2>3 DEF Queued
    <3>2. CASE d = c
      BY <1>6, <1>8, <3>1, <3>2 DEF Accounted, Unacked
    <3>3. CASE d # c
      BY <1>5, <3>1, <3>3 DEF Accounted, Queued
    <3> QED BY <3>2, <3>3
  <2>4. CASE \E r \in Unacked : holds[r].id = i /\ Owes(r)
    <3>1. PICK r \in Slots : /\ run[r] \in {"handling", "acking"}
                             /\ holds[r].id = i /\ Owes(r)
      BY <2>4 DEF Unacked
    <3>2. run'[r] = run[r] /\ holds'[r] = holds[r]
      BY <1>3, <1>6, <3>1
    <3>3. Owes(r)'
      BY <1>8, <3>1, <3>2 DEF Owes
    <3> QED BY <3>1, <3>2, <3>3 DEF Accounted, Unacked
  <2> QED BY <2>1, <2>2, <2>3, <2>4 DEF Accounted
<1> QED BY <1>8, <1>9, <1>10 DEF IInv

\* What the broker's step does to the wire.
LEMMA TakesHead ==
  ASSUME wire \in Seq(Frames), wire # <<>>, wire' = Tail(wire)
  PROVE  /\ wire' \in Seq(Frames)
         /\ 1 \in DOMAIN wire /\ Head(wire) = wire[1]
         /\ \A n \in DOMAIN wire' : n \in Nat /\ n + 1 \in DOMAIN wire /\ wire'[n] = wire[n + 1]
         /\ \A n \in DOMAIN wire : n = 1 \/ (1 < n /\ n - 1 \in DOMAIN wire' /\ wire'[n - 1] = wire[n])
<1>1. /\ wire' \in Seq(Frames) /\ Len(wire') = Len(wire) - 1
      /\ \A n \in 1 .. Len(wire') : wire'[n] = wire[n + 1]
  BY HeadTailProperties
<1>2. DOMAIN wire = 1 .. Len(wire) /\ Len(wire) \in Nat \ {0}
  BY EmptySeq, LenProperties
<1>3. DOMAIN wire' = 1 .. Len(wire')
  BY <1>1
<1>4. ASSUME NEW n \in DOMAIN wire'
      PROVE  n \in Nat /\ n + 1 \in DOMAIN wire /\ wire'[n] = wire[n + 1]
  BY <1>1, <1>2, <1>3
<1>5. ASSUME NEW n \in DOMAIN wire, n # 1
      PROVE  1 < n /\ n - 1 \in DOMAIN wire' /\ wire'[n - 1] = wire[n]
  <2>1. n - 1 \in 1 .. Len(wire') /\ (n - 1) + 1 = n /\ 1 < n
    BY <1>1, <1>2, <1>5
  <2> QED BY <1>1, <1>3, <2>1
<1>6. Head(wire) = wire[1] /\ 1 \in DOMAIN wire
  BY <1>2
<1> QED BY <1>1, <1>4, <1>5, <1>6

\* A run whose frames are not all taken, or that is in its handler, still owes.
LEMMA OwesOn ==
  ASSUME IInv, wire # <<>>, wire' = Tail(wire), NEW s \in Slots, Owes(s), run'[s] = run[s],
         Head(wire).slot # s \/ Head(wire).op = "ack"
  PROVE  Owes(s)'
<1>1. wire \in Seq(Frames)
  BY DEF IInv, TypeOK
<1>2. CASE run[s] = "handling"
  BY <1>2 DEF Owes
<1>3. CASE \E n \in DOMAIN wire : wire[n].slot = s /\ wire[n].op # "ack"
  <2>1. PICK n \in DOMAIN wire : wire[n].slot = s /\ wire[n].op # "ack"
    BY <1>3
  <2>2. n # 1
    BY <1>1, <2>1, TakesHead
  <2>3. n - 1 \in DOMAIN wire' /\ wire'[n - 1] = wire[n]
    BY <1>1, <2>2, TakesHead
  <2> QED BY <2>1, <2>3 DEF Owes
<1> QED BY <1>2, <1>3 DEF Owes

\* A copy with a retry left becomes a copy of the same message.
LEMMA RetriedFits ==
  ASSUME NEW c \in Copy, c.retries < MaxRetries
  PROVE  Retried(c) \in Copy /\ Retried(c).id = c.id
<1>1. /\ c = [id |-> c.id, key |-> c.key, retries |-> c.retries]
      /\ c.id \in Messages /\ c.retries \in 0 .. MaxRetries
  BY DEF Copy
<1>2. Retried(c) = [id |-> c.id, key |-> Queue, retries |-> c.retries + 1]
  <2> DEFINE d == [c EXCEPT !.key = Queue]
  <2>1. d = [id |-> c.id, key |-> Queue, retries |-> c.retries]
    BY DEF Copy
  <2>2. [d EXCEPT !.retries = @ + 1] = [id |-> c.id, key |-> Queue, retries |-> c.retries + 1]
    <3> HIDE DEF d
    <3> QED BY <2>1
  <2> QED BY <2>2 DEF Retried
<1>3. c.retries + 1 \in 0 .. MaxRetries
  BY <1>1
<1> QED BY <1>1, <1>2, <1>3 DEF Copy

LEMMA BrokerTakesKeeps ==
  ASSUME IInv, BrokerTakes
  PROVE  IInv'
<1> DEFINE t == wire[1].slot
           op == wire[1].op
<1>1. TypeOK /\ FrameSlots /\ AckLast /\ RetryFits /\ AllAccounted
  BY DEF IInv
<1>2. /\ wire \in Seq(Frames) /\ wire # <<>> /\ wire' = Tail(wire)
      /\ UNCHANGED <<sent, conn, process, cuts, restarts>>
  BY <1>1 DEF TypeOK, BrokerTakes
<1>3. /\ wire' \in Seq(Frames)
      /\ 1 \in DOMAIN wire /\ Head(wire) = wire[1]
      /\ \A n \in DOMAIN wire' : n \in Nat /\ n + 1 \in DOMAIN wire /\ wire'[n] = wire[n + 1]
  BY <1>2, TakesHead
<1>4. t \in Slots /\ op \in {"retry", "dead", "reply", "ack"} /\ run[t] \in {"acking", "ended"}
  BY <1>1, <1>2, <1>3, FrameType DEF FrameSlots
<1>5. holds[t] \in Copy /\ holds[t].id \in Messages
  BY <1>1, <1>4 DEF TypeOK, Copy
<1>6. /\ ready' = IF op = "retry" THEN [ready EXCEPT ![Retried(holds[t])] = @ + 1] ELSE ready
      /\ dlq' = IF op = "dead" THEN [dlq EXCEPT ![holds[t].id] = @ + 1] ELSE dlq
      /\ wins' = IF op = "reply" THEN [wins EXCEPT ![holds[t].id] = @ + 1] ELSE wins
      /\ op = "ack" => /\ run' = [run EXCEPT ![t] = "free"]
                       /\ holds' = [holds EXCEPT ![t] = NoCopy]
      /\ op # "ack" => run' = run /\ holds' = holds
  BY <1>3 DEF BrokerTakes, runVars
<1>7. op = "retry" => Retried(holds[t]) \in Copy /\ Retried(holds[t]).id = holds[t].id
  <2> SUFFICES ASSUME op = "retry"
               PROVE  Retried(holds[t]) \in Copy /\ Retried(holds[t]).id = holds[t].id
    OBVIOUS
  <2>1. holds[t].retries < MaxRetries
    BY <1>1, <1>3 DEF RetryFits
  <2> QED BY <1>5, <2>1, RetriedFits
<1> HIDE DEF t, op
<1>8. /\ ready' \in [Copy -> Nat]
      /\ \A c \in Copy : ready[c] > 0 => ready'[c] > 0
      /\ op = "retry" => ready'[Retried(holds[t])] > 0
  BY <1>1, <1>6, <1>7 DEF TypeOK
<1>9. /\ dlq' \in [Messages -> Nat] /\ wins' \in [Messages -> Nat]
      /\ \A i \in Messages : Settled(i) => Settled(i)'
      /\ op \in {"dead", "reply"} => wins'[holds[t].id] > 0 \/ dlq'[holds[t].id] > 0
  BY <1>1, <1>5, <1>6 DEF TypeOK, Settled
<1>10. /\ \A s \in Slots \ {t} : run'[s] = run[s] /\ holds'[s] = holds[s]
       /\ op # "ack" => run' = run /\ holds' = holds
       /\ op = "ack" => run'[t] = "free"
  BY <1>1, <1>4, <1>6 DEF TypeOK
<1>11. \A n \in DOMAIN wire' : op = "ack" => wire'[n].slot # t
  <2> SUFFICES ASSUME NEW n \in DOMAIN wire', op = "ack" PROVE wire'[n].slot # t
    OBVIOUS
  <2>1. 1 < n + 1 /\ n + 1 \in DOMAIN wire /\ wire'[n] = wire[n + 1]
    BY <1>3
  <2> QED BY <1>1, <1>3, <2>1 DEF AckLast, t, op
<1>12. TypeOK'
  <2>1. /\ run' \in [Slots -> {"free", "handling", "acking", "stale", "ended"}]
        /\ holds' \in [Slots -> Copy \cup {NoCopy}]
    BY <1>1, <1>6 DEF TypeOK
  <2>2. \A s \in Slots : run'[s] # "free" => holds'[s] \in Copy
    BY <1>1, <1>10 DEF TypeOK
  <2> QED BY <1>1, <1>2, <1>3, <1>8, <1>9, <2>1, <2>2 DEF TypeOK
<1>13. FrameSlots'
  <2> SUFFICES ASSUME NEW n \in DOMAIN wire' PROVE run'[wire'[n].slot] \in {"acking", "ended"}
    BY DEF FrameSlots
  <2>1. n + 1 \in DOMAIN wire /\ wire'[n] = wire[n + 1]
    BY <1>3
  <2>2. wire'[n].slot \in Slots /\ run[wire'[n].slot] \in {"acking", "ended"}
    BY <1>1, <1>2, <2>1, FrameType DEF FrameSlots
  <2> QED BY <1>10, <1>11, <2>2
<1>14. AckLast'
  <2> SUFFICES ASSUME NEW m \in DOMAIN wire', NEW n \in DOMAIN wire',
                      m < n, wire'[m].op = "ack"
               PROVE  wire'[n].slot # wire'[m].slot
    BY DEF AckLast
  <2>1. /\ m + 1 \in DOMAIN wire /\ wire'[m] = wire[m + 1]
        /\ n + 1 \in DOMAIN wire /\ wire'[n] = wire[n + 1] /\ m + 1 < n + 1
    BY <1>3
  <2> QED BY <1>1, <2>1 DEF AckLast
<1>15. RetryFits'
  <2> SUFFICES ASSUME NEW n \in DOMAIN wire', wire'[n].op = "retry"
               PROVE  holds'[wire'[n].slot].retries < MaxRetries
    BY DEF RetryFits
  <2>1. n + 1 \in DOMAIN wire /\ wire'[n] = wire[n + 1]
    BY <1>3
  <2>2. wire'[n].slot \in Slots /\ holds[wire'[n].slot].retries < MaxRetries
    BY <1>1, <1>2, <2>1, FrameType DEF RetryFits
  <2> QED BY <1>10, <1>11, <2>2
<1>16. AllAccounted'
  <2> SUFFICES ASSUME Provisos, NEW i \in sent PROVE Accounted(i)'
    BY <1>2 DEF AllAccounted
  <2>1. i \in Messages /\ Accounted(i)
    BY <1>1 DEF TypeOK, AllAccounted
  <2>2. CASE Settled(i)
    BY <1>9, <2>1, <2>2 DEF Accounted
  <2>3. CASE Queued(i)
    BY <1>8, <2>3 DEF Accounted, Queued
  <2>4. CASE \E s \in Unacked : holds[s].id = i /\ Owes(s)
    <3>1. PICK s \in Slots : /\ run[s] \in {"handling", "acking"}
                             /\ holds[s].id = i /\ Owes(s)
      BY <2>4 DEF Unacked
    <3>2. CASE s # t
      <4>1. run'[s] = run[s] /\ holds'[s] = holds[s]
        BY <1>10, <3>2
      <4>2. Head(wire).slot # s
        BY <1>3, <3>2 DEF t
      <4>3. Owes(s)'
        BY <1>2, <3>1, <4>1, <4>2, OwesOn
      <4> QED BY <3>1, <4>1, <4>3 DEF Accounted, Unacked
    <3>3. CASE s = t /\ op = "ack"
      <4>1. PICK n \in DOMAIN wire : wire[n].slot = s /\ wire[n].op # "ack"
        BY <1>4, <3>1, <3>3 DEF Owes
      <4>2. n = 1 \/ 1 < n
        BY <1>2
      <4>3. wire[1].slot = s /\ wire[1].op = "ack"
        BY <3>3 DEF t, op
      <4> QED BY <1>1, <1>3, <4>1, <4>2, <4>3 DEF AckLast
    <3>4. CASE s = t /\ op = "retry"
      BY <1>7, <1>8, <3>1, <3>4 DEF Accounted, Queued
    <3>5. CASE s = t /\ op \in {"dead", "reply"}
      BY <1>9, <3>1, <3>5 DEF Accounted, Settled
    <3> QED BY <1>4, <3>2, <3>3, <3>4, <3>5
  <2> QED BY <2>1, <2>2, <2>3, <2>4 DEF Accounted
<1> QED BY <1>12, <1>13, <1>14, <1>15, <1>16 DEF IInv

-------------------------------------------------------------------------------
(***************************************************************************)
(* A connection ends.                                                      *)
(***************************************************************************)

\* Requeued keeps what was queued and adds what a run held unacked.
LEMMA RequeuedCounts ==
  ASSUME TypeOK
  PROVE  /\ Requeued \in [Copy -> Nat]
         /\ \A c \in Copy : ready[c] > 0 => Requeued[c] > 0
         /\ \A s \in Unacked : holds[s] \in Copy /\ Requeued[holds[s]] > 0
<1>1. \A c \in Copy : LET H == {s \in Unacked : holds[s] = c}
                      IN  IsFiniteSet(H) /\ Cardinality(H) \in Nat /\ (Cardinality(H) = 0 <=> H = {})
  <2> SUFFICES ASSUME NEW c \in Copy
               PROVE  LET H == {s \in Unacked : holds[s] = c}
                      IN  IsFiniteSet(H) /\ Cardinality(H) \in Nat
                            /\ (Cardinality(H) = 0 <=> H = {})
    OBVIOUS
  <2> DEFINE H == {s \in Unacked : holds[s] = c}
  <2>1. H \in SUBSET Slots
    BY DEF Unacked
  <2> HIDE DEF H
  <2>2. IsFiniteSet(H)
    BY <2>1, SlotsAssumption, FS_Subset
  <2>3. Cardinality(H) \in Nat /\ (Cardinality(H) = 0 <=> H = {})
    BY <2>2, FS_CardinalityType, FS_EmptySet
  <2> QED BY <2>2, <2>3 DEF H
<1> DEFINE held(c) == Cardinality({s \in Unacked : holds[s] = c})
<1>2. /\ \A c \in Copy : held(c) \in Nat
      /\ \A s \in Unacked : holds[s] \in Copy => held(holds[s]) # 0
  BY <1>1
<1>3. Requeued = [c \in Copy |-> ready[c] + held(c)]
  BY DEF Requeued
<1> HIDE DEF held
<1>4. ready \in [Copy -> Nat]
  BY DEF TypeOK
<1>5. /\ Requeued \in [Copy -> Nat]
      /\ \A c \in Copy : ready[c] > 0 => Requeued[c] > 0
  BY <1>2, <1>3, <1>4
<1>6. \A s \in Unacked : holds[s] \in Copy
  BY DEF Unacked, TypeOK
<1>7. ASSUME NEW s \in Unacked PROVE Requeued[holds[s]] > 0
  <2>1. holds[s] \in Copy /\ held(holds[s]) \in Nat /\ held(holds[s]) # 0
        /\ ready[holds[s]] \in Nat
    BY <1>2, <1>4, <1>6
  <2> QED BY <1>3, <2>1
<1> QED BY <1>5, <1>6, <1>7

\* Whatever the connection was carrying is queued again.
LEMMA LossKeeps ==
  ASSUME IInv, ready' = Requeued, wire' = <<>>,
         UNCHANGED <<sent, dlq, wins>>
  PROVE  ready' \in [Copy -> Nat] /\ AllAccounted'
<1>1. TypeOK /\ AllAccounted
  BY DEF IInv
<1>2. AllAccounted'
  <2> SUFFICES ASSUME Provisos, NEW i \in sent PROVE Accounted(i)'
    BY DEF AllAccounted
  <2>1. Accounted(i)
    BY <1>1 DEF AllAccounted
  <2>2. CASE Settled(i)
    BY <2>2 DEF Accounted, Settled
  <2>3. CASE Queued(i)
    BY <1>1, <2>3, RequeuedCounts DEF Accounted, Queued
  <2>4. CASE \E s \in Unacked : holds[s].id = i /\ Owes(s)
    <3>1. PICK s \in Unacked : holds[s].id = i
      BY <2>4
    <3>2. holds[s] \in Copy /\ ready'[holds[s]] > 0
      BY <1>1, RequeuedCounts
    <3> QED BY <3>1, <3>2 DEF Accounted, Queued
  <2> QED BY <2>1, <2>2, <2>3, <2>4 DEF Accounted
<1> QED BY <1>1, <1>2, RequeuedCounts

\* An empty wire has its frames in order.
LEMMA EmptyWire ==
  ASSUME wire' = <<>>
  PROVE  wire' \in Seq(Frames) /\ FrameSlots' /\ AckLast' /\ RetryFits'
<1>1. <<>> \in Seq(Frames) /\ DOMAIN <<>> = {}
  OBVIOUS
<1>2. wire' \in Seq(Frames) /\ DOMAIN wire' = {}
  BY <1>1
<1> QED BY <1>2 DEF FrameSlots, AckLast, RetryFits

LEMMA ConnectionLostKeeps ==
  ASSUME IInv, ConnectionLost, AllAccounted', cuts' \in Nat,
         ready' \in [Copy -> Nat], dlq' \in [Messages -> Nat], restarts' \in 0 .. MaxRestarts,
         UNCHANGED <<sent, wins>>,
         process' \in {"running", "closing", "closed", "rejected", "killed", "dead"}
  PROVE  IInv'
<1>1. TypeOK
  BY DEF IInv
<1>2. /\ conn' = "down" /\ wire' = <<>>
      /\ run' = [s \in Slots |-> IF run[s] \in {"handling", "stale"} THEN "stale" ELSE "free"]
      /\ holds' = [s \in Slots |->
                     IF run[s] \in {"handling", "stale"} THEN holds[s] ELSE NoCopy]
  BY DEF ConnectionLost
<1>3. wire' \in Seq(Frames) /\ FrameSlots' /\ AckLast' /\ RetryFits'
  BY <1>2, EmptyWire
<1>4. TypeOK'
  <2>1. \A s \in Slots : run'[s] # "free" => holds'[s] \in Copy
    BY <1>1, <1>2 DEF TypeOK
  <2>2. /\ run' \in [Slots -> {"free", "handling", "acking", "stale", "ended"}]
        /\ holds' \in [Slots -> Copy \cup {NoCopy}]
    BY <1>1, <1>2 DEF TypeOK
  <2> QED BY <1>1, <1>2, <1>3, <2>1, <2>2 DEF TypeOK
<1> QED BY <1>3, <1>4 DEF IInv

\* The broker loses what it had; while BrokerStays this never happens.
LEMMA BrokerRestartKeeps ==
  ASSUME IInv, BrokerRestart
  PROVE  IInv'
<1>1. TypeOK /\ cuts' \in Nat /\ restarts' \in 0 .. MaxRestarts
  BY DEF IInv, TypeOK, BrokerRestart
<1>2. ready' \in [Copy -> Nat] /\ dlq' \in [Messages -> Nat]
  BY DEF BrokerRestart
<1>3. AllAccounted'
  BY <1>1 DEF AllAccounted, Provisos, BrokerStays, BrokerRestart, TypeOK
<1> QED BY <1>1, <1>2, <1>3, ConnectionLostKeeps DEF BrokerRestart, TypeOK

LEMMA ProcessEndsKeeps ==
  ASSUME IInv, ProcessEnds
  PROVE  IInv'
<1>1. TypeOK
  BY DEF IInv
<1>2. /\ process' = "dead" /\ conn' = "down" /\ wire' = <<>>
      /\ run' = [s \in Slots |-> "free"]
      /\ holds' = [s \in Slots |-> NoCopy]
      /\ ready' = Requeued
      /\ UNCHANGED <<sent, dlq, wins, restarts>>
  BY DEF ProcessEnds
<1>3. cuts' \in Nat
  BY <1>1 DEF ProcessEnds, TypeOK
<1>4. /\ ready' \in [Copy -> Nat] /\ AllAccounted'
      /\ wire' \in Seq(Frames) /\ FrameSlots' /\ AckLast' /\ RetryFits'
  BY <1>2, LossKeeps, EmptyWire
<1>5. TypeOK'
  BY <1>1, <1>2, <1>3, <1>4 DEF TypeOK
<1> QED BY <1>4, <1>5 DEF IInv

\* The worker's connection and life, while no message moves.
LEMMA QuietKeeps ==
  ASSUME IInv, UNCHANGED <<sent, ready, dlq, runVars, wire, wins, restarts>>,
         conn' \in {"up", "down"}, cuts' \in Nat,
         process' \in {"running", "closing", "closed", "rejected", "killed", "dead"}
  PROVE  IInv'
<1>1. TypeOK /\ FrameSlots /\ AckLast /\ RetryFits /\ AllAccounted
  BY DEF IInv
<1>2. TypeOK'
  BY <1>1 DEF TypeOK, runVars
<1>3. FrameSlots' /\ AckLast' /\ RetryFits'
  BY <1>1 DEF FrameSlots, AckLast, RetryFits, runVars
<1>4. AllAccounted'
  BY <1>1 DEF AllAccounted, Accounted, Settled, Queued, Unacked, Owes, runVars
<1> QED BY <1>2, <1>3, <1>4 DEF IInv

-------------------------------------------------------------------------------
(***************************************************************************)
(* The theorems.                                                           *)
(***************************************************************************)

LEMMA InitIInv == Init => IInv
<1> SUFFICES ASSUME Init PROVE IInv
  OBVIOUS
<1>1. wire \in Seq(Frames) /\ DOMAIN wire = {}
  <2>1. <<>> \in Seq(Frames) /\ DOMAIN <<>> = {}
    OBVIOUS
  <2> QED BY <2>1 DEF Init
<1>2. TypeOK
  BY <1>1 DEF Init, TypeOK
<1>3. FrameSlots /\ AckLast /\ RetryFits /\ AllAccounted
  BY <1>1 DEF Init, FrameSlots, AckLast, RetryFits, AllAccounted
<1> QED BY <1>2, <1>3 DEF IInv

LEMMA NextIInv ==
  ASSUME IInv, [Next]_vars
  PROVE  IInv'
<1>1. TypeOK /\ cuts \in Nat
  BY DEF IInv, TypeOK
<1>2. ASSUME NEW i \in Messages, Publish(i) PROVE IInv'
  BY <1>2, PublishKeeps
<1>3. CASE BrokerTakes
  BY <1>3, BrokerTakesKeeps
<1>4. CASE Drop
  <2>1. /\ ready' = Requeued /\ ConnectionLost /\ cuts' = cuts + 1
        /\ UNCHANGED <<sent, dlq, process, wins, restarts>>
    BY <1>4 DEF Drop
  <2>2. /\ process' \in {"running", "closing", "closed", "rejected", "killed", "dead"}
        /\ dlq' \in [Messages -> Nat] /\ restarts' \in 0 .. MaxRestarts /\ cuts' \in Nat
    BY <1>1, <2>1 DEF TypeOK
  <2>3. ready' \in [Copy -> Nat] /\ AllAccounted'
    BY <2>1, LossKeeps DEF ConnectionLost
  <2> QED BY <2>1, <2>2, <2>3, ConnectionLostKeeps
<1>5. CASE BrokerRestart
  BY <1>5, BrokerRestartKeeps
<1>6. ASSUME NEW s \in Slots, Deliver(s) PROVE IInv'
  BY <1>6, DeliverKeeps
<1>7. ASSUME NEW s \in Slots, Finish(s) PROVE IInv'
  BY <1>7, FinishKeeps
<1>8. CASE Reconnect
  BY <1>1, <1>8, QuietKeeps DEF Reconnect
<1>9. CASE Close
  BY <1>1, <1>9, QuietKeeps DEF Close, TypeOK
<1>10. CASE CloseEnds
  <2>1. /\ ready' = Requeued /\ ConnectionLost /\ process' = "closed" /\ cuts' = cuts + 1
        /\ UNCHANGED <<sent, dlq, wins, restarts>>
    BY <1>10 DEF CloseEnds
  <2>2. dlq' \in [Messages -> Nat] /\ restarts' \in 0 .. MaxRestarts /\ cuts' \in Nat
    BY <1>1, <2>1 DEF TypeOK
  <2>3. ready' \in [Copy -> Nat] /\ AllAccounted'
    BY <2>1, LossKeeps DEF ConnectionLost
  <2> QED BY <2>1, <2>2, <2>3, ConnectionLostKeeps
<1>11. CASE Kill
  BY <1>1, <1>11, QuietKeeps DEF Kill, TypeOK
<1>12. CASE ProcessEnds
  BY <1>12, ProcessEndsKeeps
<1>13. CASE Restart
  BY <1>1, <1>13, QuietKeeps DEF Restart, TypeOK
<1>14. CASE UNCHANGED vars
  BY <1>1, <1>14, QuietKeeps DEF vars, TypeOK
<1> QED
  BY <1>2, <1>3, <1>4, <1>5, <1>6, <1>7, <1>8, <1>9, <1>10, <1>11, <1>12, <1>13, <1>14
     DEF Next, Finished

\* In every reachable state the frames on a connection are in order and, while
\* the broker stays up and the queue's name has a handler, each message is
\* settled, queued, or owed by a delivery the broker has no ack of.
THEOREM Invariance == Spec => []IInv
<1>1. Init => IInv
  BY InitIInv
<1>2. IInv /\ [Next]_vars => IInv'
  BY NextIInv
<1> QED BY <1>1, <1>2, PTL DEF Spec

\* Every reachable state has the types TypeOK gives: no copy is retried beyond
\* options.maxRetries, and no frame is written for a delivery that is over.
THEOREM TypeCorrect == Spec => []TypeOK
<1>1. IInv => TypeOK
  BY DEF IInv
<1> QED BY <1>1, Invariance, PTL

\* At-least-once delivery: what routeFailedMessage() and the consume callback
\* write, in the order they write it, never loses a message the broker had,
\* whatever the number of deliveries at once, retries, lost connections and
\* ends of the worker, while the broker stays up and RetryHandled.
THEOREM NoMessageLost == Provisos => (Spec => []NotLost)
<1> SUFFICES ASSUME Provisos PROVE Spec => []NotLost
  OBVIOUS
<1>1. IInv => NotLost
  BY DEF IInv, AllAccounted, Accounted, NotLost, Pending
<1> QED BY <1>1, Invariance, PTL

-------------------------------------------------------------------------------
(***************************************************************************)
(* Part 2.  How often a message is handled: powers of two, and copies in   *)
(* the queue as a finite set of numbered copies.                           *)
(***************************************************************************)

\* One more lost connection doubles the bound.
LEMMA PowerDoubles ==
  ASSUME NEW n \in Nat
  PROVE  2 ^ n \in Nat /\ 2 ^ (n + 1) = 2 * 2 ^ n
<1> DEFINE S == 1 .. n
           P == SUBSET S
           Q == {T \cup {n + 1} : T \in P}
<1>1. /\ IsFiniteSet(S) /\ Cardinality(S) = n
      /\ IsFiniteSet(1 .. n + 1) /\ Cardinality(1 .. n + 1) = n + 1
  BY FS_Interval
<1>2. /\ IsFiniteSet(P) /\ Cardinality(P) = 2 ^ n
      /\ Cardinality(SUBSET (1 .. n + 1)) = 2 ^ (n + 1)
  <2>1. IsFiniteSet(P) /\ Cardinality(P) = 2 ^ Cardinality(S)
    BY <1>1, FS_SUBSET
  <2>2. Cardinality(SUBSET (1 .. n + 1)) = 2 ^ Cardinality(1 .. n + 1)
    BY <1>1, FS_SUBSET
  <2> QED BY <1>1, <2>1, <2>2, Zenon
<1>3. IsFiniteSet(Q) /\ Cardinality(Q) = Cardinality(P)
  <2> DEFINE f == [T \in P |-> T \cup {n + 1}]
  <2>1. \A T \in P : n + 1 \notin T
    OBVIOUS
  <2> HIDE DEF P
  <2>2. ASSUME NEW T \in P, NEW U \in P, T \cup {n + 1} = U \cup {n + 1}
        PROVE  T = U
    <3>1. T = (T \cup {n + 1}) \ {n + 1} /\ U = (U \cup {n + 1}) \ {n + 1}
      BY <2>1
    <3> QED BY <2>2, <3>1
  <2>3. f \in Surjection(P, Q) /\ f \in Injection(P, Q)
    <3>1. f \in [P -> Q] /\ \A T \in P : f[T] = T \cup {n + 1}
      OBVIOUS
    <3>2. \A t \in Q : \E T \in P : f[T] = t
      OBVIOUS
    <3>3. \A T, U \in P : f[T] = f[U] => T = U
      BY <2>2, <3>1
    <3> HIDE DEF f, Q
    <3> QED BY <3>1, <3>2, <3>3 DEF Surjection, Injection, IsInjective
  <2> HIDE DEF f, Q
  <2> QED BY <1>2, <2>3, FS_Surjection
<1>4. SUBSET (1 .. n + 1) = P \cup Q
  <2>1. ASSUME NEW T \in SUBSET (1 .. n + 1) PROVE T \in P \cup Q
    <3>1. CASE n + 1 \in T
      <4>1. T \ {n + 1} \in P /\ T = (T \ {n + 1}) \cup {n + 1}
        BY <3>1
      <4> QED BY <4>1
    <3>2. CASE n + 1 \notin T
      <4>1. T \in P
        BY <3>2
      <4> QED BY <4>1
    <3> QED BY <3>1, <3>2
  <2>2. ASSUME NEW T \in P \cup Q PROVE T \in SUBSET (1 .. n + 1)
    <3>1. S \subseteq 1 .. n + 1 /\ n + 1 \in 1 .. n + 1
      OBVIOUS
    <3> QED BY <2>2, <3>1
  <2> QED BY <2>1, <2>2
<1>5. P \cap Q = {}
  <2>1. \A T \in P : n + 1 \notin T
    OBVIOUS
  <2> QED BY <2>1
<1> HIDE DEF P, Q
<1>6. Cardinality(P \cup Q) = Cardinality(P) + Cardinality(Q) - 0
  <2>1. Cardinality({}) = 0
    BY FS_EmptySet
  <2>2. Cardinality(P \cup Q) = Cardinality(P) + Cardinality(Q) - Cardinality(P \cap Q)
    BY <1>2, <1>3, FS_Union
  <2> QED BY <1>5, <2>1, <2>2
<1>7. Cardinality(P) \in Nat
  BY <1>2, FS_CardinalityType
<1> DEFINE a == 2 ^ n
           b == 2 ^ (n + 1)
<1>8. a = Cardinality(P) /\ b = Cardinality(P \cup Q)
  BY <1>2, <1>4, Zenon
<1> HIDE DEF a, b
<1>9. a \in Nat /\ b = 2 * a
  BY <1>3, <1>6, <1>7, <1>8
<1> QED BY <1>9, Zenon DEF a, b

\* What QueuedCopies(i) holds: the n-th copy of c, for every n up to ready[c].
LEMMA CopiesOf ==
  ASSUME NEW i
  PROVE  /\ \A x : x \in QueuedCopies(i) <=>
              \E c \in Copy : \E n \in 1 .. ready[c] : c.id = i /\ x = <<c, n>>
         /\ \A x : x \in QueuedCopies(i)' <=>
              \E c \in Copy : \E n \in 1 .. ready'[c] : c.id = i /\ x = <<c, n>>
BY DEF QueuedCopies

\* A copy enters the queue, or leaves it.
LEMMA CopiesGrow ==
  ASSUME NEW i, NEW c \in Copy, ready \in [Copy -> Nat], ready' = [ready EXCEPT ![c] = @ + 1],
         IsFiniteSet(QueuedCopies(i))
  PROVE  /\ IsFiniteSet(QueuedCopies(i)')
         /\ Cardinality(QueuedCopies(i)') =
              Cardinality(QueuedCopies(i)) + (IF c.id = i THEN 1 ELSE 0)
<1> DEFINE Q == QueuedCopies(i)
           R == QueuedCopies(i)'
           new == <<c, ready[c] + 1>>
<1>1. /\ ready[c] \in Nat /\ ready'[c] = ready[c] + 1
      /\ \A d \in Copy \ {c} : ready'[d] = ready[d]
      /\ \A d \in Copy : ready[d] \in Nat
  OBVIOUS
<1>2. \A x : x \in Q <=> \E d \in Copy : \E n \in 1 .. ready[d] : d.id = i /\ x = <<d, n>>
  BY CopiesOf
<1>3. \A x : x \in R <=> \E d \in Copy : \E n \in 1 .. ready'[d] : d.id = i /\ x = <<d, n>>
  BY CopiesOf
<1>4. new \notin Q
  <2> SUFFICES ASSUME new \in Q PROVE FALSE
    OBVIOUS
  <2>1. PICK d \in Copy, n \in Nat : n \in 1 .. ready[d] /\ new = <<d, n>>
    BY <1>2
  <2>2. d = c /\ n = ready[c] + 1
    BY <2>1
  <2> QED BY <1>1, <2>1, <2>2
<1> HIDE DEF Q, R
<1>5. CASE c.id = i
  <2>1. ASSUME NEW x \in R PROVE x \in Q \cup {new}
    <3>1. PICK d \in Copy, n \in Nat : n \in 1 .. ready'[d] /\ d.id = i /\ x = <<d, n>>
      BY <1>3
    <3>2. CASE d = c /\ n = ready[c] + 1
      BY <3>1, <3>2
    <3>3. CASE ~(d = c /\ n = ready[c] + 1)
      <4>1. n \in 1 .. ready[d]
        BY <1>1, <3>1, <3>3
      <4> QED BY <1>2, <3>1, <4>1
    <3> QED BY <3>2, <3>3
  <2>2. ASSUME NEW x \in Q PROVE x \in R
    <3>1. PICK d \in Copy, n \in Nat : n \in 1 .. ready[d] /\ d.id = i /\ x = <<d, n>>
      BY <1>2
    <3>2. n \in 1 .. ready'[d]
      BY <1>1, <3>1
    <3> QED BY <1>3, <3>1, <3>2
  <2>3. new \in R
    <3>1. ready[c] + 1 \in 1 .. ready'[c]
      BY <1>1
    <3> QED BY <1>3, <1>5, <3>1
  <2>4. R = Q \cup {new}
    BY <2>1, <2>2, <2>3
  <2>5. IsFiniteSet(Q)
    BY DEF Q
  <2>6. IsFiniteSet(Q \cup {new}) /\ Cardinality(Q \cup {new}) = Cardinality(Q) + 1
    <3> HIDE DEF new
    <3> QED BY <1>4, <2>5, FS_AddElement
  <2> QED BY <1>5, <2>4, <2>6 DEF Q, R
<1>6. CASE c.id # i
  <2>1. \A d \in Copy : d.id = i => ready'[d] = ready[d]
    BY <1>1, <1>6
  <2>2. \A x : x \in R <=> x \in Q
    BY <1>2, <1>3, <2>1
  <2>3. R = Q
    BY <2>2
  <2>4. Cardinality(Q) \in Nat
    BY FS_CardinalityType DEF Q
  <2> QED BY <1>6, <2>3, <2>4 DEF Q, R
<1> QED BY <1>5, <1>6

LEMMA CopiesShrink ==
  ASSUME NEW i, NEW c \in Copy, ready \in [Copy -> Nat], ready[c] > 0,
         ready' = [ready EXCEPT ![c] = @ - 1],
         IsFiniteSet(QueuedCopies(i))
  PROVE  /\ IsFiniteSet(QueuedCopies(i)')
         /\ Cardinality(QueuedCopies(i)') =
              Cardinality(QueuedCopies(i)) - (IF c.id = i THEN 1 ELSE 0)
<1> DEFINE Q == QueuedCopies(i)
           R == QueuedCopies(i)'
           old == <<c, ready[c]>>
<1>1. /\ ready[c] \in Nat \ {0} /\ ready'[c] = ready[c] - 1
      /\ \A d \in Copy \ {c} : ready'[d] = ready[d]
      /\ \A d \in Copy : ready[d] \in Nat
  OBVIOUS
<1>2. \A x : x \in Q <=> \E d \in Copy : \E n \in 1 .. ready[d] : d.id = i /\ x = <<d, n>>
  BY CopiesOf
<1>3. \A x : x \in R <=> \E d \in Copy : \E n \in 1 .. ready'[d] : d.id = i /\ x = <<d, n>>
  BY CopiesOf
<1> HIDE DEF Q, R
<1>5. CASE c.id = i
  <2>1. ASSUME NEW x \in Q \ {old} PROVE x \in R
    <3>1. PICK d \in Copy, n \in Nat : n \in 1 .. ready[d] /\ d.id = i /\ x = <<d, n>>
      BY <1>2
    <3>2. ~(d = c /\ n = ready[c])
      BY <2>1, <3>1
    <3>3. n \in 1 .. ready'[d]
      BY <1>1, <3>1, <3>2
    <3> QED BY <1>3, <3>1, <3>3
  <2>2. ASSUME NEW x \in R PROVE x \in Q \ {old}
    <3>1. PICK d \in Copy, n \in Nat : n \in 1 .. ready'[d] /\ d.id = i /\ x = <<d, n>>
      BY <1>3
    <3>2. n \in 1 .. ready[d] /\ ~(d = c /\ n = ready[c])
      BY <1>1, <3>1
    <3>3. x # old
      BY <3>1, <3>2
    <3> QED BY <1>2, <3>1, <3>2, <3>3
  <2>3. old \in Q
    <3>1. ready[c] \in 1 .. ready[c]
      BY <1>1
    <3> QED BY <1>2, <1>5, <3>1
  <2>4. R = Q \ {old}
    BY <2>1, <2>2
  <2>5. IsFiniteSet(Q)
    BY DEF Q
  <2>6. IsFiniteSet(Q \ {old}) /\ Cardinality(Q \ {old}) = Cardinality(Q) - 1
    <3> HIDE DEF old
    <3> QED BY <2>3, <2>5, FS_RemoveElement
  <2> QED BY <1>5, <2>4, <2>6 DEF Q, R
<1>6. CASE c.id # i
  <2>1. \A d \in Copy : d.id = i => ready'[d] = ready[d]
    BY <1>1, <1>6
  <2>2. \A x : x \in R <=> x \in Q
    BY <1>2, <1>3, <2>1
  <2>3. R = Q
    BY <2>2
  <2>4. Cardinality(Q) \in Nat
    BY FS_CardinalityType DEF Q
  <2> QED BY <1>6, <2>3, <2>4 DEF Q, R
<1> QED BY <1>5, <1>6

\* Every delivery of i that is not acked comes back to the queue once.
LEMMA CopiesRequeued ==
  ASSUME TypeOK, NEW i, ready' = Requeued, IsFiniteSet(QueuedCopies(i))
  PROVE  /\ IsFiniteSet(QueuedCopies(i)')
         /\ Cardinality(QueuedCopies(i)') <=
              Cardinality(QueuedCopies(i)) + Cardinality({s \in Unacked : holds[s].id = i})
<1> DEFINE Q == QueuedCopies(i)
           R == QueuedCopies(i)'
           U == {s \in Unacked : holds[s].id = i}
           H(c) == {s \in Unacked : holds[s] = c}
           h == [c \in Copy |-> Cardinality(H(c))]
           b == [c \in Copy |-> CHOOSE f : f \in Bijection(1 .. h[c], H(c))]
           F == [x \in R \ Q |-> b[x[1]][x[2] - ready[x[1]]]]
<1>1. /\ \A x : x \in Q <=> \E d \in Copy : \E n \in 1 .. ready[d] : d.id = i /\ x = <<d, n>>
      /\ \A x : x \in R <=> \E d \in Copy : \E n \in 1 .. ready'[d] : d.id = i /\ x = <<d, n>>
  BY CopiesOf
<1>2. ASSUME NEW c \in Copy
      PROVE  h[c] \in Nat /\ b[c] \in Bijection(1 .. h[c], H(c))
  <2>1. H(c) \in SUBSET Slots
    BY DEF Unacked
  <2>2. IsFiniteSet(H(c))
    BY <2>1, SlotsAssumption, FS_Subset
  <2>3. Cardinality(H(c)) \in Nat /\ ExistsBijection(1 .. Cardinality(H(c)), H(c))
    <3> HIDE DEF H
    <3> QED BY <2>2, FS_CardinalityType
  <2>4. h[c] = Cardinality(H(c))
    OBVIOUS
  <2> HIDE DEF h, H
  <2>5. \E f : f \in Bijection(1 .. h[c], H(c))
    BY <2>3, <2>4 DEF ExistsBijection
  <2> QED BY <2>3, <2>4, <2>5
<1>3. \A c \in Copy : ready[c] \in Nat /\ ready'[c] = ready[c] + h[c]
  <2>1. ready \in [Copy -> Nat]
    BY DEF TypeOK
  <2> QED BY <2>1 DEF Requeued
<1>4. IsFiniteSet(U)
  <2>1. U \in SUBSET Slots
    BY DEF Unacked
  <2> QED BY <2>1, SlotsAssumption, FS_Subset
<1>5. \A c \in Copy : c.id = i => H(c) \subseteq U
  OBVIOUS
<1>6. \A c \in Copy : \A s \in H(c) : holds[s] = c
  OBVIOUS
<1> HIDE DEF Q, R, U, H, h, b
<1>7. \A c \in Copy : \A n \in 1 .. h[c] : b[c][n] \in H(c)
  BY <1>2 DEF Bijection, Injection
<1>8. \A c \in Copy : \A m, n \in 1 .. h[c] : b[c][m] = b[c][n] => m = n
  BY <1>2 DEF Bijection, Injection, IsInjective
<1>9. ASSUME NEW x \in R \ Q
      PROVE  /\ x = <<x[1], x[2]>> /\ x[1] \in Copy /\ x[1].id = i
             /\ x[2] \in Nat /\ x[2] - ready[x[1]] \in 1 .. h[x[1]]
  <2>1. PICK d \in Copy, n \in Nat : n \in 1 .. ready'[d] /\ d.id = i /\ x = <<d, n>>
    BY <1>1, <1>9
  <2>2. x[1] = d /\ x[2] = n
    BY <2>1
  <2>3. ~(n \in 1 .. ready[d])
    BY <1>1, <1>9, <2>1
  <2>4. ready[d] \in Nat /\ h[d] \in Nat /\ n \in 1 .. ready[d] + h[d]
    BY <1>2, <1>3, <2>1
  <2>5. n - ready[d] \in 1 .. h[d]
    BY <2>3, <2>4
  <2> QED BY <2>1, <2>2, <2>5
<1>10. \A x \in R \ Q : F[x] \in H(x[1]) /\ F[x] \in U
  BY <1>5, <1>7, <1>9
<1>11. ASSUME NEW x \in R \ Q, NEW y \in R \ Q, F[x] = F[y]
       PROVE  x = y
  <2>1. x[1] = y[1]
    BY <1>6, <1>9, <1>10, <1>11
  <2>2. F[x] = b[x[1]][x[2] - ready[x[1]]] /\ F[y] = b[y[1]][y[2] - ready[y[1]]]
    OBVIOUS
  <2>3. x[2] - ready[x[1]] = y[2] - ready[y[1]]
    BY <1>8, <1>9, <1>11, <2>1, <2>2
  <2>4. x[2] = y[2]
    BY <1>3, <1>9, <2>1, <2>3
  <2> QED BY <1>9, <2>1, <2>4
<1>12. F \in Injection(R \ Q, U)
  <2>1. F \in [R \ Q -> U]
    BY <1>10
  <2>2. \A x, y \in R \ Q : F[x] = F[y] => x = y
    BY <1>11
  <2> HIDE DEF F
  <2> QED BY <2>1, <2>2 DEF Injection, IsInjective
<1>13. IsFiniteSet(R \ Q) /\ Cardinality(R \ Q) <= Cardinality(U)
  <2> HIDE DEF F
  <2> QED BY <1>4, <1>12, FS_Injection
<1>14. R = Q \cup (R \ Q) /\ Q \cap (R \ Q) = {}
  <2> SUFFICES ASSUME NEW x \in Q PROVE x \in R
    OBVIOUS
  <2>1. PICK d \in Copy, n \in Nat : n \in 1 .. ready[d] /\ d.id = i /\ x = <<d, n>>
    BY <1>1
  <2>2. n \in 1 .. ready'[d]
    <3>1. ready[d] \in Nat /\ h[d] \in Nat /\ ready'[d] = ready[d] + h[d]
      BY <1>2, <1>3
    <3> QED BY <2>1, <3>1
  <2> QED BY <1>1, <2>1, <2>2
<1>15. IsFiniteSet(Q)
  BY DEF Q
<1>16. IsFiniteSet(R) /\ Cardinality(R) = Cardinality(Q) + Cardinality(R \ Q) - 0
  <2>1. IsFiniteSet(Q \cup (R \ Q))
        /\ Cardinality(Q \cup (R \ Q)) = Cardinality(Q) + Cardinality(R \ Q) - Cardinality(Q \cap (R \ Q))
    BY <1>13, <1>15, FS_Union
  <2>2. Cardinality({}) = 0
    BY FS_EmptySet
  <2> QED BY <1>14, <2>1, <2>2
<1>17. Cardinality(R) \in Nat /\ Cardinality(Q) \in Nat /\ Cardinality(R \ Q) \in Nat /\ Cardinality(U) \in Nat
  BY <1>4, <1>13, <1>15, <1>16, FS_CardinalityType
<1> QED BY <1>13, <1>16, <1>17 DEF Q, R, U

-------------------------------------------------------------------------------
(***************************************************************************)
(* The inductive invariant.                                                *)
(***************************************************************************)

\* DuplicatesNeedCuts is not inductive either.  A run writes one outcome, with
\* its ack right behind it ...
OneOutcome ==
  \A m, n \in DOMAIN wire :
    (wire[m].slot = wire[n].slot /\ wire[m].op # "ack" /\ wire[n].op # "ack") => m = n

Paired ==
  \A n \in DOMAIN wire :
    (wire[n].op # "ack" /\ run[wire[n].slot] = "acking") =>
      n + 1 \in DOMAIN wire /\ wire[n + 1].slot = wire[n].slot

\* ... for a message that has a handler; nothing is known of one not sent; a
\* connection that is down has no delivery, and an ended process no connection.
CountsHandled == \A s \in Slots : Counts(s) => holds[s].key \in Topics

OnlySent ==
  /\ \A c \in Copy : ready[c] > 0 => c.id \in sent
  /\ \A s \in Slots : run[s] # "free" => holds[s].id \in sent
  /\ \A i \in Messages : dlq[i] > 0 \/ wins[i] > 0 => i \in sent

DownIdle ==
  /\ conn = "down" => Unacked = {}
  /\ process \in {"closed", "dead"} => conn = "down"

\* What a lost connection may bring back: a run that counts, one that acks a
\* message without a handler, and one whose outcome the broker already has.
\* Of the last kind all but one, whose ack is the next frame, were counted in
\* wins: an event's handler.
Weighs(i) ==
  {s \in Slots : /\ holds[s].id = i
                 /\ Counts(s) \/ (run[s] = "acking" /\ holds[s].key \notin Topics)}
Spent(i) ==
  {s \in Slots : run[s] = "acking" /\ holds[s].id = i /\ holds[s].key \in Topics /\ ~Counts(s)}
Heads == {wire[n].slot : n \in {1} \cap DOMAIN wire}

Weight(i) == Cardinality(QueuedCopies(i)) + Cardinality(Weighs(i)) + dlq[i] + wins[i]

\* A kill is counted when it happens, its connection ends with the process.
Room == 2 ^ (IF process = "killed" /\ conn = "up" THEN cuts ELSE cuts + 1)

Shape == OneOutcome /\ Paired /\ CountsHandled /\ OnlySent /\ DownIdle

Fits(i) ==
  /\ IsFiniteSet(QueuedCopies(i))
  /\ Cardinality(Spent(i) \ Heads) <= wins[i]
  /\ Weight(i) < Room

DInv == IInv /\ Shape /\ Room >= 2 /\ \A i \in Messages : Fits(i)

-------------------------------------------------------------------------------
(***************************************************************************)
(* Steps of the runs.                                                      *)
(***************************************************************************)

\* Sets of runs are finite; one that gains or loses s changes by one.
LEMMA RunsFinite ==
  ASSUME NEW X \in SUBSET Slots
  PROVE  IsFiniteSet(X) /\ Cardinality(X) \in Nat
BY SlotsAssumption, FS_Subset, FS_CardinalityType

LEMMA RunsMonotone ==
  ASSUME NEW X \in SUBSET Slots, NEW Y \in SUBSET X
  PROVE  Cardinality(Y) <= Cardinality(X)
BY RunsFinite, FS_Subset

LEMMA RunMoves ==
  ASSUME NEW X \in SUBSET Slots, NEW Y \in SUBSET Slots, NEW s, X \ {s} = Y \ {s}
  PROVE  /\ Cardinality(Y) <= Cardinality(X) + 1
         /\ (s \in Y => s \in X) => Cardinality(Y) <= Cardinality(X)
         /\ (s \in X /\ s \notin Y) => Cardinality(Y) = Cardinality(X) - 1
<1> DEFINE Z == X \ {s}
<1>1. /\ Cardinality(Z) = IF s \in X THEN Cardinality(X) - 1 ELSE Cardinality(X)
      /\ Cardinality(X) \in Nat
  BY RunsFinite, FS_RemoveElement
<1>2. /\ Cardinality(Y \ {s}) = IF s \in Y THEN Cardinality(Y) - 1 ELSE Cardinality(Y)
      /\ Cardinality(Y) \in Nat
  BY RunsFinite, FS_RemoveElement
<1>3. Cardinality(Z) = Cardinality(Y \ {s})
  OBVIOUS
<1> HIDE DEF Z
<1> QED BY <1>1, <1>2, <1>3

\* A run that had no frame yet and writes leaves the other runs' frames alone.
LEMMA WriteShapes ==
  ASSUME IInv, Shape, NEW s \in Slots, NEW ops \in Writes, Write(s, ops),
         run[s] \notin {"acking", "ended"},
         run'[s] \in {"acking", "ended"}, run'[s] = "acking" => ops # <<"reply">>,
         \A r \in Slots \ {s} : run'[r] = run[r] /\ holds'[r] = holds[r]
  PROVE  /\ OneOutcome' /\ Paired' /\ Heads \subseteq Heads'
         /\ \A r \in Slots \ {s} : Counts(r)' <=> Counts(r)
         /\ Counts(s)' <=> ops[1] # "ack"
<1>1. /\ wire \in Seq(Frames) /\ FrameSlots /\ OneOutcome /\ Paired
      /\ \A n \in DOMAIN wire : wire[n].slot \in Slots
  BY FrameType DEF IInv, TypeOK, Shape
<1>2. /\ DOMAIN wire = 1 .. Len(wire) /\ Len(wire) \in Nat
      /\ Len(ops) \in {1, 2}
      /\ DOMAIN wire' = 1 .. Len(wire) + Len(ops)
      /\ \A n \in 1 .. Len(wire) : wire'[n] = wire[n]
      /\ \A n \in 1 .. Len(ops) : wire'[Len(wire) + n] = [op |-> ops[n], slot |-> s]
  BY <1>1, WriteExact
<1>3. \A n \in DOMAIN wire : wire[n].slot # s
  BY <1>1 DEF FrameSlots
<1>4. /\ Len(ops) = 2 => ops[2] = "ack"
      /\ (Len(ops) = 1 /\ ops[1] # "ack") => ops = <<"reply">>
      /\ ops[1] = "ack" => Len(ops) = 1
  BY DEF Writes
<1>5. ASSUME NEW n \in DOMAIN wire', n \notin DOMAIN wire
      PROVE  /\ wire'[n].slot = s
             /\ wire'[n].op # "ack" => n = Len(wire) + 1 /\ ops[1] # "ack"
  <2>1. PICK k \in 1 .. Len(ops) : n = Len(wire) + k
    <3>1. n - Len(wire) \in 1 .. Len(ops) /\ n = Len(wire) + (n - Len(wire))
      BY <1>2, <1>5
    <3> QED BY <3>1
  <2>2. wire'[n] = [op |-> ops[k], slot |-> s]
    BY <1>2, <2>1
  <2>3. k \in {1, 2} /\ (k = 2 => Len(ops) = 2)
    <3>1. PICK len \in {1, 2} : len = Len(ops)
      BY <1>2
    <3>2. k \in 1 .. len
      BY <3>1, Zenon
    <3>3. k \in {1, 2} /\ (k = 2 => len = 2)
      BY <3>2
    <3> QED BY <3>1, <3>3
  <2> QED BY <1>4, <2>1, <2>2, <2>3
<1>6. wire'[Len(wire) + 1] = [op |-> ops[1], slot |-> s] /\ Len(wire) + 1 \in DOMAIN wire'
  BY <1>2
<1>7. \A r \in Slots \ {s} : Counts(r)' <=> Counts(r)
  <2> SUFFICES ASSUME NEW r \in Slots \ {s}
               PROVE  (\E n \in DOMAIN wire' : wire'[n].slot = r /\ wire'[n].op # "ack")
                        <=> (\E n \in DOMAIN wire : wire[n].slot = r /\ wire[n].op # "ack")
    BY DEF Counts
  <2>1. \A n \in DOMAIN wire : n \in DOMAIN wire' /\ wire'[n] = wire[n]
    BY <1>2
  <2>2. \A n \in DOMAIN wire' : wire'[n].slot = r => n \in DOMAIN wire
    BY <1>5
  <2> QED BY <2>1, <2>2
<1>8. Counts(s)' <=> ops[1] # "ack"
  <2>1. \A n \in DOMAIN wire : wire'[n].slot # s
    BY <1>2, <1>3
  <2>2. (\E n \in DOMAIN wire' : wire'[n].slot = s /\ wire'[n].op # "ack") => ops[1] # "ack"
    BY <1>5, <2>1
  <2>3. ops[1] # "ack" => \E n \in DOMAIN wire' : wire'[n].slot = s /\ wire'[n].op # "ack"
    BY <1>6
  <2> QED BY <2>2, <2>3 DEF Counts
<1>9. OneOutcome'
  <2> SUFFICES ASSUME NEW m \in DOMAIN wire', NEW n \in DOMAIN wire',
                      wire'[m].slot = wire'[n].slot, wire'[m].op # "ack", wire'[n].op # "ack"
               PROVE  m = n
    BY DEF OneOutcome
  <2>1. CASE m \in DOMAIN wire /\ n \in DOMAIN wire
    BY <1>1, <1>2, <2>1 DEF OneOutcome
  <2>2. CASE m \notin DOMAIN wire /\ n \notin DOMAIN wire
    BY <1>5, <2>2
  <2>3. CASE ~(m \in DOMAIN wire <=> n \in DOMAIN wire)
    BY <1>2, <1>3, <1>5, <2>3
  <2> QED BY <2>1, <2>2, <2>3
<1>10. Paired'
  <2> SUFFICES ASSUME NEW n \in DOMAIN wire', wire'[n].op # "ack",
                      run'[wire'[n].slot] = "acking"
               PROVE  n + 1 \in DOMAIN wire' /\ wire'[n + 1].slot = wire'[n].slot
    BY DEF Paired
  <2>1. CASE n \in DOMAIN wire
    <3>1. wire'[n] = wire[n] /\ wire[n].slot \in Slots \ {s}
      BY <1>1, <1>2, <1>3, <2>1
    <3>2. n + 1 \in DOMAIN wire /\ wire[n + 1].slot = wire[n].slot
      BY <1>1, <2>1, <3>1 DEF Paired
    <3> QED BY <1>2, <3>1, <3>2
  <2>2. CASE n \notin DOMAIN wire
    <3>1. n = Len(wire) + 1 /\ wire'[n].slot = s /\ ops[1] # "ack"
      BY <1>5, <2>2
    <3>2. Len(ops) = 2
      BY <1>2, <1>4, <3>1
    <3>3. n + 1 = Len(wire) + 2 /\ 2 \in 1 .. Len(ops) /\ n + 1 \in DOMAIN wire'
      BY <1>2, <3>1, <3>2
    <3>4. wire'[Len(wire) + 2] = [op |-> ops[2], slot |-> s]
      BY <1>2, <3>3
    <3>5. wire'[n + 1] = [op |-> ops[2], slot |-> s]
      BY <3>3, <3>4
    <3>6. wire'[n + 1].slot = s
      BY <3>5
    <3> QED BY <3>1, <3>3, <3>6
  <2> QED BY <2>1, <2>2
<1>11. Heads \subseteq Heads'
  BY <1>2 DEF Heads
<1> QED BY <1>7, <1>8, <1>9, <1>10, <1>11

\* One run moves: what it weighs, and what was spent, changes by at most one.
LEMMA OneRunWeighs ==
  ASSUME NEW i, NEW s \in Slots,
         \A r \in Slots \ {s} : run'[r] = run[r] /\ holds'[r] = holds[r],
         \A r \in Slots \ {s} : Counts(r)' <=> Counts(r)
  PROVE  /\ Cardinality(Weighs(i)') <= Cardinality(Weighs(i)) + 1
         /\ (s \in Weighs(i)' => s \in Weighs(i)) =>
              Cardinality(Weighs(i)') <= Cardinality(Weighs(i))
         /\ (s \in Weighs(i) /\ s \notin Weighs(i)') =>
              Cardinality(Weighs(i)') = Cardinality(Weighs(i)) - 1
         /\ Heads \subseteq Heads' =>
              Cardinality(Spent(i)' \ Heads') <= Cardinality(Spent(i) \ Heads) + 1
         /\ (Heads \subseteq Heads' /\ s \notin Spent(i)') =>
              Cardinality(Spent(i)' \ Heads') <= Cardinality(Spent(i) \ Heads)
<1> DEFINE W == Weighs(i)
           V == Weighs(i)'
           S == Spent(i)
           T == Spent(i)'
           H == Heads
           G == Heads'
<1>1. W \in SUBSET Slots /\ V \in SUBSET Slots /\ S \in SUBSET Slots /\ T \in SUBSET Slots
  BY DEF Weighs, Spent
<1>2. ASSUME NEW r \in Slots \ {s} PROVE r \in V <=> r \in W
  BY DEF Weighs
<1>3. ASSUME NEW r \in Slots \ {s} PROVE r \in T <=> r \in S
  BY DEF Spent
<1> HIDE DEF W, V, S, T, H, G
<1>4. W \ {s} = V \ {s}
  BY <1>1, <1>2
<1>5. /\ Cardinality(V) <= Cardinality(W) + 1
      /\ (s \in V => s \in W) => Cardinality(V) <= Cardinality(W)
      /\ (s \in W /\ s \notin V) => Cardinality(V) = Cardinality(W) - 1
  BY <1>1, <1>4, RunMoves
<1>6. ASSUME H \subseteq G
      PROVE  /\ Cardinality(T \ G) <= Cardinality(S \ H) + 1
             /\ s \notin T => Cardinality(T \ G) <= Cardinality(S \ H)
  <2>1. T \ G \subseteq (S \ H) \cup {s} /\ (s \notin T => T \ G \subseteq S \ H)
    BY <1>1, <1>3, <1>6
  <2>2. S \ H \in SUBSET Slots /\ (S \ H) \cup {s} \in SUBSET Slots
    BY <1>1
  <2>3. s \notin T => Cardinality(T \ G) <= Cardinality(S \ H)
    BY <2>1, <2>2, RunsMonotone
  <2>4. Cardinality(T \ G) <= Cardinality((S \ H) \cup {s})
    BY <2>1, <2>2, RunsMonotone
  <2>5. IsFiniteSet(S \ H) /\ Cardinality(S \ H) \in Nat
    BY <2>2, RunsFinite
  <2>6. Cardinality((S \ H) \cup {s}) \in {Cardinality(S \ H), Cardinality(S \ H) + 1}
    BY <2>5, FS_AddElement
  <2>7. Cardinality(T \ G) \in Nat
    BY <1>1, RunsFinite
  <2> QED BY <2>3, <2>4, <2>5, <2>6, <2>7
<1> QED BY <1>5, <1>6 DEF W, V, S, T, H, G

\* The bound is kept by a step that makes no message heavier.
LEMMA NoHeavier ==
  ASSUME DInv, TypeOK', NEW i \in Messages, Room' = Room,
         IsFiniteSet(QueuedCopies(i)'),
         Cardinality(Spent(i)' \ Heads') <= wins'[i],
         Weight(i)' <= Weight(i)
  PROVE  Fits(i)'
<1>1. Fits(i) /\ Room \in Nat
  BY PowerDoubles DEF DInv, IInv, TypeOK, Room
<1>2. Weight(i) \in Nat /\ Weight(i)' \in Nat
  <2>1. Weighs(i) \in SUBSET Slots /\ Weighs(i)' \in SUBSET Slots
    BY DEF Weighs
  <2>2. Cardinality(Weighs(i)) \in Nat /\ Cardinality(Weighs(i)') \in Nat
    BY <2>1, RunsFinite
  <2>3. Cardinality(QueuedCopies(i)) \in Nat /\ Cardinality(QueuedCopies(i)') \in Nat
    BY <1>1, FS_CardinalityType DEF Fits
  <2>4. dlq[i] \in Nat /\ wins[i] \in Nat /\ dlq'[i] \in Nat /\ wins'[i] \in Nat
    BY DEF DInv, IInv, TypeOK
  <2> QED BY <2>2, <2>3, <2>4 DEF Weight
<1>3. Weight(i) < Room
  BY <1>1 DEF Fits
<1>4. Weight(i)' < Room'
  BY <1>1, <1>2, <1>3
<1> QED BY <1>4 DEF Fits

\* A run ends its handler: it hands its message to a frame, or to wins.
LEMMA RunEnds ==
  ASSUME DInv, IInv', NEW s \in Slots,
         \A r \in Slots \ {s} : run'[r] = run[r],
         \A r \in Slots \ {s} : Counts(r)' <=> Counts(r),
         run[s] \in {"handling", "stale"}, run'[s] \in {"acking", "ended"},
         run'[s] = "acking" => run[s] = "handling",
         OneOutcome', Paired', Heads \subseteq Heads',
         UNCHANGED <<sent, ready, dlq, conn, holds, cuts>>,
         process' = process \/ (process' = "rejected" /\ process # "killed"),
         \/ wins' = wins
         \/ ~Counts(s)' /\ wins' = [wins EXCEPT ![holds[s].id] = @ + 1],
         (run'[s] = "acking" /\ ~Counts(s)') => wins' = [wins EXCEPT ![holds[s].id] = @ + 1]
  PROVE  DInv'
<1>1. TypeOK /\ TypeOK' /\ CountsHandled /\ OnlySent /\ DownIdle
  BY DEF DInv, Shape, IInv
<1>2. /\ Counts(s) /\ holds[s].key \in Topics /\ holds[s].id \in Messages
      /\ holds[s].id \in sent
  <2>1. holds[s] \in Copy /\ Counts(s)
    BY <1>1 DEF TypeOK, Counts
  <2> QED BY <1>1, <2>1 DEF CountsHandled, OnlySent, Copy
<1>3. Room' = Room
  BY DEF Room
<1>4. CountsHandled'
  BY <1>1, <1>2 DEF CountsHandled
<1>5. ASSUME NEW i \in Messages
      PROVE  /\ wins'[i] \in {wins[i], wins[i] + 1} /\ wins[i] \in Nat
             /\ wins'[i] # wins[i] => i = holds[s].id /\ ~Counts(s)'
             /\ (run'[s] = "acking" /\ ~Counts(s)' /\ holds[s].id = i) =>
                  wins'[i] = wins[i] + 1
  BY <1>1, <1>2 DEF TypeOK
<1>6. OnlySent'
  <2>1. \A i \in Messages : wins'[i] > 0 => wins[i] > 0 \/ i \in sent
    BY <1>2, <1>5
  <2>2. \A r \in Slots : run'[r] # "free" => run[r] # "free"
    OBVIOUS
  <2> QED BY <1>1, <2>1, <2>2 DEF OnlySent
<1>7. DownIdle'
  <2>1. Unacked' \subseteq Unacked
    BY DEF Unacked
  <2> QED BY <1>1, <2>1 DEF DownIdle
<1>8. ASSUME NEW i \in Messages PROVE Fits(i)'
  <2>1. Fits(i)
    BY DEF DInv
  <2>2. /\ s \in Weighs(i) <=> holds[s].id = i
        /\ s \in Weighs(i)' => holds[s].id = i
        /\ s \in Weighs(i)' => Counts(s)'
        /\ s \in Spent(i)' => run'[s] = "acking" /\ ~Counts(s)' /\ holds[s].id = i
    BY <1>2 DEF Weighs, Spent
  <2>3. /\ (s \in Weighs(i)' => s \in Weighs(i)) =>
              Cardinality(Weighs(i)') <= Cardinality(Weighs(i))
        /\ (s \in Weighs(i) /\ s \notin Weighs(i)') =>
              Cardinality(Weighs(i)') = Cardinality(Weighs(i)) - 1
        /\ Cardinality(Spent(i)' \ Heads') <= Cardinality(Spent(i) \ Heads) + 1
        /\ s \notin Spent(i)' => Cardinality(Spent(i)' \ Heads') <= Cardinality(Spent(i) \ Heads)
    BY OneRunWeighs
  <2>4. /\ Weighs(i) \in SUBSET Slots /\ Weighs(i)' \in SUBSET Slots
        /\ Spent(i) \ Heads \in SUBSET Slots /\ Spent(i)' \ Heads' \in SUBSET Slots
    BY DEF Weighs, Spent
  <2>5. /\ Cardinality(Weighs(i)) \in Nat /\ Cardinality(Weighs(i)') \in Nat
        /\ Cardinality(Spent(i) \ Heads) \in Nat /\ Cardinality(Spent(i)' \ Heads') \in Nat
    BY <2>4, RunsFinite
  <2>6. QueuedCopies(i)' = QueuedCopies(i) /\ IsFiniteSet(QueuedCopies(i))
    BY <2>1 DEF QueuedCopies, Fits
  <2>7. Cardinality(QueuedCopies(i)) \in Nat /\ dlq[i] \in Nat /\ dlq'[i] = dlq[i]
    BY <1>1, <2>6, FS_CardinalityType DEF TypeOK
  <2>8. Cardinality(Weighs(i)') + wins'[i] <= Cardinality(Weighs(i)) + wins[i]
    <3>1. CASE wins'[i] = wins[i]
      BY <1>5, <2>2, <2>3, <2>5, <3>1
    <3>2. CASE wins'[i] # wins[i]
      BY <1>5, <2>2, <2>3, <2>5, <3>2
    <3> QED BY <3>1, <3>2
  <2>9. Weight(i)' <= Weight(i)
    BY <1>5, <2>5, <2>6, <2>7, <2>8 DEF Weight
  <2>10. Cardinality(Spent(i)' \ Heads') <= wins'[i]
    <3>1. Cardinality(Spent(i) \ Heads) <= wins[i]
      BY <2>1 DEF Fits
    <3>2. CASE s \in Spent(i)'
      BY <1>5, <2>2, <2>3, <2>5, <3>1, <3>2
    <3>3. CASE s \notin Spent(i)'
      BY <1>5, <2>3, <2>5, <3>1, <3>3
    <3> QED BY <3>2, <3>3
  <2> QED BY <1>1, <1>3, <2>6, <2>9, <2>10, NoHeavier
<1> QED BY <1>3, <1>4, <1>6, <1>7, <1>8 DEF DInv, Shape

\* A run whose channel is gone ends without a frame.
LEMMA RejectedFits ==
  ASSUME DInv, IInv', NEW s \in Slots, Rejected(s), run[s] = "stale", process # "killed",
         UNCHANGED <<sent, ready, dlq, conn, cuts, restarts>>,
         wins' = wins \/ wins' = [wins EXCEPT ![holds[s].id] = @ + 1]
  PROVE  DInv'
<1>1. /\ TypeOK /\ wire \in Seq(Frames) /\ FrameSlots /\ OneOutcome /\ Paired
  BY DEF DInv, Shape, IInv, TypeOK
<1>2. /\ process' = "rejected" /\ holds' = holds /\ wire' = wire
      /\ run' = [run EXCEPT ![s] = "ended"]
  BY DEF Rejected
<1>3. run'[s] = "ended" /\ \A r \in Slots \ {s} : run'[r] = run[r]
  BY <1>1, <1>2 DEF TypeOK
<1>4. \A n \in DOMAIN wire : wire[n].slot \in Slots /\ wire[n].slot # s
  BY <1>1, FrameType DEF FrameSlots
<1>5. ~Counts(s)'
  BY <1>2, <1>3, <1>4 DEF Counts
<1>6. \A r \in Slots \ {s} : Counts(r)' <=> Counts(r)
  BY <1>2, <1>3 DEF Counts
<1>7. OneOutcome' /\ Paired' /\ Heads \subseteq Heads'
  <2>1. OneOutcome'
    BY <1>1, <1>2 DEF OneOutcome
  <2>2. Paired'
    BY <1>1, <1>2, <1>3, <1>4 DEF Paired
  <2>3. Heads' = Heads
    BY <1>2 DEF Heads
  <2> QED BY <2>1, <2>2, <2>3
<1>8. run'[s] # "acking" /\ run'[s] \in {"acking", "ended"}
  BY <1>3
<1> QED BY <1>2, <1>3, <1>5, <1>6, <1>7, <1>8, RunEnds

\* A run on its own channel ends with frames; an ack alone says it was handled.
LEMMA WritingFits ==
  ASSUME DInv, IInv', NEW s \in Slots, NEW ops \in Writes, Write(s, ops),
         NEW over \in {"acking", "ended"}, run' = [run EXCEPT ![s] = over],
         run[s] \in {"handling", "stale"}, over = "acking" => run[s] = "handling",
         over = "acking" <=> ops # <<"reply">>,
         UNCHANGED <<sent, ready, dlq, conn, holds, cuts, restarts>>,
         process' = process \/ (process' = "rejected" /\ process # "killed"),
         IF ops[1] = "ack" THEN wins' = [wins EXCEPT ![holds[s].id] = @ + 1]
         ELSE wins' = wins
  PROVE  DInv'
<1>1. TypeOK /\ IInv /\ Shape
  BY DEF DInv, IInv
<1>2. run'[s] = over /\ \A r \in Slots \ {s} : run'[r] = run[r] /\ holds'[r] = holds[r]
  BY <1>1 DEF TypeOK
<1>3. run[s] \notin {"acking", "ended"}
  OBVIOUS
<1>4. /\ OneOutcome' /\ Paired' /\ Heads \subseteq Heads'
      /\ \A r \in Slots \ {s} : Counts(r)' <=> Counts(r)
      /\ Counts(s)' <=> ops[1] # "ack"
  BY <1>1, <1>2, <1>3, WriteShapes
<1>5. \/ wins' = wins
      \/ ~Counts(s)' /\ wins' = [wins EXCEPT ![holds[s].id] = @ + 1]
  BY <1>4
<1>6. (run'[s] = "acking" /\ ~Counts(s)') => wins' = [wins EXCEPT ![holds[s].id] = @ + 1]
  BY <1>4
<1> QED BY <1>2, <1>4, <1>5, <1>6, RunEnds

LEMMA RouteFits ==
  ASSUME DInv, IInv', NEW s \in Slots, NEW retryable \in BOOLEAN,
         Handling(s), RouteFailedMessage(s, retryable),
         UNCHANGED <<sent, ready, dlq, conn, wins, cuts, restarts>>
  PROVE  DInv'
<1>1. process # "killed"
  BY DEF Handling
<1>2. CASE run[s] = "stale"
  BY <1>1, <1>2, RejectedFits DEF RouteFailedMessage
<1>3. CASE run[s] # "stale"
  <2>1. /\ run[s] = "handling" /\ RouteFailed(s, retryable)
        /\ run' = [run EXCEPT ![s] = "acking"] /\ UNCHANGED <<holds, process>>
    BY <1>3 DEF RouteFailedMessage, Handling
  <2>2. PICK ops \in {<<"retry", "ack">>, <<"dead", "ack">>} : Write(s, ops)
    BY <2>1 DEF RouteFailed
  <2>3. ops \in Writes /\ ops[1] # "ack" /\ ops # <<"reply">>
    BY <2>2 DEF Writes
  <2>4. "acking" \in {"acking", "ended"}
    OBVIOUS
  <2> QED BY <2>1, <2>2, <2>3, <2>4, WritingFits
<1> QED BY <1>2, <1>3

LEMMA FinishFits ==
  ASSUME DInv, IInv', NEW s \in Slots, Finish(s)
  PROVE  DInv'
<1>1. CASE EventSucceeds(s)
  <2>1. /\ Handling(s) /\ Ack(s)
        /\ wins' = [wins EXCEPT ![holds[s].id] = @ + 1]
        /\ UNCHANGED <<sent, ready, dlq, conn, cuts, restarts>>
    BY <1>1 DEF EventSucceeds
  <2>2. run[s] \in {"handling", "stale"} /\ process # "killed"
    BY <2>1 DEF Handling
  <2>3. CASE run[s] = "stale"
    BY <2>1, <2>2, <2>3, RejectedFits DEF Ack
  <2>4. CASE run[s] = "handling"
    <3>1. /\ Write(s, <<"ack">>) /\ run' = [run EXCEPT ![s] = "acking"]
          /\ UNCHANGED <<holds, process>>
      BY <2>1, <2>4 DEF Ack
    <3>2. <<"ack">> \in Writes /\ <<"ack">>[1] = "ack" /\ <<"ack">> # <<"reply">>
      BY DEF Writes
    <3>3. "acking" \in {"acking", "ended"}
      OBVIOUS
    <3> QED BY <2>1, <2>4, <3>1, <3>2, <3>3, WritingFits
  <2> QED BY <2>2, <2>3, <2>4
<1>2. CASE EventFails(s, TRUE)
  BY <1>2, RouteFits DEF EventFails
<1>3. CASE EventFails(s, FALSE)
  BY <1>3, RouteFits DEF EventFails
<1>4. CASE RpcReplies(s)
  <2>1. /\ run[s] \in {"handling", "stale"} /\ process = "running"
        /\ UNCHANGED <<sent, ready, dlq, conn, holds, wins, cuts, restarts>>
    BY <1>4 DEF RpcReplies, Handling
  <2>2. CASE run[s] = "stale"
    <3>1. /\ Write(s, <<"reply">>) /\ run' = [run EXCEPT ![s] = "ended"]
          /\ process' = "rejected"
      BY <1>4, <2>2 DEF RpcReplies
    <3>2. <<"reply">> \in Writes /\ <<"reply">>[1] # "ack"
      BY DEF Writes
    <3>3. "ended" \in {"acking", "ended"} /\ "ended" # "acking"
      OBVIOUS
    <3> QED BY <2>1, <2>2, <3>1, <3>2, <3>3, WritingFits
  <2>3. CASE run[s] = "handling"
    <3>1. /\ Write(s, <<"reply", "ack">>) /\ run' = [run EXCEPT ![s] = "acking"]
          /\ UNCHANGED process
      BY <1>4, <2>3 DEF RpcReplies
    <3>2. /\ <<"reply", "ack">> \in Writes /\ <<"reply", "ack">>[1] # "ack"
          /\ <<"reply", "ack">> # <<"reply">>
      BY DEF Writes
    <3>3. "acking" \in {"acking", "ended"}
      OBVIOUS
    <3> QED BY <2>1, <2>3, <3>1, <3>2, <3>3, WritingFits
  <2> QED BY <2>1, <2>2, <2>3
<1>5. CASE RpcReplyThrows(s)
  BY <1>5, RouteFits DEF RpcReplyThrows
<1> QED BY <1>1, <1>2, <1>3, <1>4, <1>5 DEF Finish

\* A delivery takes a copy from the queue and weighs what the copy did.
LEMMA DeliverFits ==
  ASSUME DInv, IInv', NEW s \in Slots, Deliver(s)
  PROVE  DInv'
<1>1. /\ TypeOK /\ TypeOK' /\ IInv /\ FrameSlots /\ Shape
      /\ OneOutcome /\ Paired /\ CountsHandled /\ OnlySent /\ DownIdle
  BY DEF DInv, Shape, IInv
<1>2. PICK c \in Copy :
        /\ ready[c] > 0
        /\ ready' = [ready EXCEPT ![c] = @ - 1]
        /\ holds' = [holds EXCEPT ![s] = c]
        /\ \/ /\ c.key \notin Topics
              /\ Write(s, <<"ack">>)
              /\ run' = [run EXCEPT ![s] = "acking"]
           \/ /\ c.key \in Topics /\ c.id \in Malformed
              /\ Write(s, <<"dead", "ack">>)
              /\ run' = [run EXCEPT ![s] = "acking"]
           \/ /\ c.key \in Topics /\ c.id \notin Malformed
              /\ run' = [run EXCEPT ![s] = "handling"]
              /\ UNCHANGED wire
  BY DEF Deliver
<1>3. /\ run[s] = "free" /\ conn = "up" /\ process \in {"running", "closing"}
      /\ UNCHANGED <<sent, dlq, conn, process, wins, cuts, restarts>>
  BY DEF Deliver
<1>4. /\ ready \in [Copy -> Nat] /\ c.id \in sent
      /\ \A d \in Copy : ready'[d] > 0 => ready[d] > 0
  BY <1>1, <1>2 DEF TypeOK, OnlySent
<1>5. /\ \A r \in Slots \ {s} : run'[r] = run[r] /\ holds'[r] = holds[r]
      /\ holds'[s] = c
  BY <1>1, <1>2 DEF TypeOK
<1>6. /\ OneOutcome' /\ Paired' /\ Heads \subseteq Heads'
      /\ \A r \in Slots \ {s} : Counts(r)' <=> Counts(r)
      /\ Counts(s)' => c.key \in Topics
      /\ c.key \notin Topics \/ Counts(s)' \/ run'[s] # "acking"
  <2>1. CASE c.key \notin Topics /\ Write(s, <<"ack">>) /\ run' = [run EXCEPT ![s] = "acking"]
    <3>1. <<"ack">> \in Writes /\ <<"ack">> # <<"reply">> /\ ~(<<"ack">>[1] # "ack")
      BY DEF Writes
    <3>2. run'[s] = "acking" /\ run[s] \notin {"acking", "ended"}
      BY <1>1, <1>3, <2>1 DEF TypeOK
    <3>3. /\ OneOutcome' /\ Paired' /\ Heads \subseteq Heads'
          /\ \A r \in Slots \ {s} : Counts(r)' <=> Counts(r)
          /\ Counts(s)' <=> <<"ack">>[1] # "ack"
      BY <1>1, <1>5, <2>1, <3>1, <3>2, WriteShapes
    <3> QED BY <2>1, <3>1, <3>3
  <2>2. CASE c.key \in Topics /\ Write(s, <<"dead", "ack">>) /\ run' = [run EXCEPT ![s] = "acking"]
    <3>1. /\ <<"dead", "ack">> \in Writes /\ <<"dead", "ack">> # <<"reply">>
          /\ <<"dead", "ack">>[1] # "ack"
      BY DEF Writes
    <3>2. run'[s] = "acking" /\ run[s] \notin {"acking", "ended"}
      BY <1>1, <1>3, <2>2 DEF TypeOK
    <3>3. /\ OneOutcome' /\ Paired' /\ Heads \subseteq Heads'
          /\ \A r \in Slots \ {s} : Counts(r)' <=> Counts(r)
          /\ Counts(s)' <=> <<"dead", "ack">>[1] # "ack"
      BY <1>1, <1>5, <2>2, <3>1, <3>2, WriteShapes
    <3> QED BY <2>2, <3>1, <3>3
  <2>3. CASE c.key \in Topics /\ run' = [run EXCEPT ![s] = "handling"] /\ UNCHANGED wire
    <3>1. run'[s] = "handling"
      BY <1>1, <2>3 DEF TypeOK
    <3>2. \A r \in Slots \ {s} : Counts(r)' <=> Counts(r)
      BY <1>5, <2>3 DEF Counts
    <3>3. OneOutcome' /\ Heads \subseteq Heads'
      BY <1>1, <2>3 DEF OneOutcome, Heads
    <3>4. \A n \in DOMAIN wire : wire[n].slot \in Slots /\ wire[n].slot # s
      <4>1. wire \in Seq(Frames)
        BY <1>1 DEF TypeOK
      <4> QED BY <1>1, <1>3, <4>1, FrameType DEF FrameSlots
    <3>5. Paired'
      BY <1>1, <1>5, <2>3, <3>4 DEF Paired
    <3> QED BY <2>3, <3>1, <3>2, <3>3, <3>5
  <2> QED BY <1>2, <2>1, <2>2, <2>3
<1>7. Room' = Room
  BY <1>3 DEF Room
<1>8. CountsHandled'
  BY <1>1, <1>5, <1>6 DEF CountsHandled
<1>9. OnlySent' /\ DownIdle'
  <2>1. \A r \in Slots : run'[r] # "free" => holds'[r].id \in sent
    BY <1>1, <1>4, <1>5 DEF OnlySent
  <2> QED BY <1>1, <1>3, <1>4, <2>1 DEF OnlySent, DownIdle
<1>10. ASSUME NEW i \in Messages PROVE Fits(i)'
  <2>1. Fits(i)
    BY DEF DInv
  <2>2. s \in Weighs(i)' => c.id = i
    BY <1>5 DEF Weighs
  <2>3. s \notin Spent(i)'
    BY <1>5, <1>6 DEF Spent
  <2>4. /\ Cardinality(Weighs(i)') <= Cardinality(Weighs(i)) + 1
        /\ s \notin Weighs(i)' => Cardinality(Weighs(i)') <= Cardinality(Weighs(i))
        /\ Cardinality(Spent(i)' \ Heads') <= Cardinality(Spent(i) \ Heads)
    BY <1>5, <1>6, <2>3, OneRunWeighs
  <2>5. /\ IsFiniteSet(QueuedCopies(i)) /\ IsFiniteSet(QueuedCopies(i)')
        /\ Cardinality(QueuedCopies(i)') =
             Cardinality(QueuedCopies(i)) - (IF c.id = i THEN 1 ELSE 0)
    BY <1>2, <1>4, <2>1, CopiesShrink DEF Fits
  <2>6. Cardinality(QueuedCopies(i)) \in Nat
    BY <2>5, FS_CardinalityType
  <2>7. /\ Weighs(i) \in SUBSET Slots /\ Weighs(i)' \in SUBSET Slots
        /\ Spent(i) \ Heads \in SUBSET Slots /\ Spent(i)' \ Heads' \in SUBSET Slots
    BY DEF Weighs, Spent
  <2>8. /\ Cardinality(Weighs(i)) \in Nat /\ Cardinality(Weighs(i)') \in Nat
        /\ Cardinality(Spent(i) \ Heads) \in Nat /\ Cardinality(Spent(i)' \ Heads') \in Nat
    BY <2>7, RunsFinite
  <2>9. /\ wins[i] \in Nat /\ dlq[i] \in Nat /\ wins'[i] = wins[i] /\ dlq'[i] = dlq[i]
    BY <1>1, <1>3 DEF TypeOK
  <2>10. Weight(i)' <= Weight(i)
    <3>1. CASE c.id = i
      BY <2>4, <2>5, <2>6, <2>8, <2>9, <3>1 DEF Weight
    <3>2. CASE c.id # i
      BY <2>2, <2>4, <2>5, <2>6, <2>8, <2>9, <3>2 DEF Weight
    <3> QED BY <3>1, <3>2
  <2>11. Cardinality(Spent(i)' \ Heads') <= wins'[i]
    <3>1. Cardinality(Spent(i) \ Heads) <= wins[i]
      BY <2>1 DEF Fits
    <3> QED BY <2>4, <2>8, <2>9, <3>1
  <2> QED BY <1>1, <1>7, <2>5, <2>10, <2>11, NoHeavier
<1> QED BY <1>6, <1>7, <1>8, <1>9, <1>10 DEF DInv, Shape

\* Nothing in the system bears the name of a message not sent.
LEMMA UnsentWeighsNothing ==
  ASSUME IInv, OnlySent, NEW i \in Messages \ sent
  PROVE  QueuedCopies(i) = {} /\ Weighs(i) = {} /\ Spent(i) = {} /\ dlq[i] = 0 /\ wins[i] = 0
<1>1. TypeOK /\ FrameSlots /\ wire \in Seq(Frames)
  BY DEF IInv, TypeOK
<1>2. dlq[i] = 0 /\ wins[i] = 0
  BY <1>1 DEF TypeOK, OnlySent
<1>3. QueuedCopies(i) = {}
  <2> SUFFICES ASSUME NEW x \in QueuedCopies(i) PROVE FALSE
    OBVIOUS
  <2>1. PICK c \in Copy, n \in Nat : n \in 1 .. ready[c] /\ c.id = i
    BY CopiesOf
  <2>2. ready[c] \in Nat /\ ready[c] > 0
    BY <1>1, <2>1 DEF TypeOK
  <2> QED BY <2>1, <2>2 DEF OnlySent
<1>4. ASSUME NEW s \in Slots, run[s] # "free" PROVE holds[s].id # i
  BY <1>4 DEF OnlySent
<1>5. ASSUME NEW s \in Slots, Counts(s) PROVE run[s] # "free"
  BY <1>1, <1>5 DEF Counts, FrameSlots
<1>6. Weighs(i) = {} /\ Spent(i) = {}
  BY <1>4, <1>5 DEF Weighs, Spent
<1> QED BY <1>2, <1>3, <1>6

LEMMA PublishFits ==
  ASSUME DInv, IInv', NEW i \in Messages, Publish(i)
  PROVE  DInv'
<1>1. /\ TypeOK /\ TypeOK' /\ IInv /\ OneOutcome /\ Paired /\ CountsHandled /\ OnlySent /\ DownIdle
  BY DEF DInv, Shape, IInv
<1>2. PICK t \in Topics :
        ready' = [ready EXCEPT ![[id |-> i, key |-> t, retries |-> 0]] = @ + 1]
  BY DEF Publish
<1> DEFINE new == [id |-> i, key |-> t, retries |-> 0]
<1>3. new \in Copy /\ new.id = i
  BY DEF Copy
<1>4. /\ sent' = sent \cup {i} /\ i \notin sent
      /\ UNCHANGED <<dlq, conn, process, run, holds, wire, wins, cuts, restarts>>
  BY DEF Publish, runVars
<1>5. ready \in [Copy -> Nat] /\ ready' = [ready EXCEPT ![new] = @ + 1]
  BY <1>1, <1>2 DEF TypeOK
<1> HIDE DEF new
<1>6. \A c \in Copy : ready'[c] > 0 => ready[c] > 0 \/ c.id = i
  BY <1>3, <1>5
<1>7. \A s \in Slots : Counts(s)' <=> Counts(s)
  BY <1>4 DEF Counts
<1>8. OneOutcome' /\ Paired' /\ CountsHandled'
  <2>1. OneOutcome' /\ Paired'
    BY <1>1, <1>4 DEF OneOutcome, Paired
  <2> QED BY <1>1, <1>4, <1>7, <2>1 DEF CountsHandled
<1>9. OnlySent' /\ DownIdle'
  BY <1>1, <1>4, <1>6 DEF OnlySent, DownIdle, Unacked
<1>10. Room' = Room /\ Room \in Nat /\ Room >= 2
  BY <1>1, <1>4, PowerDoubles DEF Room, DInv, TypeOK
<1>11. ASSUME NEW j \in Messages PROVE Fits(j)'
  <2>1. Fits(j)
    BY DEF DInv
  <2>2. /\ IsFiniteSet(QueuedCopies(j)) /\ IsFiniteSet(QueuedCopies(j)')
        /\ Cardinality(QueuedCopies(j)') =
             Cardinality(QueuedCopies(j)) + (IF new.id = j THEN 1 ELSE 0)
    BY <1>3, <1>5, <2>1, CopiesGrow DEF Fits
  <2>3. Weighs(j)' = Weighs(j) /\ Spent(j)' = Spent(j) /\ Heads' = Heads
    BY <1>4, <1>7 DEF Weighs, Spent, Heads
  <2>4. Cardinality(Spent(j)' \ Heads') <= wins'[j]
    BY <1>4, <2>1, <2>3 DEF Fits
  <2>5. CASE j # i
    <3>1. Cardinality(QueuedCopies(j)) \in Nat
      BY <2>2, FS_CardinalityType
    <3>2. Cardinality(QueuedCopies(j)') = Cardinality(QueuedCopies(j))
      BY <1>3, <2>2, <2>5, <3>1
    <3>3. Weight(j)' = Weight(j)
      BY <1>4, <2>3, <3>2 DEF Weight
    <3>4. Weight(j) < Room
      BY <2>1 DEF Fits
    <3> QED BY <1>10, <2>2, <2>4, <3>3, <3>4 DEF Fits
  <2>6. CASE j = i
    <3>1. QueuedCopies(i) = {} /\ Weighs(i) = {} /\ dlq[i] = 0 /\ wins[i] = 0
      BY <1>1, <1>4, UnsentWeighsNothing
    <3>2. Cardinality({}) = 0
      BY FS_EmptySet
    <3>3. Cardinality(QueuedCopies(i)') = 1
      BY <1>3, <2>2, <2>6, <3>1, <3>2
    <3>4. Weight(i)' = 1
      BY <1>4, <2>3, <2>6, <3>1, <3>2, <3>3 DEF Weight
    <3> QED BY <1>10, <2>2, <2>4, <2>6, <3>4 DEF Fits
  <2> QED BY <2>5, <2>6
<1> QED BY <1>8, <1>9, <1>10, <1>11 DEF DInv, Shape

\* The broker takes a frame: an outcome settles or requeues what weighed on the
\* wire, and its ack is the next frame; an ack takes the rest of a delivery.
LEMMA BrokerTakesFits ==
  ASSUME DInv, IInv', BrokerTakes
  PROVE  DInv'
<1>1. /\ TypeOK /\ TypeOK' /\ IInv /\ FrameSlots /\ AckLast /\ RetryFits
      /\ OneOutcome /\ Paired /\ CountsHandled /\ OnlySent /\ DownIdle
  BY DEF DInv, Shape, IInv
<1>2. /\ wire \in Seq(Frames) /\ wire # <<>> /\ wire' = Tail(wire)
      /\ UNCHANGED <<sent, conn, process, cuts, restarts>>
  BY <1>1 DEF TypeOK, BrokerTakes
<1>3. /\ wire' \in Seq(Frames)
      /\ 1 \in DOMAIN wire /\ Head(wire) = wire[1]
      /\ \A n \in DOMAIN wire' : n \in Nat /\ n + 1 \in DOMAIN wire /\ wire'[n] = wire[n + 1]
      /\ \A n \in DOMAIN wire :
           n = 1 \/ (1 < n /\ n - 1 \in DOMAIN wire' /\ wire'[n - 1] = wire[n])
  BY <1>2, TakesHead
<1>4. PICK t \in Slots, op \in {"retry", "dead", "reply", "ack"} :
        t = wire[1].slot /\ op = wire[1].op /\ run[t] \in {"acking", "ended"}
  BY <1>1, <1>2, <1>3, FrameType DEF FrameSlots
<1>5. PICK j \in Messages : j = holds[t].id /\ holds[t] \in Copy /\ j \in sent
  BY <1>1, <1>4 DEF TypeOK, Copy, OnlySent
<1>6. /\ ready' = IF op = "retry" THEN [ready EXCEPT ![Retried(holds[t])] = @ + 1] ELSE ready
      /\ dlq' = IF op = "dead" THEN [dlq EXCEPT ![j] = @ + 1] ELSE dlq
      /\ wins' = IF op = "reply" THEN [wins EXCEPT ![j] = @ + 1] ELSE wins
      /\ op = "ack" => /\ run' = [run EXCEPT ![t] = "free"]
                       /\ holds' = [holds EXCEPT ![t] = NoCopy]
      /\ op # "ack" => run' = run /\ holds' = holds
  BY <1>3, <1>4, <1>5 DEF BrokerTakes, runVars
<1>7. op = "retry" => Retried(holds[t]) \in Copy /\ Retried(holds[t]).id = j
  <2> SUFFICES ASSUME op = "retry"
               PROVE  Retried(holds[t]) \in Copy /\ Retried(holds[t]).id = holds[t].id
    BY <1>5
  <2>1. holds[t].retries < MaxRetries
    BY <1>1, <1>3, <1>4 DEF RetryFits
  <2> QED BY <1>5, <2>1, RetriedFits
<1>8. /\ \A s \in Slots \ {t} : run'[s] = run[s] /\ holds'[s] = holds[s]
      /\ op # "ack" => run' = run /\ holds' = holds
      /\ op = "ack" => run'[t] = "free"
  BY <1>1, <1>4, <1>6 DEF TypeOK
<1>9. ASSUME NEW n \in DOMAIN wire'
      PROVE  /\ n \in Nat /\ n + 1 \in DOMAIN wire /\ wire'[n] = wire[n + 1] /\ n + 1 # 1
             /\ op = "ack" => wire'[n].slot # t
             /\ wire'[n].op # "ack" => wire'[n].slot # t
  <2>1. /\ n \in Nat /\ n + 1 \in DOMAIN wire /\ wire'[n] = wire[n + 1]
        /\ 1 < n + 1 /\ n + 1 # 1
    <3>1. n \in DOMAIN wire' /\ n \in Nat
      BY <1>3, <1>9
    <3> QED BY <1>2, <1>3, <3>1
  <2>2. op = "ack" => wire[n + 1].slot # t
    BY <1>1, <1>3, <1>4, <2>1 DEF AckLast
  <2>3. (op # "ack" /\ wire[n + 1].op # "ack") => wire[n + 1].slot # t
    BY <1>1, <1>3, <1>4, <2>1 DEF OneOutcome
  <2> QED BY <2>1, <2>2, <2>3
<1>10. ~Counts(t)'
  BY <1>4, <1>8, <1>9 DEF Counts
<1>11. op # "ack" => Counts(t)
  BY <1>3, <1>4 DEF Counts
<1>12. \A r \in Slots \ {t} : Counts(r)' <=> Counts(r)
  <2> SUFFICES ASSUME NEW r \in Slots \ {t}
               PROVE  (\E n \in DOMAIN wire' : wire'[n].slot = r /\ wire'[n].op # "ack")
                        <=> (\E n \in DOMAIN wire : wire[n].slot = r /\ wire[n].op # "ack")
    BY <1>8 DEF Counts
  <2>1. \A n \in DOMAIN wire' : n + 1 \in DOMAIN wire /\ wire'[n] = wire[n + 1]
    BY <1>9
  <2>2. \A n \in DOMAIN wire : wire[n].slot = r => n - 1 \in DOMAIN wire' /\ wire'[n - 1] = wire[n]
    BY <1>3, <1>4
  <2> QED BY <2>1, <2>2
<1>13. OneOutcome'
  <2> SUFFICES ASSUME NEW m \in DOMAIN wire', NEW n \in DOMAIN wire',
                      wire'[m].slot = wire'[n].slot, wire'[m].op # "ack", wire'[n].op # "ack"
               PROVE  m = n
    BY DEF OneOutcome
  <2>1. m + 1 = n + 1 /\ m \in Nat /\ n \in Nat
    BY <1>1, <1>9 DEF OneOutcome
  <2> QED BY <2>1
<1>14. Paired'
  <2> SUFFICES ASSUME NEW n \in DOMAIN wire', wire'[n].op # "ack",
                      run'[wire'[n].slot] = "acking"
               PROVE  n + 1 \in DOMAIN wire' /\ wire'[n + 1].slot = wire'[n].slot
    BY DEF Paired
  <2>1. n \in Nat /\ n + 1 \in DOMAIN wire /\ wire'[n] = wire[n + 1] /\ wire'[n].slot # t
    BY <1>9
  <2>2. wire[n + 1].slot \in Slots
    BY <1>2, <2>1, FrameType
  <2>3. run[wire[n + 1].slot] = "acking"
    BY <1>8, <2>1, <2>2
  <2>4. (n + 1) + 1 \in DOMAIN wire /\ wire[(n + 1) + 1].slot = wire[n + 1].slot
    BY <1>1, <2>1, <2>3 DEF Paired
  <2>5. (n + 1) + 1 # 1 /\ ((n + 1) + 1) - 1 = n + 1
    BY <2>1
  <2>6. n + 1 \in DOMAIN wire' /\ wire'[n + 1] = wire[(n + 1) + 1]
    BY <1>3, <2>4, <2>5
  <2> QED BY <2>1, <2>4, <2>6
<1>15. CountsHandled'
  BY <1>1, <1>8, <1>10, <1>12 DEF CountsHandled
<1>16. ASSUME NEW i \in Messages
       PROVE  /\ dlq[i] \in Nat /\ wins[i] \in Nat
              /\ dlq'[i] = dlq[i] + (IF op = "dead" /\ i = j THEN 1 ELSE 0)
              /\ wins'[i] = wins[i] + (IF op = "reply" /\ i = j THEN 1 ELSE 0)
  BY <1>1, <1>6 DEF TypeOK
<1>17. OnlySent'
  <2>1. \A c \in Copy : ready'[c] > 0 => ready[c] > 0 \/ c.id = j
    BY <1>1, <1>6, <1>7 DEF TypeOK
  <2>2. \A i \in Messages : dlq'[i] > 0 \/ wins'[i] > 0 => dlq[i] > 0 \/ wins[i] > 0 \/ i = j
    BY <1>16
  <2>3. \A s \in Slots : run'[s] # "free" => run[s] # "free" /\ holds'[s] = holds[s]
    BY <1>8, <1>4
  <2> QED BY <1>1, <1>2, <1>5, <2>1, <2>2, <2>3 DEF OnlySent
<1>18. DownIdle'
  <2>1. Unacked' \subseteq Unacked
    BY <1>4, <1>8 DEF Unacked
  <2> QED BY <1>1, <1>2, <2>1 DEF DownIdle
<1>19. Room' = Room
  BY <1>2 DEF Room
<1>20. Heads = {t}
  BY <1>3, <1>4 DEF Heads
<1>21. op # "ack" /\ run[t] = "acking" => t \in Heads'
  <2> SUFFICES ASSUME op # "ack", run[t] = "acking" PROVE t \in Heads'
    OBVIOUS
  <2>1. 1 + 1 \in DOMAIN wire /\ wire[1 + 1].slot = t
    BY <1>1, <1>3, <1>4 DEF Paired
  <2>2. 2 \in DOMAIN wire /\ wire[2].slot = t /\ 2 # 1 /\ 2 - 1 = 1
    BY <2>1
  <2>3. 1 \in DOMAIN wire' /\ wire'[1] = wire[2]
    BY <1>3, <2>2
  <2> QED BY <2>2, <2>3 DEF Heads
<1>22. ASSUME NEW i \in Messages PROVE Fits(i)'
  <2>1. Fits(i)
    BY DEF DInv
  <2>2. t \notin Weighs(i)'
    <3>1. op # "ack" => holds'[t].key \in Topics
      BY <1>1, <1>4, <1>8, <1>11 DEF CountsHandled
    <3> QED BY <1>8, <1>10, <3>1 DEF Weighs
  <2>3. op # "ack" /\ i = j => t \in Weighs(i)
    BY <1>4, <1>5, <1>11 DEF Weighs
  <2>4. /\ Cardinality(Weighs(i)') <= Cardinality(Weighs(i))
        /\ (op # "ack" /\ i = j) => Cardinality(Weighs(i)') = Cardinality(Weighs(i)) - 1
    BY <1>4, <1>8, <1>12, <2>2, <2>3, OneRunWeighs
  <2>5. /\ IsFiniteSet(QueuedCopies(i)) /\ IsFiniteSet(QueuedCopies(i)')
        /\ Cardinality(QueuedCopies(i)') =
             Cardinality(QueuedCopies(i)) + (IF op = "retry" /\ i = j THEN 1 ELSE 0)
    <3>1. IsFiniteSet(QueuedCopies(i)) /\ Cardinality(QueuedCopies(i)) \in Nat
      BY <2>1, FS_CardinalityType DEF Fits
    <3>2. CASE op = "retry"
      <4>1. PICK c \in Copy : c = Retried(holds[t])
        BY <1>7, <3>2
      <4>2. ready \in [Copy -> Nat] /\ ready' = [ready EXCEPT ![c] = @ + 1] /\ c.id = j
        BY <1>1, <1>6, <1>7, <3>2, <4>1 DEF TypeOK
      <4>3. /\ IsFiniteSet(QueuedCopies(i)')
            /\ Cardinality(QueuedCopies(i)') =
                 Cardinality(QueuedCopies(i)) + (IF c.id = i THEN 1 ELSE 0)
        BY <3>1, <4>2, CopiesGrow
      <4> QED BY <3>1, <3>2, <4>2, <4>3
    <3>3. CASE op # "retry"
      <4>1. QueuedCopies(i)' = QueuedCopies(i)
        BY <1>6, <3>3 DEF QueuedCopies
      <4> QED BY <3>1, <3>3, <4>1
    <3> QED BY <3>2, <3>3
  <2>6. /\ Weighs(i) \in SUBSET Slots /\ Weighs(i)' \in SUBSET Slots
        /\ Spent(i) \ Heads \in SUBSET Slots /\ Spent(i)' \ Heads' \in SUBSET Slots
    BY DEF Weighs, Spent
  <2>7. /\ Cardinality(Weighs(i)) \in Nat /\ Cardinality(Weighs(i)') \in Nat
        /\ Cardinality(Spent(i) \ Heads) \in Nat /\ Cardinality(Spent(i)' \ Heads') \in Nat
        /\ Cardinality(QueuedCopies(i)) \in Nat
    BY <2>5, <2>6, RunsFinite, FS_CardinalityType
  <2>8. Weight(i)' <= Weight(i)
    <3>1. CASE op # "ack" /\ i = j
      BY <1>4, <1>16, <2>4, <2>5, <2>7, <3>1 DEF Weight
    <3>2. CASE op = "ack" \/ i # j
      BY <1>16, <2>4, <2>5, <2>7, <3>2 DEF Weight
    <3> QED BY <3>1, <3>2
  <2>9. Spent(i)' \ Heads' \subseteq Spent(i) \ Heads
    <3>1. t \notin Spent(i)' \ Heads'
      BY <1>4, <1>8, <1>21 DEF Spent
    <3>2. \A r \in Slots \ {t} : r \in Spent(i)' => r \in Spent(i)
      BY <1>8, <1>12 DEF Spent
    <3>3. Spent(i)' \subseteq Slots
      BY DEF Spent
    <3> QED BY <1>20, <3>1, <3>2, <3>3
  <2>10. Cardinality(Spent(i)' \ Heads') <= wins'[i]
    <3>1. Cardinality(Spent(i)' \ Heads') <= Cardinality(Spent(i) \ Heads)
      BY <2>6, <2>9, RunsMonotone
    <3>2. Cardinality(Spent(i) \ Heads) <= wins[i]
      BY <2>1 DEF Fits
    <3> QED BY <1>16, <2>7, <3>1, <3>2
  <2> QED BY <1>1, <1>19, <2>5, <2>8, <2>10, NoHeavier
<1> QED BY <1>13, <1>14, <1>15, <1>17, <1>18, <1>19, <1>22 DEF DInv, Shape

-------------------------------------------------------------------------------
(***************************************************************************)
(* Lost connections.                                                       *)
(***************************************************************************)

\* A lost connection makes a message at most twice as heavy, and one.
LEMMA LossDoubles ==
  ASSUME DInv, NEW i \in Messages, ready' = Requeued, dlq' = dlq, wins' = wins,
         Weighs(i)' \subseteq Weighs(i)
  PROVE  /\ IsFiniteSet(QueuedCopies(i)')
         /\ Weight(i) \in Nat /\ Weight(i)' \in Nat
         /\ Weight(i)' <= 2 * Weight(i) + 1
         /\ Unacked = {} => Weight(i)' <= Weight(i)
<1> DEFINE U == {s \in Unacked : holds[s].id = i}
           W == Weighs(i)
           S == Spent(i)
           H == S \cap Heads
<1>1. TypeOK /\ Fits(i)
  BY DEF DInv, IInv
<1>2. /\ IsFiniteSet(QueuedCopies(i)) /\ IsFiniteSet(QueuedCopies(i)')
      /\ Cardinality(QueuedCopies(i)') <= Cardinality(QueuedCopies(i)) + Cardinality(U)
  <2>1. IsFiniteSet(QueuedCopies(i))
    BY <1>1 DEF Fits
  <2> QED BY <1>1, <2>1, CopiesRequeued
<1>3. Cardinality(QueuedCopies(i)) \in Nat /\ Cardinality(QueuedCopies(i)') \in Nat
  BY <1>2, FS_CardinalityType
<1>4. /\ W \in SUBSET Slots /\ S \in SUBSET Slots /\ U \in SUBSET Slots
      /\ Weighs(i)' \in SUBSET W
  BY DEF Weighs, Spent, Unacked
<1>5. U \subseteq W \cup S
  BY DEF Unacked, Weighs, Spent, Counts
<1>6. Unacked = {} => U = {}
  OBVIOUS
<1>7. Cardinality(S \ Heads) <= wins[i]
  BY <1>1 DEF Fits
<1>8. Heads \in SUBSET Slots /\ IsFiniteSet(Heads) /\ Cardinality(Heads) <= 1
  <2>1. \A n \in DOMAIN wire : wire[n].slot \in Slots
    BY <1>1, FrameType DEF TypeOK
  <2>2. CASE 1 \in DOMAIN wire
    <3>1. Heads = {wire[1].slot}
      BY <2>2 DEF Heads
    <3>2. IsFiniteSet({wire[1].slot}) /\ Cardinality({wire[1].slot}) = 1
      BY FS_Singleton
    <3>3. wire[1].slot \in Slots
      BY <2>1, <2>2
    <3> QED BY <3>1, <3>2, <3>3
  <2>3. CASE 1 \notin DOMAIN wire
    <3>1. Heads = {}
      BY <2>3 DEF Heads
    <3> QED BY <3>1, FS_EmptySet
  <2> QED BY <2>2, <2>3
<1> HIDE DEF U, W, S
<1>9. Cardinality(U) <= Cardinality(W \cup S) /\ Cardinality(U) \in Nat
  BY <1>4, <1>5, RunsMonotone, RunsFinite
<1>10. /\ Cardinality(W \cup S) = Cardinality(W) + Cardinality(S) - Cardinality(W \cap S)
       /\ Cardinality(W) \in Nat /\ Cardinality(S) \in Nat /\ Cardinality(W \cap S) \in Nat
  <2>1. IsFiniteSet(W) /\ IsFiniteSet(S) /\ W \cap S \in SUBSET Slots
    BY <1>4, RunsFinite
  <2> QED BY <1>4, <2>1, FS_Union, RunsFinite
<1>11. /\ Cardinality(S \ Heads) = Cardinality(S) - Cardinality(S \cap Heads)
       /\ Cardinality(H) <= 1 /\ Cardinality(H) \in Nat /\ Cardinality(S \ Heads) \in Nat
  <2>1. Cardinality(S \ Heads) = Cardinality(S) - Cardinality(S \cap Heads)
    BY <1>4, RunsFinite, FS_Difference
  <2>2. S \cap Heads \in SUBSET Heads /\ S \ Heads \in SUBSET Slots
    BY <1>4
  <2>3. Cardinality(S \cap Heads) <= Cardinality(Heads) /\ Cardinality(Heads) \in Nat
    BY <1>8, <2>2, RunsMonotone, RunsFinite
  <2>4. S \cap Heads \in SUBSET Slots
    BY <1>4
  <2>5. Cardinality(S \cap Heads) \in Nat /\ Cardinality(S \ Heads) \in Nat
    BY <2>2, <2>4, RunsFinite
  <2>6. Cardinality(S \cap Heads) <= 1
    BY <1>8, <2>3, <2>5
  <2> QED BY <2>1, <2>5, <2>6
<1>12. dlq[i] \in Nat /\ wins[i] \in Nat /\ dlq'[i] = dlq[i] /\ wins'[i] = wins[i]
  BY <1>1 DEF TypeOK
<1>13. Cardinality(Weighs(i)') <= Cardinality(W) /\ Cardinality(Weighs(i)') \in Nat
  <2>1. Weighs(i)' \in SUBSET Slots
    BY <1>4
  <2> QED BY <1>4, <2>1, RunsMonotone, RunsFinite
<1>14. Cardinality(S) <= wins[i] + 1
  BY <1>7, <1>10, <1>11, <1>12
<1>15. Cardinality(U) <= Cardinality(W) + wins[i] + 1
  BY <1>9, <1>10, <1>12, <1>14
<1>16. Unacked = {} => Cardinality(U) = 0
  BY <1>6, FS_EmptySet
<1>17. /\ Weight(i) = Cardinality(QueuedCopies(i)) + Cardinality(W) + dlq[i] + wins[i]
       /\ Weight(i)' = Cardinality(QueuedCopies(i)') + Cardinality(Weighs(i)') + dlq[i] + wins[i]
  BY <1>12 DEF Weight, W
<1>18. Weight(i) \in Nat /\ Weight(i)' \in Nat
  BY <1>3, <1>10, <1>12, <1>13, <1>17
<1>19. Weight(i)' <= 2 * Weight(i) + 1
  BY <1>2, <1>3, <1>9, <1>10, <1>12, <1>13, <1>15, <1>17
<1>20. Unacked = {} => Weight(i)' <= Weight(i)
  BY <1>2, <1>3, <1>9, <1>10, <1>12, <1>13, <1>16, <1>17
<1> QED BY <1>2, <1>18, <1>19, <1>20

\* What is queued again had been sent.
LEMMA RequeuedSent ==
  ASSUME TypeOK, OnlySent, NEW c \in Copy, Requeued[c] > 0
  PROVE  c.id \in sent
<1> DEFINE H == {s \in Unacked : holds[s] = c}
<1>1. Requeued[c] = ready[c] + Cardinality(H) /\ ready[c] \in Nat
  BY DEF Requeued, TypeOK
<1>2. CASE ready[c] > 0
  BY <1>2 DEF OnlySent
<1>3. CASE ~(ready[c] > 0)
  <2>1. Cardinality(H) # 0
    BY <1>1, <1>3
  <2>2. H # {}
    BY <2>1, FS_EmptySet
  <2>3. PICK s \in Slots : run[s] # "free" /\ holds[s] = c
    BY <2>2 DEF Unacked
  <2> QED BY <2>3 DEF OnlySent
<1> QED BY <1>2, <1>3

\* A connection ends, of a worker that lives on or not.
LEMMA LossFits ==
  ASSUME DInv, IInv', wire' = <<>>, conn' = "down", sent' = sent, wins' = wins,
         \A s \in Slots : run'[s] \in {"free", "stale"},
         \A s \in Slots : run'[s] = "stale" => Counts(s) /\ holds'[s] = holds[s],
         \/ ready' = Requeued /\ dlq' = dlq
         \/ ready' = [c \in Copy |-> 0] /\ dlq' = [i \in Messages |-> 0],
         Room' \in Nat, Room \in Nat,
         \/ Room' >= 2 * Room
         \/ Room' = Room /\ Unacked = {}
  PROVE  DInv'
<1>1. TypeOK /\ TypeOK' /\ CountsHandled /\ OnlySent /\ Room >= 2
  BY DEF DInv, Shape, IInv
<1>2. DOMAIN wire' = {}
  <2>1. DOMAIN <<>> = {}
    OBVIOUS
  <2> QED BY <2>1
<1>3. \A s \in Slots : Counts(s)' => run'[s] = "stale"
  BY <1>2 DEF Counts
<1>4. OneOutcome' /\ Paired'
  BY <1>2 DEF OneOutcome, Paired
<1>5. CountsHandled'
  BY <1>1, <1>3 DEF CountsHandled
<1>6. OnlySent'
  <2>1. ASSUME NEW c \in Copy, ready'[c] > 0 PROVE c.id \in sent
    <3>1. CASE ready' = Requeued /\ dlq' = dlq
      BY <1>1, <2>1, <3>1, RequeuedSent
    <3>2. CASE ready' = [d \in Copy |-> 0]
      BY <2>1, <3>2
    <3> QED BY <3>1, <3>2
  <2>2. ASSUME NEW i \in Messages, dlq'[i] > 0 \/ wins'[i] > 0 PROVE i \in sent
    BY <1>1, <2>2 DEF OnlySent
  <2>3. ASSUME NEW s \in Slots, run'[s] # "free" PROVE holds'[s].id \in sent
    <3>1. Counts(s) /\ holds'[s] = holds[s]
      BY <2>3
    <3>2. run[s] # "free"
      <4>1. FrameSlots
        BY DEF DInv, IInv
      <4> QED BY <3>1, <4>1 DEF Counts, FrameSlots
    <3> QED BY <1>1, <3>1, <3>2 DEF OnlySent
  <2> QED BY <2>1, <2>2, <2>3 DEF OnlySent
<1>7. DownIdle'
  <2>1. Unacked' = {}
    BY DEF Unacked
  <2> QED BY <2>1 DEF DownIdle
<1>8. ASSUME NEW i \in Messages PROVE Fits(i)'
  <2>1. Fits(i) /\ Weight(i) < Room
    BY DEF DInv, Fits
  <2>2. Weighs(i)' \subseteq Weighs(i)
    BY <1>3 DEF Weighs
  <2>3. Cardinality(Spent(i)' \ Heads') <= wins'[i]
    <3>1. Spent(i)' = {}
      BY DEF Spent
    <3>2. Spent(i)' \ Heads' = {}
      BY <3>1
    <3>3. wins'[i] \in Nat
      BY <1>1 DEF TypeOK
    <3>4. Cardinality({}) = 0
      BY FS_EmptySet
    <3>5. Cardinality(Spent(i)' \ Heads') = 0
      BY <3>2, <3>4
    <3> QED BY <3>3, <3>5
  <2>4. CASE ready' = Requeued /\ dlq' = dlq
    <3>1. /\ IsFiniteSet(QueuedCopies(i)')
          /\ Weight(i) \in Nat /\ Weight(i)' \in Nat
          /\ Weight(i)' <= 2 * Weight(i) + 1
          /\ Unacked = {} => Weight(i)' <= Weight(i)
      BY <2>2, <2>4, LossDoubles
    <3>2. Weight(i)' < Room'
      BY <2>1, <3>1
    <3> QED BY <2>3, <3>1, <3>2 DEF Fits
  <2>5. CASE ready' = [c \in Copy |-> 0] /\ dlq' = [j \in Messages |-> 0]
    <3>1. QueuedCopies(i)' = {} /\ IsFiniteSet({}) /\ Cardinality({}) = 0
      <4>1. \A c \in Copy : 1 .. ready'[c] = {}
        BY <2>5
      <4>2. \A x : x \notin QueuedCopies(i)'
        BY <4>1, CopiesOf
      <4> QED BY <4>2, FS_EmptySet
    <3>2. /\ Weighs(i) \in SUBSET Slots /\ Weighs(i)' \in SUBSET Slots
      BY DEF Weighs
    <3>3. /\ Cardinality(Weighs(i)) \in Nat /\ Cardinality(Weighs(i)') \in Nat
          /\ Cardinality(Weighs(i)') <= Cardinality(Weighs(i))
      BY <2>2, <3>2, RunsFinite, RunsMonotone
    <3>4. Cardinality(QueuedCopies(i)) \in Nat
      BY <2>1, FS_CardinalityType DEF Fits
    <3>5. dlq[i] \in Nat /\ wins[i] \in Nat /\ dlq'[i] = 0 /\ wins'[i] = wins[i]
      BY <1>1, <2>5 DEF TypeOK
    <3>6. Weight(i)' = Cardinality(Weighs(i)') + wins[i]
      BY <3>1, <3>3, <3>5 DEF Weight
    <3>7. Weight(i)' <= Weight(i) /\ Weight(i) \in Nat /\ Weight(i)' \in Nat
      BY <3>3, <3>4, <3>5, <3>6 DEF Weight
    <3>8. Weight(i)' < Room'
      BY <2>1, <3>7
    <3> QED BY <2>3, <3>1, <3>8 DEF Fits
  <2> QED BY <2>4, <2>5
<1>9. Room' >= 2
  BY <1>1
<1> QED BY <1>4, <1>5, <1>6, <1>7, <1>8, <1>9 DEF DInv, Shape

\* The worker's connection and life, while no message moves.
LEMMA QuietFits ==
  ASSUME DInv, IInv', UNCHANGED <<sent, ready, dlq, run, holds, wire, wins>>,
         DownIdle', Room' \in Nat, Room \in Nat, Room' >= Room
  PROVE  DInv'
<1>1. OneOutcome /\ Paired /\ CountsHandled /\ OnlySent /\ Room >= 2 /\ TypeOK
  BY DEF DInv, Shape, IInv
<1>2. \A s \in Slots : Counts(s)' <=> Counts(s)
  BY DEF Counts
<1>3. OneOutcome' /\ Paired' /\ CountsHandled' /\ OnlySent'
  BY <1>1, <1>2 DEF OneOutcome, Paired, CountsHandled, OnlySent
<1>4. ASSUME NEW i \in Messages PROVE Fits(i)'
  <2>1. Fits(i)
    BY DEF DInv
  <2>2. /\ Weighs(i)' = Weighs(i) /\ Spent(i)' = Spent(i) /\ Heads' = Heads
        /\ QueuedCopies(i)' = QueuedCopies(i)
    BY <1>2 DEF Weighs, Spent, Heads, QueuedCopies
  <2>3. Weight(i)' = Weight(i)
    BY <2>2 DEF Weight
  <2>4. Weighs(i) \in SUBSET Slots
    BY DEF Weighs
  <2>5. Cardinality(Weighs(i)) \in Nat /\ Cardinality(QueuedCopies(i)) \in Nat
    BY <2>1, <2>4, RunsFinite, FS_CardinalityType DEF Fits
  <2>6. Weight(i) \in Nat
    BY <1>1, <2>5 DEF Weight, TypeOK
  <2>7. Weight(i)' < Room'
    BY <2>1, <2>3, <2>6 DEF Fits
  <2> QED BY <2>1, <2>2, <2>7 DEF Fits
<1>5. Room' >= 2
  BY <1>1
<1> QED BY <1>3, <1>4, <1>5 DEF DInv, Shape

-------------------------------------------------------------------------------
(***************************************************************************)
(* The theorem.                                                            *)
(***************************************************************************)

\* The room a connection's end makes.
LEMMA RoomGrows ==
  ASSUME TypeOK, TypeOK', conn' = "down", conn = "up" \/ cuts' = cuts + 1
  PROVE  /\ Room \in Nat /\ Room' \in Nat
         /\ cuts' = cuts + 1 => Room' >= 2 * Room
         /\ (cuts' = cuts /\ process = "killed") => Room' >= 2 * Room
<1>1. cuts \in Nat /\ cuts' \in Nat
  BY DEF TypeOK
<1> DEFINE a == 2 ^ cuts
           b == 2 ^ (cuts + 1)
           d == 2 ^ (cuts + 1 + 1)
<1>2. a \in Nat /\ b = 2 * a /\ b \in Nat /\ d = 2 * b /\ d \in Nat
  <2>1. cuts + 1 \in Nat
    BY <1>1
  <2>2. 2 ^ cuts \in Nat /\ 2 ^ (cuts + 1) = 2 * 2 ^ cuts
    BY <1>1, PowerDoubles
  <2>3. 2 ^ (cuts + 1) \in Nat /\ 2 ^ (cuts + 1 + 1) = 2 * 2 ^ (cuts + 1)
    BY <2>1, PowerDoubles
  <2>4. 2 ^ (cuts + 1 + 1) \in Nat
    <3>1. cuts + 1 + 1 \in Nat
      BY <1>1
    <3> QED BY <3>1, PowerDoubles
  <2> QED BY <2>2, <2>3, <2>4
<1>3. Room \in {a, b}
  BY DEF Room
<1>4. (process = "killed" /\ conn = "up") => Room = a
  BY DEF Room
<1>5. cuts' = cuts + 1 => Room' = d
  BY DEF Room
<1>6. cuts' = cuts => Room' = b
  BY DEF Room
<1>7. Room' \in Nat
  <2>1. PICK k \in Nat : k = cuts'
    BY <1>1
  <2>2. Room' = 2 ^ (k + 1)
    BY <2>1 DEF Room
  <2>3. k + 1 \in Nat
    OBVIOUS
  <2> QED BY <2>2, <2>3, PowerDoubles
<1> HIDE DEF a, b, d
<1>8. Room \in Nat
  BY <1>2, <1>3
<1>9. cuts' = cuts + 1 => Room' >= 2 * Room
  BY <1>2, <1>3, <1>5
<1>10. (cuts' = cuts /\ process = "killed") => Room' >= 2 * Room
  <2>1. cuts + 1 # cuts
    BY <1>1
  <2> QED BY <1>2, <1>4, <1>6, <2>1
<1> QED BY <1>7, <1>8, <1>9, <1>10

LEMMA InitDInv == Init => DInv
<1> SUFFICES ASSUME Init PROVE DInv
  OBVIOUS
<1>1. IInv
  BY InitIInv
<1>2. DOMAIN wire = {}
  <2>1. DOMAIN <<>> = {}
    OBVIOUS
  <2> QED BY <2>1 DEF Init
<1>3. \A s \in Slots : ~Counts(s) /\ run[s] = "free"
  BY <1>2 DEF Init, Counts
<1>4. OneOutcome /\ Paired /\ CountsHandled
  BY <1>2, <1>3 DEF OneOutcome, Paired, CountsHandled
<1>5. OnlySent
  BY DEF Init, OnlySent
<1>6. DownIdle
  BY <1>3 DEF Init, DownIdle, Unacked
<1>7. Room = 2
  <2>1. Room = 2 ^ (0 + 1)
    BY DEF Init, Room
  <2>2. 2 ^ (0 + 1) = 2 * 2 ^ 0 /\ 2 ^ 0 \in Nat
    BY PowerDoubles
  <2>3. 2 ^ 0 = 1
    <3>1. Cardinality(SUBSET {}) = 2 ^ Cardinality({}) /\ Cardinality({}) = 0
      BY FS_EmptySet, FS_SUBSET
    <3>2. SUBSET {} = {{}}
      OBVIOUS
    <3>3. Cardinality({{}}) = 1
      BY FS_Singleton
    <3> QED BY <3>1, <3>2, <3>3, Zenon
  <2> QED BY <2>1, <2>2, <2>3
<1>8. ASSUME NEW i \in Messages PROVE Fits(i)
  <2>1. /\ QueuedCopies(i) = {} /\ Weighs(i) = {} /\ Spent(i) = {} /\ dlq[i] = 0 /\ wins[i] = 0
    <3>1. i \in Messages \ sent
      BY DEF Init
    <3> QED BY <1>1, <1>5, <3>1, UnsentWeighsNothing
  <2>2. Spent(i) \ Heads = {}
    BY <2>1
  <2>3. IsFiniteSet({}) /\ Cardinality({}) = 0
    BY FS_EmptySet
  <2>4. Weight(i) = 0
    BY <2>1, <2>3 DEF Weight
  <2>5. Cardinality(Spent(i) \ Heads) = 0
    BY <2>2, <2>3
  <2> QED BY <1>7, <2>1, <2>3, <2>4, <2>5 DEF Fits
<1> QED BY <1>1, <1>4, <1>5, <1>6, <1>7, <1>8 DEF DInv, Shape

LEMMA NextDInv ==
  ASSUME DInv, [Next]_vars
  PROVE  DInv'
<1>1. IInv' /\ TypeOK /\ TypeOK' /\ DownIdle /\ cuts \in Nat /\ FrameSlots
  <2>1. IInv'
    BY NextIInv DEF DInv
  <2> QED BY <2>1 DEF DInv, Shape, IInv, TypeOK
<1>2. Room \in Nat
  BY <1>1, PowerDoubles DEF Room
<1>3. ASSUME NEW i \in Messages, Publish(i) PROVE DInv'
  BY <1>1, <1>3, PublishFits
<1>4. CASE BrokerTakes
  BY <1>1, <1>4, BrokerTakesFits
<1>5. ASSUME NEW s \in Slots, Deliver(s) PROVE DInv'
  BY <1>1, <1>5, DeliverFits
<1>6. ASSUME NEW s \in Slots, Finish(s) PROVE DInv'
  BY <1>1, <1>6, FinishFits
<1>7. ASSUME ConnectionLost, cuts' = cuts + 1, sent' = sent, wins' = wins,
             \/ ready' = Requeued /\ dlq' = dlq
             \/ ready' = [c \in Copy |-> 0] /\ dlq' = [i \in Messages |-> 0]
      PROVE  DInv'
  <2>1. /\ conn' = "down" /\ wire' = <<>>
        /\ \A s \in Slots : run'[s] \in {"free", "stale"}
        /\ \A s \in Slots : run'[s] = "stale" => Counts(s) /\ holds'[s] = holds[s]
    BY <1>7 DEF ConnectionLost, Counts
  <2>2. Room' \in Nat /\ Room' >= 2 * Room
    BY <1>1, <1>7, <2>1, RoomGrows
  <2> QED BY <1>1, <1>2, <1>7, <2>1, <2>2, LossFits
<1>8. CASE Drop
  BY <1>7, <1>8 DEF Drop
<1>9. CASE BrokerRestart
  BY <1>7, <1>9 DEF BrokerRestart
<1>10. CASE CloseEnds
  BY <1>7, <1>10 DEF CloseEnds
<1>11. CASE ProcessEnds
  <2>1. /\ process' = "dead" /\ conn' = "down" /\ wire' = <<>> /\ ready' = Requeued
        /\ \A s \in Slots : run'[s] = "free"
        /\ UNCHANGED <<sent, dlq, wins, restarts>>
        /\ process \in {"rejected", "killed", "closed"}
        /\ cuts' = IF process = "rejected" /\ conn = "up" THEN cuts + 1 ELSE cuts
    BY <1>11 DEF ProcessEnds
  <2>2. \A s \in Slots : run'[s] \in {"free", "stale"} /\ run'[s] # "stale"
    BY <2>1
  <2>3. Room' \in Nat /\ (Room' >= 2 * Room \/ (Room' = Room /\ Unacked = {}))
    <3>1. CASE conn = "up"
      <4>1. process # "closed"
        BY <1>1, <3>1 DEF DownIdle
      <4>2. cuts' = cuts + 1 \/ (cuts' = cuts /\ process = "killed")
        BY <2>1, <3>1, <4>1
      <4> QED BY <1>1, <2>1, <3>1, <4>2, RoomGrows
    <3>2. CASE conn = "down"
      <4>1. Unacked = {} /\ cuts' = cuts
        BY <1>1, <2>1, <3>2 DEF DownIdle
      <4>2. Room' = Room
        BY <2>1, <3>2, <4>1 DEF Room
      <4> QED BY <1>2, <4>1, <4>2
    <3>3. conn \in {"up", "down"}
      BY <1>1 DEF TypeOK
    <3> QED BY <3>1, <3>2, <3>3
  <2> QED BY <1>1, <1>2, <2>1, <2>2, <2>3, LossFits
<1>12. ASSUME UNCHANGED <<sent, ready, dlq, run, holds, wire, wins>>, DownIdle', Room' = Room
       PROVE  DInv'
  BY <1>1, <1>2, <1>12, QuietFits
<1>13. CASE Reconnect
  <2>1. Room' = Room /\ DownIdle'
    BY <1>13 DEF Reconnect, Room, DownIdle
  <2> QED BY <1>12, <1>13, <2>1 DEF Reconnect, runVars
<1>14. CASE Close
  <2>1. Room' = Room /\ DownIdle'
    BY <1>1, <1>14 DEF Close, Room, DownIdle, Unacked, runVars
  <2> QED BY <1>12, <1>14, <2>1 DEF Close, runVars
<1>15. CASE Restart
  <2>1. Room' = Room /\ DownIdle'
    BY <1>1, <1>15 DEF Restart, Room, DownIdle, Unacked, runVars
  <2> QED BY <1>12, <1>15, <2>1 DEF Restart, runVars
<1>16. CASE UNCHANGED vars
  <2>1. Room' = Room /\ DownIdle'
    BY <1>1, <1>16 DEF vars, Room, DownIdle, Unacked, runVars
  <2> QED BY <1>12, <1>16, <2>1 DEF vars, runVars
<1>17. CASE Kill
  <2>1. /\ cuts' = cuts + 1 /\ process' = "killed" /\ process # "killed"
        /\ UNCHANGED <<sent, ready, dlq, conn, run, holds, wire, wins, restarts>>
    BY <1>17 DEF Kill, runVars
  <2>2. DownIdle'
    BY <1>1, <2>1 DEF DownIdle, Unacked
  <2>3. Room = 2 ^ (cuts + 1)
    BY <2>1 DEF Room
  <2>4. Room' \in {2 ^ (cuts + 1), 2 ^ (cuts + 1 + 1)}
    BY <2>1 DEF Room
  <2>5. 2 ^ (cuts + 1 + 1) = 2 * 2 ^ (cuts + 1)
    <3>1. cuts + 1 \in Nat
      BY <1>1
    <3> QED BY <3>1, PowerDoubles
  <2>6. Room' \in {Room, 2 * Room}
    BY <2>3, <2>4, <2>5
  <2>7. Room' \in Nat /\ Room' >= Room
    BY <1>2, <2>6
  <2> QED BY <1>1, <1>2, <2>1, <2>2, <2>7, QuietFits
<1> QED
  BY <1>3, <1>4, <1>5, <1>6, <1>8, <1>9, <1>10, <1>11, <1>13, <1>14, <1>15, <1>16, <1>17
     DEF Next, Finished

\* What a message weighs bounds what came of it.
LEMMA DInvBounds == DInv => DuplicatesNeedCuts
<1> SUFFICES ASSUME DInv, NEW i \in Messages PROVE Lineages(i) < 2 ^ (cuts + 1)
  BY DEF DuplicatesNeedCuts
<1>1. TypeOK /\ Fits(i) /\ cuts \in Nat
  BY DEF DInv, IInv, TypeOK
<1> DEFINE C == {s \in Slots : holds[s].id = i /\ Counts(s)}
<1>2. C \in SUBSET Weighs(i) /\ Weighs(i) \in SUBSET Slots /\ C \in SUBSET Slots
  BY DEF Weighs
<1>3. Lineages(i) = Cardinality(QueuedCopies(i)) + Cardinality(C) + dlq[i] + wins[i]
  BY DEF Lineages
<1> HIDE DEF C
<1>4. /\ Cardinality(C) <= Cardinality(Weighs(i))
      /\ Cardinality(C) \in Nat /\ Cardinality(Weighs(i)) \in Nat
  BY <1>2, RunsMonotone, RunsFinite
<1>5. /\ Cardinality(QueuedCopies(i)) \in Nat /\ dlq[i] \in Nat /\ wins[i] \in Nat
  BY <1>1, FS_CardinalityType DEF Fits, TypeOK
<1>6. /\ Lineages(i) <= Weight(i) /\ Lineages(i) \in Nat /\ Weight(i) \in Nat
  BY <1>3, <1>4, <1>5 DEF Weight
<1>7. PICK a \in Nat : a = 2 ^ cuts /\ 2 ^ (cuts + 1) = 2 * a
  BY <1>1, PowerDoubles
<1>8. Room \in {a, 2 * a} /\ Weight(i) < Room
  BY <1>1, <1>7 DEF Room, Fits
<1>9. Lineages(i) < 2 * a
  BY <1>6, <1>7, <1>8
<1> QED BY <1>7, <1>9

\* A message is handled, answered or dead-lettered fewer than 2^(k+1) times
\* when k connections were lost: exactly once, retries included, while none
\* was.  It holds of routeFailedMessage() and the consume callback for every
\* number of messages, topics, retries, deliveries at once and broker restarts.
THEOREM DuplicatesBounded == Spec => []DuplicatesNeedCuts
<1>1. Init => DInv
  BY InitDInv
<1>2. DInv /\ [Next]_vars => DInv'
  BY NextDInv
<1>3. DInv => DuplicatesNeedCuts
  BY DInvBounds
<1> QED BY <1>1, <1>2, <1>3, PTL DEF Spec

\* While no connection was lost a message has one outcome at most, retries
\* included, and none at all as long as a copy of it waits in the queue.
OneOutcomeUncut ==
  cuts = 0 =>
    \A i \in Messages :
      /\ wins[i] + dlq[i] <= 1
      /\ wins[i] + dlq[i] = 1 => ~Queued(i)

LEMMA UncutBounds == DInv => OneOutcomeUncut
<1> SUFFICES ASSUME DInv, cuts = 0, NEW i \in Messages
             PROVE  /\ wins[i] + dlq[i] <= 1
                    /\ wins[i] + dlq[i] = 1 => ~Queued(i)
  BY DEF OneOutcomeUncut
<1>1. TypeOK /\ Fits(i)
  BY DEF DInv, IInv
<1>2. 2 ^ 0 = 1
  <2>1. Cardinality(SUBSET {}) = 2 ^ Cardinality({})
    BY FS_EmptySet, FS_SUBSET
  <2>2. SUBSET {} = {{}}
    OBVIOUS
  <2>3. Cardinality({{}}) = 1
    BY FS_Singleton
  <2> QED BY <2>1, <2>2, <2>3, FS_EmptySet
<1>3. Lineages(i) < 2
  <2>1. 2 ^ (0 + 1) = 2 * 2 ^ 0
    BY PowerDoubles
  <2>2. Lineages(i) < 2 ^ (cuts + 1)
    BY DInvBounds DEF DuplicatesNeedCuts
  <2> QED BY <1>2, <2>1, <2>2
<1> DEFINE C == {s \in Slots : holds[s].id = i /\ Counts(s)}
<1>4. Lineages(i) = Cardinality(QueuedCopies(i)) + Cardinality(C) + dlq[i] + wins[i]
  BY DEF Lineages
<1>5. Cardinality(C) \in Nat
  <2>1. C \in SUBSET Slots
    OBVIOUS
  <2> HIDE DEF C
  <2> QED BY <2>1, RunsFinite
<1>6. /\ IsFiniteSet(QueuedCopies(i)) /\ Cardinality(QueuedCopies(i)) \in Nat
      /\ dlq[i] \in Nat /\ wins[i] \in Nat
  BY <1>1, FS_CardinalityType DEF Fits, TypeOK
<1> HIDE DEF C
<1>7. Cardinality(QueuedCopies(i)) + dlq[i] + wins[i] < 2
  BY <1>3, <1>4, <1>5, <1>6
<1>8. ASSUME Queued(i) PROVE Cardinality(QueuedCopies(i)) # 0
  <2>1. PICK c \in Copy : c.id = i /\ ready[c] > 0
    BY <1>8 DEF Queued
  <2>2. ready[c] \in Nat /\ 1 \in 1 .. ready[c]
    BY <1>1, <2>1 DEF TypeOK
  <2>3. <<c, 1>> \in QueuedCopies(i)
    BY <2>1, <2>2 DEF QueuedCopies
  <2> QED BY <1>6, <2>3, FS_EmptySet
<1> QED BY <1>6, <1>7, <1>8

\* ack() and the retry of routeFailedMessage() share a connection in order: a
\* worker whose connection holds never repeats what had an outcome, whatever
\* fails and is retried, for every prefetch and number of messages.
THEOREM OneOutcomeUncutHolds == Spec => []OneOutcomeUncut
<1>1. Init => DInv
  BY InitDInv
<1>2. DInv /\ [Next]_vars => DInv'
  BY NextDInv
<1> QED BY <1>1, <1>2, UncutBounds, PTL DEF Spec
==============================================================================
