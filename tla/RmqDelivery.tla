----------------------------- MODULE RmqDelivery -----------------------------
(***************************************************************************)
(* Delivery on the RabbitMQ transport: what becomes of a message from the  *)
(* moment the broker queues it until a worker acks it                      *)
(* (packages/microservices/src/transports/rmq.transport.ts, consume        *)
(* callback and routeFailedMessage; server/microservice.builder.ts for     *)
(* what a handler's outcome turns into).                                   *)
(*                                                                         *)
(* One worker consumes one queue.  The AMQP connection is a FIFO of frames *)
(* that a connection loss cuts anywhere; the broker requeues what was not  *)
(* acked.  A run that outlives its connection keeps the channel object it  *)
(* captured, and every call on that object throws.                         *)
(***************************************************************************)
EXTENDS Naturals, Sequences, FiniteSets

CONSTANTS
  Messages,    \* messages that publishers send once each
  Rpcs,        \* those with a replyTo property
  Malformed,   \* those readWire() refuses
  Queue,       \* options.queue, also the routing key of a retried message
  Topics,      \* topics with a handler
  Slots,       \* identities of the consume callback's `run` promises
  Prefetch,    \* options.prefetch
  MaxRetries,  \* options.maxRetries
  MaxCuts,     \* bound: connection losses, kills and close() calls
  MaxRestarts  \* bound: broker restarts

ASSUME MessagesAssumption == Rpcs \subseteq Messages /\ Malformed \subseteq Messages
ASSUME SlotsAssumption == IsFiniteSet(Slots)
ASSUME BoundsAssumption ==
  /\ Prefetch \in Nat \ {0} /\ MaxRetries \in Nat
  /\ MaxCuts \in Nat /\ MaxRestarts \in Nat

\* A queued message: its routing key and x-retry-count are all that varies.
Copy == [id : Messages, key : Topics \cup {Queue}, retries : 0 .. MaxRetries]
NoCopy == [id |-> "none", key |-> "none", retries |-> 0]

VARIABLES
  sent,     \* messages publishers handed to the broker
  ready,    \* ready[c]: copies c in the queue, not delivered
  dlq,      \* dlq[i]: copies of i in the dead-letter queue
  conn,     \* the worker's connection: "up" (consuming) or "down"
  process,  \* the worker process
  run,      \* run[s]: where the run of a delivery stands
  holds,    \* holds[s]: the copy it was given
  wire,     \* frames the worker wrote and the broker has not processed
  wins,     \* wins[i]: times i was handled (event) or answered (RPC)
  cuts,     \* connections lost so far
  restarts  \* broker restarts so far

runVars == <<run, holds>>
vars == <<sent, ready, dlq, conn, process, runVars, wire, wins, cuts, restarts>>

Frames == [op : {"retry", "dead", "reply", "ack"}, slot : Slots]

TypeOK ==
  /\ sent \subseteq Messages
  /\ ready \in [Copy -> Nat]
  /\ dlq \in [Messages -> Nat]
  /\ conn \in {"up", "down"}
  /\ process \in {"running", "closing", "closed", "rejected", "killed", "dead"}
  /\ run \in [Slots -> {"free", "handling", "acking", "stale", "ended"}]
  /\ holds \in [Slots -> Copy \cup {NoCopy}]
  /\ \A s \in Slots : run[s] # "free" => holds[s] \in Copy
  /\ wire \in Seq(Frames)
  /\ wins \in [Messages -> Nat]
  /\ cuts \in Nat
  /\ restarts \in 0 .. MaxRestarts

Init ==
  /\ sent = {}
  /\ ready = [c \in Copy |-> 0]
  /\ dlq = [i \in Messages |-> 0]
  /\ conn = "down"
  /\ process = "running"
  /\ run = [s \in Slots |-> "free"]
  /\ holds = [s \in Slots |-> NoCopy]
  /\ wire = <<>>
  /\ wins = [i \in Messages |-> 0]
  /\ cuts = 0
  /\ restarts = 0

(***************************************************************************)
(* The broker.                                                             *)
(***************************************************************************)
\* "handling" and "acking" runs belong to the current channel.
Unacked == {s \in Slots : run[s] \in {"handling", "acking"}}

\* emit() and send() use the default exchange: the routing key is the queue's
\* name.  A binding made outside the package may route another topic here.
Publish(i) ==
  /\ i \notin sent
  /\ sent' = sent \cup {i}
  /\ \E t \in Topics :
       ready' = [ready EXCEPT ![[id |-> i, key |-> t, retries |-> 0]] = @ + 1]
  /\ UNCHANGED <<dlq, conn, process, runVars, wire, wins, cuts, restarts>>

KeepsCount(c) == [c EXCEPT !.key = Queue]   \* mutant: x-retry-count is not advanced

\* sendToQueue(queue) on the default exchange: the key becomes the queue's name.
Retried(c) == [c EXCEPT !.key = Queue, !.retries = @ + 1]

BrokerTakes ==
  /\ wire # <<>>
  /\ wire' = Tail(wire)
  /\ LET f == Head(wire)
         c == holds[f.slot]
     IN  /\ ready' = IF f.op = "retry" THEN [ready EXCEPT ![Retried(c)] = @ + 1] ELSE ready
         /\ dlq' = IF f.op = "dead" THEN [dlq EXCEPT ![c.id] = @ + 1] ELSE dlq
         /\ wins' = IF f.op = "reply" THEN [wins EXCEPT ![c.id] = @ + 1] ELSE wins
         /\ IF f.op = "ack"
            THEN /\ run' = [run EXCEPT ![f.slot] = "free"]
                 /\ holds' = [holds EXCEPT ![f.slot] = NoCopy]
            ELSE UNCHANGED runVars
  /\ UNCHANGED <<sent, conn, process, cuts, restarts>>

\* A connection ends: written frames are lost, unacked deliveries go back to
\* the queue, and the runs still in a handler are left with a dead channel.
Requeued ==
  [c \in Copy |-> ready[c] + Cardinality({s \in Unacked : holds[s] = c})]

ConnectionLost ==
  /\ conn' = "down"
  /\ wire' = <<>>
  /\ run' = [s \in Slots |-> IF run[s] \in {"handling", "stale"} THEN "stale" ELSE "free"]
  /\ holds' = [s \in Slots |->
                 IF run[s] \in {"handling", "stale"} THEN holds[s] ELSE NoCopy]

Drop ==
  /\ conn = "up" /\ cuts < MaxCuts
  /\ cuts' = cuts + 1
  /\ ready' = Requeued
  /\ ConnectionLost
  /\ UNCHANGED <<sent, dlq, process, wins, restarts>>

\* Queues are durable, messages are not: no publish sets `persistent`.
BrokerRestart ==
  /\ conn = "up" /\ restarts < MaxRestarts
  /\ restarts' = restarts + 1
  /\ cuts' = cuts + 1
  /\ ready' = [c \in Copy |-> 0]
  /\ dlq' = [i \in Messages |-> 0]
  /\ ConnectionLost
  /\ UNCHANGED <<sent, process, wins>>

(***************************************************************************)
(* The consume callback.  `channel` is the object captured at consume():   *)
(* a "stale" run's calls on it throw.                                      *)
(***************************************************************************)
Write(s, ops) == wire' = wire \o [n \in DOMAIN ops |-> [op |-> ops[n], slot |-> s]]

\* routeFailedMessage() is reached after a throw; thrown out of itself, its
\* error rejects `run`, which nobody awaits: the process dies of it.
Rejected(s) ==
  /\ process' = "rejected"
  /\ run' = [run EXCEPT ![s] = "ended"]
  /\ UNCHANGED <<holds, wire>>

AcksFirst(s, retryable) ==   \* mutant: the original is acked before its copy is published
  Write(s, <<"ack", IF retryable /\ holds[s].retries < MaxRetries THEN "retry" ELSE "dead">>)

\* mutant: a retried message falls through to the dead-letter publish
RetriesFallThrough(s, retryable) ==
  Write(s, IF retryable /\ holds[s].retries < MaxRetries
           THEN <<"retry", "dead", "ack">> ELSE <<"dead", "ack">>)

\* Republish with x-retry-count + 1, or publish to the DLX; then ack.
RouteFailed(s, retryable) ==
  Write(s, <<IF retryable /\ holds[s].retries < MaxRetries THEN "retry" ELSE "dead",
             "ack">>)

RouteFailedMessage(s, retryable) ==
  IF run[s] = "stale"
  THEN Rejected(s)
  ELSE /\ RouteFailed(s, retryable)
       /\ run' = [run EXCEPT ![s] = "acking"]
       /\ UNCHANGED <<holds, process>>

Ack(s) ==
  IF run[s] = "stale"
  THEN Rejected(s)
  ELSE /\ Write(s, <<"ack">>)
       /\ run' = [run EXCEPT ![s] = "acking"]
       /\ UNCHANGED <<holds, process>>

Handling(s) == run[s] \in {"handling", "stale"} /\ process \in {"running", "closing", "closed"}

\* No topic: ack and forget.  Unreadable bytes: dead-letter.  Else the handler runs.
Deliver(s) ==
  /\ conn = "up" /\ process \in {"running", "closing"}
  /\ run[s] = "free" /\ Cardinality(Unacked) < Prefetch
  /\ \E c \in {d \in Copy : ready[d] > 0} :
       /\ ready' = [ready EXCEPT ![c] = @ - 1]
       /\ holds' = [holds EXCEPT ![s] = c]
       /\ \/ /\ c.key \notin Topics
             /\ Write(s, <<"ack">>)
             /\ run' = [run EXCEPT ![s] = "acking"]
          \/ /\ c.key \in Topics /\ c.id \in Malformed
             /\ Write(s, <<"dead", "ack">>)
             /\ run' = [run EXCEPT ![s] = "acking"]
          \/ /\ c.key \in Topics /\ c.id \notin Malformed
             /\ run' = [run EXCEPT ![s] = "handling"]
             /\ UNCHANGED wire
  /\ UNCHANGED <<sent, dlq, conn, process, wins, cuts, restarts>>

EventSucceeds(s) ==
  /\ Handling(s) /\ holds[s].id \notin Rpcs
  /\ wins' = [wins EXCEPT ![holds[s].id] = @ + 1]
  /\ Ack(s)
  /\ UNCHANGED <<sent, ready, dlq, conn, cuts, restarts>>

\* The handler threw (retryable), or the contract refused the request (not).
EventFails(s, retryable) ==
  /\ Handling(s) /\ holds[s].id \notin Rpcs
  /\ RouteFailedMessage(s, retryable)
  /\ UNCHANGED <<sent, ready, dlq, conn, wins, cuts, restarts>>

\* Whatever the handler did becomes an envelope, and reply() sends it on
\* this.channel once connect() returns: after a reconnect that is another
\* channel than the one the ack is then tried on.
RpcReplies(s) ==
  /\ Handling(s) /\ holds[s].id \in Rpcs
  /\ process = "running" /\ conn = "up"
  /\ IF run[s] = "stale"
     THEN /\ Write(s, <<"reply">>)
          /\ run' = [run EXCEPT ![s] = "ended"]
          /\ process' = "rejected"
     ELSE /\ Write(s, <<"reply", "ack">>)
          /\ run' = [run EXCEPT ![s] = "acking"]
          /\ UNCHANGED process
  /\ UNCHANGED <<sent, ready, dlq, conn, holds, wins, cuts, restarts>>

\* While closing, reply()'s connect() throws: the delivery is routed as failed.
RpcReplyThrows(s) ==
  /\ Handling(s) /\ holds[s].id \in Rpcs
  /\ process \in {"closing", "closed"}
  /\ RouteFailedMessage(s, TRUE)
  /\ UNCHANGED <<sent, ready, dlq, conn, wins, cuts, restarts>>

(***************************************************************************)
(* The worker process.                                                     *)
(***************************************************************************)
\* The reconnect loop reopens the channel and consumes again.
Reconnect ==
  /\ process = "running" /\ conn = "down"
  /\ conn' = "up"
  /\ UNCHANGED <<sent, ready, dlq, process, runVars, wire, wins, cuts, restarts>>

\* close(): the consumer is not cancelled, deliveries keep coming ...
Close ==
  /\ process = "running" /\ cuts < MaxCuts
  /\ process' = "closing"
  /\ UNCHANGED <<sent, ready, dlq, conn, runVars, wire, wins, cuts, restarts>>

\* ... until teardown() closes the channel in order, drained or timed out.
CloseEnds ==
  /\ process = "closing" /\ wire = <<>>
  /\ process' = "closed"
  /\ cuts' = cuts + 1
  /\ ready' = Requeued
  /\ ConnectionLost
  /\ UNCHANGED <<sent, dlq, wins, restarts>>

Kill ==
  /\ process \in {"running", "closing"} /\ cuts < MaxCuts
  /\ process' = "killed"
  /\ cuts' = cuts + 1
  /\ UNCHANGED <<sent, ready, dlq, conn, runVars, wire, wins, restarts>>

\* The process is gone: its socket closes and its runs vanish.
ProcessEnds ==
  /\ process \in {"rejected", "killed", "closed"}
  /\ process' = "dead"
  /\ cuts' = IF process = "rejected" /\ conn = "up" THEN cuts + 1 ELSE cuts
  /\ ready' = Requeued
  /\ conn' = "down" /\ wire' = <<>>
  /\ run' = [s \in Slots |-> "free"]
  /\ holds' = [s \in Slots |-> NoCopy]
  /\ UNCHANGED <<sent, dlq, wins, restarts>>

Restart ==
  /\ process = "dead"
  /\ process' = "running"
  /\ UNCHANGED <<sent, ready, dlq, conn, runVars, wire, wins, cuts, restarts>>

Finish(s) ==
  \/ EventSucceeds(s) \/ EventFails(s, TRUE) \/ EventFails(s, FALSE)
  \/ RpcReplies(s) \/ RpcReplyThrows(s)

\* Everything sent has left the queue and no fault is left to happen.
Finished ==
  /\ sent = Messages /\ \A c \in Copy : ready[c] = 0
  /\ \A s \in Slots : run[s] = "free"
  /\ UNCHANGED vars

Next ==
  \/ \E i \in Messages : Publish(i)
  \/ BrokerTakes \/ Drop \/ BrokerRestart
  \/ \E s \in Slots : Deliver(s) \/ Finish(s)
  \/ Reconnect \/ Close \/ CloseEnds \/ Kill \/ ProcessEnds \/ Restart
  \/ Finished

Spec == Init /\ [][Next]_vars

\* The broker and the reconnect loop go on, handlers return, and a supervisor
\* restarts a worker that ended.
Fairness ==
  /\ WF_vars(BrokerTakes) /\ WF_vars(Reconnect)
  /\ \A s \in Slots : WF_vars(Deliver(s)) /\ WF_vars(Finish(s))
  /\ WF_vars(CloseEnds) /\ WF_vars(ProcessEnds) /\ WF_vars(Restart)

FairSpec == Spec /\ Fairness

-------------------------------------------------------------------------------
(***************************************************************************)
(* Properties.                                                             *)
(***************************************************************************)
Queued(i) == \E c \in Copy : c.id = i /\ ready[c] > 0
Pending(i) == \E s \in Unacked : holds[s].id = i
Settled(i) == wins[i] > 0 \/ dlq[i] > 0

\* At-least-once: from the moment the broker has a message, it is handled,
\* answered or dead-lettered, or the broker still has a copy to deliver.  It
\* rests on the order of the two frames routeFailedMessage() writes.
NotLost == \A i \in sent : Settled(i) \/ Queued(i) \/ Pending(i)

\* A run that still counts for its message: it may yet settle it, or its copy,
\* its dead letter or its reply is still on the wire.
Counts(s) ==
  \/ run[s] \in {"handling", "stale"}
  \/ \E n \in DOMAIN wire : wire[n].slot = s /\ wire[n].op # "ack"

\* The copies of i in the queue, told apart by their number.
QueuedCopies(i) == UNION {{c} \X (1 .. ready[c]) : c \in {d \in Copy : d.id = i}}

Lineages(i) ==
  Cardinality(QueuedCopies(i))
    + Cardinality({s \in Slots : holds[s].id = i /\ Counts(s)})
    + dlq[i] + wins[i]

\* Duplicates come from lost connections only: while none was lost a message
\* is handled, answered or dead-lettered exactly once, retries included, and
\* a loss at most doubles that (every handler's delivery is requeued under it)
\* and adds one (a retry was accepted, the ack behind it was not).
DuplicatesNeedCuts == \A i \in Messages : Lineages(i) < 2 ^ (cuts + 1)

\* Poison cannot loop: every message the broker accepted is handled, answered
\* or dead-lettered in the end.
EventuallySettled == \A i \in Messages : i \in sent ~> Settled(i)

(***************************************************************************)
(* What the docs say and the code does not do.                             *)
(***************************************************************************)

\* "Connections self-heal": a lost connection never costs the worker process.
SurvivesDrops == process # "rejected"
==============================================================================
