--------------------------- MODULE KafkaTransport ---------------------------
(***************************************************************************)
(* Event delivery over Kafka                                               *)
(* (packages/microservices/src/transports/kafka.transport.ts): workers of  *)
(* one consumer group, each running its handlers one message of a          *)
(* partition at a time, committing what is done and producing what failed  *)
(* to a dead-letter topic.  kafkajs and the broker are modelled from how   *)
(* the transport uses them: positions are committed from time to time, a   *)
(* partition moves when its worker dies or is too slow, and the new owner  *)
(* begins at the committed offset.                                         *)
(***************************************************************************)
EXTENDS WireEnvelope, Sequences

CONSTANTS
    Workers, Partitions,
    Records,            \* wires other producers put on the topic, NoValue among them
    Readers,            \* options of the workers: secret, replay window, dead letters
    MaxLog, MaxClock, MaxMoves   \* bounds: records of a partition, time, moves and crashes

VARIABLES
    options, clock,     \* one of Readers; the time
    log,                \* [Partitions -> the records of the partition]
    committed,          \* [Partitions -> offset the group committed]
    owner,              \* [Partitions -> the worker it is assigned to]
    worker,             \* [Workers -> [state, producer]]
    running,            \* [Workers -> [Partitions -> the eachMessage under way]]
    outcome,            \* [Partitions -> for every record, what became of it]
    moves
kafkaVars == <<options, clock, log, committed, owner, worker, running, outcome, moves>>

NoWorker == "none"

\* A record without a value, as a producer writes to delete a key
NoValue == Value("null", "", NoFields, 0)
Resting == [phase |-> "idle", at |-> 0]
KafkaInit ==
    /\ options \in Readers
    /\ clock = 0 /\ moves = 0
    /\ log = [p \in Partitions |-> <<>>]
    /\ committed = [p \in Partitions |-> 0]
    /\ owner = [p \in Partitions |-> NoWorker]
    /\ worker = [w \in Workers |-> [state |-> "idle", producer |-> FALSE]]
    /\ running = [w \in Workers |-> [p \in Partitions |-> Resting]]
    /\ outcome = [p \in Partitions |-> <<>>]

\* emit() of a peer, or a record of another producer
KafkaEmit(p) ==
    /\ Len(log[p]) < MaxLog
    /\ \E wire \in Records \cup {Sign(WrapEvent(Text("x")), options.secret, clock)} :
         log' = [log EXCEPT ![p] = Append(@, wire)]
    /\ outcome' = [outcome EXCEPT ![p] = Append(@, "none")]
    /\ UNCHANGED <<options, clock, committed, owner, worker, running, moves>>

\* listen(): producer, consumer, subscriptions, then the run
KafkaListen(w) ==
    /\ worker[w].state = "idle"
    /\ worker' = [worker EXCEPT ![w] = [state |-> "consuming", producer |-> TRUE]]
    /\ UNCHANGED <<options, clock, log, committed, owner, running, outcome, moves>>

\* The group gives a partition to a worker that consumes, at the committed offset
Assign(p, w) ==
    /\ worker[w].state = "consuming" /\ owner[p] # w
    /\ running[w][p].phase = "idle"
    /\ owner' = [owner EXCEPT ![p] = w]
    /\ running' = [running EXCEPT ![w][p].at = committed[p]]

\* The owner died or left, or its handler outlived the session timeout
Moves(p, w) ==
    /\ owner[p] \in Workers /\ worker[owner[p]].state \in {"consuming", "closing"}
       => moves < MaxMoves
    /\ moves' = IF owner[p] \in Workers /\ worker[owner[p]].state \in {"consuming", "closing"}
                THEN moves + 1 ELSE moves
    /\ Assign(p, w)
    /\ UNCHANGED <<options, clock, log, committed, worker, outcome>>

FetchUnawaited(w, p) ==   \* mutant: the next record is taken while a handler runs
    LET ahead == IF running[w][p].phase = "handling" THEN 2 ELSE 1
    IN  /\ owner[p] = w /\ worker[w].state \in {"consuming", "closing"}
        /\ running[w][p].phase \in {"idle", "handling"}
        /\ running[w][p].at + ahead <= Len(log[p])
        /\ running' = [running EXCEPT ![w][p] = [phase |-> "handling", at |-> @.at + ahead - 1]]
        /\ UNCHANGED <<options, clock, log, committed, owner, worker, outcome, moves>>

\* eachMessage() returned: kafkajs goes on behind the record
Done(w, p, what) ==
    /\ outcome' = [outcome EXCEPT ![p][running[w][p].at + 1] = what]
    /\ running' = [running EXCEPT ![w][p] = [phase |-> "idle", at |-> @.at + 1]]
    /\ UNCHANGED <<options, clock, log, committed, owner, worker, moves>>

\* eachMessage(): what a message of this topic meets first.  One without a value
\* is passed over before anything is awaited: nothing handles it, and no dead
\* letter is written.
Fetch(w, p) ==
    LET wire == log[p][running[w][p].at + 1]
        envelope == ReadWire(wire, options, clock)
    IN  /\ owner[p] = w /\ worker[w].state \in {"consuming", "closing"}
        /\ running[w][p].phase = "idle" /\ running[w][p].at < Len(log[p])
        /\ \/ wire = NoValue /\ Done(w, p, "skipped")
           \/ /\ wire # NoValue
              /\ running' = [running EXCEPT ![w][p].phase =
                                IF envelope.k = "evt" THEN "handling" ELSE "failed"]
              /\ UNCHANGED <<options, clock, log, committed, owner, worker, outcome, moves>>

HandlerEnds(w, p) ==
    /\ running[w][p].phase = "handling"
    /\ \/ Done(w, p, "handled")
       \/ /\ running' = [running EXCEPT ![w][p].phase = "failed"]
          /\ UNCHANGED <<options, clock, log, committed, owner, worker, outcome, moves>>

\* deadLetter(): the produce ends well, or in an error that is only logged
Rethrow(w, p) ==   \* mutant: the error goes back to kafkajs, which runs the record again
    /\ running[w][p].phase = "failed"
    /\ running' = [running EXCEPT ![w][p].phase = "idle"]
    /\ UNCHANGED <<options, clock, log, committed, owner, worker, outcome, moves>>

DeadLetter(w, p) ==
    /\ running[w][p].phase = "failed"
    /\ \/ ~options.deadLetter /\ Done(w, p, "dropped")
       \/ options.deadLetter /\ worker[w].producer /\ Done(w, p, "dead")
       \/ options.deadLetter /\ Done(w, p, "dead letter failed")

JobStep(w, p) == Fetch(w, p) \/ HandlerEnds(w, p) \/ DeadLetter(w, p)

\* kafkajs commits what eachMessage() has returned for, while it owns the partition
CommitFetched(w, p) ==   \* mutant: the record being handled counts as done
    /\ owner[p] = w /\ worker[w].state # "closed"
    /\ committed' = [committed EXCEPT ![p] =
           IF running[w][p].phase = "idle" THEN running[w][p].at ELSE running[w][p].at + 1]
    /\ UNCHANGED <<options, clock, log, owner, worker, running, outcome, moves>>

Commit(w, p) ==
    /\ owner[p] = w /\ worker[w].state # "closed"
    /\ committed' = [committed EXCEPT ![p] = running[w][p].at]
    /\ UNCHANGED <<options, clock, log, owner, worker, running, outcome, moves>>

\* close() waits for the handlers it finds, no longer than its timeout; the worker
\* goes on consuming meanwhile ...
KafkaClose(w) ==
    /\ worker[w].state \in {"idle", "consuming"}
    /\ worker' = [worker EXCEPT ![w].state = "closing"]
    /\ UNCHANGED <<options, clock, log, committed, owner, running, outcome, moves>>

\* ... then disconnects producer and consumer at once: the consumer lets the
\* message under way end, the producer is gone by then or not.
KafkaTeardown(w) ==
    /\ worker[w].state = "closing"
    /\ worker' = [worker EXCEPT ![w].state = "stopping"]
    /\ UNCHANGED <<options, clock, log, committed, owner, running, outcome, moves>>

ProducerGone(w) ==
    /\ worker[w].state \in {"stopping", "closed"} /\ worker[w].producer
    /\ worker' = [worker EXCEPT ![w].producer = FALSE]
    /\ UNCHANGED <<options, clock, log, committed, owner, running, outcome, moves>>

ConsumerGone(w) ==
    /\ worker[w].state = "stopping"
    /\ \A p \in Partitions : running[w][p].phase = "idle"
    /\ worker' = [worker EXCEPT ![w].state = "closed"]
    /\ owner' = [p \in Partitions |-> IF owner[p] = w THEN NoWorker ELSE owner[p]]
    /\ UNCHANGED <<options, clock, log, committed, running, outcome, moves>>

\* The process dies and is started again
Crash(w) ==
    /\ moves < MaxMoves /\ worker[w].state \notin {"idle", "closed"}
    /\ moves' = moves + 1
    /\ worker' = [worker EXCEPT ![w] = [state |-> "idle", producer |-> FALSE]]
    /\ running' = [running EXCEPT ![w] = [p \in Partitions |-> Resting]]
    /\ owner' = [p \in Partitions |-> IF owner[p] = w THEN NoWorker ELSE owner[p]]
    /\ UNCHANGED <<options, clock, log, committed, outcome>>

\* The records wait, for longer than a replay window
KafkaTick ==
    /\ clock < MaxClock /\ \E p \in Partitions : committed[p] < Len(log[p])
    /\ clock' = MaxClock
    /\ UNCHANGED <<options, log, committed, owner, worker, running, outcome, moves>>

KafkaNext ==
    \/ \E p \in Partitions : KafkaEmit(p)
    \/ \E w \in Workers :
         KafkaListen(w) \/ KafkaClose(w) \/ KafkaTeardown(w) \/ ProducerGone(w) \/ ConsumerGone(w)
           \/ Crash(w)
    \/ \E w \in Workers, p \in Partitions : Moves(p, w) \/ JobStep(w, p) \/ Commit(w, p)
    \/ KafkaTick

KafkaSpec == KafkaInit /\ [][KafkaNext]_kafkaVars

\* A worker's handlers settle (the transport puts no bound on them), a consumer
\* that disconnects leaves the group, and the group gives a partition without
\* owner to a worker that is there.
KafkaFairness ==
    /\ WF_kafkaVars(\E w \in Workers : ConsumerGone(w) \/ \E p \in Partitions : JobStep(w, p))
    /\ WF_kafkaVars(\E p \in Partitions, w \in Workers : owner[p] = NoWorker /\ Moves(p, w))

-----------------------------------------------------------------------------
(* Properties. *)

\* Whatever crashes, moves and close() do, an offset is committed only behind
\* records that have an outcome: handled, dead-lettered, given up because dead
\* letters are off or their produce failed, or passed over, which happens to
\* those without a value and to no other (kafka.transport.ts:122).
OffsetsAccounted ==
    \A p \in Partitions : \A o \in 1 .. committed[p] :
        /\ outcome[p][o] # "none"
        /\ outcome[p][o] = "skipped" <=> log[p][o] = NoValue

\* A record is taken up only when every earlier one of its partition has an
\* outcome, also by a worker that takes the partition over.
PartitionInOrder ==
    \A p \in Partitions, w \in Workers :
        running[w][p].phase # "idle" => \A o \in 1 .. running[w][p].at : outcome[p][o] # "none"

\* A record that cannot be handled does not hold up the ones behind it: while a
\* worker is there, every record gets an outcome.
PoisonDoesNotStall ==
    \A p \in Partitions, o \in 1 .. MaxLog :
        Len(log[p]) >= o ~>
            \/ Len(outcome[p]) >= o /\ outcome[p][o] # "none"
            \/ \A w \in Workers : worker[w].state # "consuming"
=============================================================================
