---------------------------- MODULE MCTransports -----------------------------
(***************************************************************************)
(* TLC instance for the transports that have no request/reply of their     *)
(* own at a broker: a behaviour is about the in-memory bus or about a      *)
(* Kafka consumer group; `part` says which.                                *)
(***************************************************************************)
EXTENDS MemoryTransport, KafkaTransport

CONSTANT Parts

VARIABLE part
mcVars == <<part, memoryVars, kafkaVars>>

\* Transports set up alike, with and without secrets, and a mixed fleet
Plain == [secret |-> "none", legacy |-> TRUE, deadLetter |-> TRUE, maxBytes |-> 5, maxAge |-> 1]
Signed == [Plain EXCEPT !.secret = "s1"]
MCSetups ==
    {[client |-> Signed, server |-> s] :
        s \in {Plain, Signed, [Signed EXCEPT !.secret = "s2"],
               [Plain EXCEPT !.legacy = FALSE, !.deadLetter = FALSE]}} \cup
    {[client |-> Plain, server |-> s] : s \in {Plain, Signed}}

\* Payloads: plain, too large once signed, with the members of a legacy request,
\* of an envelope, or a reply address that is not text
Request == Obj([replyTo |-> Text("client"), data |-> Text("x")])
Lookalike == Obj([k |-> Text("rpc"), d |-> Text("x"), r |-> Text("client")])
NoAddress == Obj([replyTo |-> Number])
MCPayloads ==
    {[event |-> p[1], call |-> p[2], old |-> p[3]] :
        p \in {<<Request, Text("x"), Request>>, <<Lookalike, Request, Lookalike>>,
               <<Blob(4), Lookalike, NoAddress>>}}
MCSenderOf == [event |-> "client", call |-> "client"]

MCRecords == {NoValue, Sign(WrapRpc(Text("x"), "client", "c", NoFields), "s1", 0)}
MCReaders == {Signed, [Signed EXCEPT !.deadLetter = FALSE]}

MCInit ==
    /\ part \in Parts
    /\ MemoryInit
    /\ KafkaInit
    /\ part = "memory" => options = CHOOSE o \in Readers : TRUE
    /\ part = "kafka" => /\ setup = CHOOSE s \in Setups : TRUE
                         /\ payload = CHOOSE p \in Payloads : TRUE

MCNext ==
    \/ part = "memory" /\ MemoryNext /\ UNCHANGED <<part, kafkaVars>>
    \/ part = "kafka" /\ KafkaNext /\ UNCHANGED <<part, memoryVars>>

MCSpec == MCInit /\ [][MCNext]_mcVars /\ KafkaFairness
=============================================================================
