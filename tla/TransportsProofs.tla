--------------------------- MODULE TransportsProofs ---------------------------
(***************************************************************************)
(* The safety invariants of the in-process transport and of the Kafka      *)
(* transport hold for every number of transports, messages, workers and    *)
(* partitions.                                                             *)
(*                                                                         *)
(* In-process: what a reader makes of a wire is settled once, in           *)
(* EventAsRead and RequestAsRead, and the rest is that a handler is run    *)
(* once on it.  For that a step must know that a microtask still to run    *)
(* has not run, that no two are for one listener and message, and that an  *)
(* inbox is called with the reply of a handler that answered: BusIInv.     *)
(*                                                                         *)
(* Kafka: OffsetsAccounted and PartitionInOrder are one fact seen from two *)
(* sides: what lies before a position, committed or a worker's, has an     *)
(* outcome.  A commit makes the one from the other and a move of the       *)
(* partition the other from the one, so neither is inductive without       *)
(* PositionsAccounted.  That what is passed over has no value              *)
(* (SkippedIsEmpty) needs that a message under way has one.                *)
(***************************************************************************)
EXTENDS MemoryTransport, KafkaTransport, SequenceTheorems, TLAPS

-----------------------------------------------------------------------------
(* The wire envelope (WireEnvelope). *)

\* What a reader makes of an event, whatever its payload looks like: it is refused, or
\* it is the event that was sent, or (signed by a secret the reader does not have, and
\* read as a message of an older peer) some event without an address.
LEMMA EventAsRead ==
  ASSUME NEW data, NEW secret, NEW reader, NEW e,
         e = ReadWire(Sign(WrapEvent(data), secret, 0), reader, 0)
  PROVE  \/ e.k = "refused" /\ e.c = "none"
         \/ secret = reader.secret /\ e = Envelope("evt", data, "none", "none", NoFields)
         \/ /\ reader.legacy /\ secret # reader.secret
            /\ e.k = "evt" /\ e.r = "none" /\ e.c = "none"
<1> DEFINE w == WrapEvent(data)
           v == Sign(w, secret, 0)
<1>1. /\ w.type = "object" /\ DOMAIN w.fields = {"k", "d"}
      /\ Field(w, "k") = Text("evt") /\ Field(w, "d") = data
  BY DEF WrapEvent, Obj, Field, Value
<1>2. CASE VerifyWire(v, reader, 0) # ""
  BY <1>2 DEF ReadWire, Refused, Envelope
<1>3. CASE VerifyWire(v, reader, 0) = "" /\ reader.secret = "none" /\ secret = "none"
  BY <1>1, <1>3 DEF ReadWire, Sign, Unwrapped, ParseWire
<1>4. CASE VerifyWire(v, reader, 0) = "" /\ reader.secret = "none" /\ secret # "none"
  <2>1. v.type = "signed" /\ DOMAIN v.fields = {"payload"}
    BY <1>4 DEF Sign, Value
  <2>2. Field(v, "k") = Undefined
    BY <2>1 DEF Field
  <2>3. Text("evt") # Undefined /\ Text("rpc") # Undefined
    BY DEF Text, Value, Undefined
  <2>4. e = ParseWire(v, reader.legacy)
    BY <1>4 DEF ReadWire, Unwrapped
  <2> HIDE DEF v
  <2>5. e = IF reader.legacy THEN Envelope("evt", v, "none", "none", NoFields)
            ELSE Refused("invalid_envelope")
    BY <2>1, <2>2, <2>3, <2>4 DEF ParseWire, ClassifyLegacy
  <2>6. \/ e.k = "evt" /\ e.r = "none" /\ e.c = "none" /\ reader.legacy
        \/ e.k = "refused" /\ e.c = "none"
    BY <2>5 DEF Envelope, Refused
  <2> QED BY <1>4, <2>6
<1>5. CASE VerifyWire(v, reader, 0) = "" /\ reader.secret # "none"
  <2>1. v.type = "signed" /\ v.is = reader.secret
    BY <1>5 DEF VerifyWire, VerifySig
  <2>2. secret = reader.secret /\ v.fields.payload = w
    BY <1>1, <1>5, <2>1 DEF Sign, Value
  <2> HIDE DEF v, w
  <2>3. e = ParseWire(w, reader.legacy)
    BY <1>5, <2>2 DEF ReadWire, Unwrapped, v, w
  <2> QED BY <1>1, <2>2, <2>3 DEF ParseWire
<1> QED BY <1>2, <1>3, <1>4, <1>5

\* A request likewise.
LEMMA RequestAsRead ==
  ASSUME NEW data, NEW secret, NEW reader, NEW from, NEW id, NEW e,
         e = ReadWire(Sign(WrapRpc(data, from, id, [correlation |-> Text(id)]), secret, 0), reader, 0)
  PROVE  \/ e.k = "refused" /\ e.c = "none"
         \/ /\ secret = reader.secret
            /\ e = Envelope("rpc", data, from, id, [correlation |-> Text(id)])
         \/ /\ reader.legacy /\ secret # reader.secret
            /\ e.k = "evt" /\ e.r = "none" /\ e.c = "none"
<1> DEFINE headers == [correlation |-> Text(id)]
           w == WrapRpc(data, from, id, headers)
           v == Sign(w, secret, 0)
<1>1. /\ w.type = "object" /\ DOMAIN w.fields = {"k", "d", "r", "c", "h"}
      /\ Field(w, "k") = Text("rpc") /\ Field(w, "d") = data /\ Field(w, "r") = Text(from)
      /\ Field(w, "c") = Text(id) /\ Field(w, "h") = Obj(headers)
  BY DEF WrapRpc, Obj, Field, Value
<1>2. AsString(Text(from)) = from /\ AsString(Text(id)) = id /\ Text("rpc") # Text("evt")
  BY DEF AsString, Text, Value
<1>3. AsHeaders(Obj(headers)) = headers
  <2>1. /\ Obj(headers).fields = headers /\ Obj(headers).type = "object"
        /\ DOMAIN headers = {"correlation"} /\ headers["correlation"].type = "string"
    BY DEF Obj, Value, Text
  <2>2. {g \in DOMAIN headers : IsRecord(Obj(headers)) /\ headers[g].type = "string"} = {"correlation"}
    BY <2>1 DEF IsRecord
  <2>3. AsHeaders(Obj(headers)) = [f \in {"correlation"} |-> headers[f]]
    BY <2>1, <2>2 DEF AsHeaders
  <2> QED BY <2>1, <2>3
<1>4. ParseWire(w, reader.legacy) = Envelope("rpc", data, from, id, headers)
  <2> HIDE DEF w, headers
  <2> QED BY <1>1, <1>2, <1>3 DEF ParseWire, RpcOf
<1>5. CASE VerifyWire(v, reader, 0) # ""
  BY <1>5 DEF ReadWire, Refused, Envelope
<1>6. CASE VerifyWire(v, reader, 0) = "" /\ reader.secret = "none" /\ secret = "none"
  <2> HIDE DEF w, headers
  <2>1. e = ParseWire(w, reader.legacy)
    BY <1>6 DEF ReadWire, Sign, Unwrapped, w, headers
  <2> QED BY <1>4, <1>6, <2>1 DEF headers
<1>7. CASE VerifyWire(v, reader, 0) = "" /\ reader.secret = "none" /\ secret # "none"
  <2>1. v.type = "signed" /\ DOMAIN v.fields = {"payload"}
    BY <1>7 DEF Sign, Value
  <2>2. Field(v, "k") = Undefined
    BY <2>1 DEF Field
  <2>3. Text("evt") # Undefined /\ Text("rpc") # Undefined
    BY DEF Text, Value, Undefined
  <2>4. e = ParseWire(v, reader.legacy)
    BY <1>7 DEF ReadWire, Unwrapped
  <2> HIDE DEF v
  <2>5. e = IF reader.legacy THEN Envelope("evt", v, "none", "none", NoFields)
            ELSE Refused("invalid_envelope")
    BY <2>1, <2>2, <2>3, <2>4 DEF ParseWire, ClassifyLegacy
  <2>6. \/ e.k = "evt" /\ e.r = "none" /\ e.c = "none" /\ reader.legacy
        \/ e.k = "refused" /\ e.c = "none"
    BY <2>5 DEF Envelope, Refused
  <2> QED BY <1>7, <2>6
<1>8. CASE VerifyWire(v, reader, 0) = "" /\ reader.secret # "none"
  <2>1. v.type = "signed" /\ v.is = reader.secret
    BY <1>8 DEF VerifyWire, VerifySig
  <2>2. w.type # "signed"
    BY <1>1
  <2> HIDE DEF w
  <2>3. secret = reader.secret /\ v.fields.payload = w
    BY <1>8, <2>1, <2>2 DEF Sign, Value
  <2> HIDE DEF v
  <2>4. e = ParseWire(w, reader.legacy)
    BY <1>8, <2>3 DEF ReadWire, Unwrapped, v, w
  <2> QED BY <1>4, <2>3, <2>4
<1> QED BY <1>5, <1>6, <1>7, <1>8

\* What passes the check of a reader comes from a sender with its secret, or the reader
\* has none and finds no member of the payload.
LEMMA PayloadAsRead ==
  ASSUME NEW w, NEW secret, NEW reader, w.type = "object",
         VerifyWire(Sign(w, secret, 0), reader, 0) = ""
  PROVE  \/ secret = reader.secret /\ Unwrapped(Sign(w, secret, 0), reader) = w
         \/ Field(Unwrapped(Sign(w, secret, 0), reader), "correlationId") = Undefined
<1> DEFINE v == Sign(w, secret, 0)
<1>1. CASE reader.secret = "none" /\ secret = "none"
  BY <1>1 DEF Sign, Unwrapped
<1>2. CASE reader.secret = "none" /\ secret # "none"
  <2>1. DOMAIN v.fields = {"payload"}
    BY <1>2 DEF Sign, Value
  <2>2. Unwrapped(v, reader) = v
    BY <1>2 DEF Unwrapped
  <2> HIDE DEF v
  <2>3. Field(v, "correlationId") = Undefined
    BY <2>1 DEF Field
  <2> QED BY <2>2, <2>3 DEF v
<1>3. CASE reader.secret # "none"
  <2>1. v.type = "signed" /\ v.is = reader.secret
    BY <1>3 DEF VerifyWire, VerifySig
  <2>2. secret = reader.secret /\ v.fields.payload = w
    BY <1>3, <2>1 DEF Sign, Value
  <2> QED BY <1>3, <2>2 DEF Unwrapped
<1> QED BY <1>1, <1>2, <1>3

-----------------------------------------------------------------------------
(* The in-process transport (MemoryTransport). *)

Unsent == {"idle", "connecting", "addressed"}
Calls == Unsent \cup {"failed", "sent", "waiting", "answered"}
JobPhases == {"none", "running", "dead", "dropped", "answered", "unanswered", "handled", "logged"}

\* What is put on the topic for a message, what a transport reads, what it replies
WireOf(m) ==
    IF m \in Legacy THEN payload[m]
    ELSE Sign(IF m \in Emits THEN WrapEvent(payload[m])
              ELSE WrapRpc(payload[m], SenderOf[m], m, [correlation |-> Text(m)]),
              setup[SenderOf[m]].secret, 0)
Read(n, m) == ReadWire(WireOf(m), setup[n], 0)
ReplyOf(n, m) ==
    Sign(Obj([correlationId |-> Text(IF Read(n, m).c = "none" THEN "" ELSE Read(n, m).c),
              data |-> Text("result")]), setup[n].secret, 0)

Envelopes == {NoJob.envelope} \cup {Read(n, m) : n \in Transports, m \in Messages}
BusWires == {WireOf(m) : m \in Messages} \cup {ReplyOf(n, m) : n \in Transports, m \in Messages}
Publishes == [of : Messages, wire : BusWires, to : SUBSET (Transports \X Nat)]
Jobs == [phase : JobPhases, runs : Nat, envelope : Envelopes]
TransportStates ==
    [state : {"idle", "connected", "closing", "closed"}, handlers : BOOLEAN, topics : Nat,
     inbox : BOOLEAN, listening : {"idle", "connecting", "listening", "failed"}]

MemoryTypeOK ==
    /\ setup \in Setups /\ payload \in Payloads
    /\ transport \in [Transports -> TransportStates]
    /\ ticks \in Seq(Publishes)
    /\ call \in [Messages -> Calls]
    /\ job \in [Transports -> [Messages -> Jobs]]

\* listen() and connect() subscribe the topics once between them.
TopicsOnce ==
    \A n \in Transports : /\ transport[n].topics \in {0, 1}
                          /\ transport[n].state = "idle" => transport[n].topics = 0

\* listen() waits for a connect() that found the transport open.
ListenerConnected ==
    \A n \in Transports : transport[n].listening = "connecting" => transport[n].state # "idle"

\* A listener about to be called for a message has not been called for it, and will be
\* by one microtask only; an inbox is about to be called with the reply of a handler
\* that has answered.
TopicTick ==
    \A i \in 1 .. Len(ticks) : \A l \in ticks[i].to : ~OfInbox(l) =>
        /\ l[2] = 1 /\ ticks[i].wire = WireOf(ticks[i].of)
        /\ call[ticks[i].of] \notin Unsent
        /\ job[l[1]][ticks[i].of] = NoJob
CalledOnce ==
    \A i, k \in 1 .. Len(ticks) : \A l \in ticks[i].to \cap ticks[k].to :
        ~OfInbox(l) /\ ticks[i].of = ticks[k].of => i = k
ReplyTick ==
    \A i \in 1 .. Len(ticks) : \A l \in ticks[i].to : OfInbox(l) =>
        \E n \in Transports : /\ ticks[i].wire = ReplyOf(n, ticks[i].of)
                              /\ job[n][ticks[i].of].phase = "answered"

\* A transport runs its handler once for a message, on what it read.
RunsOnce ==
    \A n \in Transports, m \in Messages :
        \/ job[n][m] = NoJob
        \/ /\ job[n][m].runs = 1 /\ job[n][m].envelope = Read(n, m)
           /\ job[n][m].phase # "none" /\ call[m] \notin Unsent

BusIInv == MemoryTypeOK /\ TopicTick /\ CalledOnce /\ ReplyTick /\ RunsOnce
MemoryIInv == BusIInv /\ TopicsOnce /\ ListenerConnected /\ NothingVanishes

\* What a transport reads of an emit or a send: the message, unless their secrets differ.
LEMMA ReadAsSent ==
  ASSUME NEW n \in Transports, NEW m \in Emits \cup Sends
  PROVE  \/ Read(n, m).k = "refused" /\ Read(n, m).c = "none"
         \/ /\ setup[SenderOf[m]].secret = setup[n].secret
            /\ Read(n, m) = IF m \in Emits
                            THEN Envelope("evt", payload[m], "none", "none", NoFields)
                            ELSE Envelope("rpc", payload[m], SenderOf[m], m,
                                          [correlation |-> Text(m)])
         \/ /\ setup[n].legacy /\ setup[SenderOf[m]].secret # setup[n].secret
            /\ Read(n, m).k = "evt" /\ Read(n, m).r = "none" /\ Read(n, m).c = "none"
<1>1. CASE m \in Emits
  <2>1. Read(n, m) = ReadWire(Sign(WrapEvent(payload[m]), setup[SenderOf[m]].secret, 0), setup[n], 0)
    BY <1>1, NamesAssumption DEF Read, WireOf
  <2> QED BY <1>1, <2>1, EventAsRead
<1>2. CASE m \notin Emits
  <2>1. Read(n, m) = ReadWire(Sign(WrapRpc(payload[m], SenderOf[m], m, [correlation |-> Text(m)]),
                                   setup[SenderOf[m]].secret, 0), setup[n], 0)
    BY <1>2, NamesAssumption DEF Read, WireOf
  <2> QED BY <1>2, <2>1, RequestAsRead
<1> QED BY <1>1, <1>2

\* The setup and the payloads never change, so what is read and replied does not.
LEMMA Static ==
  ASSUME UNCHANGED <<setup, payload>>
  PROVE  /\ \A m \in Messages : WireOf(m)' = WireOf(m)
         /\ \A n \in Transports, m \in Messages :
              Read(n, m)' = Read(n, m) /\ ReplyOf(n, m)' = ReplyOf(n, m)
         /\ Publishes' = Publishes /\ Jobs' = Jobs
  BY DEF WireOf, Read, ReplyOf, Publishes, BusWires, Jobs, Envelopes

LEMMA TickTyped ==
  ASSUME ticks \in Seq(Publishes), NEW i \in 1 .. Len(ticks)
  PROVE  /\ ticks[i] \in Publishes /\ ticks[i].of \in Messages /\ ticks[i].wire \in BusWires
         /\ ticks[i].to \subseteq Transports \X Nat
<1>1. ticks[i] \in Publishes
  BY ElementOfSeq
<1> QED BY <1>1 DEF Publishes

\* A step that neither publishes nor calls nor ends a handler, and takes no message
\* back: every conjunct about microtasks and jobs stays.
LEMMA QuietKeepsBus ==
  ASSUME BusIInv, UNCHANGED <<setup, payload, ticks, job>>,
         transport' \in [Transports -> TransportStates], call' \in [Messages -> Calls],
         \A m \in Messages : call[m] \notin Unsent => call'[m] \notin Unsent
  PROVE  BusIInv'
<1>1. MemoryTypeOK'
  BY Static DEF BusIInv, MemoryTypeOK
<1>2. \A i \in 1 .. Len(ticks) : ticks[i].of \in Messages
  BY TickTyped DEF BusIInv, MemoryTypeOK
<1>3. TopicTick' /\ CalledOnce'
  BY <1>2, Static DEF BusIInv, TopicTick, CalledOnce
<1>4. ReplyTick'
  BY <1>2, Static DEF BusIInv, ReplyTick
<1>5. RunsOnce'
  BY Static DEF BusIInv, RunsOnce
<1> QED BY <1>1, <1>3, <1>4, <1>5 DEF BusIInv

\* A microtask runs: what remains are entries there were before, in their order.
LEMMA CalledTicks ==
  ASSUME ticks \in Seq(Publishes), NEW l, Called(l)
  PROVE  /\ ticks' \in Seq(Publishes)
         /\ \E d \in {0, 1} :
              \A i \in 1 .. Len(ticks') :
                /\ i + d \in 1 .. Len(ticks)
                /\ ticks'[i].of = ticks[i + d].of /\ ticks'[i].wire = ticks[i + d].wire
                /\ ticks'[i].to \subseteq ticks[i + d].to
                /\ i + d = 1 => l \notin ticks'[i].to
<1> DEFINE h == Head(ticks)
<1>1. /\ ticks # <<>> /\ Len(ticks) \in Nat /\ 1 \in 1 .. Len(ticks) /\ h = ticks[1]
      /\ h \in Publishes
  BY HeadTailProperties, LenProperties, EmptySeq, ElementOfSeq DEF Called
<1>2. CASE h.to = {l}
  <2>1. ticks' = Tail(ticks)
    BY <1>2 DEF Called
  <2>2. /\ ticks' \in Seq(Publishes) /\ Len(ticks') = Len(ticks) - 1
        /\ \A i \in 1 .. Len(ticks') : ticks'[i] = ticks[i + 1]
    BY <1>1, <2>1, HeadTailProperties
  <2> QED BY <1>1, <2>2
<1>3. CASE h.to # {l}
  <2> DEFINE rest == [h EXCEPT !.to = h.to \ {l}]
  <2>1. ticks' = [ticks EXCEPT ![1] = rest]
    BY <1>1, <1>3 DEF Called
  <2>2. /\ rest \in Publishes /\ rest.of = h.of /\ rest.wire = h.wire
        /\ rest.to = h.to \ {l}
    BY <1>1 DEF Publishes
  <2> HIDE DEF rest
  <2>3. /\ ticks' \in Seq(Publishes) /\ Len(ticks') = Len(ticks)
        /\ \A i \in 1 .. Len(ticks) : ticks'[i] = IF i = 1 THEN rest ELSE ticks[i]
    BY <1>1, <2>1, <2>2, ExceptSeq
  <2>4. \A i \in 1 .. Len(ticks') :
          /\ i + 0 \in 1 .. Len(ticks)
          /\ ticks'[i].of = ticks[i + 0].of /\ ticks'[i].wire = ticks[i + 0].wire
          /\ ticks'[i].to \subseteq ticks[i + 0].to
          /\ i + 0 = 1 => l \notin ticks'[i].to
    BY <1>1, <2>2, <2>3
  <2> QED BY <2>3, <2>4
<1> QED BY <1>2, <1>3

\* A publish: the entries there were, and one for the listeners if there are any.
LEMMA PublishTicks ==
  ASSUME ticks \in Seq(Publishes), NEW m \in Messages, NEW wire \in BusWires,
         NEW listeners \in SUBSET (Transports \X Nat), Publish(m, wire, listeners)
  PROVE  /\ ticks' \in Seq(Publishes)
         /\ \A i \in 1 .. Len(ticks') :
              \/ i \in 1 .. Len(ticks) /\ ticks'[i] = ticks[i]
              \/ /\ i = Len(ticks) + 1
                 /\ ticks'[i].of = m /\ ticks'[i].wire = wire /\ ticks'[i].to = listeners
<1>1. CASE listeners = {}
  BY <1>1 DEF Publish
<1>2. CASE listeners # {}
  <2> DEFINE new == [of |-> m, wire |-> wire, to |-> listeners]
  <2>1. ticks' = Append(ticks, new)
    BY <1>2 DEF Publish
  <2>2. new \in Publishes /\ new.of = m /\ new.wire = wire /\ new.to = listeners
    BY DEF Publishes
  <2> HIDE DEF new
  <2>3. /\ ticks' \in Seq(Publishes) /\ Len(ticks') = Len(ticks) + 1 /\ Len(ticks) \in Nat
        /\ \A i \in 1 .. Len(ticks) : ticks'[i] = ticks[i]
        /\ ticks'[Len(ticks) + 1] = new
    BY <2>1, <2>2, AppendProperties, LenProperties
  <2> QED BY <2>2, <2>3
<1> QED BY <1>1, <1>2

\* A handler ends and publishes nothing, or its reply to an inbox.
LEMMA EndKeepsBus ==
  ASSUME BusIInv, UNCHANGED <<setup, payload, transport, call>>,
         NEW n \in Transports, NEW m \in Messages, job[n][m].phase = "running",
         NEW phase \in JobPhases \ {"none"}, job' = [job EXCEPT ![n][m].phase = phase],
         ticks' \in Seq(Publishes),
         \A i \in 1 .. Len(ticks') :
           \/ i \in 1 .. Len(ticks) /\ ticks'[i] = ticks[i]
           \/ /\ \A l \in ticks'[i].to : OfInbox(l)
              /\ ticks'[i].of = m /\ ticks'[i].wire = ReplyOf(n, m) /\ phase = "answered"
  PROVE  BusIInv'
<1>1. job \in [Transports -> [Messages -> Jobs]]
  BY DEF BusIInv, MemoryTypeOK
<1>2. /\ \A o \in Transports, c \in Messages : <<o, c>> # <<n, m>> => job'[o][c] = job[o][c]
      /\ job' \in [Transports -> [Messages -> Jobs]]
      /\ job'[n][m].phase = phase /\ job'[n][m].runs = job[n][m].runs
      /\ job'[n][m].envelope = job[n][m].envelope
  BY <1>1 DEF Jobs
<1>3. job[n][m] # NoJob
  BY DEF NoJob
<1>4. \A i \in 1 .. Len(ticks) :
        ticks[i].of \in Messages /\ ticks[i].to \subseteq Transports \X Nat
  BY TickTyped DEF BusIInv, MemoryTypeOK
<1>5. MemoryTypeOK'
  BY <1>2, Static DEF BusIInv, MemoryTypeOK
<1>6. TopicTick'
  BY <1>2, <1>3, <1>4, Static DEF BusIInv, TopicTick
<1>7. CalledOnce'
  BY DEF BusIInv, CalledOnce
<1>8. ReplyTick'
  <2>1. \A o \in Transports, c \in Messages :
          job[o][c].phase = "answered" => job'[o][c].phase = "answered"
    BY <1>2
  <2>2. ASSUME NEW i \in 1 .. Len(ticks'), NEW h \in ticks'[i].to, OfInbox(h)
        PROVE  \E o \in Transports : /\ ticks'[i].wire = ReplyOf(o, ticks'[i].of)
                                     /\ job'[o][ticks'[i].of].phase = "answered"
    <3>1. CASE i \in 1 .. Len(ticks) /\ ticks'[i] = ticks[i]
      <4>1. PICK o \in Transports : /\ ticks[i].wire = ReplyOf(o, ticks[i].of)
                                   /\ job[o][ticks[i].of].phase = "answered"
        BY <2>2, <3>1 DEF BusIInv, ReplyTick
      <4> QED BY <1>4, <2>1, <3>1, <4>1
    <3>2. CASE ticks'[i].of = m /\ ticks'[i].wire = ReplyOf(n, m) /\ phase = "answered"
      BY <1>2, <3>2
    <3> QED BY <3>1, <3>2
  <2>3. \A i \in 1 .. Len(ticks') : ticks'[i].of \in Messages
    BY <1>4
  <2> QED BY <2>2, <2>3, Static DEF ReplyTick, OfInbox
<1>9. RunsOnce'
  BY <1>2, <1>3, Static DEF BusIInv, RunsOnce
<1> QED BY <1>5, <1>6, <1>7, <1>8, <1>9 DEF BusIInv

\* emit(), send() and an older peer put a message on the topic that was not there before.
LEMMA TopicPublishKeepsBus ==
  ASSUME BusIInv, TopicsOnce, UNCHANGED <<setup, payload, transport, job>>,
         NEW m \in Messages, call[m] \in Unsent,
         NEW status \in Calls \ Unsent, call' = [call EXCEPT ![m] = status],
         Publish(m, WireOf(m), TopicListeners)
  PROVE  BusIInv'
<1>1. TopicListeners \in SUBSET (Transports \X Nat) /\ \A l \in TopicListeners : l[2] = 1
  BY DEF TopicListeners, TopicsOnce
<1>2. WireOf(m) \in BusWires /\ ticks \in Seq(Publishes)
  BY DEF BusWires, BusIInv, MemoryTypeOK
<1>3. /\ ticks' \in Seq(Publishes)
      /\ \A i \in 1 .. Len(ticks') :
           \/ i \in 1 .. Len(ticks) /\ ticks'[i] = ticks[i]
           \/ /\ i = Len(ticks) + 1
              /\ ticks'[i].of = m /\ ticks'[i].wire = WireOf(m) /\ ticks'[i].to = TopicListeners
  BY <1>1, <1>2, PublishTicks
<1>4. \A i \in 1 .. Len(ticks) :
        ticks[i].of \in Messages /\ ticks[i].to \subseteq Transports \X Nat
  BY <1>2, TickTyped
<1>5. /\ call' \in [Messages -> Calls]
      /\ \A c \in Messages : call[c] \notin Unsent \/ c = m => call'[c] \notin Unsent
  BY DEF BusIInv, MemoryTypeOK
<1>6. \A n \in Transports : job[n][m] = NoJob
  BY DEF BusIInv, RunsOnce
<1>7. \A i \in 1 .. Len(ticks) : \A l \in ticks[i].to : ~OfInbox(l) => ticks[i].of # m
  BY DEF BusIInv, TopicTick
<1>8. MemoryTypeOK'
  BY <1>3, <1>5, Static DEF BusIInv, MemoryTypeOK
<1>9. TopicTick'
  BY <1>1, <1>3, <1>4, <1>5, <1>6, Static DEF BusIInv, TopicTick
<1>10. CalledOnce'
  BY <1>3, <1>7 DEF BusIInv, CalledOnce
<1>11. ReplyTick'
  BY <1>1, <1>3, <1>4, Static DEF BusIInv, ReplyTick, OfInbox
<1>12. RunsOnce'
  BY <1>5, Static DEF BusIInv, RunsOnce
<1> QED BY <1>8, <1>9, <1>10, <1>11, <1>12 DEF BusIInv

\* A transport is called for a message: for the first time, with what was sent.
LEMMA OnServerMessageKeepsBus ==
  ASSUME BusIInv, NEW l \in Head(ticks).to, OnServerMessage(l)
  PROVE  /\ BusIInv'
         /\ \A n \in Transports, m \in Messages :
              \/ job'[n][m] = job[n][m]
              \/ /\ job[n][m] = NoJob
                 /\ job'[n][m].phase = IF Read(n, m).k = "refused" THEN DeadLettered(n) ELSE "running"
<1> DEFINE n == l[1]
           m == Head(ticks).of
           envelope == ReadWire(Head(ticks).wire, setup[n], 0)
           phase == IF envelope.k = "refused" THEN DeadLettered(n) ELSE "running"
<1>1. ticks \in Seq(Publishes) /\ job \in [Transports -> [Messages -> Jobs]]
  BY DEF BusIInv, MemoryTypeOK
<1>2. /\ 1 \in 1 .. Len(ticks) /\ Head(ticks) = ticks[1] /\ ticks # <<>>
  BY <1>1, EmptySeq, LenProperties DEF OnServerMessage, Called
<1>3. m \in Messages /\ n \in Transports /\ l = <<n, l[2]>> /\ ticks[1].to \subseteq Transports \X Nat
  BY <1>1, <1>2, TickTyped
<1>4. /\ l[2] = 1 /\ Head(ticks).wire = WireOf(m) /\ call[m] \notin Unsent /\ job[n][m] = NoJob
  BY <1>2 DEF OnServerMessage, BusIInv, TopicTick
<1>5. envelope = Read(n, m)
  BY <1>4 DEF Read
<1>6. job' = [job EXCEPT ![n][m] = [phase |-> phase, runs |-> 1, envelope |-> Read(n, m)]]
  <2>1. job[n][m].runs + 1 = 1
    BY <1>4 DEF NoJob
  <2> QED BY <1>3, <1>5, <2>1 DEF OnServerMessage
<1>7. phase \in JobPhases \ {"none"}
  BY DEF JobPhases, DeadLettered
<1>8. UNCHANGED <<setup, payload, transport, call>>
  BY DEF OnServerMessage
<1>9. PICK d \in {0, 1} :
        \A i \in 1 .. Len(ticks') :
          /\ i + d \in 1 .. Len(ticks)
          /\ ticks'[i].of = ticks[i + d].of /\ ticks'[i].wire = ticks[i + d].wire
          /\ ticks'[i].to \subseteq ticks[i + d].to
          /\ i + d = 1 => l \notin ticks'[i].to
  BY <1>1, CalledTicks DEF OnServerMessage
<1>10. ticks' \in Seq(Publishes) /\ Len(ticks') \in Nat
  BY <1>1, CalledTicks, LenProperties DEF OnServerMessage
<1> HIDE DEF n, m, envelope, phase
<1>11. /\ job' \in [Transports -> [Messages -> Jobs]]
       /\ job'[n][m] = [phase |-> phase, runs |-> 1, envelope |-> Read(n, m)]
       /\ \A o \in Transports, c \in Messages : <<o, c>> # <<n, m>> => job'[o][c] = job[o][c]
  BY <1>1, <1>3, <1>6, <1>7 DEF Jobs, Envelopes
<1>12. MemoryTypeOK'
  BY <1>8, <1>10, <1>11, Static DEF BusIInv, MemoryTypeOK
<1>13. \A i \in 1 .. Len(ticks) :
         ticks[i].of \in Messages /\ ticks[i].to \subseteq Transports \X Nat
  BY <1>1, TickTyped
<1>14. TopicTick'
  <2> SUFFICES ASSUME NEW i \in 1 .. Len(ticks'), NEW h \in ticks'[i].to, ~OfInbox(h)
               PROVE  /\ h[2] = 1 /\ ticks'[i].wire = WireOf(ticks'[i].of)
                      /\ call[ticks'[i].of] \notin Unsent
                      /\ job'[h[1]][ticks'[i].of] = NoJob
    BY <1>8, <1>9, <1>13, Static DEF TopicTick, OfInbox
  <2>1. /\ h[2] = 1 /\ ticks'[i].wire = WireOf(ticks'[i].of) /\ call[ticks'[i].of] \notin Unsent
        /\ job[h[1]][ticks'[i].of] = NoJob /\ ticks'[i].of \in Messages
        /\ h = <<h[1], h[2]>> /\ h[1] \in Transports
    BY <1>9, <1>13 DEF BusIInv, TopicTick
  <2>2. ASSUME h[1] = n, ticks'[i].of = m PROVE FALSE
    <3>1. h = l
      BY <1>3, <1>4, <2>1, <2>2
    <3>2. i + d = 1
      BY <1>2, <1>9, <2>2, <3>1 DEF BusIInv, CalledOnce, m
    <3> QED BY <1>9, <3>1, <3>2
  <2> QED BY <1>11, <2>1, <2>2
<1>15. CalledOnce'
  <2> SUFFICES ASSUME NEW i \in 1 .. Len(ticks'), NEW k \in 1 .. Len(ticks'),
                      NEW h \in ticks'[i].to \cap ticks'[k].to, ~OfInbox(h),
                      ticks'[i].of = ticks'[k].of
               PROVE  i = k
    BY DEF CalledOnce, OfInbox
  <2>1. i + d = k + d
    BY <1>9 DEF BusIInv, CalledOnce
  <2> QED BY <2>1
<1>16. ReplyTick'
  <2>1. \A o \in Transports, c \in Messages :
          job[o][c].phase = "answered" => job'[o][c].phase = "answered"
    BY <1>4, <1>11 DEF NoJob
  <2>2. ASSUME NEW i \in 1 .. Len(ticks'), NEW h \in ticks'[i].to, OfInbox(h)
        PROVE  \E o \in Transports : /\ ticks'[i].wire = ReplyOf(o, ticks'[i].of)
                                     /\ job'[o][ticks'[i].of].phase = "answered"
    <3>1. PICK o \in Transports : /\ ticks[i + d].wire = ReplyOf(o, ticks[i + d].of)
                                 /\ job[o][ticks[i + d].of].phase = "answered"
      BY <1>9, <2>2 DEF BusIInv, ReplyTick
    <3> QED BY <1>9, <1>13, <2>1, <3>1
  <2>3. \A i \in 1 .. Len(ticks') : ticks'[i].of \in Messages
    BY <1>9, <1>13
  <2> QED BY <1>8, <2>2, <2>3, Static DEF ReplyTick, OfInbox
<1>17. RunsOnce'
  BY <1>4, <1>7, <1>8, <1>11, Static DEF BusIInv, RunsOnce
<1>18. \A o \in Transports, c \in Messages :
         \/ job'[o][c] = job[o][c]
         \/ /\ job[o][c] = NoJob
            /\ job'[o][c].phase = IF Read(o, c).k = "refused" THEN DeadLettered(o) ELSE "running"
  BY <1>4, <1>5, <1>11 DEF phase
<1> QED BY <1>12, <1>14, <1>15, <1>16, <1>17, <1>18 DEF BusIInv

\* An inbox is called: a call that is answered then was answered by a handler of a
\* transport with the secret of the caller.
LEMMA OnReplyKeepsBus ==
  ASSUME BusIInv, NEW l \in Head(ticks).to, OnReply(l)
  PROVE  /\ BusIInv'
         /\ \A c \in Sends : call'[c] = "answered" =>
              \/ call[c] = "answered"
              \/ \E n \in Transports : /\ job[n][c].phase = "answered"
                                       /\ setup[n].secret = setup[SenderOf[c]].secret
<1>1. /\ ticks \in Seq(Publishes) /\ call \in [Messages -> Calls]
      /\ setup \in Setups /\ payload \in Payloads
  BY DEF BusIInv, MemoryTypeOK
<1>2. /\ 1 \in 1 .. Len(ticks) /\ Head(ticks) = ticks[1] /\ OfInbox(l)
      /\ UNCHANGED <<setup, payload, transport, job>>
  <2>1. Called(l) /\ OfInbox(l) /\ UNCHANGED <<setup, payload, transport, job>>
    BY DEF OnReply
  <2> QED BY <1>1, <2>1, EmptySeq, LenProperties DEF Called
<1>3. PICK d \in {0, 1} :
        \A i \in 1 .. Len(ticks') :
          /\ i + d \in 1 .. Len(ticks)
          /\ ticks'[i].of = ticks[i + d].of /\ ticks'[i].wire = ticks[i + d].wire
          /\ ticks'[i].to \subseteq ticks[i + d].to
          /\ i + d = 1 => l \notin ticks'[i].to
  BY <1>1, CalledTicks DEF OnReply
<1>4. ticks' \in Seq(Publishes) /\ Len(ticks') \in Nat
  BY <1>1, CalledTicks, LenProperties DEF OnReply
<1>5. \A i \in 1 .. Len(ticks) : ticks[i].of \in Messages
  BY <1>1, TickTyped
<1>6. /\ call' \in [Messages -> Calls]
      /\ \A m \in Messages : call[m] \notin Unsent => call'[m] \notin Unsent
  BY <1>1 DEF OnReply, Calls, Unsent, Messages
<1>7. MemoryTypeOK'
  BY <1>2, <1>4, <1>6, Static DEF BusIInv, MemoryTypeOK
<1>8. TopicTick'
  <2> SUFFICES ASSUME NEW i \in 1 .. Len(ticks'), NEW h \in ticks'[i].to, ~OfInbox(h)
               PROVE  /\ h[2] = 1 /\ ticks'[i].wire = WireOf(ticks'[i].of)
                      /\ call'[ticks'[i].of] \notin Unsent
                      /\ job[h[1]][ticks'[i].of] = NoJob
    BY <1>2, <1>3, <1>5, Static DEF TopicTick, OfInbox
  <2>1. i + d \in 1 .. Len(ticks) /\ h \in ticks[i + d].to
    BY <1>3
  <2>2. /\ h[2] = 1 /\ ticks[i + d].wire = WireOf(ticks[i + d].of)
        /\ call[ticks[i + d].of] \notin Unsent /\ job[h[1]][ticks[i + d].of] = NoJob
    BY <2>1 DEF BusIInv, TopicTick
  <2> QED BY <1>3, <1>5, <1>6, <2>1, <2>2
<1>9. CalledOnce'
  <2> SUFFICES ASSUME NEW i \in 1 .. Len(ticks'), NEW k \in 1 .. Len(ticks'),
                      NEW h \in ticks'[i].to \cap ticks'[k].to, ~OfInbox(h),
                      ticks'[i].of = ticks'[k].of
               PROVE  i = k
    BY DEF CalledOnce, OfInbox
  <2>1. i + d = k + d
    BY <1>3 DEF BusIInv, CalledOnce
  <2> QED BY <2>1
<1>10. ReplyTick'
  <2>1. ASSUME NEW i \in 1 .. Len(ticks'), NEW h \in ticks'[i].to, OfInbox(h)
        PROVE  \E o \in Transports : /\ ticks'[i].wire = ReplyOf(o, ticks'[i].of)
                                     /\ job[o][ticks'[i].of].phase = "answered"
    BY <1>3, <2>1 DEF BusIInv, ReplyTick
  <2>2. \A i \in 1 .. Len(ticks') : ticks'[i].of \in Messages
    BY <1>3, <1>5
  <2> QED BY <1>2, <2>1, <2>2, Static DEF ReplyTick, OfInbox
<1>11. RunsOnce'
  BY <1>2, <1>6, Static DEF BusIInv, RunsOnce
<1>12. ASSUME NEW c \in Sends, call'[c] = "answered", call[c] # "answered"
       PROVE  \E n \in Transports : /\ job[n][c].phase = "answered"
                                    /\ setup[n].secret = setup[SenderOf[c]].secret
  <2> DEFINE o == l[1]
             wire == ticks[1].wire
             m == ticks[1].of
  <2>1. /\ VerifyWire(wire, setup[o], 0) = "" /\ SenderOf[c] = o
        /\ c = AsString(Field(Unwrapped(wire, setup[o]), "correlationId"))
    BY <1>1, <1>2, <1>12 DEF OnReply, Messages
  <2>2. m \in Messages
    BY <1>2, <1>5
  <2>3. PICK n \in Transports : wire = ReplyOf(n, m) /\ job[n][m].phase = "answered"
    BY <1>2 DEF BusIInv, ReplyTick
  <2> DEFINE id == IF Read(n, m).c = "none" THEN "" ELSE Read(n, m).c
             w == Obj([correlationId |-> Text(id), data |-> Text("result")])
  <2>4. wire = Sign(w, setup[n].secret, 0) /\ w.type = "object"
    BY <2>3 DEF ReplyOf, Obj, Value
  <2>5. AsString(Field(w, "correlationId")) = id
    BY DEF Obj, Field, Value, AsString, Text
  <2>6. AsString(Undefined) = "none"
    BY DEF AsString, Undefined, Value
  <2> HIDE DEF id, wire, o, m, w
  <2>7. \/ setup[n].secret = setup[o].secret /\ Unwrapped(wire, setup[o]) = w
        \/ Field(Unwrapped(wire, setup[o]), "correlationId") = Undefined
    BY <2>1, <2>4, PayloadAsRead
  <2>8. setup[n].secret = setup[o].secret /\ c = id
    BY <2>1, <2>5, <2>6, <2>7, NamesAssumption
  <2>9. c = Read(n, m).c
    BY <2>8, NamesAssumption DEF id
  <2>10. m \in Emits \cup Sends
    BY <1>1, <2>2, <2>9, FreshIdsAssumption DEF Read, WireOf, Messages
  <2>11. Read(n, m).c \in {"none", m}
    BY <2>10, ReadAsSent DEF Envelope
  <2>12. c = m
    BY <2>9, <2>11, NamesAssumption
  <2> QED BY <2>1, <2>3, <2>8, <2>12
<1> QED BY <1>7, <1>8, <1>9, <1>10, <1>11, <1>12 DEF BusIInv

\* One transport changes: connect() subscribes the topics at most once.
LEMMA ConnectedOnce ==
  ASSUME NEW t \in TransportStates, t.topics \in {0, 1}, t.state = "idle" => t.topics = 0
  PROVE  /\ Connected(t) \in TransportStates /\ Connected(t).topics \in {0, 1}
         /\ Connected(t).state # "idle"
         /\ t.state \in {"closing", "closed"} => Connected(t).state = t.state
<1>1. CASE t.state # "idle"
  BY <1>1 DEF Connected
<1>2. CASE t.state = "idle"
  <2> DEFINE topics == IF t.handlers THEN t.topics + 1 ELSE t.topics
  <2>1. topics \in {0, 1} /\ topics \in Nat
    BY <1>2
  <2>2. Connected(t) = [t EXCEPT !.state = "connected", !.topics = topics]
    BY <1>2 DEF Connected
  <2> HIDE DEF topics
  <2> DEFINE a == [t EXCEPT !.state = "connected"]
             u == [a EXCEPT !.topics = topics]
  <2>3. a \in TransportStates /\ a.state = "connected"
    BY DEF TransportStates
  <2>4. Connected(t) = u
    BY <2>2
  <2> HIDE DEF a
  <2>5. u \in TransportStates /\ u.topics = topics /\ u.state = "connected"
    BY <2>1, <2>3 DEF TransportStates
  <2> HIDE DEF u
  <2> QED BY <1>2, <2>1, <2>4, <2>5
<1> QED BY <1>1, <1>2

\* A transport stays subscribed to its topics at most once, and closing is for good.
Settled(t, u) ==
    /\ u \in TransportStates /\ u.topics \in {0, 1}
    /\ u.state = "idle" => u.topics = 0 /\ u.listening # "connecting"
    /\ t.state \in {"closing", "closed"} => u.state \in {"closing", "closed"}

LEMMA TransportStep ==
  ASSUME transport \in [Transports -> TransportStates], TopicsOnce, ListenerConnected,
         \/ UNCHANGED transport
         \/ \E n \in Transports, u \in TransportStates :
              Settled(transport[n], u) /\ transport' = [transport EXCEPT ![n] = u]
  PROVE  /\ transport' \in [Transports -> TransportStates] /\ TopicsOnce' /\ ListenerConnected'
         /\ \A n \in Transports : Closing(n) => Closing(n)'
  BY DEF TopicsOnce, ListenerConnected, Closing, Settled

\* NothingVanishes survives when jobs stay and no call is answered.
LEMMA QuietKeepsOutcomes ==
  ASSUME NothingVanishes, UNCHANGED <<setup, job>>,
         \A n \in Transports : Closing(n) => Closing(n)',
         \A c \in Sends : call'[c] = "answered" => call[c] = "answered"
  PROVE  NothingVanishes'
<1>1. \A n \in Transports, m \in Emits \cup Sends :
        setup'[n].deadLetter => /\ job'[n][m].phase \notin {"logged", "dropped"}
                                /\ job'[n][m].phase = "unanswered" => Closing(n)'
  BY DEF NothingVanishes
<1>2. \A c \in Sends : call'[c] = "answered" =>
        \E n \in Transports :
          job'[n][c].phase = "answered" /\ setup'[n].secret = setup'[SenderOf[c]].secret
  BY DEF NothingVanishes
<1> QED BY <1>1, <1>2 DEF NothingVanishes

\* What listen(), connect(), close() and teardown() leave of a transport.
LEMMA TransportActions ==
  ASSUME MemoryIInv,
         \/ \E n \in Transports : Listen(n) \/ Listening(n) \/ Close(n) \/ Teardown(n)
         \/ \E m \in Messages : Begin(m) \/ EnsureInbox(m)
  PROVE  \E n \in Transports, u \in TransportStates :
           Settled(transport[n], u) /\ transport' = [transport EXCEPT ![n] = u]
<1>1. /\ transport \in [Transports -> TransportStates]
      /\ \A n \in Transports :
           /\ transport[n].topics \in {0, 1}
           /\ transport[n].state = "idle" =>
                transport[n].topics = 0 /\ transport[n].listening # "connecting"
  BY DEF MemoryIInv, BusIInv, MemoryTypeOK, TopicsOnce, ListenerConnected
<1>2. ASSUME NEW n \in Transports, Listen(n)
      PROVE  \E u \in TransportStates :
               Settled(transport[n], u) /\ transport' = [transport EXCEPT ![n] = u]
  <2> DEFINE t == [transport[n] EXCEPT !.handlers = TRUE]
  <2>1. /\ t \in TransportStates /\ t.topics \in {0, 1} /\ (t.state = "idle" => t.topics = 0)
        /\ t.state = transport[n].state
    BY <1>1 DEF TransportStates
  <2>2. transport' = [transport EXCEPT ![n] =
           IF Closing(n) THEN [t EXCEPT !.listening = "failed"]
           ELSE [Connected(t) EXCEPT !.listening = "connecting"]]
    BY <1>2 DEF Listen
  <2> HIDE DEF t
  <2> DEFINE c == Connected(t)
  <2>3. /\ c \in TransportStates /\ c.topics \in {0, 1} /\ c.state # "idle"
        /\ t.state \in {"closing", "closed"} => c.state = t.state
    BY <2>1, ConnectedOnce
  <2> HIDE DEF c
  <2>4. Settled(transport[n], [t EXCEPT !.listening = "failed"])
    BY <2>1 DEF Settled, TransportStates
  <2>5. Settled(transport[n], [c EXCEPT !.listening = "connecting"])
    BY <2>1, <2>3 DEF Settled, TransportStates
  <2> QED BY <2>2, <2>4, <2>5 DEF Settled, c
<1>3. ASSUME NEW n \in Transports, Listening(n)
      PROVE  \E u \in TransportStates :
               Settled(transport[n], u) /\ transport' = [transport EXCEPT ![n] = u]
  <2> DEFINE t == transport[n]
             u == [t EXCEPT !.listening = "listening",
                            !.topics = IF NoSubscriptions(t) THEN 1 ELSE t.topics]
  <2>1. transport' = [transport EXCEPT ![n] = u] /\ t.listening = "connecting"
    BY <1>3 DEF Listening
  <2>2. t \in TransportStates /\ t.topics \in {0, 1}
    BY <1>1
  <2>3. t.state # "idle"
    BY <2>1 DEF MemoryIInv, ListenerConnected
  <2> HIDE DEF t
  <2>4. u \in TransportStates /\ u.topics \in {0, 1} /\ u.state = t.state
    BY <2>2 DEF TransportStates
  <2> HIDE DEF u
  <2> QED BY <2>1, <2>3, <2>4 DEF Settled, t
<1>4. ASSUME NEW n \in Transports, Close(n) \/ Teardown(n)
      PROVE  \E u \in TransportStates :
               Settled(transport[n], u) /\ transport' = [transport EXCEPT ![n] = u]
  <2> DEFINE t == transport[n]
  <2>1. t \in TransportStates /\ t.topics \in {0, 1}
    BY <1>1
  <2>2. \/ transport' = [transport EXCEPT ![n] = [t EXCEPT !.state = "closing"]]
        \/ transport' = [transport EXCEPT ![n] =
              [t EXCEPT !.state = "closed", !.topics = 0, !.inbox = FALSE]]
    BY <1>4 DEF Close, Teardown
  <2> HIDE DEF t
  <2>3. /\ Settled(t, [t EXCEPT !.state = "closing"])
        /\ Settled(t, [t EXCEPT !.state = "closed", !.topics = 0, !.inbox = FALSE])
    BY <2>1 DEF Settled, TransportStates
  <2> QED BY <2>2, <2>3 DEF Settled, t
<1>5. ASSUME NEW m \in Messages, Begin(m)
      PROVE  \E n \in Transports, u \in TransportStates :
               Settled(transport[n], u) /\ transport' = [transport EXCEPT ![n] = u]
  <2>1. SenderOf[m] \in Transports /\ m \in Emits \cup Sends
    BY <1>5, NamesAssumption DEF Begin
  <2> DEFINE t == transport[SenderOf[m]]
             c == Connected(t)
  <2>2. /\ t \in TransportStates /\ t.topics \in {0, 1} /\ (t.state = "idle" => t.topics = 0)
    BY <1>1, <2>1
  <2>3. transport' = [transport EXCEPT ![SenderOf[m]] = c]
    BY <1>5, <2>1 DEF Begin
  <2> HIDE DEF t
  <2>4. Settled(t, c) /\ c \in TransportStates
    BY <2>2, ConnectedOnce DEF Settled
  <2> HIDE DEF c
  <2> QED BY <2>1, <2>3, <2>4 DEF t
<1>6. ASSUME NEW m \in Messages, EnsureInbox(m)
      PROVE  \E n \in Transports, u \in TransportStates :
               Settled(transport[n], u) /\ transport' = [transport EXCEPT ![n] = u]
  <2>1. SenderOf[m] \in Transports
    BY <1>6, NamesAssumption DEF EnsureInbox
  <2> DEFINE t == transport[SenderOf[m]]
             u == [t EXCEPT !.inbox = TRUE]
  <2>2. /\ t \in TransportStates /\ t.topics \in {0, 1}
        /\ t.state = "idle" => t.topics = 0 /\ t.listening # "connecting"
    BY <1>1, <2>1
  <2>3. transport' = [transport EXCEPT ![SenderOf[m]] = u]
    BY <1>6, <2>1 DEF EnsureInbox
  <2> HIDE DEF t
  <2>4. Settled(t, u) /\ u \in TransportStates
    BY <2>2 DEF Settled, TransportStates
  <2> HIDE DEF u
  <2> QED BY <2>1, <2>3, <2>4 DEF t
<1> QED BY <1>2, <1>3, <1>4, <1>5, <1>6

\* A step of connect(), listen(), close() or of a call's timer: it publishes nothing.
LEMMA QuietKeepsMemory ==
  ASSUME MemoryIInv,
         \/ UNCHANGED transport
         \/ \E n \in Transports, u \in TransportStates :
              Settled(transport[n], u) /\ transport' = [transport EXCEPT ![n] = u],
         UNCHANGED <<setup, payload, ticks, job>>, call' \in [Messages -> Calls],
         \A m \in Messages : call[m] \notin Unsent => call'[m] \notin Unsent,
         \A m \in Messages : call'[m] = "answered" => call[m] = "answered"
  PROVE  MemoryIInv'
<1>1. /\ transport' \in [Transports -> TransportStates] /\ TopicsOnce' /\ ListenerConnected'
      /\ \A n \in Transports : Closing(n) => Closing(n)'
  BY TransportStep DEF MemoryIInv, BusIInv, MemoryTypeOK
<1>2. BusIInv'
  BY <1>1, QuietKeepsBus DEF MemoryIInv
<1>3. NothingVanishes'
  BY <1>1, QuietKeepsOutcomes DEF MemoryIInv, Messages
<1> QED BY <1>1, <1>2, <1>3 DEF MemoryIInv

\* emit(), send() and an older peer.
LEMMA TopicPublishKeepsMemory ==
  ASSUME MemoryIInv, UNCHANGED <<setup, payload, transport, job>>,
         NEW m \in Messages, call[m] \in Unsent,
         NEW status \in {"sent", "waiting"}, call' = [call EXCEPT ![m] = status],
         Publish(m, WireOf(m), TopicListeners)
  PROVE  MemoryIInv'
<1>1. status \in Calls \ Unsent
  BY DEF Calls, Unsent
<1>2. BusIInv'
  BY <1>1, TopicPublishKeepsBus DEF MemoryIInv
<1>3. /\ \A n \in Transports : Closing(n) => Closing(n)'
      /\ \A c \in Messages : call'[c] = "answered" => call[c] = "answered"
  BY DEF Closing, MemoryIInv, BusIInv, MemoryTypeOK
<1>4. NothingVanishes'
  BY <1>3, QuietKeepsOutcomes DEF MemoryIInv, Messages
<1>5. TopicsOnce' /\ ListenerConnected'
  BY DEF MemoryIInv, TopicsOnce, ListenerConnected
<1> QED BY <1>2, <1>4, <1>5 DEF MemoryIInv

\* The end of a handler: what it leaves of an emit or a send is not lost.
LEMMA EndKeepsMemory ==
  ASSUME MemoryIInv, UNCHANGED <<setup, payload, transport, call>>,
         NEW n \in Transports, NEW m \in Messages, job[n][m].phase = "running",
         NEW phase \in JobPhases \ {"none"}, job' = [job EXCEPT ![n][m].phase = phase],
         ticks' \in Seq(Publishes),
         \A i \in 1 .. Len(ticks') :
           \/ i \in 1 .. Len(ticks) /\ ticks'[i] = ticks[i]
           \/ /\ \A l \in ticks'[i].to : OfInbox(l)
              /\ ticks'[i].of = m /\ ticks'[i].wire = ReplyOf(n, m) /\ phase = "answered",
         m \in Emits \cup Sends /\ setup[n].deadLetter =>
           phase \notin {"logged", "dropped"} /\ (phase = "unanswered" => Closing(n))
  PROVE  MemoryIInv'
<1>1. BusIInv'
  BY EndKeepsBus DEF MemoryIInv
<1>2. TopicsOnce' /\ ListenerConnected' /\ \A o \in Transports : Closing(o)' = Closing(o)
  BY DEF MemoryIInv, TopicsOnce, ListenerConnected, Closing
<1>3. \A o \in Transports, c \in Messages :
        job'[o][c].phase = IF o = n /\ c = m THEN phase ELSE job[o][c].phase
  BY DEF MemoryIInv, BusIInv, MemoryTypeOK, Jobs
<1>4. NothingVanishes'
  <2>1. \A o \in Transports, c \in Emits \cup Sends :
          setup[o].deadLetter => /\ job'[o][c].phase \notin {"logged", "dropped"}
                                 /\ job'[o][c].phase = "unanswered" => Closing(o)
    BY <1>3 DEF MemoryIInv, NothingVanishes, Messages
  <2>2. ASSUME NEW c \in Sends, call[c] = "answered"
        PROVE  \E o \in Transports :
                 job'[o][c].phase = "answered" /\ setup[o].secret = setup[SenderOf[c]].secret
    <3>1. PICK o \in Transports :
            job[o][c].phase = "answered" /\ setup[o].secret = setup[SenderOf[c]].secret
      BY <2>2 DEF MemoryIInv, NothingVanishes
    <3> QED BY <1>3, <3>1 DEF Messages
  <2> QED BY <1>2, <2>1, <2>2 DEF NothingVanishes
<1> QED BY <1>1, <1>2, <1>4 DEF MemoryIInv

LEMMA MemoryInitIInv == MemoryInit => MemoryIInv
<1> SUFFICES ASSUME MemoryInit PROVE MemoryIInv
  OBVIOUS
<1>1. NoJob \in Jobs
  BY DEF NoJob, Jobs, JobPhases, Envelopes
<1>2. /\ ticks = <<>> /\ Len(ticks) = 0 /\ setup \in Setups /\ payload \in Payloads
      /\ \A m \in Messages : call[m] = "idle"
      /\ \A n \in Transports, m \in Messages : job[n][m] = NoJob
      /\ \A n \in Transports : transport[n] = [state |-> "idle", handlers |-> FALSE, topics |-> 0,
                                               inbox |-> FALSE, listening |-> "idle"]
  BY EmptySeq DEF MemoryInit
<1>3. MemoryTypeOK
  <2>1. job \in [Transports -> [Messages -> Jobs]]
    BY <1>1 DEF MemoryInit
  <2>2. transport \in [Transports -> TransportStates]
    BY DEF MemoryInit, TransportStates
  <2> QED BY <1>2, <2>1, <2>2, EmptySeq DEF MemoryInit, MemoryTypeOK, Calls, Unsent
<1>4. BusIInv
  BY <1>2, <1>3 DEF BusIInv, TopicTick, CalledOnce, ReplyTick, RunsOnce
<1>5. NothingVanishes
  BY <1>2 DEF NothingVanishes, NoJob, Messages
<1> QED BY <1>2, <1>4, <1>5 DEF MemoryIInv, TopicsOnce, ListenerConnected

\* emit(), send() and what a message of an older peer does to the bus.
LEMMA SendersKeepIInv ==
  ASSUME MemoryIInv, NEW m \in Messages,
         Begin(m) \/ Emit(m) \/ EnsureInbox(m) \/ Send(m) \/ LegacyPeer(m) \/ TimesOut(m)
  PROVE  MemoryIInv'
<1>1. call \in [Messages -> Calls]
  BY DEF MemoryIInv, BusIInv, MemoryTypeOK
<1>2. CASE Begin(m)
  <2>1. UNCHANGED <<setup, payload, ticks, job>> /\ call' \in [Messages -> Calls]
    BY <1>1, <1>2 DEF Begin, Calls, Unsent
  <2>2. /\ \A c \in Messages : call[c] \notin Unsent => call'[c] \notin Unsent
        /\ \A c \in Messages : call'[c] = "answered" => call[c] = "answered"
    BY <1>1, <1>2 DEF Begin, Unsent
  <2> QED BY <1>2, <2>1, <2>2, TransportActions, QuietKeepsMemory
<1>3. CASE EnsureInbox(m)
  <2>1. UNCHANGED <<setup, payload, ticks, job>> /\ call' \in [Messages -> Calls]
    BY <1>1, <1>3 DEF EnsureInbox, Calls, Unsent
  <2>2. /\ \A c \in Messages : call[c] \notin Unsent => call'[c] \notin Unsent
        /\ \A c \in Messages : call'[c] = "answered" => call[c] = "answered"
    BY <1>1, <1>3 DEF EnsureInbox, Unsent
  <2> QED BY <1>3, <2>1, <2>2, TransportActions, QuietKeepsMemory
<1>4. CASE TimesOut(m)
  <2>1. UNCHANGED <<setup, payload, transport, ticks, job>> /\ call' \in [Messages -> Calls]
    BY <1>1, <1>4 DEF TimesOut, Calls
  <2>2. /\ \A c \in Messages : call[c] \notin Unsent => call'[c] \notin Unsent
        /\ \A c \in Messages : call'[c] = "answered" => call[c] = "answered"
    BY <1>1, <1>4 DEF TimesOut, Unsent
  <2> QED BY <2>1, <2>2, QuietKeepsMemory
<1>5. CASE Emit(m)
  <2>1. Publish(m, WireOf(m), TopicListeners)
    BY <1>5, NamesAssumption DEF Emit, WireOf
  <2> QED BY <1>5, <2>1, TopicPublishKeepsMemory DEF Emit, Unsent
<1>6. CASE Send(m)
  <2>1. Publish(m, WireOf(m), TopicListeners)
    BY <1>6, NamesAssumption DEF Send, WireOf
  <2> QED BY <1>6, <2>1, TopicPublishKeepsMemory DEF Send, Unsent
<1>7. CASE LegacyPeer(m)
  <2>1. Publish(m, WireOf(m), TopicListeners)
    BY <1>7 DEF LegacyPeer, WireOf
  <2> QED BY <1>7, <2>1, TopicPublishKeepsMemory DEF LegacyPeer, Unsent
<1> QED BY <1>2, <1>3, <1>4, <1>5, <1>6, <1>7

\* listen(), close() and teardown().
LEMMA LifecycleKeepsMemory ==
  ASSUME MemoryIInv, NEW n \in Transports, Listen(n) \/ Listening(n) \/ Close(n) \/ Teardown(n)
  PROVE  MemoryIInv'
<1>1. call \in [Messages -> Calls]
  BY DEF MemoryIInv, BusIInv, MemoryTypeOK
<1>2. UNCHANGED <<setup, payload, ticks, job>>
  BY DEF Listen, Listening, Close, Teardown
<1>3. /\ call' \in [Messages -> Calls]
      /\ \A c \in Messages : call[c] \notin Unsent => call'[c] \notin Unsent
      /\ \A c \in Messages : call'[c] = "answered" => call[c] = "answered"
  BY <1>1 DEF Listen, Listening, Close, Teardown, Calls, Unsent
<1> QED BY <1>2, <1>3, TransportActions, QuietKeepsMemory

\* The end of a handler: an event that fails is dead-lettered, a request is answered
\* unless the transport closes.
LEMMA HandlersKeepIInv ==
  ASSUME MemoryIInv, NEW n \in Transports, NEW m \in Messages,
         Reply(n, m) \/ HandlerReturns(n, m) \/ HandlerThrows(n, m)
  PROVE  MemoryIInv'
<1>1. /\ ticks \in Seq(Publishes) /\ job[n][m].phase = "running"
      /\ UNCHANGED <<setup, payload, transport, call>>
  BY DEF MemoryIInv, BusIInv, MemoryTypeOK, Reply, HandlerReturns, HandlerThrows
<1>2. job[n][m].envelope = Read(n, m)
  <2>1. job[n][m] # NoJob
    BY <1>1 DEF NoJob
  <2> QED BY <2>1 DEF MemoryIInv, BusIInv, RunsOnce
<1>3. CASE Reply(n, m)
  <2>1. CASE Closing(n)
    <3>1. job' = [job EXCEPT ![n][m].phase = "unanswered"] /\ ticks' = ticks
      BY <1>3, <2>1 DEF Reply
    <3>2. "unanswered" \in JobPhases \ {"none"}
      BY DEF JobPhases
    <3> QED BY <1>1, <2>1, <3>1, <3>2, EndKeepsMemory
  <2>2. CASE ~Closing(n)
    <3> DEFINE listeners == InboxListeners(Read(n, m).r)
    <3>1. /\ job' = [job EXCEPT ![n][m].phase = "answered"]
          /\ Publish(m, ReplyOf(n, m), listeners)
      BY <1>2, <1>3, <2>2 DEF Reply, ReplyOf
    <3>2. /\ listeners \in SUBSET (Transports \X Nat)
          /\ \A l \in listeners : OfInbox(l)
      BY DEF InboxListeners, OfInbox
    <3>3. ReplyOf(n, m) \in BusWires
      BY DEF BusWires
    <3> HIDE DEF listeners
    <3>4. /\ ticks' \in Seq(Publishes)
          /\ \A i \in 1 .. Len(ticks') :
               \/ i \in 1 .. Len(ticks) /\ ticks'[i] = ticks[i]
               \/ /\ i = Len(ticks) + 1
                  /\ ticks'[i].of = m /\ ticks'[i].wire = ReplyOf(n, m)
                  /\ ticks'[i].to = listeners
      BY <1>1, <3>1, <3>2, <3>3, PublishTicks
    <3>5. \A i \in 1 .. Len(ticks') :
            \/ i \in 1 .. Len(ticks) /\ ticks'[i] = ticks[i]
            \/ /\ \A l \in ticks'[i].to : OfInbox(l)
               /\ ticks'[i].of = m /\ ticks'[i].wire = ReplyOf(n, m)
      BY <3>2, <3>4
    <3>6. "answered" \in JobPhases \ {"none"}
      BY DEF JobPhases
    <3> QED BY <1>1, <3>1, <3>4, <3>5, <3>6, EndKeepsMemory
  <2> QED BY <2>1, <2>2
<1>4. CASE HandlerReturns(n, m)
  <2>1. job' = [job EXCEPT ![n][m].phase = "handled"] /\ ticks' = ticks
    BY <1>4 DEF HandlerReturns
  <2>2. "handled" \in JobPhases \ {"none"}
    BY DEF JobPhases
  <2> QED BY <1>1, <2>1, <2>2, EndKeepsMemory
<1>5. CASE HandlerThrows(n, m)
  <2> DEFINE phase == IF Read(n, m).k = "rpc" THEN "logged" ELSE DeadLettered(n)
  <2>1. job' = [job EXCEPT ![n][m].phase = phase] /\ ticks' = ticks /\ Read(n, m).r = "none"
    BY <1>2, <1>5 DEF HandlerThrows
  <2>2. phase \in JobPhases \ {"none", "unanswered"}
    BY DEF JobPhases, DeadLettered
  <2>3. ASSUME m \in Emits \cup Sends, Read(n, m).k = "rpc" PROVE FALSE
    <3>1. Read(n, m).r = SenderOf[m]
      BY <2>3, ReadAsSent DEF Envelope
    <3>2. SenderOf[m] \in Transports
      BY <2>3, NamesAssumption
    <3> QED BY <2>1, <3>1, <3>2, NamesAssumption
  <2>4. m \in Emits \cup Sends /\ setup[n].deadLetter => phase \notin {"logged", "dropped"}
    BY <2>3 DEF DeadLettered
  <2> HIDE DEF phase
  <2> QED BY <1>1, <2>1, <2>2, <2>4, EndKeepsMemory
<1> QED BY <1>3, <1>4, <1>5

\* A microtask of the bus.
LEMMA ListenersKeepIInv ==
  ASSUME MemoryIInv, NEW l \in Head(ticks).to, OnServerMessage(l) \/ OnReply(l)
  PROVE  MemoryIInv'
<1>1. CASE OnServerMessage(l)
  <2>1. /\ BusIInv'
        /\ \A n \in Transports, m \in Messages :
             \/ job'[n][m] = job[n][m]
             \/ /\ job[n][m] = NoJob
                /\ job'[n][m].phase = IF Read(n, m).k = "refused" THEN DeadLettered(n) ELSE "running"
    BY <1>1, OnServerMessageKeepsBus DEF MemoryIInv
  <2>2. UNCHANGED <<setup, payload, transport, call>>
    BY <1>1 DEF OnServerMessage
  <2>3. NothingVanishes'
    <3>1. ASSUME NEW n \in Transports, NEW m \in Emits \cup Sends, setup[n].deadLetter
          PROVE  /\ job'[n][m].phase \notin {"logged", "dropped"}
                 /\ job'[n][m].phase = "unanswered" => Closing(n)
      BY <2>1, <3>1 DEF MemoryIInv, NothingVanishes, Messages, DeadLettered
    <3>2. \A n \in Transports, c \in Messages :
            job[n][c].phase = "answered" => job'[n][c].phase = "answered"
      BY <2>1 DEF NoJob
    <3>3. ASSUME NEW c \in Sends, call[c] = "answered"
          PROVE  \E o \in Transports :
                   job'[o][c].phase = "answered" /\ setup[o].secret = setup[SenderOf[c]].secret
      <4>1. PICK o \in Transports :
              job[o][c].phase = "answered" /\ setup[o].secret = setup[SenderOf[c]].secret
        BY <3>3 DEF MemoryIInv, NothingVanishes
      <4> QED BY <3>2, <4>1 DEF Messages
    <3> QED BY <2>2, <3>1, <3>3 DEF NothingVanishes, Closing
  <2> QED BY <2>1, <2>2, <2>3 DEF MemoryIInv, TopicsOnce, ListenerConnected
<1>2. CASE OnReply(l)
  <2>1. /\ BusIInv'
        /\ \A c \in Sends : call'[c] = "answered" =>
             \/ call[c] = "answered"
             \/ \E n \in Transports : /\ job[n][c].phase = "answered"
                                      /\ setup[n].secret = setup[SenderOf[c]].secret
    BY <1>2, OnReplyKeepsBus DEF MemoryIInv
  <2>2. UNCHANGED <<setup, payload, transport, job>>
    BY <1>2 DEF OnReply
  <2>3. NothingVanishes'
    BY <2>1, <2>2 DEF MemoryIInv, NothingVanishes, Closing
  <2> QED BY <2>1, <2>2, <2>3 DEF MemoryIInv, TopicsOnce, ListenerConnected
<1> QED BY <1>1, <1>2

LEMMA MemoryNextIInv == MemoryIInv /\ [MemoryNext]_memoryVars => MemoryIInv'
<1> SUFFICES ASSUME MemoryIInv, [MemoryNext]_memoryVars
             PROVE  MemoryIInv'
  OBVIOUS
<1>1. ASSUME NEW n \in Transports, Listen(n) \/ Listening(n) \/ Close(n) \/ Teardown(n)
      PROVE  MemoryIInv'
  BY <1>1, LifecycleKeepsMemory
<1>2. ASSUME NEW m \in Messages,
             Begin(m) \/ Emit(m) \/ EnsureInbox(m) \/ Send(m) \/ LegacyPeer(m) \/ TimesOut(m)
      PROVE  MemoryIInv'
  BY <1>2, SendersKeepIInv
<1>3. ASSUME NEW l \in Head(ticks).to, OnServerMessage(l) \/ OnReply(l)
      PROVE  MemoryIInv'
  BY <1>3, ListenersKeepIInv
<1>4. ASSUME NEW n \in Transports, NEW m \in Messages,
             Reply(n, m) \/ HandlerReturns(n, m) \/ HandlerThrows(n, m)
      PROVE  MemoryIInv'
  BY <1>4, HandlersKeepIInv
<1>5. CASE UNCHANGED memoryVars
  <2>1. UNCHANGED <<setup, payload, transport, ticks, call, job>>
    BY <1>5 DEF memoryVars
  <2>2. call \in [Messages -> Calls]
    BY DEF MemoryIInv, BusIInv, MemoryTypeOK
  <2> QED BY <2>1, <2>2, QuietKeepsMemory
<1> QED BY <1>1, <1>2, <1>3, <1>4, <1>5 DEF MemoryNext

\* Every variable of the in-process transport keeps its type; what is on the bus are
\* messages of the senders and replies of the handlers.
THEOREM MemoryTypeCorrect == MemorySpec => []MemoryTypeOK
<1>1. MemoryIInv => MemoryTypeOK
  BY DEF MemoryIInv, BusIInv
<1> QED BY <1>1, MemoryInitIInv, MemoryNextIInv, PTL DEF MemorySpec

\* What a handler is given is what a peer sent, once, whatever the payload looks like
\* (wire-envelope.ts, signing.ts), unless the transport has another secret and still
\* takes messages of older peers.
THEOREM HandledAsSentHolds == MemorySpec => []HandledAsSent
<1>1. MemoryIInv => HandledAsSent
  <2> SUFFICES ASSUME MemoryIInv, NEW n \in Transports, NEW m \in Emits \cup Sends,
                      job[n][m].envelope.k \in {"evt", "rpc"},
                      setup[n].legacy => setup[n].secret = setup[SenderOf[m]].secret
               PROVE  /\ job[n][m].runs = 1
                      /\ setup[n].secret = setup[SenderOf[m]].secret
                      /\ job[n][m].envelope =
                           IF m \in Emits
                           THEN Envelope("evt", payload[m], "none", "none", NoFields)
                           ELSE Envelope("rpc", payload[m], SenderOf[m], m, [correlation |-> Text(m)])
    BY DEF HandledAsSent
  <2>1. job[n][m] # NoJob
    BY DEF NoJob, Envelope
  <2>2. job[n][m].runs = 1 /\ job[n][m].envelope = Read(n, m)
    BY <2>1 DEF MemoryIInv, BusIInv, RunsOnce, Messages
  <2>3. Read(n, m).k # "refused"
    BY <2>2
  <2> QED BY <2>2, <2>3, ReadAsSent
<1> QED BY <1>1, MemoryInitIInv, MemoryNextIInv, PTL DEF MemorySpec

\* A call is answered by a handler that ran, between transports of one secret, and no
\* emit or send is lost in a transport that keeps dead letters (deadLetter(), reply()).
THEOREM NothingVanishesHolds == MemorySpec => []NothingVanishes
<1>1. MemoryIInv => NothingVanishes
  BY DEF MemoryIInv
<1> QED BY <1>1, MemoryInitIInv, MemoryNextIInv, PTL DEF MemorySpec

-----------------------------------------------------------------------------
(* Delivery over Kafka (KafkaTransport). *)

Outcomes == {"none", "handled", "skipped", "dropped", "dead", "dead letter failed"}
WorkerStates == {"idle", "consuming", "closing", "stopping", "closed"}
Phases == {"idle", "handling", "failed"}
Job == [phase : Phases, at : Nat]
Wires == Records \cup
    {Sign(WrapEvent(Text("x")), r.secret, c) : r \in Readers, c \in {0, MaxClock}}

KafkaTypeOK ==
    /\ options \in Readers /\ clock \in {0, MaxClock}
    /\ log \in [Partitions -> Seq(Wires)]
    /\ committed \in [Partitions -> Nat]
    /\ owner \in [Partitions -> Workers \cup {NoWorker}]
    /\ worker \in [Workers -> [state : WorkerStates, producer : BOOLEAN]]
    /\ running \in [Workers -> [Partitions -> Job]]
    /\ outcome \in [Partitions -> Seq(Outcomes)]
    /\ moves \in Nat

\* Every record has its place in outcome.
OneOutcomeEach == \A p \in Partitions : Len(outcome[p]) = Len(log[p])

\* A position is inside the log, and a message under way is a record of it.
PositionsInLog ==
    /\ \A p \in Partitions : committed[p] <= Len(log[p])
    /\ \A w \in Workers, p \in Partitions :
         /\ running[w][p].at <= Len(log[p])
         /\ running[w][p].phase # "idle" => running[w][p].at < Len(log[p])

\* What lies before a worker's position has an outcome, idle or not.
PositionsAccounted ==
    \A w \in Workers, p \in Partitions :
        \A o \in 1 .. running[w][p].at : outcome[p][o] # "none"

\* A commit lies behind records that have an outcome.
OffsetsBehind == \A p \in Partitions : \A o \in 1 .. committed[p] : outcome[p][o] # "none"

KafkaIInv ==
    KafkaTypeOK /\ OneOutcomeEach /\ PositionsInLog /\ PositionsAccounted /\ OffsetsBehind

\* The change of the position of one job, seen from each of them.
LEMMA PositionOfOne ==
  ASSUME running \in [Workers -> [Partitions -> Job]], NEW w \in Workers, NEW p \in Partitions,
         NEW at \in Nat, running' = [running EXCEPT ![w][p].at = at]
  PROVE  /\ running' \in [Workers -> [Partitions -> Job]]
         /\ \A v \in Workers, q \in Partitions :
              /\ running'[v][q].at = IF v = w /\ q = p THEN at ELSE running[v][q].at
              /\ running'[v][q].phase = running[v][q].phase
  BY DEF Job

USE DEF KafkaIInv, KafkaTypeOK, OneOutcomeEach, PositionsInLog, PositionsAccounted,
        OffsetsBehind, Job, Phases

\* Nothing is in the log, nothing runs, nothing is committed.
LEMMA KafkaInitIInv == KafkaInit => KafkaIInv
  BY DEF KafkaInit, Resting, WorkerStates

\* A record more: the positions stay where they are and so do the outcomes.
LEMMA EmitKeepsIInv ==
  ASSUME KafkaIInv, NEW p \in Partitions, KafkaEmit(p)
  PROVE  KafkaIInv'
<1> DEFINE wires == Wires
<1>1. PICK wire \in Records \cup {Sign(WrapEvent(Text("x")), options.secret, clock)} :
        log' = [log EXCEPT ![p] = Append(@, wire)]
  BY DEF KafkaEmit
<1>2. wire \in wires
  BY DEF Wires
<1>3. wires' = wires
  BY DEF Wires
<1> HIDE DEF wires
<1>4. /\ Append(log[p], wire) \in Seq(wires)
      /\ Len(Append(log[p], wire)) = Len(log[p]) + 1
  BY <1>2, AppendProperties DEF wires
<1>5. /\ Append(outcome[p], "none") \in Seq(Outcomes)
      /\ Len(Append(outcome[p], "none")) = Len(outcome[p]) + 1
      /\ \A o \in 1 .. Len(outcome[p]) : Append(outcome[p], "none")[o] = outcome[p][o]
  <2>1. outcome[p] \in Seq(Outcomes) /\ "none" \in Outcomes
    BY DEF Outcomes
  <2> QED BY <2>1, AppendProperties
<1>6. /\ log' = [log EXCEPT ![p] = Append(log[p], wire)]
      /\ outcome' = [outcome EXCEPT ![p] = Append(outcome[p], "none")]
      /\ UNCHANGED <<options, clock, committed, owner, worker, running, moves>>
  BY <1>1 DEF KafkaEmit
<1>7. KafkaTypeOK'
  BY <1>3, <1>4, <1>5, <1>6 DEF wires
<1>8. \A q \in Partitions : Len(log[q]) \in Nat /\ Len(outcome[q]) \in Nat
  BY LenProperties
<1>9. /\ \A q \in Partitions : Len(log'[q]) = IF q = p THEN Len(log[q]) + 1 ELSE Len(log[q])
      /\ \A q \in Partitions : Len(outcome'[q]) = Len(log'[q])
      /\ \A q \in Partitions : \A o \in 1 .. Len(outcome[q]) : outcome'[q][o] = outcome[q][o]
  BY <1>4, <1>5, <1>6
<1>10. OneOutcomeEach' /\ PositionsInLog'
  BY <1>6, <1>8, <1>9
<1>11. PositionsAccounted' /\ OffsetsBehind'
  BY <1>6, <1>8, <1>9
<1> QED BY <1>7, <1>10, <1>11

\* A record gets its outcome and the worker goes on behind it.
LEMMA DoneKeepsIInv ==
  ASSUME KafkaIInv, NEW w \in Workers, NEW p \in Partitions, NEW what \in Outcomes \ {"none"},
         running[w][p].at < Len(log[p]), Done(w, p, what)
  PROVE  KafkaIInv'
<1> DEFINE at == running[w][p].at
<1>1. /\ at \in Nat /\ at < Len(log[p]) /\ Len(outcome[p]) = Len(log[p])
      /\ Len(log[p]) \in Nat
  BY LenProperties
<1>2. /\ outcome' = [outcome EXCEPT ![p] = [outcome[p] EXCEPT ![at + 1] = what]]
      /\ running' = [running EXCEPT ![w] =
                       [running[w] EXCEPT ![p] = [phase |-> "idle", at |-> at + 1]]]
      /\ UNCHANGED <<options, clock, log, committed, owner, worker, moves>>
  BY DEF Done
<1>3. at + 1 \in 1 .. Len(outcome[p])
  BY <1>1
<1>4. /\ [outcome[p] EXCEPT ![at + 1] = what] \in Seq(Outcomes)
      /\ Len([outcome[p] EXCEPT ![at + 1] = what]) = Len(outcome[p])
      /\ \A o \in 1 .. Len(outcome[p]) :
           [outcome[p] EXCEPT ![at + 1] = what][o] = IF o = at + 1 THEN what ELSE outcome[p][o]
  <2> DEFINE s == outcome[p]
  <2>1. s \in Seq(Outcomes) /\ at + 1 \in 1 .. Len(s) /\ what \in Outcomes
    BY <1>3
  <2> HIDE DEF s, at
  <2>2. /\ [s EXCEPT ![at + 1] = what] \in Seq(Outcomes)
        /\ Len([s EXCEPT ![at + 1] = what]) = Len(s)
        /\ \A o \in 1 .. Len(s) : [s EXCEPT ![at + 1] = what][o] = IF o = at + 1 THEN what ELSE s[o]
    BY <2>1, ExceptSeq
  <2> QED BY <2>2 DEF s
<1>5. /\ outcome' \in [Partitions -> Seq(Outcomes)]
      /\ \A q \in Partitions : Len(outcome'[q]) = Len(outcome[q])
      /\ \A q \in Partitions : \A o \in 1 .. Len(outcome[q]) :
           outcome'[q][o] = IF q = p /\ o = at + 1 THEN what ELSE outcome[q][o]
  BY <1>2, <1>4
<1>6. KafkaTypeOK' /\ OneOutcomeEach'
  BY <1>1, <1>2, <1>5
<1>7. PositionsInLog'
  BY <1>1, <1>2, <1>5
<1>8. PositionsAccounted'
  BY <1>1, <1>2, <1>5
<1>9. OffsetsBehind'
  BY <1>1, <1>2, <1>5
<1> QED BY <1>6, <1>7, <1>8, <1>9

\* A message under way goes from one phase to another and its worker stays at it.
LEMMA PhaseKeepsIInv ==
  ASSUME KafkaIInv, NEW w \in Workers, NEW p \in Partitions,
         NEW phase \in {"handling", "failed"}, running[w][p].at < Len(log[p]),
         running' = [running EXCEPT ![w][p].phase = phase],
         UNCHANGED <<options, clock, log, committed, owner, worker, outcome, moves>>
  PROVE  KafkaIInv'
<1>1. /\ running' \in [Workers -> [Partitions -> Job]]
      /\ \A v \in Workers, q \in Partitions :
           /\ running'[v][q].at = running[v][q].at
           /\ running'[v][q].phase = IF v = w /\ q = p THEN phase ELSE running[v][q].phase
  <2>1. running \in [Workers -> [Partitions -> Job]] /\ phase \in Phases
    OBVIOUS
  <2> HIDE DEF Job, KafkaIInv, Phases
  <2> QED BY <2>1 DEF Job
<1>2. KafkaTypeOK' /\ OneOutcomeEach'
  BY <1>1
<1>3. PositionsInLog' /\ PositionsAccounted' /\ OffsetsBehind'
  BY <1>1
<1> QED BY <1>2, <1>3

\* The steps of a handler: a record is taken up, fails, or ends.
LEMMA JobStepKeepsIInv ==
  ASSUME KafkaIInv, NEW w \in Workers, NEW p \in Partitions, JobStep(w, p)
  PROVE  KafkaIInv'
<1>1. CASE Fetch(w, p)
  <2>1. CASE Done(w, p, "skipped")
    BY <1>1, <2>1, DoneKeepsIInv DEF Fetch, Outcomes
  <2>2. CASE ~Done(w, p, "skipped")
    <3>1. PICK phase \in {"handling", "failed"} :
            running' = [running EXCEPT ![w][p].phase = phase]
      BY <1>1, <2>2 DEF Fetch
    <3> QED BY <1>1, <2>2, <3>1, PhaseKeepsIInv DEF Fetch
  <2> QED BY <2>1, <2>2
<1>2. CASE HandlerEnds(w, p)
  <2>1. CASE Done(w, p, "handled")
    BY <1>2, <2>1, DoneKeepsIInv DEF HandlerEnds, Outcomes
  <2>2. CASE ~Done(w, p, "handled")
    <3>1. running' = [running EXCEPT ![w][p].phase = "failed"]
      BY <1>2, <2>2 DEF HandlerEnds
    <3>2. running[w][p].at < Len(log[p])
      BY <1>2 DEF HandlerEnds
    <3> QED BY <1>2, <2>2, <3>1, <3>2, PhaseKeepsIInv DEF HandlerEnds
  <2> QED BY <2>1, <2>2
<1>3. CASE DeadLetter(w, p)
  <2>1. running[w][p].at < Len(log[p])
    BY <1>3 DEF DeadLetter
  <2>2. PICK what \in {"dropped", "dead", "dead letter failed"} : Done(w, p, what)
    BY <1>3 DEF DeadLetter
  <2>3. what \in Outcomes \ {"none"}
    BY DEF Outcomes
  <2> QED BY <2>1, <2>2, <2>3, DoneKeepsIInv
<1> QED BY <1>1, <1>2, <1>3 DEF JobStep

\* A partition given to a worker: it begins at the committed offset, behind which
\* everything has an outcome.
LEMMA MovesKeepsIInv ==
  ASSUME KafkaIInv, NEW w \in Workers, NEW p \in Partitions, Moves(p, w)
  PROVE  KafkaIInv'
<1>1. /\ running' = [running EXCEPT ![w][p].at = committed[p]]
      /\ owner' = [owner EXCEPT ![p] = w]
      /\ running[w][p].phase = "idle" /\ moves' \in Nat
      /\ UNCHANGED <<options, clock, log, committed, worker, outcome>>
  BY DEF Moves, Assign
<1>2. running' \in [Workers -> [Partitions -> Job]]
  BY <1>1, PositionOfOne
<1>3. \A v \in Workers, q \in Partitions :
        /\ running'[v][q].at = IF v = w /\ q = p THEN committed[p] ELSE running[v][q].at
        /\ running'[v][q].phase = running[v][q].phase
  BY <1>1, PositionOfOne
<1>4. KafkaTypeOK' /\ OneOutcomeEach'
  BY <1>1, <1>2
<1>5. PositionsInLog' /\ PositionsAccounted' /\ OffsetsBehind'
  BY <1>1, <1>3
<1> QED BY <1>4, <1>5

\* A worker that dies forgets its positions; nothing else moves.
LEMMA CrashKeepsIInv ==
  ASSUME KafkaIInv, NEW w \in Workers, Crash(w)
  PROVE  KafkaIInv'
<1>1. /\ running' = [running EXCEPT ![w] = [p \in Partitions |-> Resting]]
      /\ moves' \in Nat
      /\ worker' = [worker EXCEPT ![w] = [state |-> "idle", producer |-> FALSE]]
      /\ owner' \in [Partitions -> Workers \cup {NoWorker}]
      /\ UNCHANGED <<options, clock, log, committed, outcome>>
  BY DEF Crash
<1>2. running' \in [Workers -> [Partitions -> Job]]
  BY <1>1 DEF Resting
<1>3. worker' \in [Workers -> [state : WorkerStates, producer : BOOLEAN]]
  BY <1>1 DEF WorkerStates
<1>4. KafkaTypeOK' /\ OneOutcomeEach'
  BY <1>1, <1>2, <1>3
<1>5. \A p \in Partitions : Len(log[p]) \in Nat
  BY LenProperties
<1>6. PositionsInLog' /\ PositionsAccounted' /\ OffsetsBehind'
  BY <1>1, <1>5 DEF Resting
<1> QED BY <1>4, <1>6

\* What starts and stops a worker does not touch a position.
LEMMA LifecycleKeepsIInv ==
  ASSUME KafkaIInv, NEW w \in Workers,
         KafkaListen(w) \/ KafkaClose(w) \/ KafkaTeardown(w) \/ ProducerGone(w) \/ ConsumerGone(w)
  PROVE  KafkaIInv'
<1>1. /\ owner' \in [Partitions -> Workers \cup {NoWorker}]
      /\ UNCHANGED <<options, clock, log, committed, running, outcome, moves>>
  BY DEF KafkaListen, KafkaClose, KafkaTeardown, ProducerGone, ConsumerGone
<1>2. worker \in [Workers -> [state : WorkerStates, producer : BOOLEAN]]
  OBVIOUS
<1> HIDE DEF KafkaIInv
<1>3. worker' \in [Workers -> [state : WorkerStates, producer : BOOLEAN]]
  <2>1. CASE KafkaListen(w)
    BY <1>2, <2>1 DEF KafkaListen, WorkerStates
  <2>2. CASE KafkaClose(w)
    BY <1>2, <2>2 DEF KafkaClose, WorkerStates
  <2>3. CASE KafkaTeardown(w)
    BY <1>2, <2>3 DEF KafkaTeardown, WorkerStates
  <2>4. CASE ProducerGone(w)
    BY <1>2, <2>4 DEF ProducerGone, WorkerStates
  <2>5. CASE ConsumerGone(w)
    BY <1>2, <2>5 DEF ConsumerGone, WorkerStates
  <2> QED BY <2>1, <2>2, <2>3, <2>4, <2>5
<1> USE DEF KafkaIInv
<1> QED BY <1>1, <1>3

\* What is committed is the position of the owner.
LEMMA CommitKeepsIInv ==
  ASSUME KafkaIInv, NEW w \in Workers, NEW p \in Partitions, Commit(w, p)
  PROVE  KafkaIInv'
<1>1. /\ committed' = [committed EXCEPT ![p] = running[w][p].at]
      /\ UNCHANGED <<options, clock, log, owner, worker, running, outcome, moves>>
  BY DEF Commit
<1> QED BY <1>1

LEMMA KafkaNextIInv == KafkaIInv /\ [KafkaNext]_kafkaVars => KafkaIInv'
<1> SUFFICES ASSUME KafkaIInv, [KafkaNext]_kafkaVars
             PROVE  KafkaIInv'
  OBVIOUS
<1>1. ASSUME NEW p \in Partitions, KafkaEmit(p) PROVE KafkaIInv'
  BY <1>1, EmitKeepsIInv
<1>2. ASSUME NEW w \in Workers, NEW p \in Partitions, Moves(p, w) PROVE KafkaIInv'
  BY <1>2, MovesKeepsIInv
<1>3. ASSUME NEW w \in Workers, NEW p \in Partitions, JobStep(w, p) PROVE KafkaIInv'
  BY <1>3, JobStepKeepsIInv
<1>4. ASSUME NEW w \in Workers, NEW p \in Partitions, Commit(w, p) PROVE KafkaIInv'
  BY <1>4, CommitKeepsIInv
<1>5. ASSUME NEW w \in Workers,
             KafkaListen(w) \/ KafkaClose(w) \/ KafkaTeardown(w) \/ ProducerGone(w)
               \/ ConsumerGone(w)
      PROVE  KafkaIInv'
  BY <1>5, LifecycleKeepsIInv
<1>6. ASSUME NEW w \in Workers, Crash(w) PROVE KafkaIInv'
  BY <1>6, CrashKeepsIInv
<1>7. CASE KafkaTick
  BY <1>7 DEF KafkaTick
<1>8. CASE UNCHANGED kafkaVars
  BY <1>8 DEF kafkaVars
<1> HIDE DEF KafkaIInv
<1> QED BY <1>1, <1>2, <1>3, <1>4, <1>5, <1>6, <1>7, <1>8 DEF KafkaNext

-----------------------------------------------------------------------------
(* What is passed over has no value, and all that has none is passed over. *)

SkippedIsEmpty ==
    /\ \A p \in Partitions : \A o \in 1 .. Len(log[p]) :
         outcome[p][o] # "none" => (outcome[p][o] = "skipped" <=> log[p][o] = NoValue)
    /\ \A w \in Workers, p \in Partitions :
         running[w][p].phase # "idle" => log[p][running[w][p].at + 1] # NoValue

\* A record more has no outcome, and those there are keep theirs.
LEMMA EmitKeepsSkipped ==
  ASSUME KafkaIInv, SkippedIsEmpty, NEW p \in Partitions, KafkaEmit(p)
  PROVE  SkippedIsEmpty'
<1>1. PICK wire : log' = [log EXCEPT ![p] = Append(log[p], wire)]
  BY DEF KafkaEmit
<1>2. outcome' = [outcome EXCEPT ![p] = Append(outcome[p], "none")] /\ running' = running
  BY DEF KafkaEmit
<1>3. PICK wires : log[p] \in Seq(wires) /\ wire \in wires
  <2>1. log[p] \in Seq(Wires \cup {wire})
    <3>1. log[p] \in Seq(Wires)
      OBVIOUS
    <3> DEFINE wires == Wires
    <3>2. log[p] \in Seq(wires)
      BY <3>1
    <3> HIDE DEF wires, KafkaIInv
    <3>3. log[p] \in Seq(wires \cup {wire})
      BY <3>2
    <3> QED BY <3>3 DEF wires
  <2> QED BY <2>1
<1>4. /\ Len(Append(log[p], wire)) = Len(log[p]) + 1
      /\ \A o \in 1 .. Len(log[p]) : Append(log[p], wire)[o] = log[p][o]
  <2> HIDE DEF KafkaIInv
  <2> QED BY <1>3, AppendProperties
<1>5. /\ Append(outcome[p], "none")[Len(log[p]) + 1] = "none"
      /\ \A o \in 1 .. Len(log[p]) : Append(outcome[p], "none")[o] = outcome[p][o]
  <2>1. outcome[p] \in Seq(Outcomes) /\ "none" \in Outcomes /\ Len(outcome[p]) = Len(log[p])
    BY DEF Outcomes
  <2> HIDE DEF KafkaIInv
  <2> QED BY <2>1, AppendProperties
<1>6. \A q \in Partitions : Len(log[q]) \in Nat
  BY LenProperties
<1>7. DOMAIN log = Partitions /\ DOMAIN outcome = Partitions
  OBVIOUS
<1>8. \A w \in Workers, q \in Partitions :
        running[w][q].at \in Nat /\ (running[w][q].phase # "idle" => running[w][q].at < Len(log[q]))
  OBVIOUS
<1> HIDE DEF KafkaIInv
<1>9. /\ log'[p] = Append(log[p], wire) /\ outcome'[p] = Append(outcome[p], "none")
      /\ \A q \in Partitions \ {p} : log'[q] = log[q] /\ outcome'[q] = outcome[q]
  BY <1>1, <1>2, <1>7
<1>10. ASSUME NEW q \in Partitions, NEW o \in 1 .. Len(log'[q]), outcome'[q][o] # "none"
       PROVE  outcome'[q][o] = "skipped" <=> log'[q][o] = NoValue
  <2>1. CASE q = p
    <3>1. PICK n, lg, oc, m, x : /\ n = Len(log[p]) /\ lg = log[p] /\ oc = outcome[p]
                                 /\ m = log'[p] /\ x = outcome'[p]
      OBVIOUS
    <3>2. /\ n \in Nat /\ Len(m) = n + 1 /\ x[n + 1] = "none"
          /\ \A i \in 1 .. n : m[i] = lg[i] /\ x[i] = oc[i]
      BY <1>4, <1>5, <1>6, <1>9, <3>1
    <3>3. o \in 1 .. Len(m) /\ x[o] # "none"
      BY <1>10, <2>1, <3>1
    <3>4. o \in 1 .. n
      BY <3>2, <3>3
    <3>5. oc[o] # "none" => (oc[o] = "skipped" <=> lg[o] = NoValue)
      BY <3>1, <3>4 DEF SkippedIsEmpty
    <3> QED BY <2>1, <3>1, <3>2, <3>3, <3>4, <3>5
  <2>2. CASE q # p
    BY <1>9, <1>10, <2>2 DEF SkippedIsEmpty
  <2> QED BY <2>1, <2>2
<1>11. ASSUME NEW w \in Workers, NEW q \in Partitions, running[w][q].phase # "idle"
       PROVE  log'[q][running[w][q].at + 1] # NoValue
  <2>1. running[w][q].at + 1 \in 1 .. Len(log[q]) /\ log[q][running[w][q].at + 1] # NoValue
    BY <1>6, <1>8, <1>11 DEF SkippedIsEmpty
  <2> QED BY <1>4, <1>9, <2>1
<1> QED BY <1>2, <1>10, <1>11 DEF SkippedIsEmpty

\* An outcome that says of its record whether it had a value.
LEMMA DoneKeepsSkipped ==
  ASSUME KafkaIInv, SkippedIsEmpty, NEW w \in Workers, NEW p \in Partitions, NEW what,
         running[w][p].at < Len(log[p]), Done(w, p, what),
         what = "skipped" <=> log[p][running[w][p].at + 1] = NoValue
  PROVE  SkippedIsEmpty'
<1>1. /\ outcome' = [outcome EXCEPT ![p] = [outcome[p] EXCEPT ![running[w][p].at + 1] = what]]
      /\ log' = log
      /\ running' = [running EXCEPT ![w] = [running[w] EXCEPT ![p] =
                       [phase |-> "idle", at |-> running[w][p].at + 1]]]
  BY DEF Done
<1>2. /\ \A q \in Partitions : outcome[q] \in Seq(Outcomes) /\ Len(outcome[q]) = Len(log[q])
      /\ DOMAIN outcome = Partitions /\ running[w][p].at \in Nat
  OBVIOUS
<1>3. \A q \in Partitions : DOMAIN outcome[q] = 1 .. Len(log[q]) /\ Len(log[q]) \in Nat
  <2> HIDE DEF KafkaIInv
  <2> QED BY <1>2, LenProperties
<1>4. \A q \in Partitions : \A o \in 1 .. Len(log[q]) :
        outcome'[q][o] = IF q = p /\ o = running[w][p].at + 1 THEN what ELSE outcome[q][o]
  BY <1>1, <1>2, <1>3
<1>5. DOMAIN running = Workers /\ \A v \in Workers : DOMAIN running[v] = Partitions
  OBVIOUS
<1>6. \A v \in Workers, q \in Partitions :
        running'[v][q].phase # "idle" => running'[v][q] = running[v][q]
  BY <1>1, <1>5
<1> HIDE DEF KafkaIInv
<1> QED BY <1>1, <1>4, <1>6 DEF SkippedIsEmpty

\* A message that is handled or has failed has a value.
LEMMA PhaseKeepsSkipped ==
  ASSUME KafkaIInv, SkippedIsEmpty, NEW w \in Workers, NEW p \in Partitions, NEW phase,
         running' = [running EXCEPT ![w][p].phase = phase], log' = log, outcome' = outcome,
         log[p][running[w][p].at + 1] # NoValue
  PROVE  SkippedIsEmpty'
<1>1. \A v \in Workers, q \in Partitions :
        /\ running'[v][q].at = running[v][q].at
        /\ (v # w \/ q # p) => running'[v][q].phase = running[v][q].phase
  <2>1. running \in [Workers -> [Partitions -> Job]]
    OBVIOUS
  <2> HIDE DEF Job, KafkaIInv
  <2> QED BY <2>1 DEF Job
<1> HIDE DEF KafkaIInv
<1> QED BY <1>1 DEF SkippedIsEmpty

LEMMA JobStepKeepsSkipped ==
  ASSUME KafkaIInv, SkippedIsEmpty, NEW w \in Workers, NEW p \in Partitions, JobStep(w, p)
  PROVE  SkippedIsEmpty'
<1>1. CASE Fetch(w, p)
  <2>1. PICK wire : wire = log[p][running[w][p].at + 1]
    OBVIOUS
  <2>2. CASE wire = NoValue
    <3>1. Done(w, p, "skipped") /\ running[w][p].at < Len(log[p])
      BY <1>1, <2>1, <2>2 DEF Fetch
    <3> QED BY <2>1, <2>2, <3>1, DoneKeepsSkipped
  <2>3. CASE wire # NoValue
    <3>1. /\ \E phase : running' = [running EXCEPT ![w][p].phase = phase]
          /\ log' = log /\ outcome' = outcome
      BY <1>1, <2>1, <2>3 DEF Fetch
    <3> QED BY <2>1, <2>3, <3>1, PhaseKeepsSkipped
  <2> QED BY <2>2, <2>3
<1>2. CASE HandlerEnds(w, p) \/ DeadLetter(w, p)
  <2>1. running[w][p].phase # "idle" /\ running[w][p].at < Len(log[p])
    BY <1>2 DEF HandlerEnds, DeadLetter
  <2>2. log[p][running[w][p].at + 1] # NoValue
    BY <2>1 DEF SkippedIsEmpty
  <2>3. \/ \E what : Done(w, p, what) /\ what # "skipped"
        \/ /\ running' = [running EXCEPT ![w][p].phase = "failed"]
           /\ log' = log /\ outcome' = outcome
    <3>1. Done(w, p, "handled") \/ Done(w, p, "dropped") \/ Done(w, p, "dead") \/ Done(w, p, "dead letter failed")
          \/ (running' = [running EXCEPT ![w][p].phase = "failed"] /\ log' = log /\ outcome' = outcome)
      BY <1>2 DEF HandlerEnds, DeadLetter
    <3>2. "handled" # "skipped" /\ "dropped" # "skipped" /\ "dead" # "skipped"
      OBVIOUS
    <3>3. CASE Done(w, p, "dead letter failed")
      <4>1. PICK what : what = "dead letter failed"
        OBVIOUS
      <4>2. what # "skipped"
        BY <4>1
      <4> QED BY <3>3, <4>1, <4>2
    <3> QED BY <3>1, <3>2, <3>3
  <2> QED BY <2>1, <2>2, <2>3, DoneKeepsSkipped, PhaseKeepsSkipped
<1> QED BY <1>1, <1>2 DEF JobStep

\* What leaves the log, the outcomes and the messages under way alone.
LEMMA OthersKeepSkipped ==
  ASSUME SkippedIsEmpty, log' = log, outcome' = outcome,
         \A w \in Workers, p \in Partitions :
             running'[w][p].phase = "idle" \/ running'[w][p] = running[w][p]
  PROVE  SkippedIsEmpty'
BY DEF SkippedIsEmpty

LEMMA KafkaNextSkipped == KafkaIInv /\ SkippedIsEmpty /\ [KafkaNext]_kafkaVars => SkippedIsEmpty'
<1> SUFFICES ASSUME KafkaIInv, SkippedIsEmpty, [KafkaNext]_kafkaVars
             PROVE  SkippedIsEmpty'
  OBVIOUS
<1>1. ASSUME NEW p \in Partitions, KafkaEmit(p) PROVE SkippedIsEmpty'
  BY <1>1, EmitKeepsSkipped
<1>2. ASSUME NEW w \in Workers, NEW p \in Partitions, JobStep(w, p) PROVE SkippedIsEmpty'
  BY <1>2, JobStepKeepsSkipped
<1>3. ASSUME NEW w \in Workers, NEW p \in Partitions, Moves(p, w) PROVE SkippedIsEmpty'
  <2>1. running' = [running EXCEPT ![w][p].at = committed[p]] /\ running[w][p].phase = "idle"
        /\ log' = log /\ outcome' = outcome
    BY <1>3 DEF Moves, Assign
  <2>2. \A v \in Workers, q \in Partitions :
          running'[v][q].phase = "idle" \/ running'[v][q] = running[v][q]
    BY <2>1
  <2> QED BY <2>1, <2>2, OthersKeepSkipped
<1>4. ASSUME NEW w \in Workers, Crash(w) PROVE SkippedIsEmpty'
  <2>1. /\ running' = [running EXCEPT ![w] = [p \in Partitions |-> Resting]]
        /\ log' = log /\ outcome' = outcome
    BY <1>4 DEF Crash
  <2>2. \A v \in Workers, q \in Partitions :
          running'[v][q].phase = "idle" \/ running'[v][q] = running[v][q]
    BY <2>1 DEF Resting
  <2> QED BY <2>1, <2>2, OthersKeepSkipped
<1>5. CASE \/ \E w \in Workers :
                KafkaListen(w) \/ KafkaClose(w) \/ KafkaTeardown(w) \/ ProducerGone(w) \/ ConsumerGone(w)
           \/ \E w \in Workers, p \in Partitions : Commit(w, p)
           \/ KafkaTick \/ UNCHANGED kafkaVars
  <2>1. log' = log /\ outcome' = outcome /\ running' = running
    BY <1>5 DEF KafkaListen, KafkaClose, KafkaTeardown, ProducerGone, ConsumerGone, Commit, KafkaTick,
                kafkaVars
  <2> QED BY <2>1, OthersKeepSkipped
<1> HIDE DEF KafkaIInv
<1> QED BY <1>1, <1>2, <1>3, <1>4, <1>5 DEF KafkaNext

\* Every variable of the Kafka transport keeps its type: positions are naturals,
\* the log holds wires of the producers, an outcome is one of the six.
THEOREM KafkaTypeCorrect == KafkaSpec => []KafkaTypeOK
<1> HIDE DEF KafkaIInv
<1>1. KafkaIInv => KafkaTypeOK
  BY DEF KafkaIInv
<1> HIDE DEF KafkaTypeOK
<1> QED BY <1>1, KafkaInitIInv, KafkaNextIInv, PTL DEF KafkaSpec

\* An offset is committed only behind records that have an outcome (autoCommit of
\* kafkajs behind eachMessage(), with crashes, moves and close()), and those it
\* passed over are the ones without a value.
THEOREM OffsetsAccountedHolds == KafkaSpec => []OffsetsAccounted
<1>1. KafkaIInv /\ SkippedIsEmpty => OffsetsAccounted
  <2> SUFFICES ASSUME KafkaIInv, SkippedIsEmpty, NEW p \in Partitions, NEW o \in 1 .. committed[p]
               PROVE  outcome[p][o] # "none" /\ (outcome[p][o] = "skipped" <=> log[p][o] = NoValue)
    BY DEF OffsetsAccounted
  <2>1. outcome[p][o] # "none" /\ o \in 1 .. Len(log[p])
    BY LenProperties
  <2> QED BY <2>1 DEF SkippedIsEmpty
<1>2. KafkaInit => SkippedIsEmpty
  BY DEF KafkaInit, SkippedIsEmpty, Resting
<1> HIDE DEF KafkaIInv
<1> QED BY <1>1, <1>2, KafkaInitIInv, KafkaNextIInv, KafkaNextSkipped, PTL DEF KafkaSpec

\* eachMessage() meets a record only when all before it in the partition have an
\* outcome, whichever worker it runs in.
THEOREM PartitionInOrderHolds == KafkaSpec => []PartitionInOrder
<1>1. KafkaIInv => PartitionInOrder
  BY DEF PartitionInOrder
<1> HIDE DEF KafkaIInv
<1> QED BY <1>1, KafkaInitIInv, KafkaNextIInv, PTL DEF KafkaSpec
===============================================================================
