--------------------------- MODULE MemoryTransport ---------------------------
(***************************************************************************)
(* The in-process transport and its bus                                    *)
(* (packages/microservices/src/transports/memory.transport.ts), with the   *)
(* microservice builder's outcomes of a message.  Several transports, set  *)
(* up alike or not, share a bus with one topic; a step is what runs        *)
(* between two awaits.  The bus needs no dialling: connect() is over in    *)
(* the step that calls it and its caller goes on in a later one.           *)
(***************************************************************************)
EXTENDS WireEnvelope, Sequences

CONSTANTS
    Listeners,          \* the transports that call listen()
    Transports,         \* names, strings; also the names of their reply inboxes
    Emits, Sends,       \* emit() and send() calls, strings
    Legacy,             \* messages a peer older than the envelope puts on the bus
    SenderOf,           \* the transport each emit and send is made on
    Setups,             \* options of every transport: secret, legacy window, ...
    Payloads            \* payload of every message

Messages == Emits \cup Sends \cup Legacy

\* A name is no JavaScript "undefined" or empty text, and a message is one thing.
ASSUME NamesAssumption ==
    /\ "none" \notin Transports /\ Sends \cap {"none", ""} = {}
    /\ Emits \cap Sends = {} /\ Legacy \cap (Emits \cup Sends) = {}
    /\ SenderOf \in [Emits \cup Sends -> Transports]

\* The correlation id of a call is a fresh UUID: no older peer has put it in its message.
ASSUME FreshIdsAssumption ==
    \A s \in Setups, p \in Payloads, n \in Transports, m \in Legacy :
        ReadWire(p[m], s[n], 0).c \notin Sends

VARIABLES
    setup, payload,     \* one of Setups, one of Payloads
    transport,          \* [Transports -> state, handlers, topics, inbox, listening]
    ticks,              \* microtasks of the bus: publishes whose listeners are to be called
    call,               \* [Messages -> where the call stands]
    job                 \* [Transports -> [Messages -> what became of the message]]
memoryVars == <<setup, payload, transport, ticks, call, job>>

NoJob == [phase |-> "none", runs |-> 0, envelope |-> Envelope("none", Undefined, "none", "none", NoFields)]

MemoryInit ==
    /\ setup \in Setups
    /\ payload \in Payloads
    /\ transport = [n \in Transports |-> [state |-> "idle", handlers |-> FALSE, topics |-> 0,
                                          inbox |-> FALSE, listening |-> "idle"]]
    /\ ticks = <<>>
    /\ call = [m \in Messages |-> "idle"]
    /\ job = [n \in Transports |-> [m \in Messages |-> NoJob]]

Closing(n) == transport[n].state \in {"closing", "closed"}

\* connect(): opening the connection subscribes the topics of a known handler map
Connected(t) ==
    IF t.state # "idle" THEN t
    ELSE [t EXCEPT !.state = "connected", !.topics = IF t.handlers THEN @ + 1 ELSE @]

\* A listener is the i-th subscription of a transport to the topic, or its inbox
TopicListeners == UNION {{n} \X (1 .. transport[n].topics) : n \in Transports}
InboxListeners(inbox) == {l \in Transports \X {0} : l[1] = inbox /\ transport[inbox].inbox}
OfInbox(l) == l[2] = 0

\* publish(): a microtask for every listener there is now
Publish(m, wire, listeners) ==
    ticks' = IF listeners = {} THEN ticks
             ELSE Append(ticks, [of |-> m, wire |-> wire, to |-> listeners])

\* listen(): the handlers, then connect() ...
Listen(n) ==
    /\ n \in Listeners /\ transport[n].listening \in {"idle", "listening"}
    /\ LET t == [transport[n] EXCEPT !.handlers = TRUE]
       IN  transport' = [transport EXCEPT ![n] =
               IF Closing(n) THEN [t EXCEPT !.listening = "failed"]
               ELSE [Connected(t) EXCEPT !.listening = "connecting"]]
    /\ UNCHANGED <<setup, payload, ticks, call, job>>

NoSubscriptions(t) == t.topics = 0 /\ ~t.inbox

\* ... then the topics, unless this transport subscribes to something already
Listening(n) ==
    LET t == transport[n]
    IN  /\ t.listening = "connecting"
        /\ transport' = [transport EXCEPT ![n].listening = "listening",
               ![n].topics = IF NoSubscriptions(t) THEN 1 ELSE @]
        /\ UNCHANGED <<setup, payload, ticks, call, job>>

\* emit() and send() wait for connect(), which throws on a transport that closes
Begin(m) ==
    LET n == SenderOf[m]
    IN  /\ m \in Emits \cup Sends /\ call[m] = "idle"
        /\ call' = [call EXCEPT ![m] = IF Closing(n) THEN "failed" ELSE "connecting"]
        /\ transport' = [transport EXCEPT ![n] = Connected(@)]
        /\ UNCHANGED <<setup, payload, ticks, job>>

Emit(m) ==
    LET n == SenderOf[m]
    IN  /\ m \in Emits /\ call[m] = "connecting"
        /\ Publish(m, Sign(WrapEvent(payload[m]), setup[n].secret, 0), TopicListeners)
        /\ call' = [call EXCEPT ![m] = "sent"]
        /\ UNCHANGED <<setup, payload, transport, job>>

EnsureInbox(m) ==
    /\ m \in Sends /\ call[m] = "connecting"
    /\ call' = [call EXCEPT ![m] = "addressed"]
    /\ transport' = [transport EXCEPT ![SenderOf[m]].inbox = TRUE]
    /\ UNCHANGED <<setup, payload, ticks, job>>

Send(m) ==
    LET n == SenderOf[m]
        wire == WrapRpc(payload[m], n, m, [correlation |-> Text(m)])
    IN  /\ m \in Sends /\ call[m] = "addressed"
        /\ Publish(m, Sign(wire, setup[n].secret, 0), TopicListeners)
        /\ call' = [call EXCEPT ![m] = "waiting"]
        /\ UNCHANGED <<setup, payload, transport, job>>

LegacyPeer(m) ==
    /\ m \in Legacy /\ call[m] = "idle"
    /\ Publish(m, payload[m], TopicListeners)
    /\ call' = [call EXCEPT ![m] = "sent"]
    /\ UNCHANGED <<setup, payload, transport, job>>

TimesOut(m) ==
    /\ call[m] = "waiting"
    /\ call' = [call EXCEPT ![m] = "failed"]
    /\ UNCHANGED <<setup, payload, transport, ticks, job>>

\* A message no handler can take goes to the dead-letter topic, if there is one
DeadLettered(n) == IF setup[n].deadLetter THEN "dead" ELSE "dropped"

\* The microtask of one listener of the earliest publish
Called(l) ==
    /\ ticks # <<>> /\ l \in Head(ticks).to
    /\ ticks' = IF Head(ticks).to = {l} THEN Tail(ticks)
                ELSE [ticks EXCEPT ![1].to = @ \ {l}]

\* onServerMessage(): refused, or handed to the handler of the topic.  A listener
\* that unsubscribed after the publish is still called.
OnServerMessage(l) ==
    LET n == l[1]
        m == Head(ticks).of
        envelope == ReadWire(Head(ticks).wire, setup[n], 0)
    IN  /\ Called(l) /\ ~OfInbox(l)
        /\ job' = [job EXCEPT ![n][m] =
               [phase |-> IF envelope.k = "refused" THEN DeadLettered(n) ELSE "running",
                runs |-> @.runs + 1, envelope |-> envelope]]
        /\ UNCHANGED <<setup, payload, transport, call>>

\* onReply(): the pending call whose correlation id the reply carries
OnReply(l) ==
    LET n == l[1]
        wire == Head(ticks).wire
        c == AsString(Field(Unwrapped(wire, setup[n]), "correlationId"))
    IN  /\ Called(l) /\ OfInbox(l)
        /\ call' = IF VerifyWire(wire, setup[n], 0) = "" /\ c \in Sends
                      /\ SenderOf[c] = n /\ call[c] = "waiting"
                   THEN [call EXCEPT ![c] = "answered"] ELSE call
        /\ UNCHANGED <<setup, payload, transport, job>>

\* The handler returns or throws; an RPC is answered either way, over connect()
Reply(n, m) ==
    LET e == job[n][m].envelope
        wire == Obj([correlationId |-> Text(IF e.c = "none" THEN "" ELSE e.c), data |-> Text("result")])
    IN  /\ job[n][m].phase = "running" /\ e.k = "rpc" /\ e.r # "none"
        /\ IF Closing(n)
           THEN job' = [job EXCEPT ![n][m].phase = "unanswered"] /\ UNCHANGED ticks
           ELSE /\ job' = [job EXCEPT ![n][m].phase = "answered"]
                /\ Publish(m, Sign(wire, setup[n].secret, 0), InboxListeners(e.r))
        /\ UNCHANGED <<setup, payload, transport, call>>

HandlerReturns(n, m) ==
    /\ job[n][m].phase = "running" /\ job[n][m].envelope.r = "none"
    /\ job' = [job EXCEPT ![n][m].phase = "handled"]
    /\ UNCHANGED <<setup, payload, transport, ticks, call>>

\* A request without a reply address that fails is only logged
ThrowsLogged(n, m) ==   \* mutant: the failure of an event is swallowed
    /\ job[n][m].phase = "running" /\ job[n][m].envelope.r = "none"
    /\ job' = [job EXCEPT ![n][m].phase = "logged"]
    /\ UNCHANGED <<setup, payload, transport, ticks, call>>

HandlerThrows(n, m) ==
    LET e == job[n][m].envelope
    IN  /\ job[n][m].phase = "running" /\ e.r = "none"
        /\ job' = [job EXCEPT ![n][m].phase = IF e.k = "rpc" THEN "logged" ELSE DeadLettered(n)]
        /\ UNCHANGED <<setup, payload, transport, ticks, call>>

Close(n) ==
    /\ ~Closing(n)
    /\ transport' = [transport EXCEPT ![n].state = "closing"]
    /\ UNCHANGED <<setup, payload, ticks, call, job>>

\* The drain ended or timed out: pending calls are rejected, listeners removed.
\* The handlers stay.
Teardown(n) ==
    /\ transport[n].state = "closing"
    /\ transport' = [transport EXCEPT ![n].state = "closed", ![n].topics = 0, ![n].inbox = FALSE]
    /\ call' = [m \in Messages |-> IF m \in Sends /\ SenderOf[m] = n /\ call[m] = "waiting"
                                   THEN "failed" ELSE call[m]]
    /\ UNCHANGED <<setup, payload, ticks, job>>

MemoryNext ==
    \/ \E n \in Transports : Listen(n) \/ Listening(n) \/ Close(n) \/ Teardown(n)
    \/ \E m \in Messages :
         Begin(m) \/ Emit(m) \/ EnsureInbox(m) \/ Send(m) \/ LegacyPeer(m) \/ TimesOut(m)
    \/ ticks # <<>> /\ \E l \in Head(ticks).to : OnServerMessage(l) \/ OnReply(l)
    \/ \E n \in Transports, m \in Messages :
         Reply(n, m) \/ HandlerReturns(n, m) \/ HandlerThrows(n, m)

MemorySpec == MemoryInit /\ [][MemoryNext]_memoryVars

-----------------------------------------------------------------------------
(* Properties. *)

\* What a handler is given is what a peer sent.  Whatever the payload looks like,
\* a reply address or an envelope of its own included, an emit is handled as an
\* event with that payload and a send as a request answered to its sender, once,
\* by every transport with the sender's secret or without the legacy window.
HandledAsSent ==
    \A n \in Transports, m \in Emits \cup Sends :
        LET j == job[n][m]
            s == SenderOf[m]
        IN  /\ j.envelope.k \in {"evt", "rpc"}
            /\ setup[n].legacy => setup[n].secret = setup[s].secret
            =>  /\ j.runs = 1
                /\ setup[n].secret = setup[s].secret
                /\ j.envelope = IF m \in Emits
                                THEN Envelope("evt", payload[m], "none", "none", NoFields)
                                ELSE Envelope("rpc", payload[m], s, m, [correlation |-> Text(m)])

\* A call is answered only when the request was handled and the reply passed
\* between two transports of one secret; nothing a peer sent disappears in a
\* serving transport that keeps dead letters: it is handled, answered, kept as a
\* dead letter or left unanswered by a transport that closes.
NothingVanishes ==
    /\ \A n \in Transports, m \in Emits \cup Sends :
         setup[n].deadLetter =>
             /\ job[n][m].phase \notin {"logged", "dropped"}
             /\ job[n][m].phase = "unanswered" => Closing(n)
    /\ \A c \in Sends : call[c] = "answered" =>
         \E n \in Transports :
           job[n][c].phase = "answered" /\ setup[n].secret = setup[SenderOf[c]].secret

=============================================================================
