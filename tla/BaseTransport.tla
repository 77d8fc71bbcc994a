---------------------------- MODULE BaseTransport ----------------------------
(***************************************************************************)
(* The connection lifecycle every transport inherits from BaseTransport    *)
(* (packages/microservices/src/transports/base.transport.ts), driven by    *)
(* the openConnection / teardown / reply hooks of RmqTransport: the one    *)
(* transport that calls handleDisconnect and so uses all of it.            *)
(*                                                                         *)
(* The program is one JavaScript event loop.  A step is what runs between  *)
(* two awaits; an event of the outside world (a socket, a timer) is only   *)
(* handled when no continuation is waiting, which is the guard Quiet.      *)
(* A task is one asynchronous call: an emit(), or an inbound delivery      *)
(* whose handler ends in reply().  Both await connect() before they touch  *)
(* this.channel.                                                           *)
(***************************************************************************)
EXTENDS Naturals, FiniteSets

CONSTANTS
  Emits,       \* emit() calls made by the application
  Replies,     \* inbound deliveries: handler, then reply()
  Closers,     \* close() calls made by the application
  Reconnects,  \* identities of the promises stored in this.reconnecting
  Conns,       \* connections the broker can hand out (reused when dead)
  MaxRetries,  \* reconnect.maxRetries, finite here
  Nil          \* null

Tasks == Emits \cup Replies
Loops == Tasks \cup Reconnects   \* whoever runs openWithRetry

ASSUME TasksAssumption == Tasks \cap Reconnects = {}
ASSUME RetriesAssumption == MaxRetries \in Nat
ASSUME NilAssumption == Nil \notin Conns /\ Nil \notin Reconnects

VARIABLES
  state,         \* this.state
  loop,          \* loop[l]: where the openWithRetry run by l stands
  attempt,       \* attempt[l]: its local `attempt`
  opening,       \* opening[l]: the `connection` local of its openConnection()
  reconnecting,  \* this.reconnecting
  handle,        \* this.connection
  channel,       \* this.channel, named by the connection it belongs to
  live,          \* connections open at the broker
  task,          \* task[t]: where task t stands
  waitsFor,      \* waitsFor[t]: the reconnect promise a waiting t awaits
  closer,        \* closer[k]: where close() call k stands
  awaited        \* awaited[k]: the in-flight set drainInflight() snapshotted

loopVars  == <<loop, attempt, opening>>
connVars  == <<handle, channel, live>>
closeVars == <<closer, awaited>>
vars == <<state, loopVars, reconnecting, connVars, task, waitsFor, closeVars>>

States == {"idle", "connecting", "connected", "reconnecting", "closing", "closed"}
Phases == {"none", "dial", "channel", "topology", "sleep"}
TaskStates ==
  {"idle", "handling", "looping", "waiting", "ready", "sent", "failed"}
CloserStates == {"idle", "draining", "teardown", "closing", "returned"}

TypeOK ==
  /\ state \in States
  /\ loop \in [Loops -> Phases]
  /\ attempt \in [Loops -> 0 .. MaxRetries + 1]
  /\ opening \in [Loops -> Conns \cup {Nil}]
  /\ reconnecting \in Reconnects \cup {Nil}
  /\ handle \in Conns \cup {Nil}
  /\ channel \in Conns \cup {Nil}
  /\ live \in SUBSET Conns
  /\ task \in [Tasks -> TaskStates]
  /\ waitsFor \in [Tasks -> Reconnects \cup {Nil}]
  /\ closer \in [Closers -> CloserStates]
  /\ awaited \in [Closers -> SUBSET Replies]

Init ==
  /\ state = "idle"
  /\ loop = [l \in Loops |-> "none"]
  /\ attempt = [l \in Loops |-> 0]
  /\ opening = [l \in Loops |-> Nil]
  /\ reconnecting = Nil
  /\ handle = Nil
  /\ channel = Nil
  /\ live = {}
  /\ task = [t \in Tasks |-> "idle"]
  /\ waitsFor = [t \in Tasks |-> Nil]
  /\ closer = [k \in Closers |-> "idle"]
  /\ awaited = [k \in Closers |-> {}]

(***************************************************************************)
(* Helper state formulae.                                                  *)
(***************************************************************************)
Settled == {"sent", "failed"}

\* The set trackInflight() keeps: a delivery is added when its handler starts
\* and removed when the tracked promise settles.
Inflight == {h \in Replies : task[h] \notin {"idle"} \cup Settled}

\* No continuation is queued, so the event loop may take an outside event.
Quiet == \A t \in Tasks : task[t] # "ready"

Running(l) == loop[l] # "none"

(***************************************************************************)
(* connect() and handleDisconnect(): the two places that start a loop.     *)
(***************************************************************************)
BeginLoop(l) ==
  /\ loop' = [loop EXCEPT ![l] = "dial"]
  /\ attempt' = [attempt EXCEPT ![l] = 0]

ConnectAtOnce(t) ==
  /\ state \in {"connected", "connecting"}
  /\ task' = [task EXCEPT ![t] = "ready"]
  /\ UNCHANGED <<state, loop, attempt, reconnecting, waitsFor>>

ConnectAwaits(t) ==
  /\ state = "reconnecting" /\ reconnecting # Nil
  /\ task' = [task EXCEPT ![t] = "waiting"]
  /\ waitsFor' = [waitsFor EXCEPT ![t] = reconnecting]
  /\ UNCHANGED <<state, loop, attempt, reconnecting>>

ConnectThrows(t) ==
  /\ state \in {"closing", "closed"}
  /\ task' = [task EXCEPT ![t] = "failed"]
  /\ UNCHANGED <<state, loop, attempt, reconnecting, waitsFor>>

ConnectOpensTwice(t) ==   \* mutant: the early return on "connecting" is lost
  /\ state \in {"idle", "connecting"}
  /\ state' = "connecting"
  /\ BeginLoop(t)
  /\ task' = [task EXCEPT ![t] = "looping"]
  /\ UNCHANGED <<reconnecting, waitsFor>>

ConnectOpens(t) ==
  /\ state = "idle" \/ (state = "reconnecting" /\ reconnecting = Nil)
  /\ state' = "connecting"
  /\ BeginLoop(t)
  /\ task' = [task EXCEPT ![t] = "looping"]
  /\ UNCHANGED <<reconnecting, waitsFor>>

Connect(t) ==
  \/ ConnectAtOnce(t)
  \/ ConnectAwaits(t)
  \/ ConnectThrows(t)
  \/ ConnectOpens(t)

HandleDisconnect ==
  IF state = "connected"
  THEN /\ state' = "reconnecting"
       /\ \E r \in Reconnects :
            /\ ~Running(r)
            /\ BeginLoop(r)
            /\ reconnecting' = r
  ELSE UNCHANGED <<state, loop, attempt, reconnecting>>

(***************************************************************************)
(* openWithRetry() over RmqTransport.openConnection(): dial a URL, open a  *)
(* channel, assert the topology and resume consuming.  A failed attempt    *)
(* leaves this.connection and this.channel as they are.                    *)
(***************************************************************************)
EndLoopSilently(l, outcome) ==   \* mutant: awaiters of the promise are forgotten
  /\ loop' = [loop EXCEPT ![l] = "none"]
  /\ opening' = [opening EXCEPT ![l] = Nil]
  /\ IF l \in Reconnects
     THEN reconnecting' = Nil /\ UNCHANGED task
     ELSE task' = [task EXCEPT ![l] = outcome] /\ UNCHANGED reconnecting

EndLoop(l, outcome) ==
  /\ loop' = [loop EXCEPT ![l] = "none"]
  /\ opening' = [opening EXCEPT ![l] = Nil]
  /\ IF l \in Reconnects
     THEN /\ reconnecting' = Nil
          /\ task' = [t \in Tasks |->
                        IF task[t] = "waiting" /\ waitsFor[t] = l
                        THEN "ready" ELSE task[t]]
     ELSE /\ task' = [task EXCEPT ![l] = outcome]
          /\ UNCHANGED reconnecting

AttemptsOnceMore(l) ==   \* mutant: the retry budget is compared before counting
  /\ attempt' = [attempt EXCEPT ![l] = @ + 1]
  /\ IF attempt[l] > MaxRetries
     THEN /\ state' = "idle"
          /\ EndLoop(l, "failed")
     ELSE /\ loop' = [loop EXCEPT ![l] = "sleep"]
          /\ opening' = [opening EXCEPT ![l] = Nil]
          /\ UNCHANGED <<state, reconnecting, task>>

AttemptFails(l) ==
  /\ attempt' = [attempt EXCEPT ![l] = @ + 1]
  /\ IF attempt[l] + 1 > MaxRetries
     THEN /\ state' = "idle"
          /\ EndLoop(l, "failed")
     ELSE /\ loop' = [loop EXCEPT ![l] = "sleep"]
          /\ opening' = [opening EXCEPT ![l] = Nil]
          /\ UNCHANGED <<state, reconnecting, task>>

FreshConns == Conns \ (live \cup {handle, channel} \cup {opening[l] : l \in Loops})

DialOk(l) ==
  /\ loop[l] = "dial" /\ Quiet
  /\ \E c \in FreshConns :
       /\ live' = live \cup {c}
       /\ handle' = c
       /\ opening' = [opening EXCEPT ![l] = c]
  /\ loop' = [loop EXCEPT ![l] = "channel"]
  /\ UNCHANGED <<state, attempt, reconnecting, channel, task, waitsFor, closeVars>>

DialFails(l) ==
  /\ loop[l] = "dial" /\ Quiet
  /\ AttemptFails(l)
  /\ UNCHANGED <<connVars, waitsFor, closeVars>>

\* mutant: this.channel is only assigned when it is still null
ChannelKept(l) ==
  /\ loop[l] = "channel" /\ Quiet
  /\ opening[l] \in live
  /\ channel' = IF channel = Nil THEN opening[l] ELSE channel
  /\ loop' = [loop EXCEPT ![l] = "topology"]
  /\ UNCHANGED <<state, attempt, opening, reconnecting, handle, live, task,
                 waitsFor, closeVars>>

ChannelOpened(l) ==
  /\ loop[l] = "channel" /\ Quiet
  /\ opening[l] \in live
  /\ channel' = opening[l]
  /\ loop' = [loop EXCEPT ![l] = "topology"]
  /\ UNCHANGED <<state, attempt, opening, reconnecting, handle, live, task,
                 waitsFor, closeVars>>

SetupFails(l) ==
  /\ loop[l] \in {"channel", "topology"} /\ Quiet
  /\ AttemptFails(l)
  /\ UNCHANGED <<connVars, waitsFor, closeVars>>

SetupOk(l) ==
  /\ loop[l] = "topology" /\ Quiet
  /\ opening[l] \in live
  /\ state' = "connected"
  /\ EndLoop(l, "ready")
  /\ UNCHANGED <<attempt, connVars, waitsFor, closeVars>>

\* The backoff timer fires: the loop returns quietly if close() was called.
Wake(l) ==
  /\ loop[l] = "sleep" /\ Quiet
  /\ IF state \in {"closing", "closed"}
     THEN EndLoop(l, "ready")
     ELSE /\ loop' = [loop EXCEPT ![l] = "dial"]
          /\ UNCHANGED <<opening, reconnecting, task>>
  /\ UNCHANGED <<state, attempt, connVars, waitsFor, closeVars>>

LoopStep(l) ==
  \/ DialOk(l) \/ DialFails(l) \/ ChannelOpened(l)
  \/ SetupFails(l) \/ SetupOk(l) \/ Wake(l)

(***************************************************************************)
(* The broker drops a connection: its "close" listener, attached by        *)
(* openConnection, calls handleDisconnect whichever connection it was.     *)
(***************************************************************************)
Drop(c) ==
  /\ c \in live /\ Quiet
  /\ live' = live \ {c}
  /\ HandleDisconnect
  /\ UNCHANGED <<opening, handle, channel, task, waitsFor, closeVars>>

(***************************************************************************)
(* Tasks.                                                                  *)
(***************************************************************************)
Emit(t) ==
  /\ task[t] = "idle"
  /\ Connect(t)
  /\ UNCHANGED <<opening, connVars, closeVars>>

\* A consumer stays registered on this.channel until it is torn down.
Arrives(h) ==
  /\ task[h] = "idle" /\ Quiet
  /\ channel \in live
  /\ task' = [task EXCEPT ![h] = "handling"]
  /\ UNCHANGED <<state, loopVars, reconnecting, connVars, waitsFor, closeVars>>

\* The handler returned; the builder calls transport.reply().
HandlerReturns(h) ==
  /\ task[h] = "handling"
  /\ Connect(h)
  /\ UNCHANGED <<opening, connVars, closeVars>>

\* this.channel!.sendToQueue(): a null or closed channel throws.
Use(t) ==
  /\ task[t] = "ready"
  /\ task' = [task EXCEPT ![t] = IF channel \in live THEN "sent" ELSE "failed"]
  /\ UNCHANGED <<state, loopVars, reconnecting, connVars, waitsFor, closeVars>>

(***************************************************************************)
(* close(): drainInflight(), teardown(), then the state is "closed".       *)
(***************************************************************************)
CloseCall(k) ==
  /\ closer[k] = "idle"
  /\ IF state \in {"closed", "closing"}
     THEN /\ closer' = [closer EXCEPT ![k] = "returned"]
          /\ UNCHANGED <<state, awaited>>
     ELSE /\ state' = "closing"
          /\ awaited' = [awaited EXCEPT ![k] = Inflight]
          /\ closer' = [closer EXCEPT
                          ![k] = IF Inflight = {} THEN "teardown" ELSE "draining"]
  /\ UNCHANGED <<loopVars, reconnecting, connVars, task, waitsFor>>

Drained(k) ==
  /\ closer[k] = "draining"
  /\ awaited[k] \cap Inflight = {}
  /\ closer' = [closer EXCEPT ![k] = "teardown"]
  /\ UNCHANGED <<state, loopVars, reconnecting, connVars, task, waitsFor, awaited>>

DrainNeverTimesOut(k) ==   \* mutant: the drain is not bounded by a timer
  FALSE /\ UNCHANGED vars

DrainTimesOut(k) ==
  /\ closer[k] = "draining" /\ Quiet
  /\ awaited[k] \cap Inflight # {}
  /\ closer' = [closer EXCEPT ![k] = "teardown"]
  /\ UNCHANGED <<state, loopVars, reconnecting, connVars, task, waitsFor, awaited>>

\* teardown() closes this.connection, whose "close" event calls handleDisconnect ...
TeardownCloses(k) ==
  /\ closer[k] = "teardown" /\ Quiet
  /\ closer' = [closer EXCEPT ![k] = "closing"]
  /\ live' = live \ {handle}
  /\ IF handle \in live
     THEN HandleDisconnect
     ELSE UNCHANGED <<state, loop, attempt, reconnecting>>
  /\ UNCHANGED <<opening, handle, channel, task, waitsFor, awaited>>

\* ... then nulls the fields; close() ends in "closed".
TeardownEnds(k) ==
  /\ closer[k] = "closing"
  /\ closer' = [closer EXCEPT ![k] = "returned"]
  /\ handle' = Nil
  /\ channel' = Nil
  /\ state' = "closed"
  /\ UNCHANGED <<loopVars, reconnecting, live, task, waitsFor, awaited>>

CloserStep(k) ==
  \/ Drained(k) \/ DrainTimesOut(k) \/ TeardownCloses(k) \/ TeardownEnds(k)

(***************************************************************************)
(* Every call has settled and no connection is left: nothing can happen.   *)
(***************************************************************************)
Finished ==
  /\ \A l \in Loops : ~Running(l)
  /\ \A t \in Tasks : task[t] \in Settled \/ (t \in Replies /\ task[t] = "idle")
  /\ \A k \in Closers : closer[k] = "returned"
  /\ live = {}
  /\ UNCHANGED vars

Next ==
  \/ \E l \in Loops : LoopStep(l)
  \/ \E c \in Conns : Drop(c)
  \/ \E t \in Emits : Emit(t)
  \/ \E h \in Replies : Arrives(h) \/ HandlerReturns(h)
  \/ \E t \in Tasks : Use(t)
  \/ \E k \in Closers : CloseCall(k) \/ CloserStep(k)
  \/ Finished

Spec == Init /\ [][Next]_vars

(***************************************************************************)
(* Promises settle, timers fire and continuations run; nothing obliges the *)
(* application to call, a handler to return or the broker to stay up.      *)
(***************************************************************************)
Fairness ==
  /\ \A l \in Loops : WF_vars(LoopStep(l))
  /\ \A t \in Tasks : WF_vars(Use(t))
  /\ \A k \in Closers : WF_vars(CloserStep(k))

FairSpec == Spec /\ Fairness

-------------------------------------------------------------------------------
(***************************************************************************)
(* Safety.                                                                 *)
(***************************************************************************)

\* However connect(), drops, give-ups and close() interleave, at most one
\* openWithRetry loop runs, and never beside an idle or connected state that
\* would let another one start.  There is no lock: connect() and
\* handleDisconnect() rely on `state` alone (lines 295-303, 340-341).
SingleFlight ==
  \A l \in Loops : Running(l) =>
    /\ state \notin {"idle", "connected"}
    /\ \A m \in Loops : Running(m) => m = l

\* The transport is never stuck in a transitional state: "connecting" and
\* "reconnecting" mean that a loop is at work, and connect() finds the promise
\* of that loop in this.reconnecting (the fall-through of line 296 is dead).
TransitionalHasLoop ==
  /\ state = "connecting" => \E t \in Tasks : Running(t)
  /\ state = "reconnecting" => reconnecting # Nil /\ Running(reconnecting)

\* A connect() parked on a reconnect is parked on the promise of a loop that
\* still runs: the end of that loop wakes it, no wake-up is lost.
WaitersAwaitLiveLoop ==
  \A t \in Tasks : task[t] = "waiting" =>
    waitsFor[t] # Nil /\ Running(waitsFor[t]) /\ reconnecting = waitsFor[t]

\* Until close() is called, "connected" means that this.channel belongs to the
\* connection in this.connection, whatever earlier attempts left behind.
ConnectedUsable ==
  /\ state = "connected"
  /\ \A k \in Closers : closer[k] = "idle"
  => channel # Nil /\ channel = handle

(***************************************************************************)
(* Liveness, under Fairness.                                               *)
(***************************************************************************)

\* Whatever the broker does, every connect() returns or throws (with a finite
\* retry budget a loop ends even if the broker never answers, and its end
\* resumes who awaits it), and every close() returns, even if a handler it
\* waits for never does: the drain is bounded by a timer (lines 367-382).
CallsReturn ==
  /\ \A t \in Tasks :
       task[t] \in {"looping", "waiting", "ready"} ~> task[t] \in Settled
  /\ \A k \in Closers : closer[k] = "draining" ~> closer[k] = "returned"
==============================================================================
