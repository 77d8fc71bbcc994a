-------------------------- MODULE BaseTransportProofs --------------------------
(***************************************************************************)
(* The safety invariants of BaseTransport hold for every number of calls,  *)
(* reconnect promises, connections and retries.                            *)
(*                                                                         *)
(* SingleFlight is not inductive alone: a step must also know who owns the *)
(* running loop, and that this.reconnecting names it.  IInv adds that.     *)
(***************************************************************************)
EXTENDS BaseTransport, TLAPS

\* A task is "looping" exactly while it runs a loop; a reconnect loop that runs
\* is the one this.reconnecting names.
LoopOwner ==
  /\ \A t \in Tasks : Running(t) <=> task[t] = "looping"
  /\ \A r \in Reconnects : Running(r) => reconnecting = r

\* Until close() is called, an attempt past its dial owns this.connection, and
\* past createChannel also this.channel.
AttemptOwnsHandle ==
  (\A k \in Closers : closer[k] = "idle") =>
    \A l \in Loops :
      /\ loop[l] \in {"channel", "topology"} =>
           opening[l] = handle /\ handle # Nil
      /\ loop[l] = "topology" => channel = opening[l]

\* A loop that runs has not spent its retries.
BudgetLeft == \A l \in Loops : Running(l) => attempt[l] <= MaxRetries

IInv ==
  /\ TypeOK
  /\ BudgetLeft
  /\ LoopOwner
  /\ SingleFlight
  /\ TransitionalHasLoop
  /\ WaitersAwaitLiveLoop
  /\ AttemptOwnsHandle
  /\ ConnectedUsable

USE TasksAssumption, RetriesAssumption, NilAssumption

\* The initial states satisfy every conjunct: nothing runs and nothing is open.
LEMMA InitIInv == Init => IInv
  BY DEF Init, IInv, TypeOK, States, Phases, TaskStates, CloserStates, LoopOwner,
         SingleFlight, TransitionalHasLoop, WaitersAwaitLiveLoop,
         AttemptOwnsHandle, ConnectedUsable, BudgetLeft, Running, Loops, Tasks

\* The two outcomes of a connect(): it starts no loop, or it is the only one.
LEMMA ConnectStep ==
  ASSUME IInv, NEW t \in Tasks, task[t] \in {"idle", "handling"}, Connect(t),
         UNCHANGED <<opening, connVars, closeVars>>
  PROVE  IInv'
<1> USE DEF IInv, TypeOK, States, Phases, TaskStates, CloserStates, Running, Loops, connVars,
            closeVars
<1>1. CASE ConnectAtOnce(t)
  BY <1>1 DEF ConnectAtOnce, BudgetLeft, LoopOwner, SingleFlight, TransitionalHasLoop,
              WaitersAwaitLiveLoop, AttemptOwnsHandle, ConnectedUsable
<1>2. CASE ConnectAwaits(t)
  BY <1>2 DEF ConnectAwaits, BudgetLeft, LoopOwner, SingleFlight, TransitionalHasLoop,
              WaitersAwaitLiveLoop, AttemptOwnsHandle, ConnectedUsable
<1>3. CASE ConnectThrows(t)
  BY <1>3 DEF ConnectThrows, BudgetLeft, LoopOwner, SingleFlight, TransitionalHasLoop,
              WaitersAwaitLiveLoop, AttemptOwnsHandle, ConnectedUsable
<1>4. CASE ConnectOpens(t)
  <2>1. state = "idle"
    BY <1>4 DEF ConnectOpens, TransitionalHasLoop
  <2>2. \A l \in Loops : loop[l] = "none"
    BY <2>1 DEF SingleFlight
  <2>3. TypeOK' /\ BudgetLeft' /\ LoopOwner' /\ SingleFlight' /\ TransitionalHasLoop'
    BY <1>4, <2>1, <2>2 DEF ConnectOpens, BeginLoop, BudgetLeft, LoopOwner, SingleFlight,
                            TransitionalHasLoop
  <2>4. WaitersAwaitLiveLoop'
    BY <1>4, <2>2 DEF ConnectOpens, BeginLoop, WaitersAwaitLiveLoop
  <2>5. AttemptOwnsHandle' /\ ConnectedUsable'
    BY <1>4, <2>2 DEF ConnectOpens, BeginLoop, AttemptOwnsHandle, ConnectedUsable
  <2> QED BY <2>3, <2>4, <2>5
<1> QED BY <1>1, <1>2, <1>3, <1>4 DEF Connect

\* A running loop is the only one, and while it runs the state is neither idle
\* nor connected: the shape every loop step starts from.
LEMMA OnlyLoop ==
  ASSUME IInv, NEW l \in Loops, Running(l)
  PROVE  /\ \A m \in Loops : m # l => loop[m] = "none"
         /\ state \notin {"idle", "connected"}
         /\ l \in Tasks => \A t \in Tasks : task[t] # "waiting"
         /\ l \in Reconnects => reconnecting = l
         /\ \A t \in Tasks : task[t] = "waiting" => waitsFor[t] = l
         /\ \A t \in Tasks : task[t] = "looping" => t = l
<1>1. \A m \in Loops : m # l => loop[m] = "none"
  BY DEF IInv, SingleFlight, Running
<1>2. state \notin {"idle", "connected"}
  BY DEF IInv, SingleFlight
<1>3. \A t \in Tasks : task[t] = "waiting" => waitsFor[t] \in Reconnects /\ waitsFor[t] = l
  BY <1>1 DEF IInv, WaitersAwaitLiveLoop, TypeOK, Running, Loops
<1>4. l \in Tasks => \A t \in Tasks : task[t] # "waiting"
  BY <1>3
<1>5. l \in Reconnects => reconnecting = l
  BY DEF IInv, LoopOwner
<1>6. \A t \in Tasks : task[t] = "looping" => t = l
  BY <1>1 DEF IInv, LoopOwner, Loops, Running
<1> QED BY <1>1, <1>2, <1>3, <1>4, <1>5, <1>6

\* The end of a loop keeps every fact about loops and waiters, whatever settled
\* state it ends in: its own awaiters are the only ones and all of them resume.
LEMMA EndLoopStep ==
  ASSUME IInv, NEW l \in Loops, Running(l),
         NEW o \in {"ready", "failed"}, EndLoop(l, o),
         UNCHANGED <<connVars, waitsFor, closeVars>>,
         attempt' \in [Loops -> 0 .. MaxRetries + 1],
         \/ state' = "idle"
         \/ state' = "connected" /\ loop[l] = "topology"
         \/ UNCHANGED state /\ state \in {"closing", "closed"}
  PROVE  IInv'
<1> USE DEF Running
<1>1. \A m \in Loops : loop'[m] = "none"
  BY OnlyLoop DEF EndLoop, IInv, TypeOK, Phases
<1>2. TypeOK'
  BY DEF IInv, TypeOK, EndLoop, States, Phases, TaskStates, CloserStates, Loops,
         connVars, closeVars
<1>3. \A t \in Tasks : task'[t] \notin {"waiting", "looping"}
  <2>1. CASE l \in Reconnects
    BY <2>1, OnlyLoop DEF EndLoop, IInv, TypeOK, TaskStates
  <2>2. CASE l \in Tasks
    BY <2>2, OnlyLoop DEF EndLoop, IInv, TypeOK, TaskStates
  <2> QED BY <2>1, <2>2 DEF Loops
<1>4. LoopOwner' /\ WaitersAwaitLiveLoop'
  BY <1>1, <1>3 DEF LoopOwner, WaitersAwaitLiveLoop, Loops
<1>5. SingleFlight' /\ TransitionalHasLoop' /\ BudgetLeft'
  BY <1>1 DEF SingleFlight, TransitionalHasLoop, BudgetLeft
<1>6. AttemptOwnsHandle'
  BY <1>1 DEF AttemptOwnsHandle
<1>7. ConnectedUsable'
  BY DEF ConnectedUsable, AttemptOwnsHandle, IInv, connVars, closeVars
<1> QED BY <1>2, <1>4, <1>5, <1>6, <1>7 DEF IInv

\* A failed attempt either ends the loop in "idle" or parks it in the backoff.
LEMMA AttemptFailsStep ==
  ASSUME IInv, NEW l \in Loops, loop[l] \notin {"none", "sleep"}, AttemptFails(l),
         UNCHANGED <<connVars, waitsFor, closeVars>>
  PROVE  IInv'
<1>1. attempt' \in [Loops -> 0 .. MaxRetries + 1]
  BY DEF IInv, TypeOK, BudgetLeft, Running, AttemptFails
<1>2. CASE attempt[l] + 1 > MaxRetries
  BY <1>1, <1>2, EndLoopStep DEF AttemptFails, Running
<1>3. CASE ~(attempt[l] + 1 > MaxRetries)
  <2>1. /\ loop' = [loop EXCEPT ![l] = "sleep"]
        /\ opening' = [opening EXCEPT ![l] = Nil]
        /\ UNCHANGED <<state, reconnecting, task>>
    BY <1>3 DEF AttemptFails
  <2>2. TypeOK' /\ BudgetLeft'
    BY <1>1, <1>3, <2>1 DEF AttemptFails, BudgetLeft, Running, IInv, TypeOK, Phases, connVars, closeVars
  <2>3. \A m \in Loops : Running(m)' <=> Running(m)
    BY <2>1 DEF Running, IInv, TypeOK, Phases
  <2>4. LoopOwner' /\ SingleFlight' /\ TransitionalHasLoop' /\ WaitersAwaitLiveLoop'
    BY <2>1, <2>3 DEF IInv, LoopOwner, SingleFlight, TransitionalHasLoop,
                      WaitersAwaitLiveLoop, Loops, TypeOK
  <2>5. AttemptOwnsHandle' /\ ConnectedUsable'
    BY <2>1, OnlyLoop DEF IInv, AttemptOwnsHandle, ConnectedUsable, Running, TypeOK, connVars, closeVars
  <2> QED BY <2>2, <2>4, <2>5 DEF IInv
<1> QED BY <1>2, <1>3

\* A dial opens a connection nobody uses and takes over this.connection.
LEMMA DialOkStep ==
  ASSUME IInv, NEW l \in Loops, DialOk(l)
  PROVE  IInv'
<1> USE DEF Running
<1>1. PICK c \in FreshConns :
        live' = live \cup {c} /\ handle' = c /\ opening' = [opening EXCEPT ![l] = c]
  BY DEF DialOk
<1>2. c \in Conns
  BY DEF FreshConns
<1>3. /\ loop' = [loop EXCEPT ![l] = "channel"] /\ loop[l] = "dial"
      /\ UNCHANGED <<state, attempt, reconnecting, channel, task, waitsFor, closer, awaited>>
  BY DEF DialOk, closeVars
<1>4. TypeOK' /\ BudgetLeft'
  BY <1>1, <1>2, <1>3 DEF IInv, TypeOK, BudgetLeft, Phases
<1>5. \A m \in Loops : Running(m)' <=> Running(m)
  BY <1>3 DEF IInv, TypeOK, Phases
<1>6. LoopOwner' /\ SingleFlight' /\ TransitionalHasLoop' /\ WaitersAwaitLiveLoop'
  BY <1>3, <1>5 DEF IInv, LoopOwner, SingleFlight, TransitionalHasLoop,
                    WaitersAwaitLiveLoop, Loops, TypeOK
<1>7. AttemptOwnsHandle' /\ ConnectedUsable'
  BY <1>1, <1>2, <1>3, OnlyLoop
     DEF IInv, AttemptOwnsHandle, ConnectedUsable, TypeOK, Phases
<1> QED BY <1>4, <1>6, <1>7 DEF IInv

\* createChannel() resolves: this.channel follows this.connection.
LEMMA ChannelOpenedStep ==
  ASSUME IInv, NEW l \in Loops, ChannelOpened(l)
  PROVE  IInv'
<1> USE DEF Running
<1>1. /\ loop' = [loop EXCEPT ![l] = "topology"] /\ loop[l] = "channel"
      /\ channel' = opening[l] /\ opening[l] \in live
      /\ UNCHANGED <<state, attempt, opening, reconnecting, handle, live, task,
                     waitsFor, closer, awaited>>
  BY DEF ChannelOpened, closeVars
<1>2. TypeOK' /\ BudgetLeft'
  BY <1>1 DEF IInv, TypeOK, BudgetLeft, Phases
<1>3. \A m \in Loops : Running(m)' <=> Running(m)
  BY <1>1 DEF IInv, TypeOK, Phases
<1>4. LoopOwner' /\ SingleFlight' /\ TransitionalHasLoop' /\ WaitersAwaitLiveLoop'
  BY <1>1, <1>3 DEF IInv, LoopOwner, SingleFlight, TransitionalHasLoop,
                    WaitersAwaitLiveLoop, Loops, TypeOK
<1>5. AttemptOwnsHandle' /\ ConnectedUsable'
  BY <1>1, OnlyLoop DEF IInv, AttemptOwnsHandle, ConnectedUsable, TypeOK, Phases
<1> QED BY <1>2, <1>4, <1>5 DEF IInv

\* The backoff ends: the loop returns to a closed transport or dials again.
LEMMA WakeStep ==
  ASSUME IInv, NEW l \in Loops, Wake(l)
  PROVE  IInv'
<1>1. CASE state \in {"closing", "closed"}
  BY <1>1, EndLoopStep DEF Wake, Running, IInv, TypeOK
<1>2. CASE state \notin {"closing", "closed"}
  <2>1. /\ loop' = [loop EXCEPT ![l] = "dial"] /\ loop[l] = "sleep"
        /\ UNCHANGED <<state, attempt, opening, reconnecting, handle, channel, live,
                       task, waitsFor, closer, awaited>>
    BY <1>2 DEF Wake, connVars, closeVars
  <2>2. \A m \in Loops : Running(m)' <=> Running(m)
    BY <2>1 DEF IInv, TypeOK, Phases, Running
  <2>3. TypeOK' /\ BudgetLeft'
    BY <2>1, <2>2 DEF IInv, TypeOK, BudgetLeft, Phases
  <2>4. LoopOwner' /\ SingleFlight' /\ TransitionalHasLoop' /\ WaitersAwaitLiveLoop'
    BY <2>1, <2>2 DEF IInv, LoopOwner, SingleFlight, TransitionalHasLoop,
                      WaitersAwaitLiveLoop, Loops, TypeOK
  <2>5. AttemptOwnsHandle' /\ ConnectedUsable'
    BY <2>1 DEF IInv, AttemptOwnsHandle, ConnectedUsable, TypeOK, Phases
  <2> QED BY <2>3, <2>4, <2>5 DEF IInv
<1> QED BY <1>1, <1>2

\* handleDisconnect() starts a loop only from "connected", where none runs.
LEMMA DisconnectStep ==
  ASSUME IInv, HandleDisconnect, live' \in SUBSET Conns,
         closer' \in [Closers -> CloserStates],
         \A k \in Closers : closer[k] # "idle" => closer'[k] # "idle",
         UNCHANGED <<opening, handle, channel, task, waitsFor, awaited>>
  PROVE  IInv'
<1> USE DEF Running
<1>1. CASE state = "connected"
  <2>1. PICK r \in Reconnects : BeginLoop(r) /\ reconnecting' = r
    BY <1>1 DEF HandleDisconnect
  <2>2. state' = "reconnecting"
    BY <1>1 DEF HandleDisconnect
  <2>3. \A l \in Loops : loop[l] = "none"
    BY <1>1 DEF IInv, SingleFlight
  <2>4. /\ loop' = [l \in Loops |-> IF l = r THEN "dial" ELSE "none"]
        /\ attempt' = [attempt EXCEPT ![r] = 0]
    BY <2>1, <2>3 DEF BeginLoop, IInv, TypeOK
  <2>5. TypeOK' /\ BudgetLeft'
    BY <2>1, <2>2, <2>4 DEF IInv, TypeOK, BudgetLeft, States, Phases, Loops
  <2>6. LoopOwner' /\ SingleFlight' /\ TransitionalHasLoop'
    BY <2>1, <2>2, <2>3, <2>4 DEF IInv, LoopOwner, SingleFlight, TransitionalHasLoop, Loops
  <2>7. WaitersAwaitLiveLoop'
    BY <2>3 DEF IInv, WaitersAwaitLiveLoop, TypeOK, Loops
  <2>8. AttemptOwnsHandle' /\ ConnectedUsable'
    BY <2>2, <2>4 DEF AttemptOwnsHandle, ConnectedUsable
  <2> QED BY <2>5, <2>6, <2>7, <2>8 DEF IInv
<1>2. CASE state # "connected"
  <2>1. UNCHANGED <<state, loop, attempt, reconnecting>>
    BY <1>2 DEF HandleDisconnect
  <2>2. TypeOK' /\ BudgetLeft'
    BY <2>1 DEF IInv, TypeOK, BudgetLeft
  <2>3. LoopOwner' /\ SingleFlight' /\ TransitionalHasLoop' /\ WaitersAwaitLiveLoop'
    BY <2>1 DEF IInv, LoopOwner, SingleFlight, TransitionalHasLoop, WaitersAwaitLiveLoop
  <2>4. AttemptOwnsHandle' /\ ConnectedUsable'
    BY <2>1 DEF IInv, AttemptOwnsHandle, ConnectedUsable
  <2> QED BY <2>2, <2>3, <2>4 DEF IInv
<1> QED BY <1>1, <1>2

\* A step of a task that starts or ends no loop and parks on none.
LEMMA TaskStep ==
  ASSUME IInv, NEW t \in Tasks, NEW s \in {"handling", "sent", "failed"},
         task[t] \in {"idle", "ready"}, task' = [task EXCEPT ![t] = s],
         UNCHANGED <<state, loopVars, reconnecting, connVars, waitsFor, closeVars>>
  PROVE  IInv'
<1> USE DEF loopVars, connVars, closeVars
<1>1. TypeOK' /\ BudgetLeft'
  BY DEF IInv, TypeOK, BudgetLeft, Running, TaskStates
<1>2. LoopOwner' /\ SingleFlight' /\ TransitionalHasLoop' /\ WaitersAwaitLiveLoop'
  BY DEF IInv, LoopOwner, SingleFlight, TransitionalHasLoop, WaitersAwaitLiveLoop,
         Running, TypeOK
<1>3. AttemptOwnsHandle' /\ ConnectedUsable'
  BY DEF IInv, AttemptOwnsHandle, ConnectedUsable
<1> QED BY <1>1, <1>2, <1>3 DEF IInv

\* The steps of close() that leave the loops alone.  They only weaken what must
\* hold of `state`, and after the first of them AttemptOwnsHandle asks nothing.
LEMMA CloserIInv ==
  ASSUME IInv, NEW k \in Closers,
         \/ CloseCall(k) \/ Drained(k) \/ DrainTimesOut(k) \/ TeardownEnds(k)
  PROVE  IInv'
<1> USE DEF CloseCall, Drained, DrainTimesOut, TeardownEnds
<1>1. /\ UNCHANGED <<loop, attempt, opening, reconnecting, live, task, waitsFor>>
      /\ UNCHANGED state \/ state' = "closing" \/ state' = "closed"
      /\ UNCHANGED <<handle, channel>> \/ (handle' = Nil /\ channel' = Nil)
      /\ closer' \in [Closers -> CloserStates] /\ closer'[k] # "idle"
      /\ awaited' \in [Closers -> SUBSET Replies]
  <2>1. CASE CloseCall(k)
    BY <2>1 DEF loopVars, connVars, IInv, TypeOK, CloserStates, Inflight
  <2>2. CASE Drained(k) \/ DrainTimesOut(k) \/ TeardownEnds(k)
    BY <2>2 DEF loopVars, connVars, IInv, TypeOK, CloserStates
  <2> QED BY <2>1, <2>2
<1>2. TypeOK' /\ BudgetLeft'
  BY <1>1 DEF IInv, TypeOK, BudgetLeft, Running, States
<1>3. LoopOwner' /\ SingleFlight' /\ TransitionalHasLoop' /\ WaitersAwaitLiveLoop'
  BY <1>1 DEF IInv, LoopOwner, SingleFlight, TransitionalHasLoop, WaitersAwaitLiveLoop,
              Running
<1>4. AttemptOwnsHandle' /\ ConnectedUsable'
  BY <1>1 DEF AttemptOwnsHandle, ConnectedUsable
<1> QED BY <1>2, <1>3, <1>4 DEF IInv

\* Every step keeps the inductive invariant.
LEMMA NextIInv == IInv /\ [Next]_vars => IInv'
<1> SUFFICES ASSUME IInv, [Next]_vars PROVE IInv'
  OBVIOUS
<1>1. ASSUME NEW l \in Loops, LoopStep(l) PROVE IInv'
  <2>1. CASE DialOk(l)
    BY <2>1, DialOkStep
  <2>2. CASE DialFails(l) \/ SetupFails(l)
    BY <2>2, AttemptFailsStep DEF DialFails, SetupFails
  <2>3. CASE ChannelOpened(l)
    BY <2>3, ChannelOpenedStep
  <2>4. CASE SetupOk(l)
    BY <2>4, EndLoopStep DEF SetupOk, Running, IInv, TypeOK
  <2>5. CASE Wake(l)
    BY <2>5, WakeStep
  <2> QED BY <1>1, <2>1, <2>2, <2>3, <2>4, <2>5 DEF LoopStep
<1>2. ASSUME NEW c \in Conns, Drop(c) PROVE IInv'
  BY <1>2, DisconnectStep DEF Drop, closeVars, IInv, TypeOK
<1>3. ASSUME NEW t \in Emits, Emit(t) PROVE IInv'
  BY <1>3, ConnectStep DEF Emit, Tasks
<1>4. ASSUME NEW h \in Replies, Arrives(h) \/ HandlerReturns(h) PROVE IInv'
  <2>1. CASE Arrives(h)
    BY <2>1, TaskStep DEF Arrives, Tasks
  <2>2. CASE HandlerReturns(h)
    BY <2>2, ConnectStep DEF HandlerReturns, Tasks
  <2> QED BY <1>4, <2>1, <2>2
<1>5. ASSUME NEW t \in Tasks, Use(t) PROVE IInv'
  BY <1>5, TaskStep DEF Use
<1>6. ASSUME NEW k \in Closers, CloseCall(k) \/ CloserStep(k) PROVE IInv'
  <2>1. CASE TeardownCloses(k)
    <3>1. closer' \in [Closers -> CloserStates] /\ closer'[k] # "idle"
      BY <2>1 DEF TeardownCloses, IInv, TypeOK, CloserStates
    <3>2. \A j \in Closers : closer[j] # "idle" => closer'[j] # "idle"
      BY <2>1, <3>1 DEF TeardownCloses, IInv, TypeOK
    <3>3. CASE handle \in live
      BY <2>1, <3>1, <3>2, <3>3, DisconnectStep DEF TeardownCloses, IInv, TypeOK
    <3>4. CASE handle \notin live
      <4>1. UNCHANGED <<state, loop, attempt, opening, reconnecting, handle, channel,
                        task, waitsFor, awaited>> /\ live' \in SUBSET Conns
        BY <2>1, <3>4 DEF TeardownCloses, IInv, TypeOK
      <4>2. TypeOK' /\ BudgetLeft'
        BY <3>1, <4>1 DEF IInv, TypeOK, BudgetLeft, Running
      <4>3. LoopOwner' /\ SingleFlight' /\ TransitionalHasLoop' /\ WaitersAwaitLiveLoop'
        BY <4>1 DEF IInv, LoopOwner, SingleFlight, TransitionalHasLoop,
                    WaitersAwaitLiveLoop, Running
      <4>4. AttemptOwnsHandle' /\ ConnectedUsable'
        BY <3>1 DEF AttemptOwnsHandle, ConnectedUsable
      <4> QED BY <4>2, <4>3, <4>4 DEF IInv
    <3> QED BY <3>3, <3>4
  <2> QED BY <1>6, <2>1, CloserIInv DEF CloserStep
<1>7. CASE Finished \/ UNCHANGED vars
  <2>1. UNCHANGED vars
    BY <1>7 DEF Finished
  <2> QED
    BY <2>1 DEF vars, loopVars, connVars, closeVars, IInv, TypeOK, BudgetLeft, LoopOwner,
                SingleFlight, TransitionalHasLoop, WaitersAwaitLiveLoop,
                AttemptOwnsHandle, ConnectedUsable, Running
<1> QED BY <1>1, <1>2, <1>3, <1>4, <1>5, <1>6, <1>7 DEF Next

\* IInv holds in every reachable state, for every value of the constants.
THEOREM Invariance == Spec => []IInv
  BY InitIInv, NextIInv, PTL DEF Spec

\* Types are respected; in particular no loop exceeds MaxRetries + 1 attempts.
THEOREM TypeCorrect == Spec => []TypeOK
  BY Invariance, PTL DEF IInv

\* At most one connect/reconnect loop runs at any time, whatever calls, drops
\* and closes interleave: the `state` checks of connect() and handleDisconnect()
\* are mutual exclusion enough.
THEOREM SingleFlightHolds == Spec => []SingleFlight
  BY Invariance, PTL DEF IInv

\* "connecting" and "reconnecting" always have a loop at work behind them.
THEOREM TransitionalHasLoopHolds == Spec => []TransitionalHasLoop
  BY Invariance, PTL DEF IInv

\* No connect() waits on a reconnect promise whose loop is over.
THEOREM NoLostWakeup == Spec => []WaitersAwaitLiveLoop
  BY Invariance, PTL DEF IInv

\* Before any close(), a connected transport publishes on the connection it holds.
THEOREM ConnectedUsableHolds == Spec => []ConnectedUsable
  BY Invariance, PTL DEF IInv
================================================================================
