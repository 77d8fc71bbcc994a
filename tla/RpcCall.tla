------------------------------- MODULE RpcCall -------------------------------
(***************************************************************************)
(* What request/reply promises its callers, whatever transport carries it: *)
(* a call is settled at most once, either with a failure or with an answer *)
(* that some run of the handler gave for the same operation, and a call    *)
(* that was sent is settled in the end.                                    *)
(***************************************************************************)
CONSTANTS
  Calls,    \* send() calls
  Workers,  \* workers that may run the handler
  OpOf,     \* OpOf[c]: the topic and idempotency key of c
  None, Waiting, Failed   \* outcomes that are not a run

VARIABLES
  runs,     \* runs of the handler: pairs <<worker, call>>
  outcome   \* outcome[c]: None, Waiting, Failed or the run it got

vars == <<runs, outcome>>

Init ==
  /\ runs = {}
  /\ outcome = [c \in Calls |-> None]

Ask(cs) ==
  /\ \A c \in cs : outcome[c] = None
  /\ outcome' = [c \in Calls |-> IF c \in cs THEN Waiting ELSE outcome[c]]
  /\ UNCHANGED runs

Execute(w, c) ==
  /\ outcome[c] # None
  /\ runs' = runs \cup {<<w, c>>}
  /\ UNCHANGED outcome

Answer(c) ==
  /\ outcome[c] = Waiting
  /\ \E r \in runs :
       /\ OpOf[r[2]] = OpOf[c]
       /\ outcome' = [outcome EXCEPT ![c] = r]
  /\ UNCHANGED runs

\* One call fails, or all that share a subscription or a closing transport.
Fail(cs) ==
  /\ \A c \in cs : outcome[c] \in {None, Waiting}
  /\ outcome' = [c \in Calls |-> IF c \in cs THEN Failed ELSE outcome[c]]
  /\ UNCHANGED runs

Next ==
  \/ \E cs \in SUBSET Calls : Ask(cs) \/ Fail(cs)
  \/ \E c \in Calls : Answer(c)
  \/ \E w \in Workers, c \in Calls : Execute(w, c)

Safety == Init /\ [][Next]_vars

\* A timer, if nothing else, settles what waits.
Spec ==
  /\ Safety
  /\ \A c \in Calls : WF_vars(outcome[c] = Waiting /\ (Answer(c) \/ Fail({c})))
==============================================================================
