------------------------------ MODULE RedisRpc ------------------------------
(***************************************************************************)
(* Request/reply over Redis pub/sub, end to end: RedisTransport.send and   *)
(* its inbox, the RpcCorrelator, the workers' MicroserviceBuilder handlers *)
(* with an IdempotencyStore, and the reply                                 *)
(* (packages/microservices/src: transports/redis.transport.ts,             *)
(* transports/rpc-correlation.ts, server/microservice.builder.ts,          *)
(* idempotency.ts).                                                        *)
(*                                                                         *)
(* Redis pub/sub is at most once: a request reaches any subset of the      *)
(* workers, a reply reaches the client or nobody.  Each await of a handler *)
(* is a point where other jobs, timers and messages run.                   *)
(***************************************************************************)
EXTENDS Naturals, Sequences, FiniteSets, SequencesExt

CONSTANTS
  Calls,       \* send() calls of one client
  Workers,     \* workers subscribed to the topics
  Stores,      \* idempotency stores
  TopicOf,     \* TopicOf[c]: contract.topic
  KeyOf,       \* KeyOf[c]: options.idempotencyKey, or Nil
  StoreOf,     \* StoreOf[w]: the store given to worker w's builder
  MaxEntries,  \* MemoryIdempotencyStore's maxEntries
  Nil,         \* undefined
  None, Waiting, Failed   \* outcomes that are not a run

ASSUME StoresAssumption == StoreOf \in [Workers -> Stores]
ASSUME EntriesAssumption == MaxEntries \in Nat \ {0}

Jobs == Workers \X Calls   \* worker w handling call c

\* What a promise settles with besides a run is no run.
ASSUME OutcomesAssumption ==
  /\ {None, Waiting, Failed} \cap Jobs = {}
  /\ None # Waiting /\ None # Failed /\ Waiting # Failed

VARIABLES
  client,      \* the client transport's life
  inboxSetup,  \* this.inboxSetup
  call,        \* call[c]: where send() stands
  pending,     \* the correlator's map
  outcome,     \* outcome[c]: what the caller's promise settled with
  requests,    \* published requests on their way to a worker
  replies,     \* published replies on their way to the inbox: <<call, run>>
  job,         \* job[j]: where the handler of a delivery stands
  value,       \* value[j]: the envelope j answers with, named by its run
  entries,     \* entries[s]: the store's Map, oldest first
  runs,        \* history: jobs that ran the handler
  evicted,     \* history: <<store, key>> ever evicted
  answered     \* history: answered[c]: stores that had answered c's key when c was sent

clientVars == <<client, inboxSetup, call, pending, outcome>>
storeVars == <<entries, evicted>>
serverVars == <<job, value, runs, storeVars>>
vars == <<clientVars, requests, replies, serverVars, answered>>

IdemKeyIgnoresTopic(c) == KeyOf[c]   \* mutant: the key is not namespaced by topic

\* The client's key, namespaced by topic; only calls with a key have one.
IdemKey(c) == <<TopicOf[c], KeyOf[c]>>
Entries == [key : {IdemKey(c) : c \in Calls}, value : Jobs]

TypeOK ==
  /\ client \in {"open", "draining", "quitting", "closed"}
  /\ inboxSetup \in {"none", "running", "done", "rejected"}
  /\ call \in [Calls -> {"idle", "inbox", "sent"}]
  /\ pending \subseteq Calls
  /\ outcome \in [Calls -> {None, Failed} \cup Jobs]
  /\ requests \subseteq Jobs
  /\ replies \subseteq Calls \X Jobs
  /\ job \in [Jobs -> {"none", "get", "handler", "record", "reply", "done"}]
  /\ value \in [Jobs -> Jobs]
  /\ runs \subseteq Jobs
  /\ entries \in [Stores -> Seq(Entries)]
  /\ \A s \in Stores :
       /\ Len(entries[s]) <= MaxEntries
       /\ \A m, n \in DOMAIN entries[s] : entries[s][m].key = entries[s][n].key => m = n
  /\ evicted \subseteq Stores \X {IdemKey(c) : c \in Calls}
  /\ answered \in [Calls -> SUBSET Stores]

Init ==
  /\ client = "open"
  /\ inboxSetup = "none"
  /\ call = [c \in Calls |-> "idle"]
  /\ pending = {}
  /\ outcome = [c \in Calls |-> None]
  /\ requests = {}
  /\ replies = {}
  /\ job = [j \in Jobs |-> "none"]
  /\ value = [j \in Jobs |-> j]
  /\ entries = [s \in Stores |-> <<>>]
  /\ runs = {}
  /\ evicted = {}
  /\ answered = [c \in Calls |-> {}]

(***************************************************************************)
(* The client: RedisTransport.send().                                      *)
(***************************************************************************)
SameOp(c, d) == KeyOf[c] # Nil /\ TopicOf[c] = TopicOf[d] /\ KeyOf[c] = KeyOf[d]

\* Stores whose workers' answers to this operation the client already has.
AnsweredBy(c) ==
  {StoreOf[outcome[d][1]] : d \in {e \in Calls : SameOp(e, c) /\ outcome[e] \in Jobs}}

\* waitFor() then publish(): each worker gets the request or does not, and
\* nobody does on a client that is quitting.
Register(cs) ==
  /\ pending' = pending \cup cs
  /\ \E heard \in SUBSET (Workers \X cs) :
       /\ client = "quitting" => heard = {}
       /\ requests' = requests \cup heard

\* ensureInbox() starts the subscription, joins the one under way, or uses the
\* inbox; a setup that was rejected once is what every later call awaits.
Send(c) ==
  /\ call[c] = "idle" /\ outcome[c] = None
  /\ answered' = [answered EXCEPT ![c] = AnsweredBy(c)]
  /\ \/ /\ client = "open" /\ inboxSetup \in {"none", "running"}
        /\ inboxSetup' = "running"
        /\ call' = [call EXCEPT ![c] = "inbox"]
        /\ UNCHANGED <<pending, outcome, requests>>
     \/ /\ client = "open" /\ inboxSetup = "done"
        /\ call' = [call EXCEPT ![c] = "sent"]
        /\ Register({c})
        /\ UNCHANGED <<inboxSetup, outcome>>
     \/ /\ client # "open" \/ inboxSetup = "rejected"
        /\ outcome' = [outcome EXCEPT ![c] = Failed]
        /\ UNCHANGED <<inboxSetup, call, pending, requests>>
  /\ UNCHANGED <<client, replies, serverVars>>

Parked == {c \in Calls : call[c] = "inbox"}

Subscribed ==
  /\ inboxSetup = "running"
  /\ inboxSetup' = "done"
  /\ call' = [c \in Calls |-> IF c \in Parked THEN "sent" ELSE call[c]]
  /\ Register(Parked)
  /\ UNCHANGED <<client, outcome, replies, serverVars, answered>>

SubscribeFails ==
  /\ inboxSetup = "running"
  /\ inboxSetup' = "rejected"
  /\ call' = [c \in Calls |-> IF c \in Parked THEN "idle" ELSE call[c]]
  /\ outcome' = [c \in Calls |-> IF c \in Parked THEN Failed ELSE outcome[c]]
  /\ UNCHANGED <<client, pending, requests, replies, serverVars, answered>>

(***************************************************************************)
(* RpcCorrelator: timeout, deliver, fail, rejectAll.                       *)
(***************************************************************************)
Settle(c, o) ==
  /\ pending' = pending \ {c}
  /\ outcome' = [outcome EXCEPT ![c] = o]

TimeoutKeepsEntry(c) ==   \* mutant: the timer does not delete the entry
  /\ c \in pending /\ outcome[c] = None
  /\ outcome' = [outcome EXCEPT ![c] = Failed]
  /\ UNCHANGED <<client, inboxSetup, call, pending, requests, replies, serverVars, answered>>

TimesOut(c) ==
  /\ c \in pending
  /\ Settle(c, Failed)
  /\ UNCHANGED <<client, inboxSetup, call, requests, replies, serverVars, answered>>

\* publish() rejects; the request may have reached the workers all the same.
PublishFails(c) ==
  /\ c \in pending /\ call[c] = "sent"
  /\ Settle(c, Failed)
  /\ UNCHANGED <<client, inboxSetup, call, requests, replies, serverVars, answered>>

\* A reply settles the call of its correlation id, if it is still pending and
\* the inbox is still there.
Delivers(c, r) ==
  /\ <<c, r>> \in replies
  /\ replies' = replies \ {<<c, r>>}
  /\ IF c \in pending /\ client # "closed" THEN Settle(c, r) ELSE UNCHANGED <<pending, outcome>>
  /\ UNCHANGED <<client, inboxSetup, call, requests, serverVars, answered>>

(***************************************************************************)
(* The client's close(): drain, rejectAll() and quit, drop the clients.    *)
(***************************************************************************)
Close ==
  /\ client = "open"
  /\ client' = "draining"
  /\ UNCHANGED <<inboxSetup, call, pending, outcome, requests, replies, serverVars, answered>>

RejectAll ==
  /\ client = "draining"
  /\ client' = "quitting"
  /\ pending' = {}
  /\ outcome' = [c \in Calls |-> IF c \in pending THEN Failed ELSE outcome[c]]
  /\ UNCHANGED <<inboxSetup, call, requests, replies, serverVars, answered>>

QuitEnds ==
  /\ client = "quitting" /\ inboxSetup # "running"
  /\ client' = "closed"
  /\ inboxSetup' = "none"
  /\ UNCHANGED <<call, pending, outcome, requests, replies, serverVars, answered>>

(***************************************************************************)
(* The store: a Map in insertion order; setting a key again makes it the   *)
(* newest, a new key in a full Map evicts the oldest.                      *)
(***************************************************************************)
Recorded(s, k) == \E n \in DOMAIN entries[s] : entries[s][n].key = k
Position(s, k) == CHOOSE n \in DOMAIN entries[s] : entries[s][n].key = k

Set(s, k, v) ==
  LET full == ~Recorded(s, k) /\ Len(entries[s]) >= MaxEntries
      rest == IF Recorded(s, k) THEN RemoveAt(entries[s], Position(s, k))
              ELSE IF full THEN Tail(entries[s]) ELSE entries[s]
  IN  /\ entries' = [entries EXCEPT ![s] = Append(rest, [key |-> k, value |-> v])]
      /\ evicted' = IF full THEN evicted \cup {<<s, Head(entries[s]).key>>} ELSE evicted

(***************************************************************************)
(* A worker: onServerMessage and the builder's handler.                    *)
(***************************************************************************)
Receive(j) ==
  /\ j \in requests /\ job[j] = "none"
  /\ requests' = requests \ {j}
  /\ job' = [job EXCEPT ![j] = "get"]
  /\ UNCHANGED <<clientVars, replies, value, runs, storeVars, answered>>

\* The idempotency lookup: replay what is recorded, or run the handler.
Get(j) ==
  /\ job[j] = "get"
  /\ LET s == StoreOf[j[1]]
         k == IdemKey(j[2])
     IN  IF KeyOf[j[2]] # Nil /\ Recorded(s, k)
         THEN /\ value' = [value EXCEPT ![j] = entries[s][Position(s, k)].value]
              /\ job' = [job EXCEPT ![j] = "record"]
              /\ UNCHANGED runs
         ELSE /\ runs' = runs \cup {j}
              /\ job' = [job EXCEPT ![j] = "handler"]
              /\ UNCHANGED value
  /\ UNCHANGED <<clientVars, requests, replies, storeVars, answered>>

\* The handler returned or threw: a success or an error envelope.
HandlerReturns(j) ==
  /\ job[j] = "handler"
  /\ job' = [job EXCEPT ![j] = "record"]
  /\ UNCHANGED <<clientVars, requests, replies, value, runs, storeVars, answered>>

RecordsAfterReply(j) ==   \* mutant: the reply is published before set() is called
  /\ job[j] \in {"record", "reply"}
  /\ IF job[j] = "record"
     THEN /\ job' = [job EXCEPT ![j] = "reply"]
          /\ replies' = replies \cup {<<j[2], value[j]>>}
          /\ UNCHANGED storeVars
     ELSE /\ job' = [job EXCEPT ![j] = "done"]
          /\ IF KeyOf[j[2]] # Nil THEN Set(StoreOf[j[1]], IdemKey(j[2]), value[j])
             ELSE UNCHANGED storeVars
          /\ UNCHANGED replies
  /\ UNCHANGED <<clientVars, requests, value, runs, answered>>

\* The builder's reply(): first the outcome is recorded ...
Record(j) ==
  /\ job[j] = "record"
  /\ job' = [job EXCEPT ![j] = "reply"]
  /\ IF KeyOf[j[2]] # Nil
     THEN Set(StoreOf[j[1]], IdemKey(j[2]), value[j])
     ELSE UNCHANGED storeVars
  /\ UNCHANGED <<clientVars, requests, replies, value, runs, answered>>

\* ... then published on the caller's inbox, or lost, or refused by connect().
Reply(j) ==
  /\ job[j] = "reply"
  /\ job' = [job EXCEPT ![j] = "done"]
  /\ replies' \in {replies, replies \cup {<<j[2], value[j]>>}}
  /\ UNCHANGED <<clientVars, requests, value, runs, storeVars, answered>>

JobStep(j) == Receive(j) \/ Get(j) \/ HandlerReturns(j) \/ Record(j) \/ Reply(j)

\* Everything has settled and nothing is on its way.
Finished ==
  /\ client = "closed" /\ requests = {} /\ replies = {} /\ pending = {}
  /\ \A c \in Calls : outcome[c] # None
  /\ \A j \in Jobs : job[j] \in {"none", "done"}
  /\ UNCHANGED vars

Next ==
  \/ \E c \in Calls : Send(c) \/ TimesOut(c) \/ PublishFails(c)
  \/ \E c \in Calls, r \in Jobs : Delivers(c, r)
  \/ Subscribed \/ SubscribeFails
  \/ Close \/ RejectAll \/ QuitEnds
  \/ \E j \in Jobs : JobStep(j)
  \/ Finished

Spec == Init /\ [][Next]_vars

\* Timers fire and the subscription is answered; no message need arrive.
FairSpec ==
  /\ Spec
  /\ \A c \in Calls : WF_vars(TimesOut(c))
  /\ WF_vars(Subscribed \/ SubscribeFails)

-------------------------------------------------------------------------------
(***************************************************************************)
(* Properties.                                                             *)
(***************************************************************************)

\* The correlator leaks nothing and forgets nobody: it holds exactly the calls
\* that were sent and whose caller still waits, through late and duplicate
\* replies, timeouts, failed publishes and close().
PendingIffWaiting ==
  \A c \in Calls : c \in pending <=> call[c] = "sent" /\ outcome[c] = None

\* A retry is not executed again: once the client has had the answer of a
\* store's worker, a later call with the same topic and key makes no worker on
\* that store run the handler, unless the bounded store evicted the key.  It
\* rests on recording the outcome before the reply goes out.
RetryDoesNotRerun ==
  \A j \in runs :
    /\ KeyOf[j[2]] # Nil /\ StoreOf[j[1]] \in answered[j[2]]
    => <<StoreOf[j[1]], IdemKey(j[2])>> \in evicted

\* The calls implement RpcCall: settled once, with a failure or with the result
\* of a run of the same operation (its own call, or the same topic and key); and
\* a call whose request went out is settled, even if every message is lost.
OpOf == [c \in Calls |-> IF KeyOf[c] = Nil THEN c ELSE <<TopicOf[c], KeyOf[c]>>]
Seen == [c \in Calls |-> IF call[c] = "sent" /\ outcome[c] = None THEN Waiting ELSE outcome[c]]

Call == INSTANCE RpcCall WITH OpOf <- OpOf, outcome <- Seen

ImplementsRpcCall == Call!Spec

(***************************************************************************)
(* What the docs say and the code does not do.                             *)
(***************************************************************************)

\* "Connections self-heal": a send() on an open client reaches Redis, it does
\* not fail at once because an earlier subscription failed.
SendReachesRedis ==
  [][\A c \in Calls : client = "open" /\ call[c] = "idle" /\ outcome[c] = None
       => outcome'[c] # Failed]_vars
==============================================================================
