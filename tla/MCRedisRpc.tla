----------------------------- MODULE MCRedisRpc -----------------------------
(* RedisRpc with a call c1, its retry c2 under the same key, a call c3      *)
(* that uses the same key on another topic, and a call c4 without a key.    *)
(* A setting is the calls that are made and the workers that are up.        *)
EXTENDS RedisRpc, TLC

CONSTANTS c1, c2, c3, c4, w1, w2, s1, Settings

MCTopicOf == [c \in Calls |-> IF c = c3 THEN "users" ELSE "orders"]
MCKeyOf == [c \in Calls |-> IF c = c4 THEN Nil ELSE "k"]
MCStoreOf == [w \in Workers |-> s1]

\* Two topics over one store, a call and its retry before a fleet, and calls
\* of which one has no key
Setting(calls, workers) == [calls |-> calls, workers |-> workers]
MCSettings ==
  {Setting({c1, c2, c3}, {w1}), Setting({c1, c2}, Workers), Setting({c1, c2, c4}, {w1})}
RetriesOnly == {Setting({c1, c2}, {w1})}

VARIABLE setting
mcVars == <<vars, setting>>

\* A call outside the setting is made at the very end, on a closed client, and
\* a worker outside it hears nothing.
Over ==
  /\ client = "closed" /\ requests = {} /\ replies = {}
  /\ \A c \in setting.calls : outcome[c] # None
  /\ \A j \in Jobs : job[j] \in {"none", "done"}

MCInit == Init /\ setting \in Settings

MCNext ==
  /\ Next
  /\ \A c \in Calls \ setting.calls : call'[c] = "idle" /\ (outcome'[c] # None => Over)
  /\ requests' \subseteq setting.workers \X setting.calls
  /\ UNCHANGED setting

MCSpec ==
  /\ MCInit
  /\ [][MCNext]_mcVars
  /\ \A c \in Calls : WF_mcVars(TimesOut(c) /\ UNCHANGED setting)
  /\ WF_mcVars((Subscribed \/ SubscribeFails) /\ UNCHANGED setting)
==============================================================================
