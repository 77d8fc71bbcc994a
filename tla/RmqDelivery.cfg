SPECIFICATION FairSpec
CONSTANTS
  Messages = {e1, q1, m1}
  Rpcs = {q1}
  Malformed = {m1}
  Queue = "jobs"
  Topics = {"jobs"}
  Slots = {s1, s2}
  Prefetch = 2
  MaxRetries = 1
  MaxCuts = 2
  MaxRestarts = 0
INVARIANTS
  NotLost
PROPERTIES
  EventuallySettled
