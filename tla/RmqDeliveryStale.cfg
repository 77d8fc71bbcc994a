SPECIFICATION Spec
CONSTANTS
  Messages = {e1, q1}
  Rpcs = {q1}
  Malformed = {}
  Queue = "jobs"
  Topics = {"jobs"}
  Slots = {s1, s2, s3}
  Prefetch = 2
  MaxRetries = 1
  MaxCuts = 1
  MaxRestarts = 0
INVARIANTS
  SurvivesDrops
