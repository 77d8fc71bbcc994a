SPECIFICATION Spec
CONSTANTS
  Messages = {e1, q1, m1}
  Rpcs = {q1}
  Malformed = {m1}
  Queue = "jobs"
  Topics = {"orders"}
  Slots = {s1, s2, s3}
  Prefetch = 2
  MaxRetries = 1
  MaxCuts = 2
  MaxRestarts = 1
SYMMETRY Symmetry
INVARIANTS
  DuplicatesNeedCuts
