SPECIFICATION MCSpec
CONSTANTS
  c1 = c1
  c2 = c2
  c3 = c3
  w1 = w1
  w2 = w2
  s1 = s1
  Nil = Nil
  None = None
  Waiting = Waiting
  Failed = Failed
  Calls = {c1,c2,c3,c4}
  c4 = c4
  Workers = {w1, w2}
  Stores = {s1}
  TopicOf <- MCTopicOf
  KeyOf <- MCKeyOf
  StoreOf <- MCStoreOf
  MaxEntries = 1
  Settings <- MCSettings
INVARIANTS
  PendingIffWaiting
  RetryDoesNotRerun
PROPERTIES
  ImplementsRpcCall
