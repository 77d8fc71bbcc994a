SPECIFICATION FairSpec
CONSTANTS
  Emits = {e1}
  Replies = {h1}
  Closers = {k1}
  Reconnects = {r1, r2}
  Conns = {c1, c2}
  MaxRetries = 1
  Nil = Nil
INVARIANTS
  TypeOK
  SingleFlight
  WaitersAwaitLiveLoop
  ConnectedUsable
PROPERTIES
  CallsReturn
