SPECIFICATION FairSpec
CONSTANTS
  NoConnection = NoConnection
  Threads = {t1, t2, t3}
  Connections = {c1, c2}
  Calls = {"single", "nested", "unclosed"}
  Faults = TRUE
INVARIANTS
  PoolInductive
  OneUser
  AllReturned
PROPERTIES
  EveryCallEnds
  BusyPoolRecovers
