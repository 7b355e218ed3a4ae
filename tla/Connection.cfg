SPECIFICATION Spec
CONSTANTS
  Backlog = 1
  MaxSyncs = 2
  MaxKills = 1
INVARIANTS SocketsPair SyncIsBarrier
PROPERTY Connects
CHECK_DEADLOCK FALSE
