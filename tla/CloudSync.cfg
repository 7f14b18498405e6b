SPECIFICATION ServerSpec
CONSTANTS
  d1 = d1
  d2 = d2
  r1 = r1
  r2 = r2
  s1 = s1
  s2 = s2
  s3 = s3
  p1 = p1
  Device = {d1, d2}
  Field <- MCField
  Value = {"a", "b"}
  Null = Null
  NoPayload = NoPayload
  Nil = Nil
  Handler = {s1, s2, s3}
  DeviceOf <- MCDeviceOf
  Batches <- MCBatches
  MaxSerial = 2
  MaxFaults = 1
  Replica = {r1, r2}
  Puller = {p1}
  PullerOf <- MCPullerOf
  ReplicaOf <- MCReplicaOf
  Environment <- MCEnvironment
  Secret = {"k"}
  Token <- MCToken
  MaxNumber = 5
  MaxEvents = 1
  MaxLoad = 2
INVARIANTS
  TypeOK
  LedgerIdsOnce
  ForksOverlap
  RepliesAreTrue
  ServerTypeOK
  NoWaitCycle
  PullsLeaveNoGap
  HintsAreCommitted
  RowsAreAnnounced
PROPERTIES
  ImplementsMergeLog
  ShutdownDropsNothing
  RevokedDevicesFade
CHECK_DEADLOCK FALSE
