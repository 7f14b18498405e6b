SPECIFICATION Spec
CONSTANTS
  d1 = d1
  d2 = d2
  qty = "qty"
  Edits1 = 2
  Device = {d1, d2}
  Field <- MCField
  Value <- MCValue
  Null = Null
  NoPayload = NoPayload
  Nil = Nil
  NoSlot = NoSlot
  Handler <- MCSlots
  DeviceOf <- MCDeviceOf
  Uuid <- MCUuid
  Batches = {}
  MaxSerial = 100
  MaxFaults = 1
  Clock <- MCClock
  Edits <- MCEdits
  BatchLimit = 1
  MaxChanges <- MCMaxChanges
INVARIANTS
  SystemTypeOK
  AckedIsCovered
  CausalOrder
CHECK_DEADLOCK FALSE
