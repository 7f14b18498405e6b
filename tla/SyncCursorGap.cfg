SPECIFICATION Spec
CONSTANTS
  d1 = d1
  d2 = d2
  d3 = d3
  Device = {d1, d2, d3}
  Field <- MCField
  Value <- MCValue
  Null = Null
  NoPayload = NoPayload
  Nil = Nil
  NoSlot = NoSlot
  Handler <- MCSlots
  DeviceOf <- MCDeviceOf
  Uuid <- MCUuid
  Batches = {}
  MaxSerial = 100
  MaxFaults = 0
  Clock <- MCClock
  Edits <- MCEdits
  BatchLimit = 2
  MaxChanges <- MCMaxChanges
INVARIANTS
  CursorNeverSkips
CHECK_DEADLOCK FALSE
