CONSTANTS
  u1 = u1
  u2 = u2
  Keys <- OneKey
  Slots <- TwoSlots
  NoSlot = 0
  MaxActive = 1
  MaxRestart = 1
SPECIFICATION Spec
INVARIANTS
  StopIsFinal
CHECK_DEADLOCK FALSE
