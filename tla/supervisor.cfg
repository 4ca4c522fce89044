CONSTANTS
  u1 = u1
  u2 = u2
  Keys <- OneKey
  Slots <- TwoSlots
  NoSlot = 0
  MaxActive = 1
  MaxRestart = 2
SPECIFICATION FairSpec
INVARIANTS
  RunningOwnsHandle
  NoOrphanProcess
  StopSticks
PROPERTIES
  CrashesForgottenOnlyByStableRun
  
CHECK_DEADLOCK FALSE
