SPECIFICATION UploadFairSpec
CONSTANTS
  Clips = {c1, c2, c3}
  QueueMax = 2
  MaxCred = 2
INVARIANTS
  FailsOfRace
  ClipKept

  
CHECK_DEADLOCK FALSE
