SPECIFICATION FairSpec
CONSTANTS
  Cams = {c1}
  Renewers = {t1}
  Lambda = lambda
  p1 = p1
  p2 = p2
  Passwords = {p1, p2}
  Configs <- MCConfigs
  NoPort = NoPort
  None = None
  MaxAddress = 2
  MaxEvents = 2
INVARIANTS
  TypeOK
  TimerArmed
  OneSubscription
CHECK_DEADLOCK FALSE
PROPERTY EventuallySubscribed
