\* Every schedule.
CONSTANTS
  ctrl = ctrl
  ppp = ppp
  sms = sms
  Threads = {ctrl, ppp, sms}
  Ppp = ppp
  NPorts = 2
  NoPort = NoPort
  Schedules = {"any", "flag", "serial"}
  MaxDrift = 0
SPECIFICATION Spec
\* Lost updates of users end at MaxDrift, where no thread counts any more.
CHECK_DEADLOCK FALSE
SYMMETRY ThreePerms
INVARIANTS TypeOK Exclusive UsedIffOwned UsersExact FlagNotLeftSet
PROPERTY ImplementsOwner
