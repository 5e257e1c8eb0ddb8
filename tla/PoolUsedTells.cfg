\* The flag is tested and set in two steps.
CONSTANTS
  ctrl = ctrl
  ppp = ppp
  sms = sms
  Threads = {ctrl, ppp, sms}
  Ppp = ppp
  NPorts = 2
  NoPort = NoPort
  Schedules = {"any"}
  MaxDrift = 0
SPECIFICATION Spec
\* Lost updates of users end at MaxDrift, where no thread counts any more.
CHECK_DEADLOCK FALSE
SYMMETRY ThreePerms
INVARIANT UsedTells
