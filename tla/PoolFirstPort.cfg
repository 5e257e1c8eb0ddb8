\* Calls that do not overlap.
CONSTANTS
  ctrl = ctrl
  ppp = ppp
  sms = sms
  Threads = {ctrl, ppp, sms}
  Ppp = ppp
  NPorts = 2
  NoPort = NoPort
  Schedules = {"serial"}
  MaxDrift = 0
SPECIFICATION Spec
\* Lost updates of users end at MaxDrift, where no thread counts any more.
CHECK_DEADLOCK FALSE
SYMMETRY ThreePerms
INVARIANT FirstPortPreserved
