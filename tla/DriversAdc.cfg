\* The ADC driver alone, with signals.
CONSTANTS
  NButtons = 1
  Readers = {r1}
  NKeys = 1
  Users = {u1, u2}
  NoUser = NoUser
  Old = Old
  Parts = {"adc"}
SPECIFICATION Spec
CHECK_DEADLOCK FALSE
INVARIANT HereIsData
