\* Three buttons, of which two are pressed, two keys or users; two readers, or
\* one at a time and a second open().
CONSTANTS
  NButtons = 3
  Readers = {r1, r2}
  NKeys = 2
  Users = {u1, u2}
  NoUser = NoUser
  Old = Old
  Parts = {"button", "overlap", "keypad", "adc"}
SPECIFICATION FairSpec
\* A kernel that has followed a bad pointer stops; so do the users of a mutex
\* that is never given back.
CHECK_DEADLOCK FALSE
INVARIANTS TypeOK ButtonNotDeaf PressNotLost FreedIsUnused ReportFollowsPin OnlyLateTimersLeft ReadIsFresh
PROPERTIES PressIsRead AdcLockReleased
