SPECIFICATION Spec
CONSTANTS
  Takers = {t1}
  Most <- MCMost
  Troubles = {"clock", "failing", "foreign"}
INVARIANTS SidesAgree
PROPERTIES HitStays ExpiredIsPast OverdueEnds
CHECK_DEADLOCK FALSE
