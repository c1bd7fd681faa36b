SPECIFICATION Spec
CONSTANTS
  Modes = {"E", "D"}
  Sizes = {1, 2}
  MaxOrders = 2
  MaxAsked = 1
  MaxGiven = 2
CONSTRAINT Telling
INVARIANTS ListsAgree AllDoneIsWhole
CHECK_DEADLOCK FALSE
