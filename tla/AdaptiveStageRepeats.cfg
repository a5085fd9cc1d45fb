SPECIFICATION Spec
CONSTANTS
  Positions = {p1}
  Kinds = {"stage"}
  MaxCuts = 2
  Limit = 2
  MaxMinute = 0
  MaxLost = 0
  MaxAsked = 1
INVARIANTS
  StageDoesNotRepeat
