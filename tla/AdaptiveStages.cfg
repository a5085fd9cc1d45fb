SPECIFICATION Spec
CONSTANTS
  Positions = {p1}
  Kinds = {"stage", "close"}
  MaxCuts = 4
  Limit = 2
  MaxMinute = 1
  MaxLost = 1
  MaxAsked = 1
INVARIANTS
  RepeatsAreExplained
  RecordsAreTrue
PROPERTIES
  OutageRecovers
