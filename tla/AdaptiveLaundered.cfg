SPECIFICATION Spec
CONSTANTS
  Positions = {p1, p2}
  Kinds = {"stage"}
  MaxCuts = 2
  Limit = 2
  MaxMinute = 0
  MaxLost = 1
  MaxAsked = 2
PROPERTIES
  FailuresStayOpen
