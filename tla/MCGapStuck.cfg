CONSTANTS
  Width = 2
  Obs = 2
  MaxAge = 1
  MaxLate = 1
  MaxMinute = 7
  Session = {0, 1, 2, 3, 4, 5, 6, 7}
  DayStarts = {}
  Contested = {1}
SPECIFICATION Spec
INVARIANT
  WarmupUnblocks
CHECK_DEADLOCK FALSE
