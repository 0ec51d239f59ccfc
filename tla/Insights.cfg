\* Three dates, three limits, three revisions of one month, two blacklist entries; two transactions stand for ten.
SPECIFICATION Spec
CONSTANTS
  Day = {"mon", "tue", "wed"}
  Limit = {0, 1, 6}
  Event <- MCEvent
  Rev = {1, 2, 3}
  Published <- MCPublished
  Spent <- MCSpent
  Entry = {b1, b2}
  MinTx = 2
  None = None
  Steps = 5
SYMMETRY Symmetry
INVARIANTS TypeOK GradeIsEarned BadgesMatchScores SettledRecapAddsUp
PROPERTIES AskAgainHarmless ReleaseUnblocks
CHECK_DEADLOCK FALSE
