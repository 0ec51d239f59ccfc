\* Two requests answer the last two questions at once.
SPECIFICATION Spec
CONSTANTS
  Question = {q1, q2, q3}
  Code = {a}
  Request = {r1, r2}
  None = None
INVARIANT ProfileMirrorsAnswers
CHECK_DEADLOCK FALSE
