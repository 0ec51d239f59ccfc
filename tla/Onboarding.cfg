\* Three overlapping requests, two questions, two answer codes.
SPECIFICATION Spec
CONSTANTS
  Question = {q1, q2}
  Code = {a, b}
  Request = {r1, r2, r3}
  None = None
SYMMETRY Symmetry
INVARIANT TypeOK
INVARIANT CompletedHasAnswers
INVARIANT CountNotAhead
PROPERTY StaysCompleted
PROPERTY AloneRepairs
PROPERTY DatedOnce
CHECK_DEADLOCK FALSE
