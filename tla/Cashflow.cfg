\* Two categories, three revisions in both topics, one consumer loop.
SPECIFICATION Spec
CONSTANTS
  Rev = {1, 2, 3}
  Amount = {a1, a2}
  Category = {food, cafe}
  Consumer = {c1}
  None = None
SYMMETRY Symmetry
INVARIANT TypeOK
INVARIANT NewestKept
PROPERTY MonthStored
PROPERTY CategoryLargest
CHECK_DEADLOCK FALSE
