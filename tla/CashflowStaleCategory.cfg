\* A newer revision that no longer names a category leaves that category's row in place.
SPECIFICATION Spec
CONSTANTS
  Rev = {1, 2}
  Amount = {a1}
  Category = {food, cafe}
  Consumer = {c1}
  None = None
INVARIANT OnlyLargestRevision
CHECK_DEADLOCK FALSE
