\* One consumer loop alone is enough to make two alert rows of one transaction.
SPECIFICATION Spec
CONSTANTS
  Tx = {t1}
  Verdict = {low, high}
  Alerting = {high}
  RestSession = {r1}
  Consumer = {c1}
  Stamp = {ms1, ms2}
  None = None
INVARIANT AlertRowOncePerTransaction
CHECK_DEADLOCK FALSE
