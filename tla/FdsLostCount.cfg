\* Two sessions of one user who has a profile, on two transactions.
INIT InitProfile
NEXT Next
CONSTANTS
  Tx = {t1, t2}
  Verdict = {low}
  Alerting = {}
  RestSession = {r1}
  Consumer = {c1}
  Stamp = {ms1}
  None = None
INVARIANT CountIsTotal
CHECK_DEADLOCK FALSE
