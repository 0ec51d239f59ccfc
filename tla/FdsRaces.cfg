\* Two concurrent requests and one consumer loop on two transactions; all alerts of one millisecond, so that
\* alerts of both transactions share an id.
SPECIFICATION Spec
CONSTANTS
  Tx = {t1, t2}
  Verdict = {low, high}
  Alerting = {high}
  RestSession = {r1, r2}
  Consumer = {c1}
  Stamp = {ms1}
  None = None
SYMMETRY Symmetry
INVARIANT TypeOK
INVARIANT FoldedOnce
INVARIANT CountWithinLog
INVARIANT AlertedVerdictPublished
INVARIANT AlertRowOncePerMessage
PROPERTY VerdictOnce
CHECK_DEADLOCK FALSE
