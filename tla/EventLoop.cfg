\* The broker comes and goes; the process stops twice.
SPECIFICATION Spec
CONSTANTS
  Last = 3
  Alerting <- MCAlerting
  Stops = 2
INVARIANT TypeOK
INVARIANT OnlyCutAreLost
INVARIANT OneStart
PROPERTY EveryMessageEnds
PROPERTY PublicationEnds
