SPECIFICATION Spec
CONSTANTS
  Purchases <- MCPurchases
  Profiles <- MCProfiles
  Chances <- MCChances
  Starts <- MCStarts
  Limits <- MCLimits
  Codes <- MCCodes
  Forms <- MCForms
  Replies <- MCReplies
  Changes <- MCChanges
  Steps = 4
INVARIANTS TypeOK VerdictAsStored MoreIsRiskier ScoresAgree PlanReachesGoal
PROPERTY GoodDeedsNeverHurt
CHECK_DEADLOCK FALSE
