SPECIFICATION FairSpec
CONSTANTS
  Centres = {c1, c2}
  Logins = {g1, g2}
  CallLimit = 2
  None = None
INVARIANT OnboardingInv
PROPERTY CompletedStays
PROPERTY OnboardingRecovers
CHECK_DEADLOCK FALSE
