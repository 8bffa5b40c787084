SPECIFICATION FairSpec
CONSTANTS
  Sessions = {b, c}
  Children = {c}
  None = None
  Mishaps = {"provider", "evict", "open", "lose", "repeat"}
  MaxLogins = 2
  MaxTokens = 2
  MaxCalls = 1
  MaxMishaps = 1
CHECK_DEADLOCK FALSE
INVARIANT EndedStaysEnded
INVARIANT CredentialHonoured
INVARIANT StartedIsListed
PROPERTY LoginEnds
