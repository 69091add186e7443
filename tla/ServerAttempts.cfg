SPECIFICATION Spec
CONSTANTS
  Reconnecting = TRUE
  MinDelay = 1
  MaxDelay = 2
  MaxAttempts = 1
  Unlimited = Unlimited
  Never = Never
  Width = 3
  MaxElapsed = 2
  MaxTries = 3
  MaxSearches = 2
INVARIANTS
  AttemptsAreLimited
CHECK_DEADLOCK FALSE
