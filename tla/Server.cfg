SPECIFICATION FairSpec
CONSTANTS
  Reconnecting = TRUE
  MinDelay = 1
  MaxDelay = 2
  MaxAttempts = 1
  Unlimited = Unlimited
  Never = Never
  Width = 3
  MaxElapsed = 2
  MaxTries = 3
  MaxSearches = 2
INVARIANTS
  TypeOK
  PendingIsConnected
  KeptCredentialsAreDated
  WorkerNotMisled
  LoginFirst
  BackoffIsExponential
PROPERTIES
  PendingIsSettled
  KeptCredentialsAreUsed
CHECK_DEADLOCK FALSE
