SPECIFICATION FairSpec
CONSTANTS
  c1 = c1
  c2 = c2
  Scripts <- MCScripts
  Command = {c1, c2}
  MaxReports = 1
  Size = 3
  UpdateEvery = 2
  Stall = 2
  ProgressTimeouts = {0, 2}
INVARIANTS
  TypeOK
  HandledOnce
  OvertakenOnlyAtStart
  CommandsFollowHandshake
  CompletedFile
  CancelStopsWriting
  ReportReachesItsDownload
PROPERTIES
  DeadPeerIsDismissed
  TransferEnds
CHECK_DEADLOCK FALSE
