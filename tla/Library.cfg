SPECIFICATION Spec
CONSTANTS
  Tracks <- MCTracks
  Replies <- MCReplies
  Wanted = {"mp3", "flac"}
  MaxRetries = 2
  MaxStarts = 2
  ArgsChoices <- MCArgs
  Titled = {"aria"}
  Identified = {"aria", "bolero"}
  OwnName <- MCOwnName
  FoundName <- MCFoundName
  MaxRuns = 2
INVARIANTS
  OriginalsKept
PROPERTIES
  OnlyAllowedLosses
  ResumesWhereItLeftOff
CHECK_DEADLOCK FALSE
