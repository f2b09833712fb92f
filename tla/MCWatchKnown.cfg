CONSTANTS
  Subjects = {"turn"}
  MaxCalls = 2
  MaxTurnCrashes = 1
  MaxFrameBytes = 1
  MaxTotalBytes = 13
  MaxFrames = 6
  MaxSent = 14
  MaxPipe = 3
  MaxOddities = 1
  MaxLines = 5
  MaxTranscript = 4
  MaximumChunkBytes = 3
  MaximumRecordBytes = 1
  MaximumRecordsPerPoll = 2
  RequiredQuietPolls = 2
  MaxFinalPolls = 2
  MaxMutations = 1
  Processes = {1, 2, 3}
  MaxCloseFailures = 1
SPECIFICATION Spec
INVARIANTS ResolvedAfterTeardown
CHECK_DEADLOCK FALSE
