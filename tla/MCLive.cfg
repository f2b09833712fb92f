CONSTANTS
  Subjects = {"view", "ipc"}
  MaxSeq = 2
  MaxInstances = 2
  MaxReplay = 1
  HighWater = 1
  RefetchPasses = 2
  FailureThreshold = 1
  IpcParents = {1, 2}
  IpcClients = {"o1"}
  AdmitRequests <- MCAdmit
  WithdrawRequests <- MCWithdraw
  MaxCasRetries = 2
  MaxSends = 2
  MaxLogged = 1
SPECIFICATION Spec
INVARIANTS ViewsCatchUp AnswersHold ActiveEndpointKept
CHECK_DEADLOCK FALSE
