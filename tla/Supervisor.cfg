SPECIFICATION Spec
CONSTANTS
  db = db
  web = web
  job = job
  p1 = p1
  p2 = p2
  p3 = p3
  None = None
  Svc <- ThreeSvc
  Name <- MCName
  NameOf <- MCNameOf
  Loaded <- ThreeSvc
  Pid <- MCPid3
  Gor <- MCGor4
  Code <- SignalCodes
  OnSuccess <- AllIgnored
  OnFailure <- JobSucceeds
  CheckAction <- CheckEndsJob
  Oneshot <- JustJob
  Scheduled <- JustWeb
  Conditional <- JustDb
  Requires <- JobRequiresDb
  ExitCodeMap <- Mapped
  ShutdownSeq <- TwoSeq
  ShutdownMode = "reverse-dep"
  Subreaper = TRUE
  MaxOps = 1
  MaxOrphans = 0
CHECK_DEADLOCK FALSE
SYMMETRY PidSymmetry
INVARIANTS
  OneRunPerService
  
  NoServiceOutlivesDaemon
  NoSendOnClosedChannel
  
  AwaitedRunsAreTracked
PROPERTIES
  StopOrderRespected
