SPECIFICATION FairSpec
CONSTANTS
  db = db
  web = web
  job = job
  p1 = p1
  p2 = p2
  p3 = p3
  None = None
  Svc <- OneSvc
  Name <- MCName
  NameOf <- MCNameOf
  Loaded <- OneSvc
  Pid <- MCPid2
  Gor <- MCGor2
  Code <- Codes
  OnSuccess <- AllIgnored
  OnFailure <- DbRestarts
  CheckAction <- DbRestarts
  Oneshot <- Empty
  Scheduled <- Empty
  Conditional <- Empty
  Requires <- JobRequiresDb
  ExitCodeMap <- Unmapped
  ShutdownSeq <- OneSeq
  ShutdownMode = "simultaneous"
  Subreaper = FALSE
  MaxOps = 1
  MaxOrphans = 1
CHECK_DEADLOCK FALSE
PROPERTIES
  ServicesAreReaped
  RestartsAreHandled
  ShutdownExitsUnlessStranded
