CONSTANTS
  Name <- MCName
  Files <- MCFiles
  Client = {c1}
SPECIFICATION Spec
INVARIANTS FatalSettles HandoffTracked GatesAreSafe
PROPERTIES  TopoSortIsAStartOrder TopoLayersIsAStartOrder BootEnds
CHECK_DEADLOCK FALSE
