SPECIFICATION PipelinesSpec
CONSTANTS
  NumUnits = 3
  NumBuses = 2
  Kind = {"add", "mul", "sin"}
  Latency <- MCLatency
  Interval <- MCInterval
  Runs <- MCRuns
  Depth <- MCDepth
  None = None
  Instr = {1, 2, 3}
  Prog <- MCProg
  Pipe = {"SP", "MEM"}
  Stallable = {"MEM"}
  InWidth = 1
  OutWidth = 1
  NumBanks = 2
  CuSets <- MCCuSets
  Dispatch <- MCDispatch
  Ports <- MCPorts
  NoInst = NoInst
INVARIANTS
  ExWbFits
  SlotsKept
  ReadsHold
PROPERTIES
  OnePortEach
  NoIdleBank
  EveryInstEnds
CHECK_DEADLOCK FALSE
