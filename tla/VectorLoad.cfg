SPECIFICATION CollectorSpec
CONSTANTS
  Instr = {1}
  Prog <- VectorLoad
  Pipe = {"SP", "MEM"}
  Stallable = {"MEM"}
  InWidth = 1
  OutWidth = 1
  NumBanks = 2
  CuSets <- OneSet
  Dispatch <- OneDispatch
  Ports <- OnePort
  NoInst = NoInst
PROPERTY
  EveryInstEnds
CHECK_DEADLOCK FALSE
