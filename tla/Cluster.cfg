SPECIFICATION ClusterSpec
CONSTANTS
  k1 = k1
  k2 = k2
  k3 = k3
  Kernel = {k1, k2, k3}
  NCta <- MCNCta
  NWarp <- MCNWarp
  MaxCta <- MCMaxCta
  NCluster = 2
  NCore = 2
  NSlot = 2
  None = None
  Resp = {"a1", "a2", "i1", "g1", "g2", "p1"}
  Kind <- MCKind
  CoreOf <- MCCoreOf
  From <- MCFrom
  Cid = {0, 1}
  EjectionSize = 2
  ResponseSize = 1
  NSM = 7
  HistRange = 3
INVARIANTS
  KernelsCounted
  PortsHold
  GeometryHolds
PROPERTIES
  EveryKernelReported
  EveryCoreIsAnswered
