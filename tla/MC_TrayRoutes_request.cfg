CONSTANTS
  n1 = n1
  n2 = n2
  NoSetupValue = NoSetupValue
  NoSetup <- NoSetupValue
  Addrs <- MC_Addrs
  Protected <- MC_Protected
SPECIFICATION Spec
INVARIANT
  RequestsReachNode
