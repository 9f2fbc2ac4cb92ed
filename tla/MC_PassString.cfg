CONSTANTS
  Inputs <- MC_Inputs
  MaxGen <- MC_MaxGen
  DebugValues <- MC_DebugValues
SPECIFICATION Spec
INVARIANTS
  TypeOK
  DebugStringJoins
PROPERTY
  ArgPassingRefined
