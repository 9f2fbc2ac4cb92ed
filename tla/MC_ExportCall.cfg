CONSTANTS
  w1 = w1
  w2 = w2
  Objs <- MC_Objs
  Addrs <- MC_Addrs
  WordBits <- MC_WordBits
  MaxGen <- MC_MaxGen
  Handles <- MC_Handles
  JsValues <- MC_JsValues
  I64Bits <- MC_I64Bits
SPECIFICATION MC_Spec
INVARIANTS
  TypeOK
  NoDanglingPtr
  ResultStringsFreed
  ResultIntact
  HandlesTaken
  ImportsMatchKinds
  U64RoundTrip
