CONSTANTS
  PAGE <- MC_PAGE
  MaxMsgs <- MC_MaxMsgs
  MaxInflight <- MC_MaxInflight
  InitCounts <- MC_InitNonEmpty
  EarlyLoadMore = FALSE
  HashBuilds = {TRUE, FALSE}
  BodyOf <- MC_Bodies
SPECIFICATION Spec
INVARIANTS
  TypeOK
  StoreContiguous
PROPERTIES
  NewMessagesShown
CHECK_DEADLOCK FALSE
