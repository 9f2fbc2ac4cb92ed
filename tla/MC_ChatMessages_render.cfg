CONSTANTS
  PAGE <- MC_PAGE
  MaxMsgs <- MC_MaxMsgs
  MaxInflight <- MC_MaxInflight
  InitCounts <- MC_InitNonEmpty
  EarlyLoadMore = FALSE
  HashBuilds = {TRUE}
  BodyOf <- MC_BodiesEncrypted
SPECIFICATION Spec
PROPERTIES
  NewMessagesShown
CHECK_DEADLOCK FALSE
