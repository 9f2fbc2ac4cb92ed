CONSTANTS
  PAGE <- MC_PAGE
  MaxMsgs <- MC_MaxMsgs
  MaxInflight <- MC_MaxInflight
  InitCounts <- MC_InitNonEmpty
  EarlyLoadMore = FALSE
  HashBuilds = {FALSE}
  BodyOf <- MC_Bodies
SPECIFICATION Spec
PROPERTY
  ListShown
CHECK_DEADLOCK FALSE
