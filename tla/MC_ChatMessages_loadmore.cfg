CONSTANTS
  PAGE <- MC_PAGE
  MaxMsgs <- MC_MaxMsgs
  MaxInflight <- MC_MaxInflight
  InitCounts <- MC_InitAny
  EarlyLoadMore = FALSE
  HashBuilds = {TRUE}
  BodyOf <- MC_Bodies
SPECIFICATION Spec
INVARIANT
  LoadMoreHonest
