CONSTANTS
  PAGE <- MC_PAGE
  MaxMsgs <- MC_MaxMsgs
  MaxInflight <- MC_MaxInflight
  InitCounts <- MC_InitEmpty
  EarlyLoadMore = FALSE
  HashBuilds = {TRUE}
  BodyOf <- MC_Bodies
SPECIFICATION Spec
PROPERTY
  FirstMessageShown
