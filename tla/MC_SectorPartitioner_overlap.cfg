\* init_sectors() when two configured ignore areas overlap.
CONSTANTS
  SECTORS_MAX <- MC_SECTORS_MAX
  IgnoreConfigs <- MC_AllConfigs
SPECIFICATION Spec
INVARIANT LayoutMatchesFreeArcs
CHECK_DEADLOCK FALSE
