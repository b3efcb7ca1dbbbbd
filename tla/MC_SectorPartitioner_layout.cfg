\* init_sectors() over every configuration of at most two disjoint ignore
\* areas.  The loop stops in "done": CHECK_DEADLOCK is off for that state.
CONSTANTS
  SECTORS_MAX <- MC_SECTORS_MAX
  IgnoreConfigs <- MC_DisjointConfigs
SPECIFICATION Spec
INVARIANT TypeOK
INVARIANT LayoutMatchesFreeArcs
PROPERTY PartitionRefinesLayout
CHECK_DEADLOCK FALSE
