\* The nearest sample of a dwell is what the commit writes, for samples in
\* any order.
CONSTANTS
  NUM_SECTORS <- MC_NUM_SECTORS
  SectorMiddle <- MC_SectorMiddle
  SectorWidth <- MC_SectorWidth
  Samples <- MC_Samples
SPECIFICATION Spec
INVARIANT TypeOK
PROPERTY NearestObstacleWins
