\* Every valid sector holds a sample it received: fails on the zeroed
\* candidate of sector 0.
CONSTANTS
  NUM_SECTORS <- MC_NUM_SECTORS
  SectorMiddle <- MC_SectorMiddle
  SectorWidth <- MC_SectorWidth
  Samples <- MC_Samples
SPECIFICATION Spec
INVARIANT CommittedIsReceived
