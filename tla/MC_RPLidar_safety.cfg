\* Decoder safety under every fault kind, the sensor starting idle or
\* mid-scan.
CONSTANTS
  SYSINFO_LEN = 2
  RESETTED_RETRIES = 1
  UNKNOWN_RETRIES = 2
  COMM_TIMEOUT = 1
  RESYNC_TIMEOUT = 2
  InfoText <- MC_InfoText
  Frames <- MC_Frames
  RX_CAP = 2
  NoiseBytes <- MC_NoiseBytes
  MAX_LOST_BYTES = 1
  MAX_NOISE_BYTES = 1
  MAX_LOST_COMMANDS = 1
SPECIFICATION Spec
INVARIANT TypeOK
INVARIANT BuffersInBounds
INVARIANT ResyncStartsFrame
PROPERTY LifecycleRefined
