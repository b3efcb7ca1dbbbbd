\* The status reported on a clean line, the sensor starting idle or
\* mid-scan.
CONSTANTS
  SYSINFO_LEN = 62
  RESETTED_RETRIES = 5
  UNKNOWN_RETRIES = 10
  COMM_TIMEOUT = 1
  RESYNC_TIMEOUT = 2
  InfoText <- MC_InfoText63
  Frames <- MC_Frames
  RX_CAP = 2
  NoiseBytes <- MC_NoiseBytes
  MAX_LOST_BYTES = 0
  MAX_NOISE_BYTES = 0
  MAX_LOST_COMMANDS = 0
SPECIFICATION Spec
PROPERTY StatusFromMeasurement
