\* Healthy stream, no ray exactly on a reference heading, either abs().
CONSTANTS
  Angles <- MC_AnglesOff
  StrayAngles <- MC_StrayAngles
  MAX_STRAYS = 1
  Dists <- MC_Dists
  SinMilli <- MC_SinMilli
  CosMilli <- MC_CosMilli
  STEP_MAX <- MC_STEP_MAX
  AbsBuilds <- MC_BuildsAny
INIT Init
NEXT Next
INVARIANT TypeOK
PROPERTY AvoidFollowsRays
