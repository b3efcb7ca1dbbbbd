\* What the healthy-stream run excludes: a ray exactly on 315 or 135
\* degrees, a misframed sample inside the front window, and any gap
\* between two samples.
CONSTANTS
  Angles <- MC_AnglesOn
  StrayAngles <- MC_StrayAnglesAll
  MAX_STRAYS = 1
  Dists <- MC_Dists
  SinMilli <- MC_SinMilli
  CosMilli <- MC_CosMilli
  STEP_MAX <- MC_STEP_ANY
  AbsBuilds <- MC_BuildsAny
INIT Init
NEXT Next
PROPERTY AvoidFollowsRays
