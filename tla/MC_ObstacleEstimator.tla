------------------------ MODULE MC_ObstacleEstimator ------------------------
(***************************************************************************)
(* Model values for ObstacleEstimator.  The window angles lie 15 and 30    *)
(* degrees either side of the reference headings 315 and 135; 30 is a      *)
(* front trigger (below 60) and 200 a back trigger (above 180).  A         *)
(* clockwise step of at most 90 degrees between samples stands for a       *)
(* healthy, dense sample stream.  30 cm is inside the 0.5 m cut and 200 cm *)
(* outside it; with one in-range distance the sign of each offset depends  *)
(* on the angle alone.                                                     *)
(***************************************************************************)
EXTENDS ObstacleEstimator

\* sin and cos x 1000 of the offsets from the reference heading
MC_SinMilli == [o \in {-30, -15, 0, 15, 30} |->
                  CASE o = -30 -> -500 [] o = -15 -> -259 [] o = 0 -> 0
                    [] o = 15 -> 259 [] o = 30 -> 500]
MC_CosMilli == [o \in {-30, -15, 0, 15, 30} |->
                  CASE o = 0 -> 1000 [] o \in {-15, 15} -> 966 [] OTHER -> 866]

MC_Dists == {30, 200}

\* No sample exactly on a reference heading.
MC_AnglesOff == {30, 105, 120, 150, 165, 200, 285, 300, 330, 345}
\* The same with a sample exactly at 315 and at 135.
MC_AnglesOn == MC_AnglesOff \cup {135, 315}

\* A misframed sample beyond a full turn: it drops the front rays and
\* triggers the back evaluation.
MC_StrayAngles == {400}

MC_STEP_MAX == 90

\* The sample the misframe run accepts, at 300 degrees, inside the front
\* window, besides the one beyond a full turn.
MC_StrayAnglesAll == {300, 400}

\* Any clockwise step: samples rejected for a sync error, or lost while
\* the decoder waits for a resync marker, may leave a gap of most of a turn.
MC_STEP_ANY == 359
MC_BuildsAny == BOOLEAN

=============================================================================
