------------------------- MODULE ObstacleEstimator -------------------------
(***************************************************************************)
(* The front/back obstacle-line estimator of parse_response_data(), lines  *)
(* 528-726, run on every accepted sample.  In the front window             *)
(* (270..360 degrees) the first and the last sample at 0.5 m or more are   *)
(* kept as the left and right rays; when a sample below 60 degrees comes   *)
(* while rays are held, their lateral offsets L = d * sin(angle - 315)     *)
(* select an avoidance distance and direction.  A sample from 60 up to     *)
(* 270 degrees (or above 360) drops the rays.  The back window (90..180,   *)
(* reference 135, evaluated above 180) mirrors this with the first ray     *)
(* kept as the right one and its own sign cases.                           *)
(*                                                                         *)
(* Angles are whole degrees, distances centimetres.  Trigonometry comes    *)
(* from the tables SinMilli / CosMilli (value x 1000) over the offsets the *)
(* model uses, so L is in cm x 1/1000 and products stay exact.  Whether    *)
(* abs() is the int or the float overload depends on the build (the code's *)
(* own comment warns it truncates); both are possible, fixed per run.      *)
(* The sensor turns clockwise and the decoder hands over a sample at least *)
(* every STEP_MAX degrees.  A window misframed by a lost byte (see the    *)
(* driver's misframe run) is a Stray sample: its angle is anything the 15- *)
(* bit angle_q6 field holds, up to 511 degrees, and the sensor's heading   *)
(* does not move.                                                          *)
(*                                                                         *)
(* History: avoidRaysFront / avoidRaysBack record the rays the current     *)
(* avoid values were computed from.                                        *)
(***************************************************************************)
EXTENDS Integers

CONSTANTS
  Angles,     \* sample angles (whole degrees)
  StrayAngles,\* angles of misframed samples, 0 .. 511
  MAX_STRAYS, \* bound on the misframed samples of a behaviour
  Dists,      \* sample distances (cm)
  SinMilli,   \* sin of an offset in degrees, x 1000
  CosMilli,   \* cos of an offset in degrees, x 1000
  STEP_MAX,   \* largest clockwise step between two consecutive samples
  AbsBuilds   \* TRUE: abs() is abs(int); FALSE: the float overload

VARIABLES
  prevAngle,  \* the heading of the last sample the sensor really sent
  angleDeg,   \* angle_deg of the last sample handled
  strays,     \* misframed samples so far (bounded fault counter)
  absInt,
  angleLeftFront, distantLeftFront, pointFrontFind, angleRightFront,
  distantRightFront, LLeftFront, LRightFront,
  distanceObjectFront, avoidDistanceFront, avoidDirectionFront,
  angleLeftBack, distantLeftBack, pointBackFind, angleRightBack,
  distantRightBack, LLeftBack, LRightBack,
  distanceObjectBack, avoidDistanceBack, avoidDirectionBack,
  avoidRaysFront, avoidRaysBack

front == <<angleLeftFront, distantLeftFront, pointFrontFind, angleRightFront,
           distantRightFront, LLeftFront, LRightFront, distanceObjectFront,
           avoidDistanceFront, avoidDirectionFront, avoidRaysFront>>
back == <<angleLeftBack, distantLeftBack, pointBackFind, angleRightBack,
          distantRightBack, LLeftBack, LRightBack, distanceObjectBack,
          avoidDistanceBack, avoidDirectionBack, avoidRaysBack>>
estVars == <<prevAngle, angleDeg, strays, absInt, front, back>>

MIN_DIST == 50            \* distance_m >= 0.5
FAR == 133 * 100 * 1000   \* distance_object = 133 (m), in cm x 1/1000
CM500 == 500 * 1000       \* the 500 (cm) the avoid distance starts from
NoRays == <<0, 0, 0, 0>>

-----------------------------------------------------------------------------
AbsVal(x) == IF x < 0 THEN -x ELSE x

\* abs(L * 100) in cm x 1/1000: the float value, or truncated to whole cm
AbsCm(l) == IF absInt THEN (AbsVal(l) \div 1000) * 1000 ELSE AbsVal(l)

\* abs(L_left * 10) > abs(L_right * 10): decimetres, truncated for int abs
AbsDmGreater(l, r) ==
  IF absInt THEN AbsVal(l) \div 10000 > AbsVal(r) \div 10000
            ELSE AbsVal(l) > AbsVal(r)

\* d * sinf(D2R * (a - ref))
Lateral(d, a, ref) == d * SinMilli[a - ref]

\* Mutant: the two cos projections summed, the division by 2 forgotten.
Forward_sum(dl, al, dr, ar, ref) == dl * CosMilli[al - ref] + dr * CosMilli[ar - ref]

\* distance_object: the mean of the two cos projections
Forward(dl, al, dr, ar, ref) == (dl * CosMilli[al - ref] + dr * CosMilli[ar - ref]) \div 2

\* Mutant: the rays kept when the sweep leaves the window (no reset).
DropFrontRays_kept == UNCHANGED pointFrontFind

\* point_front_find = 0 on a sample from 60 up to 270 degrees or above 360
DropFrontRays == pointFrontFind' = FALSE

-----------------------------------------------------------------------------
\* Lines 563-590: the front sign cases.  <<distance, direction>>, or
\* NoCase when none of the three applies.
NoCase == <<0, 0>>
FrontAvoid(ll, lr) ==
  CASE ll >= 0 /\ lr >= 0 -> <<CM500 - AbsCm(ll), -1>>
    [] ll < 0 /\ lr > 0 /\ AbsDmGreater(ll, lr) -> <<CM500 + AbsCm(lr), 1>>
    [] ll < 0 /\ lr > 0 -> <<CM500 + AbsCm(ll), -1>>
    [] ll < 0 /\ lr < 0 -> <<CM500 - AbsCm(lr), 1>>
    [] OTHER -> NoCase

\* Lines 671-697: the back sign cases.
BackAvoid(ll, lr) ==
  CASE ll >= 0 /\ lr >= 0 -> <<CM500 - AbsCm(lr), 1>>
    [] ll > 0 /\ lr < 0 /\ AbsDmGreater(ll, lr) -> <<CM500 + AbsCm(lr), 1>>
    [] ll > 0 /\ lr < 0 -> <<CM500 + AbsCm(ll), -1>>
    [] ll < 0 /\ lr < 0 -> <<CM500 - AbsCm(ll), -1>>
    [] OTHER -> NoCase

-----------------------------------------------------------------------------
\* Lines 528-602: the front half for one sample.
FrontStep(a, d) ==
  IF a >= 270 /\ a <= 360
  THEN /\ IF d >= MIN_DIST
            THEN /\ IF ~pointFrontFind
                      THEN /\ angleLeftFront' = a /\ distantLeftFront' = d
                           /\ pointFrontFind' = TRUE
                      ELSE UNCHANGED <<angleLeftFront, distantLeftFront, pointFrontFind>>
                 /\ angleRightFront' = a /\ distantRightFront' = d
            ELSE UNCHANGED <<angleLeftFront, distantLeftFront, pointFrontFind,
                             angleRightFront, distantRightFront>>
       /\ UNCHANGED <<LLeftFront, LRightFront, distanceObjectFront,
                      avoidDistanceFront, avoidDirectionFront, avoidRaysFront>>
  ELSE IF a < 60 /\ pointFrontFind
  THEN LET ll == Lateral(distantLeftFront, angleLeftFront, 315)
           lr == Lateral(distantRightFront, angleRightFront, 315)
           av == FrontAvoid(ll, lr)
       IN /\ LLeftFront' = ll /\ LRightFront' = lr
          /\ IF ll # lr
               THEN /\ distanceObjectFront' =
                         Forward(distantLeftFront, angleLeftFront,
                                 distantRightFront, angleRightFront, 315)
                    /\ IF av # NoCase
                         THEN /\ avoidDistanceFront' = av[1]
                              /\ avoidDirectionFront' = av[2]
                              /\ avoidRaysFront' = <<angleLeftFront, distantLeftFront,
                                                     angleRightFront, distantRightFront>>
                         ELSE UNCHANGED <<avoidDistanceFront, avoidDirectionFront,
                                          avoidRaysFront>>
               ELSE UNCHANGED <<distanceObjectFront, avoidDistanceFront,
                                avoidDirectionFront, avoidRaysFront>>
          /\ UNCHANGED <<angleLeftFront, distantLeftFront, pointFrontFind,
                         angleRightFront, distantRightFront>>
  ELSE IF a < 60
  THEN /\ distanceObjectFront' = FAR
       /\ UNCHANGED <<angleLeftFront, distantLeftFront, pointFrontFind,
                      angleRightFront, distantRightFront, LLeftFront, LRightFront,
                      avoidDistanceFront, avoidDirectionFront, avoidRaysFront>>
  ELSE /\ DropFrontRays
       /\ UNCHANGED <<angleLeftFront, distantLeftFront, angleRightFront,
                      distantRightFront, LLeftFront, LRightFront,
                      distanceObjectFront, avoidDistanceFront,
                      avoidDirectionFront, avoidRaysFront>>

\* Lines 634-709: the back half for one sample.
BackStep(a, d) ==
  IF a >= 90 /\ a <= 180
  THEN /\ IF d >= MIN_DIST
            THEN /\ IF ~pointBackFind
                      THEN /\ angleRightBack' = a /\ distantRightBack' = d
                           /\ pointBackFind' = TRUE
                      ELSE UNCHANGED <<angleRightBack, distantRightBack, pointBackFind>>
                 /\ angleLeftBack' = a /\ distantLeftBack' = d
            ELSE UNCHANGED <<angleRightBack, distantRightBack, pointBackFind,
                             angleLeftBack, distantLeftBack>>
       /\ UNCHANGED <<LLeftBack, LRightBack, distanceObjectBack,
                      avoidDistanceBack, avoidDirectionBack, avoidRaysBack>>
  ELSE IF a > 180 /\ pointBackFind
  THEN LET ll == Lateral(distantLeftBack, angleLeftBack, 135)
           lr == Lateral(distantRightBack, angleRightBack, 135)
           av == BackAvoid(ll, lr)
       IN /\ LLeftBack' = ll /\ LRightBack' = lr
          /\ IF ll # lr
               THEN /\ distanceObjectBack' =
                         Forward(distantLeftBack, angleLeftBack,
                                 distantRightBack, angleRightBack, 135)
                    /\ IF av # NoCase
                         THEN /\ avoidDistanceBack' = av[1]
                              /\ avoidDirectionBack' = av[2]
                              /\ avoidRaysBack' = <<angleLeftBack, distantLeftBack,
                                                    angleRightBack, distantRightBack>>
                         ELSE UNCHANGED <<avoidDistanceBack, avoidDirectionBack,
                                          avoidRaysBack>>
               ELSE UNCHANGED <<distanceObjectBack, avoidDistanceBack,
                                avoidDirectionBack, avoidRaysBack>>
          /\ UNCHANGED <<angleLeftBack, distantLeftBack, pointBackFind,
                         angleRightBack, distantRightBack>>
  ELSE IF a > 180
  THEN /\ distanceObjectBack' = FAR
       /\ UNCHANGED <<angleLeftBack, distantLeftBack, pointBackFind,
                      angleRightBack, distantRightBack, LLeftBack, LRightBack,
                      avoidDistanceBack, avoidDirectionBack, avoidRaysBack>>
  ELSE /\ pointBackFind' = FALSE
       /\ UNCHANGED <<angleLeftBack, distantLeftBack, angleRightBack,
                      distantRightBack, LLeftBack, LRightBack,
                      distanceObjectBack, avoidDistanceBack,
                      avoidDirectionBack, avoidRaysBack>>

\* The next accepted sample: a clockwise step of at most STEP_MAX degrees.
Sample(a, d) ==
  /\ 0 < (a - prevAngle) % 360 /\ (a - prevAngle) % 360 <= STEP_MAX
  /\ prevAngle' = a
  /\ angleDeg' = a
  /\ FrontStep(a, d)
  /\ BackStep(a, d)
  /\ UNCHANGED <<strays, absInt>>

\* A misframed window that passed the validity test (lines 518-521): both
\* halves see its angle, however large.
Stray(a, d) ==
  /\ strays < MAX_STRAYS
  /\ strays' = strays + 1
  /\ angleDeg' = a
  /\ FrontStep(a, d)
  /\ BackStep(a, d)
  /\ UNCHANGED <<prevAngle, absInt>>

\* Members and globals start zeroed; the first sample may be anywhere.
Init ==
  /\ prevAngle \in Angles
  /\ angleDeg = prevAngle
  /\ strays = 0
  /\ absInt \in AbsBuilds
  /\ angleLeftFront = 0 /\ distantLeftFront = 0 /\ pointFrontFind = FALSE
  /\ angleRightFront = 0 /\ distantRightFront = 0
  /\ LLeftFront = 0 /\ LRightFront = 0
  /\ distanceObjectFront = 0 /\ avoidDistanceFront = 0 /\ avoidDirectionFront = 0
  /\ angleLeftBack = 0 /\ distantLeftBack = 0 /\ pointBackFind = FALSE
  /\ angleRightBack = 0 /\ distantRightBack = 0
  /\ LLeftBack = 0 /\ LRightBack = 0
  /\ distanceObjectBack = 0 /\ avoidDistanceBack = 0 /\ avoidDirectionBack = 0
  /\ avoidRaysFront = NoRays /\ avoidRaysBack = NoRays

Next ==
  \/ \E a \in Angles, d \in Dists : Sample(a, d)
  \/ \E a \in StrayAngles, d \in Dists : Stray(a, d)

Spec == Init /\ [][Next]_estVars

-----------------------------------------------------------------------------
MaxDist == CHOOSE m \in Dists : \A d \in Dists : d <= m

TypeOK ==
  /\ prevAngle \in Angles /\ angleDeg \in Angles \cup StrayAngles
  /\ strays \in 0 .. MAX_STRAYS /\ absInt \in BOOLEAN
  /\ pointFrontFind \in BOOLEAN /\ pointBackFind \in BOOLEAN
  /\ avoidDirectionFront \in {-1, 0, 1} /\ avoidDirectionBack \in {-1, 0, 1}
  /\ distanceObjectFront = FAR \/ distanceObjectFront \in 0 .. MaxDist * 1000
  /\ distanceObjectBack = FAR \/ distanceObjectBack \in 0 .. MaxDist * 1000

\* The rays held now, in the order the avoid history records them.
FrontRays == <<angleLeftFront, distantLeftFront, angleRightFront, distantRightFront>>
BackRays == <<angleLeftBack, distantLeftBack, angleRightBack, distantRightBack>>

\* This step evaluates the front (back) rays and finds the offsets unequal.
FrontEvaluates == angleDeg' < 60 /\ pointFrontFind /\ LLeftFront' # LRightFront'
BackEvaluates == angleDeg' > 180 /\ pointBackFind /\ LLeftBack' # LRightBack'

\* Whenever the sweep leaves a window with two rays whose lateral offsets
\* differ, the avoid distance and direction are recomputed from those two
\* rays (spec 4.6: only equal offsets give no usable result).  A sign
\* combination none of the if-blocks of lines 563-590 / 671-697 covers
\* leaves the avoid values of an older sweep in place.
AvoidFollowsRays ==
  [][ /\ FrontEvaluates => avoidRaysFront' = FrontRays
      /\ BackEvaluates => avoidRaysBack' = BackRays ]_estVars

=============================================================================
