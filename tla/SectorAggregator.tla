--------------------------- MODULE SectorAggregator ---------------------------
(***************************************************************************)
(* The sector commit of parse_response_data(): every accepted scan sample  *)
(* is binned by convert_angle_to_sector() (AP_Proximity_Backend, outside   *)
(* this repository, modelled from the spec: nearest sector middle).  The   *)
(* open sector keeps its nearest sample as a candidate; when a sample      *)
(* falls in another sector the candidate is committed to the backend's     *)
(* _angle / _distance / _distance_valid tables.  A sample inside the dead  *)
(* zone invalidates its sector instead.                                    *)
(*                                                                         *)
(* Angles are whole degrees (angle_q6 / 64), distances are distance_q2     *)
(* (distance_m = distance_q2 / 4000), so distance_m > distance_min() is    *)
(* distance_q2 > DIST_MIN_Q2.  A sample is any (angle, distance) the       *)
(* decoder can accept; a misframed window makes any value possible, so     *)
(* samples arrive in any order.                                            *)
(*                                                                         *)
(* Two history variables serve the properties only: dwell, the in-range    *)
(* samples of the open sector since it was opened, and last, the last      *)
(* sample each sector received.                                            *)
(***************************************************************************)
EXTENDS Integers, FiniteSets, RPLidarProtocol

CONSTANTS
  NUM_SECTORS,   \* _num_sectors
  SectorMiddle,  \* _sector_middle_deg[], a function on 0..NUM_SECTORS-1
  SectorWidth,   \* _sector_width_deg[]
  Samples        \* the [angle, dist] samples the decoder may hand over

VARIABLES
  lastSector,      \* _last_sector
  distanceMLast,   \* _distance_m_last (as distance_q2)
  angleDegLast,    \* _angle_deg_last
  angle,           \* _angle[], the committed angle per sector
  distance,        \* _distance[], the committed distance per sector
  distanceValid,   \* _distance_valid[]
  dwell,           \* history: in-range samples of the open sector
  last             \* history: the last sample each sector received

aggVars == <<lastSector, distanceMLast, angleDegLast, angle, distance,
             distanceValid, dwell, last>>

Sectors == 0 .. NUM_SECTORS - 1
NoSector == -1
NoSample == [angle |-> 0, dist |-> -1]

-----------------------------------------------------------------------------
\* wrap_180(): an angle in degrees brought into (-180, 180]
Wrap180(a) == LET w == a % 360 IN IF w > 180 THEN w - 360 ELSE w

AbsDeg(a) == IF a < 0 THEN -a ELSE a

\* Mutant: the sector index computed as angle / 45 with no range check.
convert_angle_to_sector_div(a) == IF a < 0 THEN NoSector ELSE a \div 45

\* convert_angle_to_sector(): angles above 360 or below -180 are refused;
\* the first sector whose half width holds the angle wins, else the
\* sector with the nearest middle (the first of equals).
convert_angle_to_sector(a) ==
  LET diff(i) == AbsDeg(Wrap180(SectorMiddle[i] - a))
      inside  == {i \in Sectors : 2 * diff(i) <= SectorWidth[i]}
      nearest == {i \in Sectors : \A j \in Sectors : diff(i) <= diff(j)}
      first(S) == CHOOSE i \in S : \A j \in S : i <= j
  IN CASE a > 360 \/ a < -180 -> NoSector
       [] inside # {}         -> first(inside)
       [] OTHER               -> first(nearest)

-----------------------------------------------------------------------------
\* distance_m > distance_min()
InRange(smp) == smp.dist > DIST_MIN_Q2

\* Mutant: the candidate comparison inverted, keeping the farthest sample.
Nearer_flipped(smp) == distanceMLast < smp.dist

\* _distance_m_last > distance_m: the nearer sample replaces the candidate
Nearer(smp) == distanceMLast > smp.dist

\* The candidate of the open sector goes to the tables (then
\* update_boundary_for_sector(), which feeds the avoidance consumer only).
CommitLastSector ==
  /\ angle' = [angle EXCEPT ![lastSector] = angleDegLast]
  /\ distance' = [distance EXCEPT ![lastSector] = distanceMLast]
  /\ distanceValid' = [distanceValid EXCEPT ![lastSector] = TRUE]

\* The incoming sample becomes the first candidate of sector s.
OpenSector(s, smp) ==
  /\ lastSector' = s
  /\ distanceMLast' = smp.dist
  /\ angleDegLast' = smp.angle

\* One accepted sample, lines 745-769 of parse_response_data().
Ingest(smp) ==
  LET s == convert_angle_to_sector(smp.angle) IN
  /\ s # NoSector
  /\ last' = [last EXCEPT ![s] = smp]
  /\ IF ~InRange(smp)
       THEN /\ distanceValid' = [distanceValid EXCEPT ![s] = FALSE]
            /\ UNCHANGED <<lastSector, distanceMLast, angleDegLast, angle,
                           distance, dwell>>
     ELSE IF lastSector = s
       THEN /\ IF Nearer(smp)
                 THEN /\ distanceMLast' = smp.dist
                      /\ angleDegLast' = smp.angle
                 ELSE UNCHANGED <<distanceMLast, angleDegLast>>
            /\ dwell' = dwell \cup {smp}
            /\ UNCHANGED <<lastSector, angle, distance, distanceValid>>
       ELSE /\ CommitLastSector
            /\ OpenSector(s, smp)
            /\ dwell' = {smp}

\* A sample convert_angle_to_sector() refuses is dropped.
IngestRefused(smp) ==
  /\ convert_angle_to_sector(smp.angle) = NoSector
  /\ UNCHANGED aggVars

\* The object is zeroed at construction: sector 0 is open with a 0 m
\* candidate at 0 degrees, and nothing is valid.
Init ==
  /\ lastSector = 0
  /\ distanceMLast = 0
  /\ angleDegLast = 0
  /\ angle = [s \in Sectors |-> 0]
  /\ distance = [s \in Sectors |-> 0]
  /\ distanceValid = [s \in Sectors |-> FALSE]
  /\ dwell = {}
  /\ last = [s \in Sectors |-> NoSample]

Next == \E smp \in Samples : Ingest(smp) \/ IngestRefused(smp)

Spec == Init /\ [][Next]_aggVars

-----------------------------------------------------------------------------
TypeOK ==
  /\ lastSector \in Sectors
  /\ distanceValid \in [Sectors -> BOOLEAN]
  /\ dwell \subseteq Samples
  /\ \A s \in Sectors : last[s] \in Samples \cup {NoSample}

\* When the open sector is committed (a sample arrives in another sector),
\* the distance written is no farther than any in-range sample the sector
\* received while it was open: the nearest obstacle of the dwell is never
\* hidden behind a farther one by the candidate update of lines 749-753.
NearestObstacleWins ==
  [][ lastSector' # lastSector =>
        \A smp \in dwell : distance'[lastSector] <= smp.dist ]_aggVars

\* Every sector the tables show valid holds an in-range sample that sector
\* actually received (spec 4.5: a commit writes the retained reading of
\* the previous sector's dwell, and dead-zone readings are never committed).
CommittedIsReceived ==
  \A s \in Sectors :
    distanceValid[s] =>
      \E smp \in Samples :
        /\ InRange(smp)
        /\ convert_angle_to_sector(smp.angle) = s
        /\ [angle |-> angle[s], dist |-> distance[s]] = smp

=============================================================================
