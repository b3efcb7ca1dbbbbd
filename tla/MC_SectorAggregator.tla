------------------------- MODULE MC_SectorAggregator -------------------------
(***************************************************************************)
(* The backend's default sector layout (no ignore areas): eight 45-degree  *)
(* sectors centred on 0, 45, ..., 315 degrees.  Samples at 10 and 30       *)
(* degrees (sectors 0 and 1, both ends of the front arc), 100 degrees      *)
(* (sector 2) and 400 degrees (an angle_q6 above 360 that the backend      *)
(* refuses), each at 0.128 m (dead zone), 1 m and 2 m.                     *)
(***************************************************************************)
EXTENDS SectorAggregator

MC_NUM_SECTORS == 8
MC_SectorMiddle == [i \in 0..7 |-> 45 * i]
MC_SectorWidth == [i \in 0..7 |-> 45]
MC_Samples == [angle : {10, 30, 100, 400}, dist : {512, 4000, 8000}]

=============================================================================
