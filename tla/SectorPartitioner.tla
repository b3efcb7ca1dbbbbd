-------------------------- MODULE SectorPartitioner --------------------------
(***************************************************************************)
(* init_sectors(): the free arc after each ignore area (from its end to    *)
(* the next ignore area's start) is cut into sectors of at most 45         *)
(* degrees, the last two of an arc balanced, until PROXIMITY_SECTORS_MAX   *)
(* sectors exist.  Each loop iteration of the code is one action, so the   *)
(* loop's control is kept; the result is compared with a reference built   *)
(* from the ignore areas alone: the whole degrees no ignore area covers.   *)
(*                                                                         *)
(* The ignore-area accessors and get_next_ignore_start_or_end() belong to  *)
(* AP_Proximity_Backend, outside this repository, and are modelled from    *)
(* the spec.  An ignore area is [angle, width]; its boundaries are         *)
(* computed in half degrees and truncated, as the float-to-int16           *)
(* assignments of the backend do.  A history variable span records the    *)
(* [start, size] of every sector the loop writes.                          *)
(***************************************************************************)
EXTENDS Integers, Sequences, FiniteSets

CONSTANTS
  SECTORS_MAX,     \* PROXIMITY_SECTORS_MAX
  IgnoreConfigs    \* the ignore-area lists the parameters may hold

VARIABLES
  areas,              \* the configured ignore areas (a sequence)
  pc,                 \* where init_sectors() is: "count", "area", "fill", "done"
  i,                  \* loop index over the ignore areas
  sector,             \* next sector to write
  startAngle,         \* start_angle
  degreesToFill,      \* degrees_to_fill
  sectorMiddle,       \* _sector_middle_deg[]
  sectorWidth,        \* _sector_width_deg[]
  numSectors,         \* _num_sectors
  sectorInitialised,  \* _sector_initialised
  span                \* history: [start, size] of each sector written

partVars == <<areas, pc, i, sector, startAngle, degreesToFill, sectorMiddle,
              sectorWidth, numSectors, sectorInitialised, span>>

SectorIdx == 0 .. SECTORS_MAX - 1
NoSpan == [start |-> 0, size |-> 0]

-----------------------------------------------------------------------------
(* AP_Proximity_Backend, from the spec.                                    *)

\* wrap_360() of a whole number of degrees
Wrap360(x) == x % 360

\* An ignore boundary, wrap_360(angle -/+ width / 2.0f) truncated to int16;
\* startOrEnd = 0 gives the start, 1 the end.
IgnoreBoundary(a, startOrEnd) ==
  LET off == IF startOrEnd = 0 THEN -a.width ELSE a.width
  IN ((2 * a.angle + off) % 720) \div 2

\* get_next_ignore_start_or_end(): the start (or end) of the ignore area
\* met first turning clockwise from `from`, the one with the smallest
\* wrap_360(boundary - from); the first area wins a tie.
NextIgnoreStartOrEnd(startOrEnd, from) ==
  LET idx == 1 .. Len(areas)
      diff(k) == Wrap360(IgnoreBoundary(areas[k], startOrEnd) - from)
      best == CHOOSE k \in idx :
                \A j \in idx : diff(k) < diff(j) \/ (diff(k) = diff(j) /\ k <= j)
  IN IgnoreBoundary(areas[best], startOrEnd)

-----------------------------------------------------------------------------
(* init_sectors(), lines 214-278.                                          *)

\* Mutant: the 45-degree branch taken for every arc outside 46..89.
SectorSize_full(d) == IF d > 45 /\ d < 90 THEN d \div 2 ELSE 45

\* The size of the next sector of an arc with d degrees left.
SectorSize(d) ==
  CASE d >= 90 -> 45
    [] d > 45  -> d \div 2
    [] OTHER   -> d

\* Mutant: the middle not wrapped into 0..359.
SectorMid_nowrap(start, size) == (2 * start + size) \div 2

\* wrap_360(start_angle + sector_size / 2.0f) stored as a whole degree
SectorMid(start, size) == ((2 * start + size) % 720) \div 2

\* ignore_area_count == 0: the default layout stays, nothing is computed.
NoIgnoreAreas ==
  /\ pc = "count"
  /\ Len(areas) = 0
  /\ sectorInitialised' = TRUE
  /\ pc' = "done"
  /\ UNCHANGED <<areas, i, sector, startAngle, degreesToFill, sectorMiddle,
                 sectorWidth, numSectors, span>>

StartAreas ==
  /\ pc = "count"
  /\ Len(areas) > 0
  /\ pc' = "area"
  /\ UNCHANGED <<areas, i, sector, startAngle, degreesToFill, sectorMiddle,
                 sectorWidth, numSectors, sectorInitialised, span>>

\* One ignore area: its end, the next ignore start after it, and the free
\* degrees between them.
BeginArea ==
  /\ pc = "area"
  /\ i < Len(areas)
  /\ LET s == NextIgnoreStartOrEnd(1, areas[i + 1].angle)
         e == NextIgnoreStartOrEnd(0, s)
     IN /\ startAngle' = s
        /\ degreesToFill' = Wrap360(e - s)
  /\ pc' = "fill"
  /\ UNCHANGED <<areas, i, sector, sectorMiddle, sectorWidth, numSectors,
                 sectorInitialised, span>>

\* One iteration of the while loop: write a sector and move on.
FillSector ==
  /\ pc = "fill"
  /\ degreesToFill > 0 /\ sector < SECTORS_MAX
  /\ LET size == SectorSize(degreesToFill) IN
     /\ sectorMiddle' = [sectorMiddle EXCEPT ![sector] = SectorMid(startAngle, size)]
     /\ sectorWidth' = [sectorWidth EXCEPT ![sector] = size]
     /\ span' = [span EXCEPT ![sector] = [start |-> startAngle, size |-> size]]
     /\ startAngle' = startAngle + size
     /\ degreesToFill' = degreesToFill - size
  /\ sector' = sector + 1
  /\ UNCHANGED <<areas, pc, i, numSectors, sectorInitialised>>

\* The while condition fails: on to the next ignore area.
EndArea ==
  /\ pc = "fill"
  /\ ~(degreesToFill > 0 /\ sector < SECTORS_MAX)
  /\ i' = i + 1
  /\ pc' = "area"
  /\ UNCHANGED <<areas, sector, startAngle, degreesToFill, sectorMiddle,
                 sectorWidth, numSectors, sectorInitialised, span>>

\* Mutant: _num_sectors left at its default, the count never stored.
Finish_keepcount ==
  /\ pc = "area"
  /\ i >= Len(areas)
  /\ sectorInitialised' = TRUE
  /\ pc' = "done"
  /\ UNCHANGED <<areas, i, sector, startAngle, degreesToFill, sectorMiddle,
                 sectorWidth, numSectors, span>>

\* After the last area: _num_sectors, init_boundary(), _sector_initialised.
Finish ==
  /\ pc = "area"
  /\ i >= Len(areas)
  /\ numSectors' = sector
  /\ sectorInitialised' = TRUE
  /\ pc' = "done"
  /\ UNCHANGED <<areas, i, sector, startAngle, degreesToFill, sectorMiddle,
                 sectorWidth, span>>

\* The backend's default layout: eight 45-degree sectors from 0 degrees.
Init ==
  /\ areas \in IgnoreConfigs
  /\ pc = "count"
  /\ i = 0
  /\ sector = 0
  /\ startAngle = 0
  /\ degreesToFill = 0
  /\ sectorMiddle = [k \in SectorIdx |-> 45 * k]
  /\ sectorWidth = [k \in SectorIdx |-> 45]
  /\ numSectors = SECTORS_MAX
  /\ sectorInitialised = FALSE
  /\ span = [k \in SectorIdx |-> NoSpan]

Next == NoIgnoreAreas \/ StartAreas \/ BeginArea \/ FillSector \/ EndArea \/ Finish

Spec == Init /\ [][Next]_partVars /\ WF_partVars(Next)

-----------------------------------------------------------------------------
(* The reference: whole degrees d (the arc [d, d+1)) of the circle.        *)
Degrees == 0 .. 359

\* d lies in ignore area a: from its start up to, not including, its end.
InArea(d, a) ==
  Wrap360(d - IgnoreBoundary(a, 0)) <
    Wrap360(IgnoreBoundary(a, 1) - IgnoreBoundary(a, 0))

Blind(d) == \E k \in 1 .. Len(areas) : InArea(d, areas[k])

InSpan(d, sp) == Wrap360(d - sp.start) < sp.size

Written == 0 .. sector - 1

TypeOK ==
  /\ pc \in {"count", "area", "fill", "done"}
  /\ sector \in 0 .. SECTORS_MAX
  /\ numSectors \in 0 .. SECTORS_MAX
  /\ sectorMiddle \in [SectorIdx -> 0 .. 359]
  /\ sectorWidth \in [SectorIdx -> 0 .. 45]

\* Once init_sectors() has run with ignore areas configured, the sectors it
\* wrote partition the free part of the circle (spec 3 and 4.4): no two
\* sectors share a degree, no sector covers an ignored degree, and unless
\* PROXIMITY_SECTORS_MAX cut the loop short, every free degree is in a
\* sector.  Each sector is at most 45 degrees wide and its stored middle
\* lies inside it; _num_sectors counts exactly the sectors written.
LayoutMatchesFreeArcs ==
  pc = "done" /\ Len(areas) > 0 =>
    /\ numSectors = sector
    /\ \A k \in Written :
         /\ sectorWidth[k] = span[k].size /\ sectorWidth[k] \in 1 .. 45
         /\ InSpan(sectorMiddle[k], span[k])
    /\ \A d \in Degrees :
         /\ \A k, j \in Written : k # j => ~(InSpan(d, span[k]) /\ InSpan(d, span[j]))
         /\ \A k \in Written : InSpan(d, span[k]) => ~Blind(d)
         /\ sector < SECTORS_MAX /\ ~Blind(d) => \E k \in Written : InSpan(d, span[k])


\* The refinement mapping: until init_sectors() returns, the abstract layout
\* is the backend's default; afterwards it is the first _num_sectors
\* entries of _sector_middle_deg[] / _sector_width_deg[].
TablesLayout ==
  [k \in 1 .. numSectors |-> [mid |-> sectorMiddle[k - 1], width |-> sectorWidth[k - 1]]]

Abs == INSTANCE SectorLayout
         WITH cfg <- areas,
              layout <- IF pc = "done" THEN TablesLayout
                        ELSE [k \in 1 .. SECTORS_MAX |-> [mid |-> 45 * (k - 1), width |-> 45]],
              ready <- pc = "done"

\* The loop of init_sectors() (one sector per iteration, the area loop, the
\* PROXIMITY_SECTORS_MAX cut, the count stored at the end) implements the
\* one-step greedy partition of spec 4.4: the tables it leaves are exactly
\* the cut of the open arcs in configuration order, and it finishes.
PartitionRefinesLayout == Abs!Spec

=============================================================================
