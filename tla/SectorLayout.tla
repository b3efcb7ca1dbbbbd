---------------------------- MODULE SectorLayout ----------------------------
(***************************************************************************)
(* What the sector partitioner promises (spec 4.4), as one atomic step:    *)
(* with no blind spot the default layout stays; otherwise the open arc     *)
(* from the end of each blind spot to the start of the next one clockwise  *)
(* is cut greedily into sectors (45 degrees while 90 or more remain, half  *)
(* of what remains between 46 and 89, the rest at 45 or less), arc after   *)
(* arc in the order the blind spots are configured, and no more than       *)
(* SECTORS_MAX sectors are kept.  A sector is its middle and its width.    *)
(* Blind-spot boundaries are angle -/+ width / 2 (whole degrees for the    *)
(* even widths the models configure).                                      *)
(***************************************************************************)
EXTENDS Integers, Sequences

CONSTANTS SECTORS_MAX, IgnoreConfigs

VARIABLES cfg, layout, ready

absVars == <<cfg, layout, ready>>

Mod360(x) == x % 360
SpotStart(a) == Mod360(a.angle - a.width \div 2)
SpotEnd(a) == Mod360(a.angle + a.width \div 2)

\* The open arc after blind spot k of configuration c: [start, length].
OpenArc(c, k) ==
  LET e == SpotEnd(c[k])
      gaps == {Mod360(SpotStart(c[j]) - e) : j \in 1 .. Len(c)}
  IN [start |-> e, len |-> CHOOSE g \in gaps : \A h \in gaps : g <= h]

\* The greedy cut of an arc with rem degrees left from start.
RECURSIVE Cut(_, _)
Cut(start, rem) ==
  IF rem = 0 THEN <<>>
  ELSE LET size == IF rem >= 90 THEN 45 ELSE IF rem > 45 THEN rem \div 2 ELSE rem
       IN << [mid |-> Mod360(start + size \div 2), width |-> size] >>
            \o Cut(start + size, rem - size)

\* The cuts of the arcs after blind spots k, k+1, ... of c, in order.
RECURSIVE CutArcs(_, _)
CutArcs(c, k) ==
  IF k > Len(c) THEN <<>>
  ELSE Cut(OpenArc(c, k).start, OpenArc(c, k).len) \o CutArcs(c, k + 1)

Prefix(s, n) == IF Len(s) <= n THEN s ELSE SubSeq(s, 1, n)

DefaultLayout == [k \in 1 .. SECTORS_MAX |-> [mid |-> 45 * (k - 1), width |-> 45]]

Partition(c) == IF c = <<>> THEN DefaultLayout ELSE Prefix(CutArcs(c, 1), SECTORS_MAX)

Init ==
  /\ cfg \in IgnoreConfigs
  /\ layout = DefaultLayout
  /\ ready = FALSE

Compute ==
  /\ ~ready
  /\ layout' = Partition(cfg)
  /\ ready' = TRUE
  /\ UNCHANGED cfg

Spec == Init /\ [][Compute]_absVars /\ WF_absVars(Compute)

=============================================================================
