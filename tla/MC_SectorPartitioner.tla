------------------------- MODULE MC_SectorPartitioner -------------------------
(***************************************************************************)
(* Ignore areas centred on 0, 100, 130 and 250 degrees, 20, 40 or 90       *)
(* degrees wide (even widths, so every boundary is a whole degree).  Up to *)
(* two areas are configured.  Disjoint areas are the documented use; the   *)
(* overlapping ones (100 and 130 at 40 or 90 degrees) are what a user can  *)
(* also enter, since nothing checks the parameters against each other.    *)
(***************************************************************************)
EXTENDS SectorPartitioner

MC_SECTORS_MAX == 8
MC_Areas == [angle : {0, 100, 130, 250}, width : {20, 40, 90}]

\* Two ignore areas share a degree: one starts inside the other.
AreaLen(a) == Wrap360(IgnoreBoundary(a, 1) - IgnoreBoundary(a, 0))
Overlap(a, b) ==
  \/ Wrap360(IgnoreBoundary(b, 0) - IgnoreBoundary(a, 0)) < AreaLen(a)
  \/ Wrap360(IgnoreBoundary(a, 0) - IgnoreBoundary(b, 0)) < AreaLen(b)

MC_AllConfigs ==
  {<<>>} \cup {<<a>> : a \in MC_Areas}
         \cup {<<a, b>> : a, b \in MC_Areas}

MC_DisjointConfigs ==
  {c \in MC_AllConfigs :
     \A x, y \in 1 .. Len(c) : x # y => ~Overlap(c[x], c[y])}

=============================================================================
