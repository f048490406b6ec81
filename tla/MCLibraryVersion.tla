--------------------------- MODULE MCLibraryVersion ---------------------------
(* LibraryVersion for TLC: one item, so that every version competes for its
   original and its source record. *)
EXTENDS LibraryVersion, TLC

CONSTANTS w1, w2, s1, s2, i1, v1, v2, v3

OneItem == [v \in Versions |-> i1]
\* Two versions that take the original (the catalog asked for another while
\* the first run's original is still in its staging folder) and one packaged
\* from it where it is.
ModeOf == [v \in Versions |-> CASE v = v1 -> "establish"
                               [] v = v2 -> "takein"
                               [] v = v3 -> "repackage"]
=============================================================================
