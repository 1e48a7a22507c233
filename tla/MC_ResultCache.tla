--------------------------- MODULE MC_ResultCache ---------------------------
(***************************************************************************)
(* Instances of ResultCache: a table of two rows read by a scoped Find of *)
(* all rows, an Unscoped Find of all rows and a Get of row 1.             *)
(***************************************************************************)
EXTENDS ResultCache

CONSTANTS s1, s2, k1, k2, v1, v2

MCOneSession  == {s1}
MCTwoSessions == {s1, s2}
MCOneCopy     == {k1}
MCTwoCopies   == {k1, k2}
MCVals        == {v1}

MCQueries ==
    { [get |-> FALSE, keys |-> 1..2, scoped |-> TRUE],
      [get |-> FALSE, keys |-> 1..2, scoped |-> FALSE],
      [get |-> TRUE,  keys |-> {1},  scoped |-> TRUE] }
=============================================================================
