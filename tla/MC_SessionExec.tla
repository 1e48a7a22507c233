--------------------------- MODULE MC_SessionExec ---------------------------
(* Instance of SessionExec for TLC: two sessions, one or two replicas, one  *)
(* builder condition.                                                       *)
EXTENDS SessionExec

MCSessions == {"s1", "s2"}
MCOneSlave == {"r1"}
MCConds == {"c1"}
=============================================================================
