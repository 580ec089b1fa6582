---------------------------- MODULE MCMemoryQueue ----------------------------
(* MemoryQueue on two conversations: c1 has the jobs j1 and j2, c2 the      *)
(* others.                                                                  *)
EXTENDS MemoryQueue

CONSTANTS j1, j2, c1, c2

MCConvOf == [j \in Jobs |-> IF j \in {j1, j2} THEN c1 ELSE c2]
=============================================================================
