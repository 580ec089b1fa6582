---------------------------- MODULE MCEventEngine ----------------------------
(* EventEngine on one conversation, with m1 before m2 in the chain: one      *)
(* incoming event while the list of middleware changes, or two outgoing      *)
(* events with a list that does not.                                         *)
EXTENDS EventEngine

CONSTANTS m1, m2, c1

MCConvOf == [e \in Events |-> c1]
MCOrder == [m \in Middlewares |-> IF m = m1 THEN 1 ELSE 2]
MCLoaded == <<m1, m2>>
MCMaxSent == [d \in Directions |-> IF d = "incoming" THEN 1 ELSE 2]
MCMaxChanges == [d \in Directions |-> IF d = "incoming" THEN 3 ELSE 0]
=============================================================================
