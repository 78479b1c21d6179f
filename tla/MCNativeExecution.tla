------------------------- MODULE MCNativeExecution -------------------------
(* Two sessions of one project; the first has two requests. *)
EXTENDS NativeExecution
CONSTANTS s1, s2
Home == [r \in Request |-> IF r = 3 THEN s2 ELSE s1]
=============================================================================
