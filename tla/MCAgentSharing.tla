--------------------------- MODULE MCAgentSharing ---------------------------
(* Instances of AgentSharing: one native slot for every share and turn.     *)
EXTENDS AgentSharing, TLC

OneSlot == [x \in Share \cup Turn |-> CHOOSE slot \in Slot : TRUE]
TwoCalls == [p \in Payer |-> 2]
TimeForOne == [p \in Payer |-> 1]
Jobs == Permutations(Job)
=============================================================================
