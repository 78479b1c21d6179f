----------------------------- MODULE MCTeamRun -----------------------------
(* Instances of TeamRun: a lead and a helper that call each other, and a    *)
(* third node the helper may call, on executors of each kind.               *)
EXTENDS TeamRun

CONSTANTS a, b, c

PairEdge == {<<a, b>>, <<b, a>>}
PairAndHelper == PairEdge \cup {<<b, c>>}
Mixed == [n \in Node |-> IF n = a THEN "local" ELSE IF n = b THEN "shared" ELSE "cloud"]
OnlyShared == [n \in Node |-> "shared"]
=============================================================================
