--------------------------- MODULE MCAgentClaims ---------------------------
(* Instances of AgentClaims for TLC. *)
EXTENDS AgentClaimsContract

CONSTANTS r1, r2, laptop, desk, rtA, rtB, g1

\* Two runtimes on one computer, and a browser device without a runtime.
MCDeviceOf == [rt \in Runtime |-> laptop]
\* Every request may reach every runtime; a Team step names rtA exactly.
MCMatches == [r \in Request |-> IF r \in Team THEN {rtA} ELSE Runtime]
MCRunOf == [r \in Team |-> g1]
\* Runs are started from the browser where the instance has one.
MCRunDevice == [g \in Run |-> IF desk \in Device THEN desk ELSE laptop]

\* A session that has entries already, more than MaxHead, so that there are
\* neither chats nor outputs before the answers; or an empty one whose author has
\* lost the browser, and cannot run the Team.
MCSpec == /\ InitWith(MaxHead, Device) \/ InitWith(0, Device \ {desk})
          /\ [][Next]_vars
=============================================================================
