---------------------------- MODULE MCConnector ----------------------------
(* Instances of Connector for TLC: no Team run, every runtime on one device. *)
EXTENDS Connector

CONSTANTS r1, r2, laptop, rtA, rtB

MCDeviceOf == [rt \in Runtime |-> laptop]
MCMatches == [r \in Request |-> Runtime]
MCNone == <<>>
=============================================================================
