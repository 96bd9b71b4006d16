---------------------------- MODULE MCProtocolV1 ----------------------------
(* A small instance of the snapshot pipeline.                             *)
EXTENDS ProtocolV1

CONSTANTS p1, p2, c1, c2
==============================================================================
