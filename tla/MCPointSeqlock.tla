--------------------------- MODULE MCPointSeqlock ---------------------------
(***************************************************************************)
(* Instances of PointSeqlock for TLC.                                      *)
(***************************************************************************)
EXTENDS PointSeqlock, TLC

CONSTANTS modbus, iec104, engine, alarm

=============================================================================
