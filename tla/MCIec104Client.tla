---------------------------- MODULE MCIec104Client ----------------------------
(***************************************************************************)
(* Values for the model checking of Iec104Client: a point of type 1 and a  *)
(* misread one with the same information object address.  The rows are     *)
(* right to begin with.                                                    *)
(***************************************************************************)
EXTENDS Iec104Client

MCPoints == {1, 2}
MCTypeOf == <<1, 34>>
MCCaOf == <<1, 1>>
MCIoaOf == <<16, 16>>
MCInitial == {[p \in MCPoints |-> 0]}
=============================================================================
