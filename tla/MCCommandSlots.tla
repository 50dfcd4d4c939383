--------------------------- MODULE MCCommandSlots ---------------------------
(***************************************************************************)
(* Instances of CommandSlots for TLC: the slots of one device, or of two.  *)
(***************************************************************************)
EXTENDS CommandSlots, TLC

CONSTANTS w1, w2, dev1, dev2

OneDevice == [s \in 1..NumSlots |-> dev1]
TwoDevices == [s \in 1..NumSlots |-> IF 2 * s <= NumSlots THEN dev1 ELSE dev2]

WebSymmetry == Permutations(WebThreads)

=============================================================================
