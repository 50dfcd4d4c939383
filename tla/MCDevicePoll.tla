------------------------------ MODULE MCDevicePoll ------------------------------
(***************************************************************************)
(* Values for the model checking of DevicePoll.                            *)
(***************************************************************************)
EXTENDS DevicePoll

CONSTANTS p1, p2, p3

Mapping(fc, addr, type, swap, scale, offset, category) ==
    [fc |-> fc, addr |-> addr, cnt |-> Width(type), type |-> type, swap |-> swap,
     scale |-> scale, offset |-> offset, category |-> category]

\* Registers next to each other, overlapping, five and six apart, in three address
\* spaces, of every width, sign and word order, up to the last address.
ReadMappings == {
    Mapping(3, 0, "Uint16", FALSE, 1, 0, "Telemetry"),
    Mapping(3, 2, "Int32", TRUE, 1, 0, "Telemetry"),
    Mapping(3, 7, "Int16", FALSE, 2, -1, "Telemetry"),
    Mapping(3, 10, "Uint64", FALSE, 1, 0, "Telemetry"),
    Mapping(3, 11, "Uint16", FALSE, 1, 0, "Teleindication"),
    Mapping(3, 14, "Int32", FALSE, 1, 0, "Telemetry"),
    Mapping(4, 3, "Bool", FALSE, 1, 0, "Teleindication"),
    Mapping(4, 6, "Float32", FALSE, 1, 0, "Telemetry"),
    Mapping(1, 7, "Uint16", FALSE, 1, 0, "Telemetry"),
    Mapping(1, 11, "Bool", FALSE, 1, 0, "Telemetry"),
    Mapping(15, 0, "Uint16", FALSE, 1, 0, "Telemetry") }

WriteMappings == {
    Mapping(6, 1, "Int16", FALSE, -2, 1, "Setting"),
    Mapping(16, 2, "Uint32", TRUE, 1, 0, "Setting"),
    Mapping(16, 9, "Int64", TRUE, 1, 0, "Setting"),
    Mapping(6, 4, "Bool", FALSE, 1, 0, "Telecontrol"),
    Mapping(16, 13, "Uint64", FALSE, 1, 0, "Setting"),
    Mapping(5, 1, "Bool", FALSE, 1, 0, "Telecontrol"),
    Mapping(5, 15, "Bool", FALSE, 1, 0, "Telecontrol") }

\* Three points that are read, or one that is read beside one that is commanded.
MCLayouts ==
    [{p1, p2, p3} -> ReadMappings] \cup
    {[p \in {p1, p2} |-> IF p = p1 THEN r ELSE w] : r \in ReadMappings, w \in WriteMappings}
MCTargets == {-3, 1, 300}
=============================================================================
