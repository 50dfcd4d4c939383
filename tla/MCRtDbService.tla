--------------------------- MODULE MCRtDbService ---------------------------
(* Instances of RtDbService: one point of each category.                  *)
EXTENDS RtDbService

CONSTANTS p1, p2

FourTables == <<"catalog", "point_index", "telemetry", "teleindication">>
OneOfEach == <<p1, p2>>
Mixed == [p \in {p1, p2} |-> IF p = p1 THEN "teleindication" ELSE "telemetry"]
=============================================================================
