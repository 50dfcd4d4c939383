-------------------------- MODULE MCManualOverride --------------------------
(* Instances of ManualOverride: the two strategies the engine knows.        *)
EXTENDS ManualOverride

CONSTANTS arf, soc
=============================================================================
