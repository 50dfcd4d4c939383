---------------------------- MODULE MCAlarmService ----------------------------
(***************************************************************************)
(* Values for the model checking of AlarmService: two rules that look at   *)
(* one point with different operators and can hold together.               *)
(***************************************************************************)
EXTENDS AlarmService

CONSTANTS low, high

MCRuleIds == {low, high}
MCPointOf == [r \in MCRuleIds |-> "p"]
MCOpOf == [r \in MCRuleIds |-> IF r = low THEN ">=" ELSE ">"]
MCThresholdOf == [r \in MCRuleIds |-> 1]
=============================================================================
