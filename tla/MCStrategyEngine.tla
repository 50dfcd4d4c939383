-------------------------- MODULE MCStrategyEngine --------------------------
(* Instances of StrategyEngine: one battery or two; powers in kW.           *)
EXTENDS StrategyEngine

CONSTANTS b1, b2

One == {b1}
Two == {b1, b2}

SameLimits == [g \in Groups |-> 6]
AtRest == {0}

(* A meter, and batteries whose registers are close together.               *)
BatteryBlocks ==
  {{<<"power", "grid">>}} \cup {{"power", "soc", "run"} \X {g} : g \in Groups}

(* And a PV plant whose power and limit are read one after the other.       *)
SplitBlocks == BatteryBlocks \cup {{<<"power", Pv>>}, {<<"limit", Pv>>}}
=============================================================================
