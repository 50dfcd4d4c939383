------------------------------- MODULE AlarmBoard -------------------------------
(***************************************************************************)
(* What the alarm list promises its readers: the open alarms are those of  *)
(* one evaluation of the rules, never a mixture of two, and an operator's  *)
(* decision about an open alarm is never undone.                           *)
(***************************************************************************)
CONSTANT Alarms

VARIABLES
    verdict,  \* the alarms found by the last evaluation
    open,     \* the alarms listed as active
    mark      \* alarm -> what an operator has decided about it

vars == <<verdict, open, mark>>

Marks == {"none", "acked", "silenced"}

Init ==
    /\ verdict = {}
    /\ open = {}
    /\ mark = [a \in Alarms |-> "none"]

Judge ==
    /\ verdict' \in SUBSET Alarms
    /\ UNCHANGED <<open, mark>>

Evaluate ==
    /\ open' = verdict
    /\ UNCHANGED <<verdict, mark>>

Decide(a, decision) ==
    /\ a \in open
    /\ mark[a] = "none"
    /\ mark' = [mark EXCEPT ![a] = decision]
    /\ UNCHANGED <<verdict, open>>

Next ==
    \/ Judge
    \/ Evaluate
    \/ \E a \in Alarms, decision \in Marks \ {"none"} : Decide(a, decision)

Spec == Init /\ [][Next]_vars
=============================================================================
