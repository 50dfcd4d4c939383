--------------------------- MODULE CommandMailbox ---------------------------
(***************************************************************************)
(* What the command table promises a single client that respects "busy"    *)
(* (core/command_handle.h, docs/modbus_collector_guide.md section 4.2):    *)
(* each slot is a mailbox for one command.  A command is posted only into  *)
(* a mailbox that has none in progress, its value does not change until it *)
(* ends, it is taken once, and it ends as Success or as Failed.  Taking    *)
(* and ending a command are single steps here; in CommandSlots they are    *)
(* several stores in shared memory.                                        *)
(***************************************************************************)
CONSTANTS
  Slots,   (* the mailboxes                                                 *)
  Values,  (* the values a command can carry                                *)
  Zero     (* the value of an empty mailbox                                 *)

VARIABLE box  (* the phase of each mailbox and the value in progress        *)

Empty(phase) == [phase |-> phase, value |-> Zero]

Init == box = [s \in Slots |-> Empty("Idle")]

Post(s, v) ==
  /\ box[s].phase \notin {"Pending", "Executing"}
  /\ box' = [box EXCEPT ![s] = [phase |-> "Pending", value |-> v]]

Take(s) ==
  /\ box[s].phase = "Pending"
  /\ box' = [box EXCEPT ![s].phase = "Executing"]

End(s, outcome) ==
  /\ box[s].phase = "Executing"
  /\ box' = [box EXCEPT ![s] = Empty(outcome)]

Next ==
  \E s \in Slots :
    \/ \E v \in Values : Post(s, v)
    \/ Take(s)
    \/ \E outcome \in {"Success", "Failed"} : End(s, outcome)

Spec == Init /\ [][Next]_box

=============================================================================
