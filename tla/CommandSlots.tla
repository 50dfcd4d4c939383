---------------------------- MODULE CommandSlots ----------------------------
(***************************************************************************)
(* The command table of the shared-memory database and the processes that  *)
(* use it:                                                                 *)
(*   - the strategy engine submits through core::CommandHandle, which      *)
(*     refuses a slot that is Pending or Executing (one process, Engine);  *)
(*   - the admin portal submits through ShmReader.submit_command, which    *)
(*     writes the slot without looking at it (WebThreads: the requests     *)
(*     asyncio.to_thread runs side by side);                               *)
(*   - the collector runs one control thread per device.  It claims a      *)
(*     Pending slot, writes the device, reads the value back and           *)
(*     completes the slot.                                                 *)
(*                                                                         *)
(* No lock is shared between the processes (RtDb::process_mutex_ is a      *)
(* member of each process's own RtDb object), so a step of this module is  *)
(* one store to, or one load from, a field of a slot.  The C++ stores of   *)
(* status and result_value have no order the compiler must keep; the       *)
(* stores of the Python reader happen in program order.                    *)
(*                                                                         *)
(* result stands for result_value, error_code and complete_time, which are *)
(* always stored together.  submit_time and the header's update_seq are    *)
(* left out: no step of this path reads them.                              *)
(***************************************************************************)
EXTENDS Naturals, FiniteSets

CONSTANTS
  NumSlots,            (* registered command slots, in table order          *)
  Devices,             (* devices with a control thread                     *)
  DeviceOf,            (* the device of a slot's point                      *)
  Unmapped,            (* slots whose point is not writable or has no       *)
                       (* Modbus mapping in the configuration the collector *)
                       (* has loaded (it may be an IEC 104 point)           *)
  NotWriteCode,        (* slots mapped to a function code other than 5, 6   *)
                       (* and 16                                            *)
  Values,              (* values a client submits                           *)
  Zero,                (* 0.0: what an empty slot holds                     *)
  Engine,              (* the strategy engine process                       *)
  WebThreads,          (* request threads of the admin portal               *)
  MaxSubmits,          (* bound: submissions                                *)
  MaxCollectorCrashes, (* bound: crashes of the collector                   *)
  MaxSubmitterCrashes  (* bound: crashes of the engine or of the portal     *)

Slots == 1..NumSlots
Submitters == WebThreads \cup {Engine}

ASSUME NumSlotsAssumption == NumSlots \in Nat \ {0}
ASSUME DevicesAssumption == DeviceOf \in [Slots -> Devices]
ASSUME UnmappedAssumption == Unmapped \subseteq Slots
ASSUME NotWriteCodeAssumption == NotWriteCode \subseteq Slots
ASSUME EngineAssumption == Engine \notin WebThreads
ASSUME BoundsAssumption ==
  /\ MaxSubmits \in Nat
  /\ MaxCollectorCrashes \in Nat
  /\ MaxSubmitterCrashes \in Nat

VARIABLES
  desired,   (* CommandSlot::desired_value                                  *)
  status,    (* CommandSlot::status                                         *)
  result,    (* CommandSlot::result_value                                   *)
  sub,       (* the submission each submitter is storing                    *)
  ctl,       (* the control thread of each device                           *)
  reg,       (* the value each device register holds                        *)
  submits, collectorCrashes, submitterCrashes, (* what the bounds count     *)
  asked,     (* history: the values submitted to each slot                  *)
  posted,    (* history: how often Pending was stored in each slot          *)
  taken,     (* history: how often each slot was claimed                    *)
  written    (* history: the last value a device acknowledged               *)

slotVars == <<desired, status, result>>
history == <<asked, posted, taken, written>>
counters == <<submits, collectorCrashes, submitterCrashes>>
vars == <<slotVars, sub, ctl, reg, counters, history>>

Busy == {"Pending", "Executing"}
Terminal == {"Success", "Failed"}
Status == Busy \cup Terminal \cup {"Idle"}
Payload == Values \cup {Zero}

SubmitFields == {"desired", "status", "result"}
CompleteFields == {"status", "result"}
ControlPc == {"scan", "found", "mark", "write", "readback", "complete"}

(* A submitter with nothing left to store is between two submissions.      *)
NoSubmission == [slot |-> 1, value |-> Zero, todo |-> {}]

(* The control thread's loop calls read_pending_command_for_points, whose  *)
(* scan starts at the first slot.                                          *)
ScanFromStart ==
  [pc |-> "scan", cursor |-> 1, value |-> Zero,
   outcome |-> "Failed", res |-> Zero, todo |-> {}]

Init ==
  /\ desired = [s \in Slots |-> Zero]
  /\ status = [s \in Slots |-> "Idle"]
  /\ result = [s \in Slots |-> Zero]
  /\ sub = [p \in Submitters |-> NoSubmission]
  /\ ctl = [d \in Devices |-> ScanFromStart]
  /\ reg = [s \in Slots |-> Zero]
  /\ submits = 0
  /\ collectorCrashes = 0
  /\ submitterCrashes = 0
  /\ asked = [s \in Slots |-> {}]
  /\ posted = [s \in Slots |-> 0]
  /\ taken = [s \in Slots |-> 0]
  /\ written = [s \in Slots |-> Zero]

-----------------------------------------------------------------------------
(* Submitting                                                              *)

BeginSubmit(p, s, v) ==
  /\ sub[p].todo = {}
  /\ submits < MaxSubmits
  /\ submits' = submits + 1
  /\ sub' = [sub EXCEPT ![p] = [slot |-> s, value |-> v, todo |-> SubmitFields]]
  /\ asked' = [asked EXCEPT ![s] = @ \cup {v}]
  /\ UNCHANGED <<slotVars, ctl, reg, collectorCrashes, submitterCrashes,
                 posted, taken, written>>

(* A slip of the busy test: a command in execution does not count.         *)
EngineSubmitIgnoresExecuting(s, v) ==
  /\ status[s] # "Pending"
  /\ BeginSubmit(Engine, s, v)

(* CommandHandle::submit reads the status and gives up when the slot is    *)
(* busy.  submit_target makes a new handle for every call, so ever_sent_   *)
(* is false and the deadband test never applies here.                      *)
EngineSubmit(s, v) ==
  /\ status[s] \notin Busy
  /\ BeginSubmit(Engine, s, v)

WebSubmit(w, s, v) == BeginSubmit(w, s, v)

(* A slip of the order: Pending may be visible before the desired value.   *)
MayStoreUnordered(p, f) == f \in sub[p].todo

(* The order in which a submission's stores may reach the slot: the        *)
(* desired value first; then status and result, in program order only in   *)
(* the Python writer.                                                      *)
MayStore(p, f) ==
  /\ f \in sub[p].todo
  /\ f # "desired" => "desired" \notin sub[p].todo
  /\ (p \in WebThreads /\ f = "result") => "status" \notin sub[p].todo

Stored(p, f) == sub' = [sub EXCEPT ![p].todo = @ \ {f}]

StoreDesired(p) ==
  /\ MayStore(p, "desired")
  /\ desired' = [desired EXCEPT ![sub[p].slot] = sub[p].value]
  /\ Stored(p, "desired")
  /\ UNCHANGED <<status, result, ctl, reg, counters, history>>

StorePending(p) ==
  /\ MayStore(p, "status")
  /\ status' = [status EXCEPT ![sub[p].slot] = "Pending"]
  /\ posted' = [posted EXCEPT ![sub[p].slot] = @ + 1]
  /\ Stored(p, "status")
  /\ UNCHANGED <<desired, result, ctl, reg, counters, asked, taken, written>>

StoreCleared(p) ==
  /\ MayStore(p, "result")
  /\ result' = [result EXCEPT ![sub[p].slot] = Zero]
  /\ Stored(p, "result")
  /\ UNCHANGED <<desired, status, ctl, reg, counters, history>>

(* A submitting process dies: what it had not stored yet is never stored.  *)
SubmitterCrash(P) ==
  /\ submitterCrashes < MaxSubmitterCrashes
  /\ \E p \in P : sub[p].todo # {}
  /\ submitterCrashes' = submitterCrashes + 1
  /\ sub' = [p \in Submitters |-> IF p \in P THEN NoSubmission ELSE sub[p]]
  /\ UNCHANGED <<slotVars, ctl, reg, submits, collectorCrashes, history>>

-----------------------------------------------------------------------------
(* The control thread of a device                                          *)

(* The points the task of a device looks for: writable and mapped.         *)
Controlled(d) == {s \in Slots : DeviceOf[s] = d} \ Unmapped

(* A device gets a task only if one of its points can be written.          *)
HasTask(d) == Controlled(d) \ NotWriteCode # {}

PendingFor(d, s) == status[s] = "Pending" /\ s \in Controlled(d)

(* The scan passes a slot that is not Pending or not controlled here: the  *)
(* command of a point without a mapping stays Pending.  After the last     *)
(* slot the thread sleeps and scans again.                                 *)
ScanPast(d) ==
  /\ ctl[d].pc = "scan"
  /\ ~PendingFor(d, ctl[d].cursor)
  /\ ctl' = [ctl EXCEPT ![d].cursor = IF @ = NumSlots THEN 1 ELSE @ + 1]
  /\ UNCHANGED <<slotVars, sub, reg, counters, history>>

ScanHit(d) ==
  /\ ctl[d].pc = "scan"
  /\ PendingFor(d, ctl[d].cursor)
  /\ ctl' = [ctl EXCEPT ![d].pc = "found"]
  /\ UNCHANGED <<slotVars, sub, reg, counters, history>>

ReadDesired(d) ==
  /\ ctl[d].pc = "found"
  /\ ctl' = [ctl EXCEPT ![d].pc = "mark", ![d].value = desired[ctl[d].cursor]]
  /\ UNCHANGED <<slotVars, sub, reg, counters, history>>

(* A slip of the claim: the slot stays Pending.                            *)
MarkExecutingForgotten(d) ==
  /\ ctl[d].pc = "mark"
  /\ taken' = [taken EXCEPT ![ctl[d].cursor] = @ + 1]
  /\ ctl' = [ctl EXCEPT ![d].pc = "write"]
  /\ UNCHANGED <<slotVars, sub, reg, counters, asked, posted, written>>

MarkExecuting(d) ==
  /\ ctl[d].pc = "mark"
  /\ status' = [status EXCEPT ![ctl[d].cursor] = "Executing"]
  /\ taken' = [taken EXCEPT ![ctl[d].cursor] = @ + 1]
  /\ ctl' = [ctl EXCEPT ![d].pc = "write"]
  /\ UNCHANGED <<desired, result, sub, reg, counters, asked, posted, written>>

Completing(d, outcome, res) ==
  [ctl[d] EXCEPT !.pc = "complete", !.outcome = outcome, !.res = res,
                 !.todo = CompleteFields]

(* The mapping is not a write: error code 3.  (Code 2, no mapping at all,  *)
(* cannot happen: such a point is not looked for.)                         *)
Reject(d) ==
  /\ ctl[d].pc = "write"
  /\ ctl[d].cursor \in NotWriteCode
  /\ ctl' = [ctl EXCEPT ![d] = Completing(d, "Failed", Zero)]
  /\ UNCHANGED <<slotVars, sub, reg, counters, history>>

(* The device acknowledges the write; it may keep its own value all the    *)
(* same (a set point outside its limits).                                  *)
WriteOk(d) ==
  /\ ctl[d].pc = "write"
  /\ ctl[d].cursor \notin NotWriteCode
  /\ written' = [written EXCEPT ![ctl[d].cursor] = ctl[d].value]
  /\ reg' \in {reg, [reg EXCEPT ![ctl[d].cursor] = ctl[d].value]}
  /\ ctl' = [ctl EXCEPT ![d].pc = "readback"]
  /\ UNCHANGED <<slotVars, sub, counters, asked, posted, taken>>

(* Slips of the failure path: it reports Success; it forgets to complete.  *)
WriteFailedAsSuccess(d) ==
  /\ ctl[d].pc = "write"
  /\ ctl[d].cursor \notin NotWriteCode
  /\ ctl' = [ctl EXCEPT ![d] = Completing(d, "Success", Zero)]
  /\ UNCHANGED <<slotVars, sub, reg, counters, history>>

WriteFailedUnreported(d) ==
  /\ ctl[d].pc = "write"
  /\ ctl[d].cursor \notin NotWriteCode
  /\ ctl' = [ctl EXCEPT ![d] = ScanFromStart]
  /\ UNCHANGED <<slotVars, sub, reg, counters, history>>

(* No acknowledgement arrives (error code 4).  The device may have applied *)
(* the value before its answer was lost.                                   *)
WriteFailed(d) ==
  /\ ctl[d].pc = "write"
  /\ ctl[d].cursor \notin NotWriteCode
  /\ reg' \in {reg, [reg EXCEPT ![ctl[d].cursor] = ctl[d].value]}
  /\ ctl' = [ctl EXCEPT ![d] = Completing(d, "Failed", Zero)]
  /\ UNCHANGED <<slotVars, sub, counters, history>>

(* The read-back reports the register, or, when the read fails, the value  *)
(* that was asked for.                                                     *)
ReadBack(d) ==
  /\ ctl[d].pc = "readback"
  /\ \E res \in {reg[ctl[d].cursor], ctl[d].value} :
       ctl' = [ctl EXCEPT ![d] = Completing(d, "Success", res)]
  /\ UNCHANGED <<slotVars, sub, reg, counters, history>>

(* complete_command stores its fields in an order left to the compiler;    *)
(* then the loop scans from the first slot again.                          *)
Completed(d, f) ==
  ctl' = [ctl EXCEPT ![d] =
            IF ctl[d].todo = {f} THEN ScanFromStart
            ELSE [ctl[d] EXCEPT !.todo = ctl[d].todo \ {f}]]

CompleteStatus(d) ==
  /\ ctl[d].pc = "complete"
  /\ "status" \in ctl[d].todo
  /\ status' = [status EXCEPT ![ctl[d].cursor] = ctl[d].outcome]
  /\ Completed(d, "status")
  /\ UNCHANGED <<desired, result, sub, reg, counters, history>>

CompleteResult(d) ==
  /\ ctl[d].pc = "complete"
  /\ "result" \in ctl[d].todo
  /\ result' = [result EXCEPT ![ctl[d].cursor] = ctl[d].res]
  /\ Completed(d, "result")
  /\ UNCHANGED <<desired, status, sub, reg, counters, history>>

(* A slip of recovery: the restarted collector requeues what was executing.*)
CollectorCrashRequeues ==
  /\ collectorCrashes < MaxCollectorCrashes
  /\ collectorCrashes' = collectorCrashes + 1
  /\ ctl' = [d \in Devices |-> ScanFromStart]
  /\ status' = [s \in Slots |->
                 IF status[s] = "Executing" THEN "Pending" ELSE status[s]]
  /\ UNCHANGED <<desired, result, sub, reg, submits, submitterCrashes, history>>

(* The collector dies and is started again.  Nothing repairs the slots it  *)
(* had claimed.                                                            *)
CollectorCrash ==
  /\ collectorCrashes < MaxCollectorCrashes
  /\ collectorCrashes' = collectorCrashes + 1
  /\ ctl' = [d \in Devices |-> ScanFromStart]
  /\ UNCHANGED <<slotVars, sub, reg, submits, submitterCrashes, history>>

-----------------------------------------------------------------------------
Store(p) == StoreDesired(p) \/ StorePending(p) \/ StoreCleared(p)

Control(d) ==
  /\ HasTask(d)
  /\ \/ ScanPast(d)
     \/ ScanHit(d)
     \/ ReadDesired(d)
     \/ MarkExecuting(d)
     \/ Reject(d)
     \/ WriteOk(d)
     \/ WriteFailed(d)
     \/ ReadBack(d)
     \/ CompleteStatus(d)
     \/ CompleteResult(d)

Next ==
  \/ \E s \in Slots, v \in Values : EngineSubmit(s, v)
  \/ \E w \in WebThreads, s \in Slots, v \in Values : WebSubmit(w, s, v)
  \/ \E p \in Submitters : Store(p)
  \/ \E P \in {WebThreads, {Engine}} : SubmitterCrash(P)
  \/ \E d \in Devices : Control(d)
  \/ CollectorCrash

Spec == Init /\ [][Next]_vars

(* The operating system schedules a control thread that can run; its loop  *)
(* never blocks for good, since every socket operation has a timeout.      *)
FairSpec == Spec /\ \A d \in Devices : WF_vars(Control(d))

-----------------------------------------------------------------------------
(* Properties                                                              *)

(* Every variable keeps its type; a submitter or a control thread with     *)
(* stores left has a slot to store to.                                     *)
TypeOK ==
  /\ desired \in [Slots -> Payload]
  /\ status \in [Slots -> Status]
  /\ result \in [Slots -> Payload]
  /\ sub \in [Submitters ->
       [slot : Slots, value : Payload, todo : SUBSET SubmitFields]]
  /\ ctl \in [Devices ->
       [pc : ControlPc, cursor : Slots, value : Payload,
        outcome : Terminal, res : Payload, todo : SUBSET CompleteFields]]
  /\ reg \in [Slots -> Payload]
  /\ submits \in Nat
  /\ collectorCrashes \in Nat
  /\ submitterCrashes \in Nat
  /\ asked \in [Slots -> SUBSET Values]
  /\ posted \in [Slots -> Nat]
  /\ taken \in [Slots -> Nat]
  /\ written \in [Slots -> Payload]

(* The value a control thread is about to write to a device was submitted  *)
(* for that very slot: storing the desired value before Pending keeps the  *)
(* empty slot's 0.0 and half-made submissions from reaching the device.    *)
ExecutedWasSubmitted ==
  \A d \in Devices :
    ctl[d].pc \in {"mark", "write"} => ctl[d].value \in asked[ctl[d].cursor]

(* A control thread holds a claim it has not marked yet on slot s.         *)
Claiming(s) ==
  \E d \in Devices : ctl[d].pc \in {"found", "mark"} /\ ctl[d].cursor = s

(* Each claim is paid for by a Pending store of its own: whatever crashes  *)
(* and whoever submits at the same time, the collector never executes a    *)
(* slot more often than a client asked for it.                             *)
NoReplay ==
  \A s \in Slots :
    /\ taken[s] <= posted[s]
    /\ (status[s] = "Pending" \/ Claiming(s)) => taken[s] < posted[s]

(* A slot's status only moves along the life of a command: to Pending by a *)
(* submission and nothing else (a crash never revives a command), from     *)
(* Pending to Executing, and to Success or Failed from a command in        *)
(* progress.                                                               *)
StatusLifeCycle ==
  [][\A s \in Slots : status'[s] # status[s] =>
       \/ status'[s] = "Pending" /\ posted'[s] = posted[s] + 1
       \/ status[s] = "Pending" /\ status'[s] = "Executing"
       \/ status[s] \in Busy /\ status'[s] \in Terminal]_vars

(* command_handle.h promises that a slot that is Pending or Executing is   *)
(* skipped ("busy"): the engine never overwrites a command in progress.    *)
BusyRespected ==
  [][\A s \in Slots :
       (sub[Engine].slot = s /\ "status" \in sub[Engine].todo
          /\ posted'[s] # posted[s] /\ sub'[Engine] # sub[Engine])
       => status[s] \notin Busy]_vars

SubmissionInFlight(s) ==
  \E p \in Submitters : sub[p].todo # {} /\ sub[p].slot = s

(* What a client reads from a slot at rest: Success next to a desired      *)
(* value means that value is the one the device acknowledged.              *)
SuccessIsForDesired ==
  \A s \in Slots :
    (status[s] = "Success" /\ ~SubmissionInFlight(s)) => written[s] = desired[s]

(* Unless the collector crashes before it is done, a Pending command of a  *)
(* point the collector controls reaches Success or Failed, also in a       *)
(* collector that was restarted, and also when its mapping is not a write, *)
(* as long as another point of its device can be written.  (The command of *)
(* any other slot is never looked at.)                                     *)
Served == UNION {Controlled(d) : d \in {e \in Devices : HasTask(e)}}

EveryCommandEnds ==
  \A s \in Served, c \in 0..MaxCollectorCrashes :
    (status[s] = "Pending" /\ collectorCrashes = c)
      ~> (status[s] \in Terminal \/ collectorCrashes > c)

(* The table as a mailbox: a value is in progress while the slot is busy.  *)
box ==
  [s \in Slots |->
     [phase |-> status[s],
      value |-> IF status[s] \in Busy THEN desired[s] ELSE Zero]]

Mailbox == INSTANCE CommandMailbox WITH
             Slots <- Slots, Values <- Values, Zero <- Zero, box <- box

(* Without the portal's unchecked writes the table is a mailbox: no        *)
(* command in progress is replaced, altered or taken twice.                *)
MailboxSpec == Mailbox!Spec

=============================================================================
