------------------------- MODULE CommandSlotsProofs -------------------------
(***************************************************************************)
(* Proofs about CommandSlots for every number of slots, devices, values    *)
(* and portal threads: types, at most one claim per submission, the source *)
(* of executed values; then the life of a command: the order of its        *)
(* statuses whoever submits, and, when the strategy engine is the only     *)
(* submitter, the refinement of CommandMailbox.                            *)
(***************************************************************************)
EXTENDS CommandSlots, TLAPS

Submission == [slot : Slots, value : Payload, todo : SUBSET SubmitFields]
Thread ==
  [pc : ControlPc, cursor : Slots, value : Payload,
   outcome : Terminal, res : Payload, todo : SUBSET CompleteFields]

-----------------------------------------------------------------------------
(* Type correctness                                                        *)

LEMMA FirstSlot == 1 \in Slots
  BY NumSlotsAssumption DEF Slots

LEMMA IdleTypes == NoSubmission \in Submission /\ ScanFromStart \in Thread
  BY FirstSlot
  DEF NoSubmission, ScanFromStart, Submission, Thread, Payload, ControlPc,
      Terminal

LEMMA InitType == Init => TypeOK
  BY IdleTypes
  DEF Init, TypeOK, Payload, Status, Busy, Terminal, Submission, Thread

(* A submission's step keeps the type invariant.                           *)
LEMMA SubmitType ==
  ASSUME TypeOK, NEW p \in Submitters,
         \/ \E s \in Slots, v \in Values : BeginSubmit(p, s, v)
         \/ Store(p)
  PROVE  TypeOK'
<1>1. CASE \E s \in Slots, v \in Values : BeginSubmit(p, s, v)
  <2>1. PICK s \in Slots, v \in Values : BeginSubmit(p, s, v)
    BY <1>1
  <2>2. [slot |-> s, value |-> v, todo |-> SubmitFields] \in Submission
    BY DEF Submission, Payload
  <2>3. sub' \in [Submitters -> Submission]
    BY <2>1, <2>2 DEF TypeOK, BeginSubmit, Submission
  <2>4. asked' \in [Slots -> SUBSET Values] /\ submits' \in Nat
    BY <2>1 DEF TypeOK, BeginSubmit
  <2>5. QED
    BY <2>1, <2>3, <2>4 DEF TypeOK, BeginSubmit, slotVars, Submission
<1>2. CASE Store(p)
  <2>1. sub[p] \in Submission
    BY DEF TypeOK, Submission
  <2>2. ASSUME NEW f \in SubmitFields, Stored(p, f)
        PROVE  sub' \in [Submitters -> Submission]
    BY <2>1, <2>2 DEF Stored, TypeOK, Submission
  <2>3. CASE StoreDesired(p)
    <3>1. sub' \in [Submitters -> Submission]
      BY <2>2, <2>3 DEF StoreDesired, SubmitFields
    <3>2. desired' \in [Slots -> Payload]
      BY <2>1, <2>3 DEF StoreDesired, TypeOK, Submission
    <3>3. QED
      BY <2>3, <3>1, <3>2
      DEF StoreDesired, TypeOK, Submission, counters, history
  <2>4. CASE StorePending(p)
    <3>1. sub' \in [Submitters -> Submission]
      BY <2>2, <2>4 DEF StorePending, SubmitFields
    <3>2. status' \in [Slots -> Status] /\ posted' \in [Slots -> Nat]
      BY <2>1, <2>4 DEF StorePending, TypeOK, Submission, Status, Busy
    <3>3. QED
      BY <2>4, <3>1, <3>2 DEF StorePending, TypeOK, Submission, counters
  <2>5. CASE StoreCleared(p)
    <3>1. sub' \in [Submitters -> Submission]
      BY <2>2, <2>5 DEF StoreCleared, SubmitFields
    <3>2. result' \in [Slots -> Payload]
      BY <2>1, <2>5 DEF StoreCleared, TypeOK, Submission, Payload
    <3>3. QED
      BY <2>5, <3>1, <3>2
      DEF StoreCleared, TypeOK, Submission, counters, history
  <2>6. QED
    BY <1>2, <2>3, <2>4, <2>5 DEF Store
<1>3. QED
  BY <1>1, <1>2

(* A control thread's step keeps the type invariant.                       *)
LEMMA ControlType ==
  ASSUME TypeOK, NEW d \in Devices, Control(d)
  PROVE  TypeOK'
<1> USE DEF slotVars, counters, history
<1>1. ctl \in [Devices -> Thread] /\ ctl[d] \in Thread
  BY DEF TypeOK, Thread
<1>2. ASSUME NEW outcome \in Terminal, NEW res \in Payload
      PROVE  Completing(d, outcome, res) \in Thread
  BY <1>1, <1>2 DEF Completing, Thread, ControlPc
<1>3. ASSUME NEW f \in CompleteFields, Completed(d, f)
      PROVE  ctl' \in [Devices -> Thread]
  BY <1>1, <1>3, IdleTypes DEF Completed, Thread
<1>4. Zero \in Payload /\ "Success" \in Terminal /\ "Failed" \in Terminal
  BY DEF Payload, Terminal
<1>5. CASE ScanPast(d)
  <2>1. ctl[d].cursor \in 1..NumSlots
    BY <1>1 DEF Thread, Slots
  <2>2. (IF ctl[d].cursor = NumSlots THEN 1 ELSE ctl[d].cursor + 1) \in Slots
    BY <2>1, NumSlotsAssumption DEF Slots
  <2>3. ctl' \in [Devices -> Thread]
    BY <1>1, <1>5, <2>2 DEF ScanPast, Thread
  <2>4. QED
    BY <1>5, <2>3 DEF ScanPast, TypeOK, Thread
<1>6. CASE ScanHit(d)
  <2>1. ctl' \in [Devices -> Thread]
    BY <1>1, <1>6 DEF ScanHit, Thread, ControlPc
  <2>2. QED
    BY <1>6, <2>1 DEF ScanHit, TypeOK, Thread
<1>7. CASE ReadDesired(d)
  <2>1. desired[ctl[d].cursor] \in Payload
    BY <1>1 DEF TypeOK, Thread
  <2>2. ctl' \in [Devices -> Thread]
    BY <1>1, <1>7, <2>1 DEF ReadDesired, Thread, ControlPc
  <2>3. QED
    BY <1>7, <2>2 DEF ReadDesired, TypeOK, Thread
<1>8. CASE MarkExecuting(d)
  <2>1. ctl' \in [Devices -> Thread]
    BY <1>1, <1>8 DEF MarkExecuting, Thread, ControlPc
  <2>2. status' \in [Slots -> Status] /\ taken' \in [Slots -> Nat]
    BY <1>1, <1>8 DEF MarkExecuting, TypeOK, Thread, Status, Busy
  <2>3. QED
    BY <1>8, <2>1, <2>2 DEF MarkExecuting, TypeOK, Thread
<1>9. CASE Reject(d)
  <2>1. ctl' \in [Devices -> Thread]
    BY <1>1, <1>2, <1>4, <1>9 DEF Reject
  <2>2. QED
    BY <1>9, <2>1 DEF Reject, TypeOK, Thread
<1>10. CASE WriteOk(d)
  <2>1. ctl' \in [Devices -> Thread]
    BY <1>1, <1>10 DEF WriteOk, Thread, ControlPc
  <2>2. reg' \in [Slots -> Payload] /\ written' \in [Slots -> Payload]
    BY <1>1, <1>10 DEF WriteOk, TypeOK, Thread
  <2>3. QED
    BY <1>10, <2>1, <2>2 DEF WriteOk, TypeOK, Thread
<1>11. CASE WriteFailed(d)
  <2>1. ctl' \in [Devices -> Thread]
    BY <1>1, <1>2, <1>4, <1>11 DEF WriteFailed
  <2>2. reg' \in [Slots -> Payload]
    BY <1>1, <1>11 DEF WriteFailed, TypeOK, Thread
  <2>3. QED
    BY <1>11, <2>1, <2>2 DEF WriteFailed, TypeOK, Thread
<1>12. CASE ReadBack(d)
  <2>1. {reg[ctl[d].cursor], ctl[d].value} \subseteq Payload
    BY <1>1 DEF TypeOK, Thread
  <2>2. ctl' \in [Devices -> Thread]
    BY <1>1, <1>2, <1>4, <1>12, <2>1 DEF ReadBack
  <2>3. QED
    BY <1>12, <2>2 DEF ReadBack, TypeOK, Thread
<1>13. CASE CompleteStatus(d)
  <2>1. ctl' \in [Devices -> Thread]
    BY <1>3, <1>13 DEF CompleteStatus, CompleteFields
  <2>2. status' \in [Slots -> Status]
    BY <1>1, <1>13 DEF CompleteStatus, TypeOK, Thread, Status
  <2>3. QED
    BY <1>13, <2>1, <2>2 DEF CompleteStatus, TypeOK, Thread
<1>14. CASE CompleteResult(d)
  <2>1. ctl' \in [Devices -> Thread]
    BY <1>3, <1>14 DEF CompleteResult, CompleteFields
  <2>2. result' \in [Slots -> Payload]
    BY <1>1, <1>14 DEF CompleteResult, TypeOK, Thread
  <2>3. QED
    BY <1>14, <2>1, <2>2 DEF CompleteResult, TypeOK, Thread
<1>15. QED
  BY <1>5, <1>6, <1>7, <1>8, <1>9, <1>10, <1>11, <1>12, <1>13, <1>14
  DEF Control

LEMMA NextType == TypeOK /\ [Next]_vars => TypeOK'
<1> SUFFICES ASSUME TypeOK, [Next]_vars PROVE TypeOK'
  OBVIOUS
<1>1. Engine \in Submitters /\ WebThreads \subseteq Submitters
  BY DEF Submitters
<1>2. ASSUME NEW s \in Slots, NEW v \in Values, EngineSubmit(s, v)
      PROVE  TypeOK'
  BY <1>1, <1>2, SubmitType DEF EngineSubmit
<1>3. ASSUME NEW w \in WebThreads, NEW s \in Slots, NEW v \in Values,
             WebSubmit(w, s, v)
      PROVE  TypeOK'
  BY <1>1, <1>3, SubmitType DEF WebSubmit
<1>4. ASSUME NEW p \in Submitters, Store(p) PROVE TypeOK'
  BY <1>4, SubmitType
<1>5. ASSUME NEW P, SubmitterCrash(P) PROVE TypeOK'
  <2>1. sub' \in [Submitters -> Submission]
    BY <1>5, IdleTypes DEF SubmitterCrash, TypeOK, Submission
  <2>2. submitterCrashes' \in Nat
    BY <1>5 DEF SubmitterCrash, TypeOK
  <2>3. QED
    BY <1>5, <2>1, <2>2
    DEF SubmitterCrash, TypeOK, Submission, slotVars, history
<1>6. ASSUME NEW d \in Devices, Control(d) PROVE TypeOK'
  BY <1>6, ControlType
<1>7. CASE CollectorCrash
  <2>1. ctl' \in [Devices -> Thread] /\ collectorCrashes' \in Nat
    BY <1>7, IdleTypes DEF CollectorCrash, TypeOK
  <2>2. QED
    BY <1>7, <2>1 DEF CollectorCrash, TypeOK, Thread, slotVars, history
<1>8. CASE UNCHANGED vars
  BY <1>8 DEF vars, slotVars, counters, history, TypeOK
<1>9. QED
  BY <1>2, <1>3, <1>4, <1>5, <1>6, <1>7, <1>8 DEF Next

(* Every reachable state has the declared types.                           *)
THEOREM TypeCorrect == Spec => []TypeOK
<1>1. QED
  BY InitType, NextType, PTL DEF Spec

-----------------------------------------------------------------------------
(* NoReplay is not inductive by itself: two control threads claiming one   *)
(* slot would break it.  They cannot, because a thread only claims slots   *)
(* of its own device.                                                      *)
OwnSlot ==
  \A d \in Devices : ctl[d].pc # "scan" => DeviceOf[ctl[d].cursor] = d

ReplayInv == TypeOK /\ OwnSlot /\ NoReplay

LEMMA OwnSlotStep == TypeOK /\ OwnSlot /\ [Next]_vars => OwnSlot'
<1> SUFFICES ASSUME TypeOK, OwnSlot, [Next]_vars PROVE OwnSlot'
  OBVIOUS
<1> USE DEF OwnSlot
<1>1. ASSUME NEW d \in Devices, Control(d) PROVE OwnSlot'
  <2>1. ctl \in [Devices -> Thread]
    BY DEF TypeOK, Thread
  <2>2. ASSUME NEW t, ctl' = [ctl EXCEPT ![d] = t],
               t.pc # "scan" => DeviceOf[t.cursor] = d
        PROVE  OwnSlot'
    BY <2>1, <2>2
  <2>3. CASE ScanPast(d)
    <3> DEFINE next == IF ctl[d].cursor = NumSlots THEN 1
                                                   ELSE ctl[d].cursor + 1
    <3>1. ctl' = [ctl EXCEPT ![d] = [ctl[d] EXCEPT !.cursor = next]]
      BY <2>1, <2>3 DEF ScanPast
    <3>2. [ctl[d] EXCEPT !.cursor = next].pc = "scan"
      BY <2>1, <2>3 DEF ScanPast, Thread
    <3>3. QED
      BY <2>2, <3>1, <3>2
  <2>4. CASE ScanHit(d)
    <3>1. ctl' = [ctl EXCEPT ![d] = [ctl[d] EXCEPT !.pc = "found"]]
      BY <2>1, <2>4 DEF ScanHit
    <3>2. DeviceOf[[ctl[d] EXCEPT !.pc = "found"].cursor] = d
      BY <2>1, <2>4 DEF ScanHit, PendingFor, Controlled, Thread
    <3>3. QED
      BY <2>2, <3>1, <3>2
  <2>6. CASE ReadDesired(d)
    <3> DEFINE t == [ctl[d] EXCEPT !.pc = "mark", !.value = desired[ctl[d].cursor]]
    <3>1. ctl' = [ctl EXCEPT ![d] = t] /\ ctl[d].pc # "scan"
      BY <2>1, <2>6 DEF ReadDesired
    <3>2. t.cursor = ctl[d].cursor
      BY <2>1 DEF Thread
    <3>3. QED
      BY <2>2, <3>1, <3>2
  <2>7. ASSUME NEW k, ctl' = [ctl EXCEPT ![d] = [ctl[d] EXCEPT !.pc = k]],
               ctl[d].pc # "scan"
        PROVE  OwnSlot'
    <3>1. [ctl[d] EXCEPT !.pc = k].cursor = ctl[d].cursor
      BY <2>1 DEF Thread
    <3>2. QED
      BY <2>2, <2>7, <3>1
  <2>8. CASE MarkExecuting(d)
    <3>1. /\ ctl' = [ctl EXCEPT ![d] = [ctl[d] EXCEPT !.pc = "write"]]
          /\ ctl[d].pc # "scan"
      BY <2>1, <2>8 DEF MarkExecuting
    <3>2. QED
      BY <2>7, <3>1
  <2>9. CASE WriteOk(d)
    <3>1. /\ ctl' = [ctl EXCEPT ![d] = [ctl[d] EXCEPT !.pc = "readback"]]
          /\ ctl[d].pc # "scan"
      BY <2>1, <2>9 DEF WriteOk
    <3>2. QED
      BY <2>7, <3>1
  <2>10. ASSUME NEW outcome, NEW res, ctl[d].pc # "scan",
                ctl' = [ctl EXCEPT ![d] = Completing(d, outcome, res)]
         PROVE  OwnSlot'
    <3>1. Completing(d, outcome, res).cursor = ctl[d].cursor
      BY <2>1 DEF Completing, Thread
    <3>2. QED
      BY <2>2, <2>10, <3>1
  <2>11. CASE Reject(d)
    BY <2>10, <2>11 DEF Reject
  <2>12. CASE WriteFailed(d)
    BY <2>10, <2>12 DEF WriteFailed
  <2>13. CASE ReadBack(d)
    BY <2>10, <2>13 DEF ReadBack
  <2>14. ASSUME NEW f, ctl[d].pc # "scan", Completed(d, f)
         PROVE  OwnSlot'
    <3>1. ScanFromStart.pc = "scan"
      BY DEF ScanFromStart
    <3>2. [ctl[d] EXCEPT !.todo = ctl[d].todo \ {f}].cursor = ctl[d].cursor
      BY <2>1 DEF Thread
    <3>3. CASE ctl[d].todo = {f}
      BY <2>2, <2>14, <3>1, <3>3 DEF Completed
    <3>4. CASE ctl[d].todo # {f}
      BY <2>2, <2>14, <3>2, <3>4 DEF Completed
    <3>5. QED
      BY <3>3, <3>4
  <2>15. CASE CompleteStatus(d) \/ CompleteResult(d)
    BY <2>14, <2>15 DEF CompleteStatus, CompleteResult
  <2>16. QED
    BY <1>1, <2>3, <2>4, <2>6, <2>8, <2>9, <2>11, <2>12, <2>13, <2>15
    DEF Control
<1>2. CASE CollectorCrash
  BY <1>2 DEF CollectorCrash, ScanFromStart
<1>3. CASE UNCHANGED ctl
  BY <1>3
<1>4. QED
  BY <1>1, <1>2, <1>3
  DEF Next, EngineSubmit, WebSubmit, BeginSubmit, Store, StoreDesired,
      StorePending, StoreCleared, SubmitterCrash, vars

(* The steps that neither store a status nor touch a claim.                *)
LEMMA ReplayFrame ==
  ASSUME NoReplay, UNCHANGED <<status, posted, taken>>,
         \A s \in Slots : Claiming(s)' => Claiming(s) \/ status[s] = "Pending"
  PROVE  NoReplay'
  BY DEF NoReplay

LEMMA ReplayStep == ReplayInv /\ [Next]_vars => ReplayInv'
<1> SUFFICES ASSUME TypeOK, OwnSlot, NoReplay, [Next]_vars PROVE NoReplay'
  BY NextType, OwnSlotStep DEF ReplayInv
<1> USE DEF counters, history, slotVars
<1>1. ASSUME UNCHANGED <<status, posted, taken, ctl>> PROVE NoReplay'
  BY <1>1, ReplayFrame DEF Claiming
<1>2. ASSUME NEW p \in Submitters, StorePending(p) PROVE NoReplay'
  <2>1. sub[p].slot \in Slots
    BY DEF TypeOK
  <2>2. \A s \in Slots : Claiming(s)' <=> Claiming(s)
    BY <1>2 DEF StorePending, Claiming
  <2>3. \A s \in Slots : posted[s] \in Nat /\ taken[s] \in Nat
    BY DEF TypeOK
  <2>4. \A s \in Slots :
          /\ taken'[s] = taken[s]
          /\ posted'[s] = IF s = sub[p].slot THEN posted[s] + 1 ELSE posted[s]
          /\ s # sub[p].slot => status'[s] = status[s]
    BY <1>2, <2>1 DEF StorePending, TypeOK
  <2>5. QED
    BY <2>2, <2>3, <2>4 DEF NoReplay
<1>3. ASSUME NEW d \in Devices, MarkExecuting(d) PROVE NoReplay'
  <2> DEFINE c == ctl[d].cursor
  <2>1. c \in Slots /\ DeviceOf[c] = d /\ Claiming(c)
    BY <1>3 DEF MarkExecuting, TypeOK, OwnSlot, Claiming
  <2>2. \A s \in Slots : Claiming(s)' => Claiming(s) /\ s # c
    BY <1>3, <2>1 DEF MarkExecuting, Claiming, OwnSlot, TypeOK
  <2>3. \A s \in Slots : posted[s] \in Nat /\ taken[s] \in Nat
    BY DEF TypeOK
  <2>4. \A s \in Slots :
          /\ posted'[s] = posted[s]
          /\ taken'[s] = IF s = c THEN taken[s] + 1 ELSE taken[s]
          /\ status'[s] = IF s = c THEN "Executing" ELSE status[s]
    BY <1>3, <2>1 DEF MarkExecuting, TypeOK
  <2>5. taken[c] < posted[c]
    BY <2>1 DEF NoReplay
  <2> HIDE DEF c
  <2>6. ASSUME NEW s \in Slots
        PROVE  /\ taken'[s] <= posted'[s]
               /\ (status'[s] = "Pending" \/ Claiming(s)')
                    => taken'[s] < posted'[s]
    BY <2>2, <2>3, <2>4, <2>5 DEF NoReplay
  <2>7. QED
    BY <2>6 DEF NoReplay
<1>4. ASSUME NEW d \in Devices, CompleteStatus(d) PROVE NoReplay'
  <2>1. ctl[d].cursor \in Slots /\ ctl[d].outcome \in Terminal
    BY DEF TypeOK
  <2>2. \A s \in Slots : Claiming(s)' => Claiming(s)
    BY <1>4
    DEF CompleteStatus, Completed, Claiming, ScanFromStart, TypeOK
  <2>3. \A s \in Slots : status'[s] = "Pending" => status[s] = "Pending"
    BY <1>4, <2>1 DEF CompleteStatus, TypeOK, Terminal
  <2>4. UNCHANGED <<posted, taken>>
    BY <1>4 DEF CompleteStatus
  <2>5. QED
    BY <2>2, <2>3, <2>4 DEF NoReplay
<1>5. ASSUME NEW d \in Devices, ScanHit(d) \/ ReadDesired(d) PROVE NoReplay'
  <2>1. UNCHANGED <<status, posted, taken>>
    BY <1>5 DEF ScanHit, ReadDesired
  <2>2. \A e \in Devices : e # d => ctl'[e] = ctl[e]
    BY <1>5 DEF ScanHit, ReadDesired, TypeOK
  <2>3. /\ ctl'[d].cursor = ctl[d].cursor
        /\ \/ ctl[d].pc = "found"
           \/ status[ctl[d].cursor] = "Pending"
    BY <1>5 DEF ScanHit, ReadDesired, PendingFor, TypeOK
  <2>4. \A s \in Slots : Claiming(s)' => Claiming(s) \/ status[s] = "Pending"
    BY <2>2, <2>3 DEF Claiming
  <2>5. QED
    BY <2>1, <2>4, ReplayFrame
<1>6. ASSUME NEW d \in Devices,
             \/ ScanPast(d) \/ Reject(d) \/ WriteOk(d) \/ WriteFailed(d)
             \/ ReadBack(d) \/ CompleteResult(d)
      PROVE  NoReplay'
  <2>1. UNCHANGED <<status, posted, taken>>
    BY <1>6
    DEF ScanPast, Reject, WriteOk, WriteFailed, ReadBack, CompleteResult
  <2>2. CASE ScanPast(d)
    BY <2>1, <2>2, ReplayFrame DEF ScanPast, Claiming, TypeOK
  <2>3. CASE WriteOk(d)
    BY <2>1, <2>3, ReplayFrame DEF WriteOk, Claiming, TypeOK
  <2>4. CASE Reject(d) \/ WriteFailed(d) \/ ReadBack(d)
    <3>0. PICK outcome, res :
            ctl' = [ctl EXCEPT ![d] = Completing(d, outcome, res)]
      BY <2>4 DEF Reject, WriteFailed, ReadBack
    <3>1. /\ \A e \in Devices : e # d => ctl'[e] = ctl[e]
          /\ ctl'[d].pc = "complete"
      BY <3>0 DEF Completing, TypeOK
    <3>2. \A s \in Slots : Claiming(s)' => Claiming(s)
      BY <3>1 DEF Claiming
    <3>3. QED
      BY <2>1, <3>2, ReplayFrame
  <2>5. CASE CompleteResult(d)
    BY <2>1, <2>5, ReplayFrame
    DEF CompleteResult, Completed, ScanFromStart, Claiming, TypeOK
  <2>6. QED
    BY <1>6, <2>2, <2>3, <2>4, <2>5
<1>7. CASE CollectorCrash
  BY <1>7, ReplayFrame DEF CollectorCrash, Claiming, ScanFromStart
<1>8. QED
  BY <1>1, <1>2, <1>3, <1>4, <1>5, <1>6, <1>7
  DEF Next, EngineSubmit, WebSubmit, BeginSubmit, Store, StoreDesired,
      StoreCleared, SubmitterCrash, Control, vars

(* No slot is executed more often than it was submitted, whatever crashes. *)
THEOREM NeverReplayed == Spec => []NoReplay
<1>1. Init => ReplayInv
  <2>1. Init => OwnSlot /\ NoReplay
    BY DEF Init, OwnSlot, NoReplay, Claiming, ScanFromStart
  <2>2. QED
    BY <2>1, InitType DEF ReplayInv
<1>2. ReplayInv => NoReplay
  BY DEF ReplayInv
<1>3. QED
  BY <1>1, <1>2, ReplayStep, PTL DEF Spec

-----------------------------------------------------------------------------
(* Where an executed value comes from: a submission's own value was asked  *)
(* for; once its desired value is stored the slot holds an asked value; a  *)
(* slot that was ever Pending holds one; so does a thread's claim.         *)
SubmissionAsked ==
  \A p \in Submitters : sub[p].todo # {} =>
    /\ sub[p].value \in asked[sub[p].slot]
    /\ "desired" \notin sub[p].todo => desired[sub[p].slot] \in asked[sub[p].slot]

SlotAsked == \A s \in Slots : status[s] # "Idle" => desired[s] \in asked[s]

ClaimNotIdle ==
  \A d \in Devices : ctl[d].pc # "scan" => status[ctl[d].cursor] # "Idle"

SourceInv ==
  /\ TypeOK
  /\ SubmissionAsked
  /\ SlotAsked
  /\ ClaimNotIdle
  /\ ExecutedWasSubmitted

(* Steps that leave the submissions and the desired values alone, and      *)
(* store nothing but statuses of commands that are not Idle.               *)
LEMMA SourceFrame ==
  ASSUME SourceInv, UNCHANGED <<sub, desired, asked>>,
         \A s \in Slots : status[s] # "Idle" => status'[s] # "Idle",
         \A s \in Slots : status[s] = "Idle" => status'[s] = "Idle"
  PROVE  SubmissionAsked' /\ SlotAsked'
  BY DEF SourceInv, SubmissionAsked, SlotAsked

LEMMA SourceControl ==
  ASSUME SourceInv, NEW d \in Devices, Control(d)
  PROVE  SubmissionAsked' /\ SlotAsked' /\ ClaimNotIdle' /\ ExecutedWasSubmitted'
<1> USE DEF counters, history, slotVars
<1>1. ctl[d].cursor \in Slots /\ ctl[d].outcome \in Terminal
  BY DEF SourceInv, TypeOK
<1>2. CASE ScanPast(d) \/ ScanHit(d)
  <2>1. UNCHANGED <<status, sub, desired, asked>>
    BY <1>2 DEF ScanPast, ScanHit
  <2>a. \A e \in Devices : e # d => ctl'[e] = ctl[e]
    BY <1>2 DEF ScanPast, ScanHit, SourceInv, TypeOK
  <2>b. \/ ctl'[d].pc = "scan"
        \/ ctl'[d].cursor = ctl[d].cursor /\ status[ctl[d].cursor] # "Idle"
    BY <1>1, <1>2 DEF ScanPast, ScanHit, PendingFor, SourceInv, TypeOK
  <2>2. ClaimNotIdle'
    BY <1>1, <2>1, <2>a, <2>b DEF SourceInv, ClaimNotIdle
  <2>3. ExecutedWasSubmitted'
    BY <1>2, <2>1
    DEF ScanPast, ScanHit, SourceInv, ExecutedWasSubmitted, TypeOK
  <2>4. QED
    BY <2>1, <2>2, <2>3, SourceFrame
<1>3. CASE ReadDesired(d)
  <2>1. UNCHANGED <<status, sub, desired, asked>>
    BY <1>3 DEF ReadDesired
  <2>2. desired[ctl[d].cursor] \in asked[ctl[d].cursor]
    BY <1>1, <1>3 DEF ReadDesired, SourceInv, SlotAsked, ClaimNotIdle
  <2>3. ClaimNotIdle' /\ ExecutedWasSubmitted'
    BY <1>3, <2>1, <2>2
    DEF ReadDesired, SourceInv, ClaimNotIdle, ExecutedWasSubmitted, TypeOK
  <2>4. QED
    BY <2>1, <2>3, SourceFrame
<1>4. CASE MarkExecuting(d)
  <2>1. UNCHANGED <<sub, desired, asked>>
    BY <1>4 DEF MarkExecuting
  <2>2. \A s \in Slots :
          status'[s] = IF s = ctl[d].cursor THEN "Executing" ELSE status[s]
    BY <1>4 DEF MarkExecuting, SourceInv, TypeOK
  <2>3. status[ctl[d].cursor] # "Idle"
    BY <1>4 DEF MarkExecuting, SourceInv, ClaimNotIdle
  <2>4. ctl' = [ctl EXCEPT ![d].pc = "write"]
    BY <1>4 DEF MarkExecuting
  <2>5. ClaimNotIdle'
    BY <1>4, <2>2, <2>4 DEF MarkExecuting, SourceInv, ClaimNotIdle, TypeOK
  <2>6. ExecutedWasSubmitted'
    BY <1>4, <2>1, <2>4
    DEF MarkExecuting, SourceInv, ExecutedWasSubmitted, TypeOK
  <2>7. QED
    BY <2>1, <2>2, <2>3, <2>5, <2>6, SourceFrame
<1>5. CASE WriteOk(d)
  <2>1. UNCHANGED <<status, sub, desired, asked>>
    BY <1>5 DEF WriteOk
  <2>2. ClaimNotIdle' /\ ExecutedWasSubmitted'
    BY <1>5, <2>1
    DEF WriteOk, SourceInv, ClaimNotIdle, ExecutedWasSubmitted, TypeOK
  <2>3. QED
    BY <2>1, <2>2, SourceFrame
<1>6. CASE Reject(d) \/ WriteFailed(d) \/ ReadBack(d)
  <2>1. UNCHANGED <<status, sub, desired, asked>>
    BY <1>6 DEF Reject, WriteFailed, ReadBack
  <2>2. ctl[d].pc # "scan"
    BY <1>6 DEF Reject, WriteFailed, ReadBack
  <2>3. PICK outcome, res :
          ctl' = [ctl EXCEPT ![d] = Completing(d, outcome, res)]
    BY <1>6 DEF Reject, WriteFailed, ReadBack
  <2>4. ctl'[d].pc = "complete" /\ ctl'[d].cursor = ctl[d].cursor
    BY <2>3 DEF Completing, SourceInv, TypeOK
  <2>5. \A e \in Devices : e # d => ctl'[e] = ctl[e]
    BY <2>3 DEF SourceInv, TypeOK
  <2>6. ClaimNotIdle' /\ ExecutedWasSubmitted'
    BY <2>1, <2>2, <2>4, <2>5
    DEF SourceInv, ClaimNotIdle, ExecutedWasSubmitted
  <2>7. QED
    BY <2>1, <2>6, SourceFrame
<1>7. CASE CompleteStatus(d) \/ CompleteResult(d)
  <2>1. UNCHANGED <<sub, desired, asked>>
    BY <1>7 DEF CompleteStatus, CompleteResult
  <2>2. status[ctl[d].cursor] # "Idle"
    BY <1>7 DEF CompleteStatus, CompleteResult, SourceInv, ClaimNotIdle
  <2>3. \A s \in Slots :
          \/ status'[s] = status[s]
          \/ s = ctl[d].cursor /\ status'[s] \in Terminal
    BY <1>1, <1>7 DEF CompleteStatus, CompleteResult, SourceInv, TypeOK
  <2>4. \A s \in Slots : status'[s] = "Idle" <=> status[s] = "Idle"
    BY <2>2, <2>3 DEF Terminal
  <2>5. /\ \A e \in Devices : e # d => ctl'[e] = ctl[e]
        /\ \/ ctl'[d].pc = "scan"
           \/ ctl'[d].pc = "complete" /\ ctl'[d].cursor = ctl[d].cursor
    BY <1>7
    DEF CompleteStatus, CompleteResult, Completed, ScanFromStart, SourceInv,
        TypeOK
  <2>6. ClaimNotIdle'
    BY <1>1, <2>2, <2>4, <2>5 DEF SourceInv, ClaimNotIdle, TypeOK
  <2>7. ExecutedWasSubmitted'
    BY <2>1, <2>5 DEF SourceInv, ExecutedWasSubmitted
  <2>8. QED
    BY <2>1, <2>4, <2>6, <2>7, SourceFrame
<1>8. QED
  BY <1>2, <1>3, <1>4, <1>5, <1>6, <1>7 DEF Control

LEMMA SourceSubmit ==
  ASSUME SourceInv, NEW p \in Submitters,
         \/ \E s \in Slots, v \in Values : BeginSubmit(p, s, v)
         \/ Store(p)
  PROVE  SubmissionAsked' /\ SlotAsked' /\ ClaimNotIdle' /\ ExecutedWasSubmitted'
<1> USE DEF counters, history, slotVars
<1>1. sub[p].slot \in Slots
  BY DEF SourceInv, TypeOK
<1>2. CASE \E s \in Slots, v \in Values : BeginSubmit(p, s, v)
  <2>1. PICK s \in Slots, v \in Values : BeginSubmit(p, s, v)
    BY <1>2
  <2>2. /\ \A t \in Slots : asked[t] \subseteq asked'[t]
        /\ v \in asked'[s]
    BY <2>1 DEF BeginSubmit, SourceInv, TypeOK
  <2>3. /\ sub'[p].slot = s /\ sub'[p].value = v
        /\ sub'[p].todo = SubmitFields
        /\ \A q \in Submitters : q # p => sub'[q] = sub[q]
    BY <2>1 DEF BeginSubmit, SourceInv, TypeOK
  <2>4. UNCHANGED <<desired, status, ctl>>
    BY <2>1 DEF BeginSubmit
  <2>5. \A q \in Submitters : sub[q].slot \in Slots
    BY DEF SourceInv, TypeOK
  <2>6. \A d \in Devices : ctl[d].cursor \in Slots
    BY DEF SourceInv, TypeOK
  <2>7. SubmissionAsked'
    BY <2>2, <2>3, <2>4, <2>5 DEF SourceInv, SubmissionAsked, SubmitFields
  <2>8. QED
    BY <2>2, <2>4, <2>6, <2>7
    DEF SourceInv, SlotAsked, ClaimNotIdle, ExecutedWasSubmitted
<1>3. ASSUME NEW f \in sub[p].todo, Stored(p, f)
      PROVE  /\ \A q \in Submitters : q # p => sub'[q] = sub[q]
             /\ sub'[p].slot = sub[p].slot /\ sub'[p].value = sub[p].value
             /\ sub'[p].todo = sub[p].todo \ {f}
  BY <1>3 DEF Stored, SourceInv, TypeOK
<1>4. CASE StoreDesired(p)
  <2>1. /\ "desired" \in sub[p].todo
        /\ Stored(p, "desired")
    BY <1>4 DEF StoreDesired, MayStore
  <2>2. sub[p].value \in asked[sub[p].slot]
    BY <2>1 DEF SourceInv, SubmissionAsked
  <2>3. \A s \in Slots :
          desired'[s] = IF s = sub[p].slot THEN sub[p].value ELSE desired[s]
    BY <1>4 DEF StoreDesired, SourceInv, TypeOK
  <2>4. UNCHANGED <<status, asked, ctl>>
    BY <1>4 DEF StoreDesired
  <2>5. \A q \in Submitters : sub[q].slot \in Slots
    BY DEF SourceInv, TypeOK
  <2>6. SubmissionAsked'
    BY <1>3, <2>1, <2>2, <2>3, <2>4, <2>5 DEF SourceInv, SubmissionAsked
  <2>7. SlotAsked'
    BY <2>2, <2>3, <2>4 DEF SourceInv, SlotAsked
  <2>8. QED
    BY <2>4, <2>6, <2>7 DEF SourceInv, ClaimNotIdle, ExecutedWasSubmitted
<1>5. CASE StorePending(p)
  <2>1. /\ "status" \in sub[p].todo /\ "desired" \notin sub[p].todo
        /\ Stored(p, "status")
    BY <1>5 DEF StorePending, MayStore
  <2>2. desired[sub[p].slot] \in asked[sub[p].slot]
    BY <2>1 DEF SourceInv, SubmissionAsked
  <2>3. \A s \in Slots :
          status'[s] = IF s = sub[p].slot THEN "Pending" ELSE status[s]
    BY <1>5 DEF StorePending, SourceInv, TypeOK
  <2>4. UNCHANGED <<desired, asked, ctl>>
    BY <1>5 DEF StorePending
  <2>5. SubmissionAsked'
    BY <1>3, <2>1, <2>4 DEF SourceInv, SubmissionAsked
  <2>6. SlotAsked'
    BY <2>2, <2>3, <2>4 DEF SourceInv, SlotAsked
  <2>7. ClaimNotIdle'
    BY <2>3, <2>4 DEF SourceInv, ClaimNotIdle, TypeOK
  <2>8. QED
    BY <2>4, <2>5, <2>6, <2>7 DEF SourceInv, ExecutedWasSubmitted
<1>6. CASE StoreCleared(p)
  <2>1. "result" \in sub[p].todo /\ Stored(p, "result")
        /\ "desired" \notin sub[p].todo
    BY <1>6 DEF StoreCleared, MayStore
  <2>2. UNCHANGED <<desired, status, asked, ctl>>
    BY <1>6 DEF StoreCleared
  <2>3. SubmissionAsked'
    BY <1>3, <2>1, <2>2 DEF SourceInv, SubmissionAsked
  <2>4. QED
    BY <2>2, <2>3
    DEF SourceInv, SlotAsked, ClaimNotIdle, ExecutedWasSubmitted
<1>7. QED
  BY <1>2, <1>4, <1>5, <1>6 DEF Store

LEMMA SourceStep == SourceInv /\ [Next]_vars => SourceInv'
<1> SUFFICES ASSUME SourceInv, [Next]_vars
             PROVE  /\ SubmissionAsked' /\ SlotAsked'
                    /\ ClaimNotIdle' /\ ExecutedWasSubmitted'
  BY NextType DEF SourceInv
<1>1. Engine \in Submitters /\ WebThreads \subseteq Submitters
  BY DEF Submitters
<1>2. CASE \E s \in Slots, v \in Values : EngineSubmit(s, v)
  BY <1>1, <1>2, SourceSubmit DEF EngineSubmit
<1>3. CASE \E w \in WebThreads, s \in Slots, v \in Values : WebSubmit(w, s, v)
  BY <1>1, <1>3, SourceSubmit DEF WebSubmit
<1>4. CASE \E p \in Submitters : Store(p)
  BY <1>4, SourceSubmit
<1>5. ASSUME NEW P, SubmitterCrash(P)
      PROVE  /\ SubmissionAsked' /\ SlotAsked'
             /\ ClaimNotIdle' /\ ExecutedWasSubmitted'
  BY <1>5
  DEF SubmitterCrash, NoSubmission, SourceInv, SubmissionAsked, SlotAsked,
      ClaimNotIdle, ExecutedWasSubmitted, slotVars, history
<1>6. CASE \E d \in Devices : Control(d)
  BY <1>6, SourceControl
<1>7. CASE CollectorCrash
  BY <1>7
  DEF CollectorCrash, ScanFromStart, SourceInv, SubmissionAsked, SlotAsked,
      ClaimNotIdle, ExecutedWasSubmitted, slotVars, history
<1>8. CASE UNCHANGED vars
  BY <1>8
  DEF vars, SourceInv, SubmissionAsked, SlotAsked, ClaimNotIdle,
      ExecutedWasSubmitted, slotVars, history
<1>9. QED
  BY <1>2, <1>3, <1>4, <1>5, <1>6, <1>7, <1>8 DEF Next

(* Only values submitted for a slot are written to its device.             *)
THEOREM OnlySubmittedExecuted == Spec => []ExecutedWasSubmitted
<1>1. Init => SourceInv
  <2>1. Init => /\ SubmissionAsked /\ SlotAsked
                /\ ClaimNotIdle /\ ExecutedWasSubmitted
    BY DEF Init, SubmissionAsked, SlotAsked, ClaimNotIdle,
           ExecutedWasSubmitted, NoSubmission, ScanFromStart
  <2>2. QED
    BY <2>1, InitType DEF SourceInv
<1>2. SourceInv => ExecutedWasSubmitted
  BY DEF SourceInv
<1>3. QED
  BY <1>1, <1>2, SourceStep, PTL DEF Spec

-----------------------------------------------------------------------------
(* The life of a command.                                                  *)

(* Every thread but the one that steps keeps its state.                    *)
LEMMA OtherThreads ==
  ASSUME TypeOK, NEW d \in Devices, Control(d)
  PROVE  \A e \in Devices : e # d => ctl'[e] = ctl[e]
<1>1. \E t : ctl' = [ctl EXCEPT ![d] = t]
  <2>1. CASE ScanPast(d)
    BY <2>1 DEF ScanPast
  <2>2. CASE ScanHit(d)
    BY <2>2 DEF ScanHit
  <2>3. CASE ReadDesired(d)
    BY <2>3 DEF ReadDesired
  <2>4. CASE MarkExecuting(d) \/ WriteOk(d)
    BY <2>4 DEF MarkExecuting, WriteOk
  <2>5. CASE Reject(d) \/ WriteFailed(d) \/ ReadBack(d)
    BY <2>5 DEF Reject, WriteFailed, ReadBack
  <2>6. CASE CompleteStatus(d) \/ CompleteResult(d)
    BY <2>6 DEF CompleteStatus, CompleteResult, Completed
  <2>7. QED
    BY <2>1, <2>2, <2>3, <2>4, <2>5, <2>6 DEF Control
<1>2. QED
  BY <1>1 DEF TypeOK

(* A thread that has claimed its slot but not marked it; one that has      *)
(* marked it and not reported its end yet.                                 *)
Holds(d) == ctl[d].pc \in {"found", "mark"}
Runs(d) ==
  \/ ctl[d].pc \in {"write", "readback"}
  \/ ctl[d].pc = "complete" /\ "status" \in ctl[d].todo

(* What a thread does to its phase and to the status of its slot.          *)
LEMMA ControlEffect ==
  ASSUME TypeOK, NEW d \in Devices, Control(d)
  PROVE  LET c == ctl[d].cursor IN
    /\ \A s \in Slots : s # c => status'[s] = status[s]
    /\ \/ /\ ctl[d].pc = "scan" /\ ~Holds(d)' /\ ~Runs(d)'
          /\ status'[c] = status[c]
       \/ /\ ctl[d].pc = "scan" /\ Holds(d)' /\ ~Runs(d)'
          /\ ctl'[d].cursor = c
          /\ status[c] = "Pending" /\ status'[c] = "Pending"
       \/ /\ Holds(d) /\ Holds(d)' /\ ~Runs(d)'
          /\ ctl'[d].cursor = c
          /\ status'[c] = status[c]
       \/ /\ Holds(d) /\ ~Holds(d)' /\ Runs(d)'
          /\ ctl'[d].cursor = c
          /\ status'[c] = "Executing"
       \/ /\ Runs(d) /\ ~Holds(d)' /\ Runs(d)'
          /\ ctl'[d].cursor = c
          /\ status'[c] = status[c]
       \/ /\ Runs(d) /\ ~Holds(d)' /\ ~Runs(d)'
          /\ status'[c] \in Terminal
       \/ /\ ~Holds(d)' /\ ~Runs(d)'
          /\ status'[c] = status[c]
<1> DEFINE c == ctl[d].cursor
<1> USE DEF counters, history, slotVars
<1>1. c \in Slots /\ ctl[d].outcome \in Terminal
  BY DEF TypeOK
<1>2. CASE ScanPast(d)
  BY <1>2 DEF ScanPast, Holds, Runs, TypeOK
<1>3. CASE ScanHit(d)
  BY <1>3 DEF ScanHit, PendingFor, Holds, Runs, TypeOK
<1>4. CASE ReadDesired(d)
  BY <1>4 DEF ReadDesired, Holds, Runs, TypeOK
<1>5. CASE MarkExecuting(d)
  BY <1>1, <1>5 DEF MarkExecuting, Holds, Runs, TypeOK
<1>6. CASE WriteOk(d)
  BY <1>6 DEF WriteOk, Holds, Runs, TypeOK
<1>7. CASE Reject(d) \/ WriteFailed(d) \/ ReadBack(d)
  <2>1. PICK outcome, res :
          ctl' = [ctl EXCEPT ![d] = Completing(d, outcome, res)]
    BY <1>7 DEF Reject, WriteFailed, ReadBack
  <2>2. /\ ctl'[d].pc = "complete" /\ ctl'[d].cursor = c
        /\ ctl'[d].todo = CompleteFields
    BY <2>1 DEF Completing, TypeOK
  <2>3. Runs(d) /\ UNCHANGED status
    BY <1>7 DEF Reject, WriteFailed, ReadBack, Runs
  <2>4. QED
    BY <2>2, <2>3 DEF Holds, Runs, CompleteFields
<1>8. CASE CompleteStatus(d)
  <2>1. Runs(d)
    BY <1>8 DEF CompleteStatus, Runs
  <2>2. ~Holds(d)' /\ ~Runs(d)'
    BY <1>8
    DEF CompleteStatus, Completed, ScanFromStart, Holds, Runs, TypeOK
  <2>3. status' = [status EXCEPT ![c] = ctl[d].outcome]
    BY <1>8 DEF CompleteStatus
  <2>4. QED
    BY <1>1, <2>1, <2>2, <2>3 DEF TypeOK
<1>9. CASE CompleteResult(d)
  <2>1. UNCHANGED status /\ ctl[d].pc = "complete" /\ "result" \in ctl[d].todo
    BY <1>9 DEF CompleteResult
  <2>2. CASE ctl[d].todo = {"result"}
    <3>1. ctl'[d] = ScanFromStart
      BY <1>9, <2>2 DEF CompleteResult, Completed, TypeOK
    <3>2. QED
      BY <2>1, <3>1 DEF ScanFromStart, Holds, Runs
  <2>3. CASE ctl[d].todo # {"result"}
    <3>1. /\ ctl'[d].pc = "complete" /\ ctl'[d].cursor = c
          /\ ctl'[d].todo = ctl[d].todo \ {"result"}
      BY <1>9, <2>3 DEF CompleteResult, Completed, TypeOK
    <3>2. ctl[d].todo \subseteq CompleteFields
      BY DEF TypeOK
    <3>3. "status" \in ctl[d].todo
      BY <2>1, <2>3, <3>2 DEF CompleteFields
    <3>4. QED
      BY <2>1, <3>1, <3>3 DEF Holds, Runs
  <2>4. QED
    BY <2>2, <2>3
<1>10. QED
  BY <1>2, <1>3, <1>4, <1>5, <1>6, <1>7, <1>8, <1>9 DEF Control

-----------------------------------------------------------------------------
(* A slot held by a thread is Pending, a slot run by one is busy: a         *)
(* submission in between can only make it Pending again.                   *)
LifeInv ==
  /\ TypeOK
  /\ OwnSlot
  /\ \A d \in Devices : Holds(d) => status[ctl[d].cursor] = "Pending"
  /\ \A d \in Devices : Runs(d) => status[ctl[d].cursor] \in Busy

LifeCycleStep ==
  \A s \in Slots : status'[s] # status[s] =>
    \/ status'[s] = "Pending" /\ posted'[s] = posted[s] + 1
    \/ status[s] = "Pending" /\ status'[s] = "Executing"
    \/ status[s] \in Busy /\ status'[s] \in Terminal

LEMMA LifeStep == LifeInv /\ [Next]_vars => LifeInv' /\ LifeCycleStep
<1> SUFFICES ASSUME LifeInv, [Next]_vars
             PROVE  /\ \A d \in Devices : Holds(d)' => status'[ctl'[d].cursor] = "Pending"
                    /\ \A d \in Devices : Runs(d)' => status'[ctl'[d].cursor] \in Busy
                    /\ LifeCycleStep
  BY NextType, OwnSlotStep DEF LifeInv
<1> USE DEF counters, history, slotVars
<1>0. /\ \A d \in Devices : ctl[d].cursor \in Slots
      /\ \A d \in Devices : Holds(d) \/ Runs(d) => DeviceOf[ctl[d].cursor] = d
  BY DEF LifeInv, TypeOK, OwnSlot, Holds, Runs
<1>1. CASE UNCHANGED <<status, ctl>>
  BY <1>1 DEF LifeInv, Holds, Runs, LifeCycleStep
<1>2. ASSUME NEW p \in Submitters, StorePending(p)
      PROVE  /\ \A d \in Devices : Holds(d)' => status'[ctl'[d].cursor] = "Pending"
             /\ \A d \in Devices : Runs(d)' => status'[ctl'[d].cursor] \in Busy
             /\ LifeCycleStep
  <2>1. sub[p].slot \in Slots
    BY DEF LifeInv, TypeOK
  <2>2. \A s \in Slots :
          /\ status'[s] = IF s = sub[p].slot THEN "Pending" ELSE status[s]
          /\ s = sub[p].slot => posted'[s] = posted[s] + 1
    BY <1>2, <2>1 DEF StorePending, LifeInv, TypeOK
  <2>3. UNCHANGED ctl
    BY <1>2 DEF StorePending
  <2>4. QED
    BY <1>0, <2>2, <2>3 DEF LifeInv, Holds, Runs, LifeCycleStep, Busy
<1>3. ASSUME NEW d \in Devices, Control(d)
      PROVE  /\ \A e \in Devices : Holds(e)' => status'[ctl'[e].cursor] = "Pending"
             /\ \A e \in Devices : Runs(e)' => status'[ctl'[e].cursor] \in Busy
             /\ LifeCycleStep
  <2>1. \A e \in Devices : e # d =>
          /\ ctl'[e] = ctl[e]
          /\ Holds(e)' => Holds(e)
          /\ Runs(e)' => Runs(e)
    BY <1>3, OtherThreads DEF LifeInv, Holds, Runs
  <2>2. /\ \A s \in Slots : s # ctl[d].cursor => status'[s] = status[s]
        /\ Holds(d)' => /\ ctl'[d].cursor = ctl[d].cursor
                        /\ status'[ctl[d].cursor] = "Pending"
        /\ Runs(d)' => /\ ctl'[d].cursor = ctl[d].cursor
                       /\ status'[ctl[d].cursor] \in Busy
        /\ \/ status'[ctl[d].cursor] = status[ctl[d].cursor]
           \/ Holds(d) /\ status'[ctl[d].cursor] = "Executing"
           \/ Runs(d) /\ status'[ctl[d].cursor] \in Terminal
    BY <1>3, ControlEffect DEF LifeInv, Busy
  <2>3. \A e \in Devices : e # d /\ (Holds(e) \/ Runs(e)) =>
          status'[ctl[e].cursor] = status[ctl[e].cursor]
    <3>1. CASE Holds(d) \/ Runs(d)
      BY <1>0, <2>2, <3>1
    <3>2. CASE ~(Holds(d) \/ Runs(d))
      BY <1>0, <2>2, <3>2
    <3>3. QED
      BY <3>1, <3>2
  <2>4. LifeCycleStep
    BY <2>2 DEF LifeInv, LifeCycleStep
  <2>5. QED
    BY <2>1, <2>2, <2>3, <2>4 DEF LifeInv
<1>4. CASE CollectorCrash
  BY <1>4
  DEF CollectorCrash, ScanFromStart, LifeInv, Holds, Runs, LifeCycleStep
<1>5. QED
  BY <1>1, <1>2, <1>3, <1>4
  DEF Next, EngineSubmit, WebSubmit, BeginSubmit, Store, StoreDesired,
      StoreCleared, SubmitterCrash, vars

(* Statuses follow the life of a command, and only a submission makes a    *)
(* slot Pending.                                                           *)
THEOREM LifeCycle == Spec => StatusLifeCycle
<1>1. Init => LifeInv
  BY InitType
  DEF Init, LifeInv, OwnSlot, Holds, Runs, ScanFromStart
<1>2. LifeInv /\ [Next]_vars => [LifeCycleStep]_vars
  BY LifeStep
<1>3. LifeInv /\ [Next]_vars => LifeInv'
  BY LifeStep
<1>4. QED
  BY <1>1, <1>2, <1>3, PTL DEF Spec, StatusLifeCycle, LifeCycleStep

-----------------------------------------------------------------------------
(* The strategy engine as the only submitter.                              *)

(* While the engine still has to store Pending the slot is not busy, so a  *)
(* held slot stays Pending and a running one stays Executing.              *)
EngineInv ==
  /\ LifeInv
  /\ "desired" \in sub[Engine].todo => "status" \in sub[Engine].todo
  /\ "status" \in sub[Engine].todo => status[sub[Engine].slot] \notin Busy
  /\ \A d \in Devices : Runs(d) => status[ctl[d].cursor] = "Executing"

LEMMA OnlyEngine ==
  ASSUME WebThreads = {}, [Next]_vars
  PROVE  \/ \E s \in Slots, v \in Values : EngineSubmit(s, v)
         \/ Store(Engine)
         \/ SubmitterCrash({Engine})
         \/ \E d \in Devices : Control(d)
         \/ CollectorCrash
         \/ UNCHANGED vars
<1>1. ~SubmitterCrash(WebThreads)
  BY DEF SubmitterCrash
<1>2. QED
  BY <1>1 DEF Next, Submitters

LEMMA EngineStep ==
  ASSUME WebThreads = {}, EngineInv, [Next]_vars
  PROVE  EngineInv'
<1> USE DEF counters, history, slotVars
<1> DEFINE Handshake ==
      /\ "desired" \in sub[Engine].todo => "status" \in sub[Engine].todo
      /\ "status" \in sub[Engine].todo => status[sub[Engine].slot] \notin Busy
      /\ \A d \in Devices : Runs(d) => status[ctl[d].cursor] = "Executing"
<1> SUFFICES Handshake'
  BY LifeStep DEF EngineInv
<1>1. Engine \in Submitters /\ sub[Engine].slot \in Slots
  BY DEF Submitters, EngineInv, LifeInv, TypeOK
<1>2. \A d \in Devices : ctl[d].cursor \in Slots
  BY DEF EngineInv, LifeInv, TypeOK
<1>3. ASSUME NEW s \in Slots, NEW v \in Values, EngineSubmit(s, v)
      PROVE  Handshake'
  <2>1. sub'[Engine].slot = s /\ sub'[Engine].todo = SubmitFields
    BY <1>1, <1>3 DEF EngineSubmit, BeginSubmit, EngineInv, LifeInv, TypeOK
  <2>2. UNCHANGED <<status, ctl>> /\ status[s] \notin Busy
    BY <1>3 DEF EngineSubmit, BeginSubmit
  <2>3. QED
    BY <2>1, <2>2 DEF SubmitFields, EngineInv, Runs
<1>4. ASSUME NEW f, f \in sub[Engine].todo, Stored(Engine, f)
      PROVE  /\ sub'[Engine].slot = sub[Engine].slot
             /\ sub'[Engine].todo = sub[Engine].todo \ {f}
  BY <1>1, <1>4 DEF Stored, EngineInv, LifeInv, TypeOK
<1>5. CASE StoreDesired(Engine) \/ StoreCleared(Engine)
  <2>1. UNCHANGED <<status, ctl>>
    BY <1>5 DEF StoreDesired, StoreCleared
  <2>2. \E f \in {"desired", "result"} :
          f \in sub[Engine].todo /\ Stored(Engine, f)
    BY <1>5 DEF StoreDesired, StoreCleared, MayStore
  <2>3. QED
    BY <1>4, <2>1, <2>2 DEF EngineInv, Runs
<1>6. CASE StorePending(Engine)
  <2>1. /\ "status" \in sub[Engine].todo /\ "desired" \notin sub[Engine].todo
        /\ Stored(Engine, "status")
    BY <1>6 DEF StorePending, MayStore
  <2>2. \A s \in Slots : s # sub[Engine].slot => status'[s] = status[s]
    BY <1>1, <1>6 DEF StorePending, EngineInv, LifeInv, TypeOK
  <2>3. UNCHANGED ctl
    BY <1>6 DEF StorePending
  <2>4. \A d \in Devices : Runs(d) => ctl[d].cursor # sub[Engine].slot
    BY <2>1 DEF EngineInv, Busy
  <2>5. QED
    BY <1>2, <1>4, <2>1, <2>2, <2>3, <2>4 DEF EngineInv, Runs
<1>7. CASE SubmitterCrash({Engine})
  BY <1>1, <1>7 DEF SubmitterCrash, NoSubmission, EngineInv, Runs
<1>8. ASSUME NEW d \in Devices, Control(d) PROVE Handshake'
  <2>1. \A s \in Slots : s # ctl[d].cursor => status'[s] = status[s]
    BY <1>8, ControlEffect DEF EngineInv, LifeInv
  <2>2. /\ Runs(d)' => /\ ctl'[d].cursor = ctl[d].cursor
                       /\ status'[ctl[d].cursor] = "Executing"
        /\ status'[ctl[d].cursor] \in Busy => status[ctl[d].cursor] \in Busy
    BY <1>8, ControlEffect DEF EngineInv, LifeInv, Busy, Terminal
  <2>3. \A e \in Devices : e # d /\ Runs(e)' =>
          /\ Runs(e) /\ ctl'[e] = ctl[e]
          /\ status'[ctl[e].cursor] = status[ctl[e].cursor]
    <3>1. \A e \in Devices : e # d =>
            ctl'[e] = ctl[e] /\ (Runs(e)' => Runs(e))
      BY <1>8, OtherThreads DEF EngineInv, LifeInv, Runs
    <3>2. CASE Holds(d) \/ Runs(d)
      <4>1. \A e \in Devices : Runs(e) => DeviceOf[ctl[e].cursor] = e
        BY DEF EngineInv, LifeInv, OwnSlot, Runs
      <4>2. DeviceOf[ctl[d].cursor] = d
        BY <3>2 DEF EngineInv, LifeInv, OwnSlot, Holds, Runs
      <4>3. QED
        BY <1>2, <2>1, <3>1, <4>1, <4>2
    <3>3. CASE ~(Holds(d) \/ Runs(d))
      <4>1. status'[ctl[d].cursor] = status[ctl[d].cursor]
        BY <1>8, <3>3, ControlEffect DEF EngineInv, LifeInv
      <4>2. QED
        BY <1>2, <2>1, <3>1, <4>1
    <3>4. QED
      BY <3>2, <3>3
  <2>4. UNCHANGED sub
    BY <1>8
    DEF Control, ScanPast, ScanHit, ReadDesired, MarkExecuting, Reject,
        WriteOk, WriteFailed, ReadBack, CompleteStatus, CompleteResult
  <2>5. QED
    BY <1>1, <2>1, <2>2, <2>3, <2>4 DEF EngineInv
<1>9. CASE CollectorCrash
  BY <1>9 DEF CollectorCrash, ScanFromStart, EngineInv, Runs
<1>10. CASE UNCHANGED vars
  BY <1>10 DEF vars, EngineInv, Runs
<1>11. QED
  BY <1>3, <1>5, <1>6, <1>7, <1>8, <1>9, <1>10, OnlyEngine DEF Store

LEMMA EngineInit == Init => EngineInv
  BY InitType
  DEF Init, EngineInv, LifeInv, OwnSlot, Holds, Runs, ScanFromStart,
      NoSubmission, Submitters

(* The engine never overwrites a command in progress when nobody else      *)
(* submits.                                                                *)
THEOREM EngineRespectsBusy ==
  ASSUME WebThreads = {} PROVE Spec => BusyRespected
<1>1. EngineInv /\ [Next]_vars => EngineInv'
  BY EngineStep
<1>2. EngineInv =>
        [\A s \in Slots :
           (sub[Engine].slot = s /\ "status" \in sub[Engine].todo
              /\ posted'[s] # posted[s] /\ sub'[Engine] # sub[Engine])
           => status[s] \notin Busy]_vars
  BY DEF EngineInv
<1>3. QED
  BY <1>1, <1>2, EngineInit, PTL DEF Spec, BusyRespected

-----------------------------------------------------------------------------
(* Refinement of the mailbox                                               *)

BoxOf(s) ==
  [phase |-> status[s],
   value |-> IF status[s] \in Busy THEN desired[s] ELSE Zero]

LEMMA BoxFrame ==
  ASSUME \A s \in Slots : status'[s] = status[s],
         \A s \in Slots : status[s] \in Busy => desired'[s] = desired[s]
  PROVE  box' = box
  BY DEF box

(* One slot's box changes to b and the others stay: the mailbox's EXCEPT.  *)
LEMMA BoxChange ==
  ASSUME NEW c \in Slots, NEW b,
         \A s \in Slots \ {c} : status'[s] = status[s] /\ desired'[s] = desired[s],
         BoxOf(c)' = b
  PROVE  box' = [box EXCEPT ![c] = b]
  BY DEF box, BoxOf

LEMMA MailboxStep ==
  ASSUME WebThreads = {}, EngineInv, SourceInv, [Next]_vars
  PROVE  [Mailbox!Next]_box
<1> USE DEF counters, history, slotVars
<1>1. Engine \in Submitters /\ sub[Engine].slot \in Slots
  BY DEF Submitters, SourceInv, TypeOK
<1>2. CASE UNCHANGED <<status, desired>>
  BY <1>2, BoxFrame
<1>3. CASE StoreDesired(Engine)
  <2>1. status[sub[Engine].slot] \notin Busy
    BY <1>3 DEF StoreDesired, MayStore, EngineInv
  <2>2. \A s \in Slots : s # sub[Engine].slot => desired'[s] = desired[s]
    BY <1>1, <1>3 DEF StoreDesired, SourceInv, TypeOK
  <2>3. UNCHANGED status
    BY <1>3 DEF StoreDesired
  <2>4. QED
    BY <2>1, <2>2, <2>3, BoxFrame
<1>4. CASE StorePending(Engine)
  <2>0. PICK c \in Slots : c = sub[Engine].slot
    BY <1>1
  <2>1. status[c] \notin Busy /\ desired[c] \in asked[c]
    BY <1>1, <1>4, <2>0 DEF StorePending, MayStore, EngineInv, SourceInv, SubmissionAsked
  <2>2. desired[c] \in Values
    BY <2>1 DEF SourceInv, TypeOK
  <2>3. /\ status'[c] = "Pending" /\ desired' = desired
        /\ \A s \in Slots : s # c => status'[s] = status[s]
    BY <2>0, <1>4 DEF StorePending, SourceInv, TypeOK
  <2>4. BoxOf(c)' = [phase |-> "Pending", value |-> desired[c]]
    BY <2>3 DEF BoxOf, Busy
  <2>5. box' = [box EXCEPT ![c] = [phase |-> "Pending", value |-> desired[c]]]
    BY <2>3, <2>4, BoxChange
  <2>6. box[c].phase \notin {"Pending", "Executing"}
    BY <2>1 DEF box, Busy
  <2>7. Mailbox!Post(c, desired[c])
    BY <2>5, <2>6 DEF Mailbox!Post
  <2>8. QED
    BY <2>2, <2>7 DEF Mailbox!Next
<1>5. ASSUME NEW d \in Devices, MarkExecuting(d) PROVE Mailbox!Next
  <2>0. PICK c \in Slots : c = ctl[d].cursor
    BY DEF SourceInv, TypeOK
  <2>1. c \in Slots /\ status[c] = "Pending"
    BY <1>5, <2>0 DEF MarkExecuting, EngineInv, LifeInv, Holds, TypeOK
  <2>2. /\ status'[c] = "Executing" /\ desired' = desired
        /\ \A s \in Slots : s # c => status'[s] = status[s]
    BY <1>5, <2>0 DEF MarkExecuting, SourceInv, TypeOK
  <2>3. box[c] = [phase |-> "Pending", value |-> desired[c]]
    BY <2>1 DEF box, Busy
  <2>4. BoxOf(c)' = [box[c] EXCEPT !.phase = "Executing"]
    BY <2>2, <2>3 DEF BoxOf, Busy
  <2>5. box' = [box EXCEPT ![c] = [box[c] EXCEPT !.phase = "Executing"]]
    BY <2>1, <2>2, <2>4, BoxChange
  <2>6. Mailbox!Take(c)
    BY <2>3, <2>5 DEF Mailbox!Take
  <2>7. QED
    BY <2>1, <2>6 DEF Mailbox!Next
<1>6. ASSUME NEW d \in Devices, CompleteStatus(d) PROVE Mailbox!Next
  <2>0. PICK c \in Slots, o \in Terminal : c = ctl[d].cursor /\ o = ctl[d].outcome
    BY DEF SourceInv, TypeOK
  <2>1. c \in Slots /\ o \in Terminal /\ status[c] = "Executing"
    BY <1>6, <2>0 DEF CompleteStatus, EngineInv, LifeInv, Runs, TypeOK
  <2>2. /\ status'[c] = o /\ desired' = desired
        /\ \A s \in Slots : s # c => status'[s] = status[s]
    BY <1>6, <2>0 DEF CompleteStatus, SourceInv, TypeOK
  <2>3. BoxOf(c)' = [phase |-> o, value |-> Zero]
    BY <2>1, <2>2 DEF BoxOf, Busy, Terminal
  <2>4. box' = [box EXCEPT ![c] = [phase |-> o, value |-> Zero]]
    BY <2>1, <2>2, <2>3, BoxChange
  <2>5. box[c].phase = "Executing"
    BY <2>1 DEF box
  <2>6. Mailbox!End(c, o)
    BY <2>4, <2>5 DEF Mailbox!End, Mailbox!Empty
  <2>7. QED
    BY <2>1, <2>6 DEF Mailbox!Next, Terminal
<1>7. QED
  BY <1>2, <1>3, <1>4, <1>5, <1>6, OnlyEngine
  DEF EngineSubmit, BeginSubmit, Store, StoreCleared, SubmitterCrash, Control,
      ScanPast, ScanHit, ReadDesired, Reject, WriteOk, WriteFailed, ReadBack,
      CompleteResult, CollectorCrash, vars

(* With the engine as the only submitter the command table implements the  *)
(* mailbox, through crashes of the engine and of the collector.            *)
THEOREM EngineImplementsMailbox ==
  ASSUME WebThreads = {} PROVE Spec => MailboxSpec
<1>1. Init => Mailbox!Init
  BY DEF Init, Mailbox!Init, Mailbox!Empty, box, Busy
<1>2. EngineInv /\ [Next]_vars => EngineInv'
  BY EngineStep
<1>3. Init => SourceInv
  <2>1. Init => /\ SubmissionAsked /\ SlotAsked
                /\ ClaimNotIdle /\ ExecutedWasSubmitted
    BY DEF Init, SubmissionAsked, SlotAsked, ClaimNotIdle,
           ExecutedWasSubmitted, NoSubmission, ScanFromStart
  <2>2. QED
    BY <2>1, InitType DEF SourceInv
<1>4. EngineInv /\ SourceInv /\ [Next]_vars => [Mailbox!Next]_box
  BY MailboxStep
<1>5. QED
  BY <1>1, <1>2, <1>3, <1>4, EngineInit, SourceStep, PTL
  DEF Spec, MailboxSpec, Mailbox!Spec

-----------------------------------------------------------------------------
(* What a successful slot says                                             *)

(* A claim carries the slot's desired value; an acknowledged write left it *)
(* in written; so does a slot that reports Success and that the engine is  *)
(* not about to overwrite.                                                 *)
ClaimValue ==
  \A d \in Devices :
    ctl[d].pc \in {"mark", "write"} => ctl[d].value = desired[ctl[d].cursor]

Acknowledged(d) ==
  \/ ctl[d].pc = "readback"
  \/ /\ ctl[d].pc = "complete"
     /\ "status" \in ctl[d].todo
     /\ ctl[d].outcome = "Success"

AckValue ==
  \A d \in Devices :
    Acknowledged(d) => written[ctl[d].cursor] = desired[ctl[d].cursor]

SuccessValue ==
  \A s \in Slots :
    ( /\ status[s] = "Success"
      /\ ~("status" \in sub[Engine].todo /\ sub[Engine].slot = s) )
    => written[s] = desired[s]

ValueInv == EngineInv /\ ClaimValue /\ AckValue /\ SuccessValue

LEMMA ValueControl ==
  ASSUME ValueInv, NEW d \in Devices, Control(d)
  PROVE  ClaimValue' /\ AckValue' /\ SuccessValue'
<1> USE DEF counters, history, slotVars
<1>1. TypeOK /\ ctl[d].cursor \in Slots
  BY DEF ValueInv, EngineInv, LifeInv, TypeOK
<1>2. \A e \in Devices : e # d => ctl'[e] = ctl[e]
  BY <1>1, OtherThreads
<1>3. UNCHANGED <<sub, desired>>
  BY DEF Control, ScanPast, ScanHit, ReadDesired, MarkExecuting, Reject,
         WriteOk, WriteFailed, ReadBack, CompleteStatus, CompleteResult
<1>4. ASSUME UNCHANGED <<status, written>> PROVE SuccessValue'
  BY <1>3, <1>4 DEF ValueInv, SuccessValue
<1>5. ASSUME UNCHANGED written,
             ctl'[d].pc \in {"mark", "write"} =>
               ctl'[d].value = desired[ctl'[d].cursor],
             Acknowledged(d)' => written[ctl'[d].cursor] = desired[ctl'[d].cursor]
      PROVE  ClaimValue' /\ AckValue'
  BY <1>2, <1>3, <1>5 DEF ValueInv, ClaimValue, AckValue, Acknowledged
<1>6. CASE ScanPast(d) \/ ScanHit(d) \/ ReadDesired(d)
  BY <1>1, <1>4, <1>5, <1>6
  DEF ScanPast, ScanHit, ReadDesired, Acknowledged, TypeOK
<1>7. CASE MarkExecuting(d)
  <2>1. \A s \in Slots : status'[s] = "Success" => status[s] = "Success"
    BY <1>1, <1>7 DEF MarkExecuting, TypeOK
  <2>2. UNCHANGED written
    BY <1>7 DEF MarkExecuting
  <2>3. SuccessValue'
    BY <1>3, <2>1, <2>2 DEF ValueInv, SuccessValue
  <2>4. ClaimValue' /\ AckValue'
    BY <1>1, <1>5, <1>7 DEF MarkExecuting, Acknowledged, ValueInv, ClaimValue, TypeOK
  <2>5. QED
    BY <2>3, <2>4
<1>8. CASE WriteOk(d)
  <2>1. Runs(d) /\ status[ctl[d].cursor] = "Executing"
    BY <1>8 DEF WriteOk, Runs, ValueInv, EngineInv
  <2>2. \A s \in Slots :
          written'[s] = IF s = ctl[d].cursor THEN desired[s] ELSE written[s]
    BY <1>1, <1>8 DEF WriteOk, ValueInv, ClaimValue, TypeOK
  <2>3. UNCHANGED status
    BY <1>8 DEF WriteOk
  <2>4. SuccessValue'
    BY <1>3, <2>1, <2>2, <2>3 DEF ValueInv, SuccessValue
  <2>5. ctl'[d].pc = "readback" /\ ctl'[d].cursor = ctl[d].cursor
    BY <1>1, <1>8 DEF WriteOk, TypeOK
  <2>6. \A e \in Devices : ctl[e].cursor \in Slots
    BY <1>1 DEF TypeOK
  <2>7. AckValue'
    BY <1>1, <1>2, <1>3, <2>2, <2>5, <2>6
    DEF ValueInv, AckValue, Acknowledged
  <2>8. ClaimValue'
    BY <1>2, <1>3, <2>5 DEF ValueInv, ClaimValue
  <2>9. QED
    BY <2>4, <2>7, <2>8
<1>9. CASE Reject(d) \/ WriteFailed(d)
  <2>1. ctl' = [ctl EXCEPT ![d] = Completing(d, "Failed", Zero)]
    BY <1>9 DEF Reject, WriteFailed
  <2>2. ctl'[d].pc = "complete" /\ ctl'[d].outcome = "Failed"
    BY <1>1, <2>1 DEF Completing, TypeOK
  <2>3. UNCHANGED <<status, written>>
    BY <1>9 DEF Reject, WriteFailed
  <2>4. QED
    BY <1>4, <1>5, <2>2, <2>3 DEF Acknowledged
<1>10. CASE ReadBack(d)
  <2>1. PICK res : ctl' = [ctl EXCEPT ![d] = Completing(d, "Success", res)]
    BY <1>10 DEF ReadBack
  <2>2. ctl'[d].pc = "complete" /\ ctl'[d].cursor = ctl[d].cursor
    BY <1>1, <2>1 DEF Completing, TypeOK
  <2>3. UNCHANGED <<status, written>> /\ Acknowledged(d)
    BY <1>10 DEF ReadBack, Acknowledged
  <2>4. QED
    BY <1>4, <1>5, <2>2, <2>3 DEF ValueInv, AckValue
<1>11. CASE CompleteStatus(d)
  <2>1. \A s \in Slots :
          status'[s] = IF s = ctl[d].cursor THEN ctl[d].outcome ELSE status[s]
    BY <1>1, <1>11 DEF CompleteStatus, TypeOK
  <2>2. UNCHANGED written
    BY <1>11 DEF CompleteStatus
  <2>3. ctl[d].outcome = "Success" => Acknowledged(d)
    BY <1>11 DEF CompleteStatus, Acknowledged
  <2>4. SuccessValue'
    BY <1>3, <2>1, <2>2, <2>3 DEF ValueInv, SuccessValue, AckValue
  <2>5. ctl'[d].pc \in {"scan", "complete"} /\ ~Acknowledged(d)'
    BY <1>1, <1>11
    DEF CompleteStatus, Completed, ScanFromStart, Acknowledged, TypeOK
  <2>6. QED
    BY <1>5, <2>2, <2>4, <2>5
<1>12. CASE CompleteResult(d)
  <2>1. UNCHANGED <<status, written>>
    BY <1>12 DEF CompleteResult
  <2>2. \/ ctl'[d].pc = "scan"
        \/ /\ ctl'[d].pc = "complete" /\ ctl'[d].cursor = ctl[d].cursor
           /\ Acknowledged(d)' => Acknowledged(d)
    BY <1>1, <1>12
    DEF CompleteResult, Completed, ScanFromStart, Acknowledged, TypeOK
  <2>3. Acknowledged(d)' => /\ Acknowledged(d)
                            /\ ctl'[d].cursor = ctl[d].cursor
    BY <2>2 DEF Acknowledged
  <2>4. ctl'[d].pc \notin {"mark", "write"}
    BY <2>2
  <2>5. QED
    BY <1>4, <1>5, <2>1, <2>3, <2>4 DEF ValueInv, AckValue
<1>13. QED
  BY <1>6, <1>7, <1>8, <1>9, <1>10, <1>11, <1>12 DEF Control

LEMMA ValueStep ==
  ASSUME WebThreads = {}, MaxSubmitterCrashes = 0, ValueInv, [Next]_vars
  PROVE  ValueInv'
<1> USE DEF counters, history, slotVars
<1> SUFFICES ClaimValue' /\ AckValue' /\ SuccessValue'
  BY EngineStep DEF ValueInv
<1>1. /\ TypeOK /\ Engine \in Submitters /\ sub[Engine].slot \in Slots
      /\ \A d \in Devices : ctl[d].cursor \in Slots
  BY DEF Submitters, ValueInv, EngineInv, LifeInv, TypeOK
<1>2. ASSUME NEW s \in Slots, NEW v \in Values, EngineSubmit(s, v)
      PROVE  ClaimValue' /\ AckValue' /\ SuccessValue'
  BY <1>1, <1>2
  DEF EngineSubmit, BeginSubmit, ValueInv, ClaimValue, AckValue, Acknowledged,
      SuccessValue
<1>3. CASE StoreDesired(Engine)
  <2>1. /\ "status" \in sub[Engine].todo
        /\ status[sub[Engine].slot] \notin Busy
    BY <1>3 DEF StoreDesired, MayStore, ValueInv, EngineInv
  <2>2. /\ sub'[Engine].slot = sub[Engine].slot
        /\ "status" \in sub'[Engine].todo
    BY <1>1, <1>3, <2>1 DEF StoreDesired, Stored, TypeOK
  <2>3. \A s \in Slots : s # sub[Engine].slot => desired'[s] = desired[s]
    BY <1>1, <1>3 DEF StoreDesired, TypeOK
  <2>4. UNCHANGED <<status, ctl, written>>
    BY <1>3 DEF StoreDesired
  <2>5. \A d \in Devices :
          (ctl[d].pc \in {"mark", "write"} \/ Acknowledged(d))
          => ctl[d].cursor # sub[Engine].slot
    BY <2>1 DEF ValueInv, EngineInv, LifeInv, Holds, Runs, Acknowledged, Busy
  <2>6. QED
    BY <1>1, <2>2, <2>3, <2>4, <2>5
    DEF ValueInv, ClaimValue, AckValue, Acknowledged, SuccessValue
<1>4. CASE StorePending(Engine)
  <2>1. \A s \in Slots :
          status'[s] = IF s = sub[Engine].slot THEN "Pending" ELSE status[s]
    BY <1>1, <1>4 DEF StorePending, TypeOK
  <2>2. UNCHANGED <<desired, ctl, written>>
    BY <1>4 DEF StorePending
  <2>3. QED
    BY <1>1, <2>1, <2>2
    DEF ValueInv, ClaimValue, AckValue, Acknowledged, SuccessValue
<1>5. CASE StoreCleared(Engine)
  <2>1. UNCHANGED <<desired, status, ctl, written>>
    BY <1>5 DEF StoreCleared
  <2>2. /\ sub'[Engine].slot = sub[Engine].slot
        /\ "status" \in sub[Engine].todo => "status" \in sub'[Engine].todo
    BY <1>1, <1>5 DEF StoreCleared, Stored, TypeOK
  <2>3. QED
    BY <2>1, <2>2
    DEF ValueInv, ClaimValue, AckValue, Acknowledged, SuccessValue
<1>6. ~SubmitterCrash({Engine})
  BY <1>1 DEF SubmitterCrash, TypeOK
<1>7. ASSUME NEW d \in Devices, Control(d)
      PROVE  ClaimValue' /\ AckValue' /\ SuccessValue'
  BY <1>7, ValueControl
<1>8. CASE CollectorCrash
  BY <1>8
  DEF CollectorCrash, ScanFromStart, ValueInv, ClaimValue, AckValue,
      Acknowledged, SuccessValue
<1>9. CASE UNCHANGED vars
  BY <1>9
  DEF vars, ValueInv, ClaimValue, AckValue, Acknowledged, SuccessValue
<1>10. QED
  BY <1>2, <1>3, <1>4, <1>5, <1>6, <1>7, <1>8, <1>9, OnlyEngine DEF Store

(* With the engine as the only submitter, and as long as it does not die   *)
(* half-way through a submission, a slot that reports Success holds the    *)
(* value its device acknowledged, through any crash of the collector.      *)
THEOREM EngineSuccessIsTrue ==
  ASSUME WebThreads = {}, MaxSubmitterCrashes = 0
  PROVE  Spec => []SuccessIsForDesired
<1>1. Init => ValueInv
  <2>1. Init => ClaimValue /\ AckValue /\ SuccessValue
    BY DEF Init, ClaimValue, AckValue, Acknowledged, SuccessValue,
           ScanFromStart
  <2>2. QED
    BY <2>1, EngineInit DEF ValueInv
<1>2. ValueInv /\ [Next]_vars => ValueInv'
  BY ValueStep
<1>3. ValueInv => SuccessIsForDesired
  BY DEF ValueInv, SuccessValue, SuccessIsForDesired, SubmissionInFlight,
         Submitters
<1>4. QED
  BY <1>1, <1>2, <1>3, PTL DEF Spec

=============================================================================
