-------------------------- MODULE AlarmServiceProofs --------------------------
(***************************************************************************)
(* Proofs about AlarmService, for every set of rules, any plant and any    *)
(* number of faults: alarm_events shows one evaluation of the rules at a   *)
(* time and keeps what an operator decided, and between two cycles the     *)
(* database, the shared memory and the service agree.                      *)
(*                                                                         *)
(* The argument: what the open transaction sees of a row carries the same  *)
(* decision as the committed row (Marked), and the transaction's open rows *)
(* are, when it is about to commit, the alarms of this cycle (Written).    *)
(***************************************************************************)
EXTENDS AlarmService, TLAPS

Mark(row) == IF row.status \in {"acked", "silenced"} THEN row.status ELSE "none"

Pcs ==
    {"down", "start", "sleep", "load", "collect", "begin", "upsert", "commit",
     "publish", "leave"}

Types ==
    /\ pc \in Pcs
    /\ rules \subseteq RuleIds
    /\ table \subseteq RuleIds
    /\ todo \subseteq RuleIds
    /\ found \subseteq RuleIds
    /\ alarms \subseteq RuleIds
    /\ locked \subseteq RuleIds
    /\ view \in [RuleIds -> Rows]
    /\ events \in [RuleIds -> Rows]

(* Rows are locked only by a transaction.                                  *)
Unlocked == pc \notin {"upsert", "commit"} => locked = {}

(* The rows written so far, and all of them before the COMMIT.             *)
Written ==
    /\ pc = "upsert" =>
          /\ todo \subseteq alarms
          /\ locked = alarms \ todo
          /\ \A r \in locked : view[r].open
    /\ pc = "commit" => \A r \in RuleIds : Seen(r).open <=> r \in alarms

(* No statement of the transaction touches a decision.                     *)
Marked == \A r \in RuleIds : Mark(Seen(r)) = Mark(events[r])

(* What is published was committed, unless the service is leaving.         *)
Published ==
    /\ pc = "publish" /\ ~leaving => Open = alarms
    /\ AgreesBetweenCycles

BoardInv == Types /\ Unlocked /\ Written /\ Marked

-----------------------------------------------------------------------------
(* Rows stay rows, and neither an upsert nor a clearing changes a decision. *)
LEMMA RowFacts ==
  ASSUME NEW row \in Rows
  PROVE  /\ Raised(row) \in Rows /\ Raised(row).open /\ Mark(Raised(row)) = Mark(row)
         /\ Cleared(row) \in Rows /\ ~Cleared(row).open /\ Mark(Cleared(row)) = Mark(row)
BY DEF Rows, Raised, Cleared, Mark

LEMMA DecidedFacts ==
  ASSUME NEW row \in Rows, NEW decision \in {"acked", "silenced"}
  PROVE  /\ Decided(row, decision) \in Rows
         /\ Decided(row, decision).open = row.open
         /\ \/ Decided(row, decision) = row
            \/ row.open /\ Mark(row) = "none" /\ Mark(Decided(row, decision)) = decision
BY DEF Rows, Decided, Mark

LEMMA NoViewIsTyped == NoView \in [RuleIds -> Rows]
BY DEF NoView, NoRow, Rows

LEMMA SeenTyped == Types => \A r \in RuleIds : Seen(r) \in Rows
BY DEF Types, Seen

(* When no row is locked the transaction sees the committed rows.          *)
LEMMA SeenUnlocked ==
  ASSUME locked = {} PROVE \A r \in RuleIds : Seen(r) = events[r]
BY DEF Seen

(* Outside a transaction there is nothing to show but types.               *)
LEMMA Elsewhere ==
  ASSUME Types', locked' = {}, pc' \notin {"upsert", "commit"}
  PROVE  BoardInv'
<1>1. Unlocked' /\ Written'
  BY DEF Unlocked, Written
<1>2. Marked'
  BY DEF Marked, Seen
<1> QED BY <1>1, <1>2 DEF BoardInv

(* Steps that leave the transaction alone.                                 *)
LEMMA SameTransaction ==
  ASSUME BoardInv, Types', UNCHANGED <<pc, todo, alarms, view, locked, events>>
  PROVE  BoardInv'
BY DEF BoardInv, Unlocked, Written, Marked, Seen

LEMMA InitBoard == Init => BoardInv
<1> SUFFICES ASSUME Init PROVE BoardInv
  OBVIOUS
<1>1. Types
  BY NoViewIsTyped DEF Init, Types, Pcs, NoRow, Rows
<1>2. Unlocked /\ Written /\ Marked
  BY DEF Init, Unlocked, Written, Marked, Seen
<1> QED BY <1>1, <1>2 DEF BoardInv

-----------------------------------------------------------------------------
(* The service's steps outside the transaction.                            *)
LEMMA LoopKeepsBoard ==
  ASSUME BoardInv, Start \/ Reconnect \/ ReconnectFails \/ Cycle \/ Load \/ LoadFails
                     \/ Collected \/ Leave \/ \E r \in RuleIds : ReadPoint(r)
  PROVE  BoardInv'
<1> USE DEF Types, Pcs
<1>1. Types
  BY DEF BoardInv
<1>2. locked = {}
  BY DEF BoardInv, Unlocked, Start, Reconnect, ReconnectFails, Cycle, Load, LoadFails,
                   Collected, Leave, ReadPoint
<1>3. CASE Start
  BY <1>1, <1>2, <1>3, Elsewhere DEF Start, Loads, database
<1>10. CASE Reconnect
  BY <1>1, <1>2, <1>10, Elsewhere DEF Reconnect, Loads, database
<1>11. CASE ReconnectFails
  BY <1>1, <1>2, <1>11, Elsewhere DEF ReconnectFails, process, database
<1>4. CASE Cycle
  BY <1>1, <1>2, <1>4, Elsewhere DEF Cycle, database
<1>5. CASE Load
  BY <1>1, <1>2, <1>5, Elsewhere DEF Load, database
<1>6. CASE LoadFails
  BY <1>1, <1>2, <1>6, Elsewhere DEF LoadFails, database
<1>7. CASE Collected
  BY <1>1, <1>2, <1>7, Elsewhere DEF Collected, database
<1>8. CASE Leave
  BY <1>1, <1>2, <1>8, Elsewhere DEF Leave, database
<1>9. CASE \E r \in RuleIds : ReadPoint(r)
  BY <1>1, <1>2, <1>9, Elsewhere DEF ReadPoint, database
<1> QED BY <1>3, <1>4, <1>5, <1>6, <1>7, <1>8, <1>9, <1>10, <1>11

LEMMA PublishKeepsBoard == BoardInv /\ Publish => BoardInv'
<1> SUFFICES ASSUME BoardInv, Publish PROVE BoardInv'
  OBVIOUS
<1>1. Types /\ locked = {}
  BY DEF BoardInv, Unlocked, Publish
<1>2. pc' \in {"down", "sleep"} /\ UNCHANGED <<view, locked, events, table>>
  BY DEF Publish, Ends, database
<1>3. /\ todo' \subseteq RuleIds /\ found' \subseteq RuleIds
      /\ alarms' \subseteq RuleIds /\ rules' \subseteq RuleIds
  BY <1>1 DEF Types, Publish, Ends, process
<1>4. Types'
  BY <1>1, <1>2, <1>3 DEF Types, Pcs
<1> QED BY <1>1, <1>2, <1>4, Elsewhere

(* The statements of the transaction.                                      *)
LEMMA BeginKeepsBoard == BoardInv /\ Begin => BoardInv'
<1> SUFFICES ASSUME BoardInv, Begin PROVE BoardInv'
  OBVIOUS
<1>1. Types
  BY DEF BoardInv
<1>2. Types'
  BY <1>1 DEF Types, Pcs, Begin
<1>3. Unlocked' /\ Written'
  BY DEF Unlocked, Written, Begin
<1>4. Marked'
  BY DEF Marked, Seen, Begin
<1> QED BY <1>2, <1>3, <1>4 DEF BoardInv

LEMMA UpsertKeepsBoard ==
  ASSUME BoardInv, NEW x \in RuleIds, Upsert(x) PROVE BoardInv'
<1>1. Types /\ Written /\ Marked
  BY DEF BoardInv
<1>2. Seen(x) \in Rows
  BY <1>1, SeenTyped
<1>3. view' = [view EXCEPT ![x] = Raised(Seen(x))] /\ locked' = locked \cup {x}
      /\ events' = events /\ pc' = "upsert" /\ pc = "upsert"
  BY DEF Upsert
<1>4. view'[x] = Raised(Seen(x)) /\ \A r \in RuleIds \ {x} : view'[r] = view[r]
  BY <1>1, <1>3 DEF Types
<1>5. Types'
  BY <1>1, <1>2, <1>3, RowFacts DEF Types, Upsert
<1>6. Unlocked'
  BY <1>3 DEF Unlocked
<1>7. Written'
  <2>1. todo' \subseteq alarms' /\ locked' = alarms' \ todo'
    BY <1>1, <1>3 DEF Written, Upsert
  <2>2. \A r \in locked' : view'[r].open
    BY <1>1, <1>2, <1>3, <1>4, RowFacts DEF Written, Types
  <2> QED BY <2>1, <2>2, <1>3 DEF Written
<1>8. Marked'
  <2> SUFFICES ASSUME NEW r \in RuleIds PROVE Mark(Seen(r)') = Mark(events'[r])
    BY DEF Marked, Mark
  <2>1. CASE r = x
    <3>1. Seen(r)' = Raised(Seen(x))
      BY <2>1, <1>3, <1>4 DEF Seen
    <3> QED BY <3>1, <2>1, <1>1, <1>2, <1>3, RowFacts DEF Marked
  <2>2. CASE r # x
    <3>1. Seen(r)' = Seen(r)
      BY <2>2, <1>3, <1>4 DEF Seen
    <3> QED BY <3>1, <1>1, <1>3 DEF Marked
  <2> QED BY <2>1, <2>2
<1> QED BY <1>5, <1>6, <1>7, <1>8 DEF BoardInv

LEMMA ClearOthersKeepsBoard == BoardInv /\ ClearOthers => BoardInv'
<1> SUFFICES ASSUME BoardInv, ClearOthers PROVE BoardInv'
  OBVIOUS
<1>1. Types /\ Written /\ Marked
  BY DEF BoardInv
<1> DEFINE gone == {r \in RuleIds \ alarms : Seen(r).open}
<1>2. /\ pc = "upsert" /\ pc' = "commit" /\ todo = {}
      /\ view' = [r \in RuleIds |-> IF r \in gone THEN Cleared(Seen(r)) ELSE view[r]]
      /\ locked' = locked \cup gone
      /\ UNCHANGED <<process, events, table>>
  BY DEF ClearOthers
<1>3. \A r \in RuleIds : Seen(r) \in Rows
  BY <1>1, SeenTyped
<1>4. Types'
  <2>1. view' \in [RuleIds -> Rows]
    BY <1>1, <1>2, <1>3, RowFacts DEF Types
  <2> HIDE DEF gone
  <2>2. locked' \subseteq RuleIds
    BY <1>1, <1>2 DEF Types, gone
  <2> QED BY <2>1, <2>2, <1>1, <1>2 DEF Types, Pcs, process
<1>5. Unlocked'
  BY <1>2 DEF Unlocked
<1>6. \A r \in RuleIds : Seen(r)' = IF r \in gone THEN Cleared(Seen(r)) ELSE Seen(r)
  <2> SUFFICES ASSUME NEW r \in RuleIds
               PROVE  Seen(r)' = IF r \in gone THEN Cleared(Seen(r)) ELSE Seen(r)
    OBVIOUS
  <2>1. view'[r] = IF r \in gone THEN Cleared(Seen(r)) ELSE view[r]
    BY <1>2
  <2> QED BY <2>1, <1>2 DEF Seen
<1>7. Written'
  <2>1. locked = alarms /\ \A r \in locked : view[r].open
    BY <1>1, <1>2 DEF Written, Types
  <2> SUFFICES ASSUME NEW r \in RuleIds PROVE Seen(r)'.open <=> r \in alarms'
    BY <1>2 DEF Written
  <2>2. CASE r \in gone
    BY <2>2, <1>2, <1>3, <1>6, RowFacts DEF process
  <2>3. CASE r \in alarms
    BY <2>1, <2>3, <1>2, <1>6 DEF Seen, process
  <2>4. CASE r \notin gone /\ r \notin alarms
    BY <2>4, <1>2, <1>3, <1>6 DEF process, Rows
  <2> QED BY <2>2, <2>3, <2>4
<1>8. Marked'
  <2> SUFFICES ASSUME NEW r \in RuleIds PROVE Mark(Seen(r)') = Mark(events'[r])
    BY DEF Marked, Mark
  <2>1. Mark(Seen(r)) = Mark(events[r]) /\ Seen(r) \in Rows
    BY <1>1, <1>3 DEF Marked
  <2>2. Mark(Cleared(Seen(r))) = Mark(Seen(r))
    BY <2>1, RowFacts
  <2>3. Seen(r)' = Cleared(Seen(r)) \/ Seen(r)' = Seen(r)
    BY <1>6
  <2> QED BY <2>1, <2>2, <2>3, <1>2
<1> QED BY <1>4, <1>5, <1>7, <1>8 DEF BoardInv

(* The end of the transaction, one way or the other.                       *)
LEMMA EndKeepsBoard ==
  ASSUME BoardInv, Commit \/ SyncFails \/ Killed PROVE BoardInv'
<1>1. Types
  BY DEF BoardInv
<1>2. Committed \in [RuleIds -> Rows]
  BY <1>1, SeenTyped DEF Committed
<1>3. CASE Commit
  <2>1. pc' = "publish" /\ locked' = {} /\ view' = NoView /\ events' = Committed
        /\ UNCHANGED <<process, table>>
    BY <1>3 DEF Commit
  <2>2. Types'
    BY <1>1, <1>2, <2>1, NoViewIsTyped DEF Types, Pcs, process
  <2> QED BY <2>1, <2>2, Elsewhere
<1>4. CASE SyncFails
  <2>1. /\ pc' \in {"publish", "leave"} /\ locked' = {} /\ view' = NoView /\ todo' = {}
        /\ events' = events \/ events' = Committed
        /\ UNCHANGED <<rules, found, alarms, table>>
    BY <1>4 DEF SyncFails
  <2>2. events' \in [RuleIds -> Rows]
    BY <1>1, <1>2, <2>1 DEF Types
  <2>3. Types'
    BY <1>1, <2>1, <2>2, NoViewIsTyped DEF Types, Pcs
  <2> QED BY <2>1, <2>3, Elsewhere
<1>5. CASE Killed
  <2>1. pc' = "down" /\ locked' = {} /\ view' = NoView /\ UNCHANGED <<events, table>>
        /\ todo' = {} /\ found' = {} /\ alarms' = {} /\ rules' = {}
    BY <1>5 DEF Killed, Ends
  <2>2. Types'
    BY <1>1, <2>1, NoViewIsTyped DEF Types, Pcs
  <2> QED BY <2>1, <2>2, Elsewhere
<1> QED BY <1>3, <1>4, <1>5

(* The portal decides about rows no transaction has changed.               *)
LEMMA DecideKeepsBoard ==
  ASSUME BoardInv, NEW x \in RuleIds, NEW decision \in {"acked", "silenced"},
         Decide(x, decision)
  PROVE  BoardInv'
<1>1. Types /\ Unlocked /\ Written /\ Marked
  BY DEF BoardInv
<1>2. /\ events' = [events EXCEPT ![x] = Decided(@, decision)]
      /\ x \notin locked
      /\ UNCHANGED <<pc, process, view, locked, table>>
  BY DEF Decide
<1>3. events[x] \in Rows /\ events'[x] = Decided(events[x], decision)
      /\ \A r \in RuleIds \ {x} : events'[r] = events[r]
  BY <1>1, <1>2 DEF Types
<1>4. Types'
  BY <1>1, <1>2, <1>3, DecidedFacts DEF Types, process
<1>5. Seen(x) = events[x] /\ Seen(x)' = events'[x]
  BY <1>2 DEF Seen
<1>6. \A r \in RuleIds \ {x} : Seen(r)' = Seen(r)
  BY <1>2, <1>3 DEF Seen
<1>7. \A r \in RuleIds : Seen(r)'.open = Seen(r).open
  BY <1>3, <1>5, <1>6, DecidedFacts
<1>8. Unlocked' /\ Written'
  <2>1. Unlocked'
    BY <1>1, <1>2 DEF Unlocked
  <2>2. pc' = "commit" => \A r \in RuleIds : Seen(r)'.open <=> r \in alarms'
    BY <1>1, <1>2, <1>7 DEF Written, process
  <2> QED BY <2>1, <2>2, <1>1, <1>2 DEF Written, process
<1>9. Marked'
  <2> SUFFICES ASSUME NEW r \in RuleIds PROVE Mark(Seen(r)') = Mark(events'[r])
    BY DEF Marked, Mark
  <2>1. CASE r = x
    BY <2>1, <1>5
  <2>2. CASE r # x
    BY <2>2, <1>1, <1>3, <1>6 DEF Marked
  <2> QED BY <2>1, <2>2
<1> QED BY <1>4, <1>8, <1>9 DEF BoardInv

(* What happens around the service and the database.                       *)
LEMMA AroundKeepsBoard ==
  ASSUME BoardInv, Stop \/ EditRules \/ PointChanges \/ UNCHANGED vars PROVE BoardInv'
<1>1. Types
  BY DEF BoardInv
<1>2. /\ UNCHANGED <<pc, rules, found, todo, alarms, view, locked, events>>
      /\ table' \subseteq RuleIds
  BY <1>1 DEF Stop, EditRules, PointChanges, vars, process, database, Types
<1>3. Types'
  BY <1>1, <1>2 DEF Types
<1> QED BY <1>2, <1>3, SameTransaction

LEMMA NextKeepsBoard == BoardInv /\ [Next]_vars => BoardInv'
<1> SUFFICES ASSUME BoardInv, [Next]_vars PROVE BoardInv'
  OBVIOUS
<1> USE LoopKeepsBoard, PublishKeepsBoard, BeginKeepsBoard, UpsertKeepsBoard,
        ClearOthersKeepsBoard, EndKeepsBoard, DecideKeepsBoard, AroundKeepsBoard
<1>1. CASE Service
  BY <1>1 DEF Service
<1>2. CASE Start \/ Killed \/ Stop \/ EditRules \/ PointChanges \/ UNCHANGED vars
  BY <1>2
<1>3. CASE \E r \in RuleIds, decision \in {"acked", "silenced"} : Decide(r, decision)
  BY <1>3
<1> QED BY <1>1, <1>2, <1>3 DEF Next

(* The rows a transaction has changed are locked until it ends, are the    *)
(* alarms of one evaluation when it commits, and carry the operators'      *)
(* decisions of the committed rows (sync_active_alarms).                   *)
THEOREM BoardInvariant == Spec => []BoardInv
<1>1. Init => BoardInv
  BY InitBoard
<1>2. BoardInv /\ [Next]_vars => BoardInv'
  BY NextKeepsBoard
<1> QED BY <1>1, <1>2, PTL DEF Spec

-----------------------------------------------------------------------------
(***************************************************************************)
(* The service and the portal implement the board.                         *)
(***************************************************************************)
(* A step that leaves the committed rows and the evaluation alone.         *)
LEMMA Stutter ==
  ASSUME UNCHANGED <<alarms, events>> PROVE UNCHANGED Board!vars
BY DEF Board!vars, Open

(* A new evaluation, nothing committed.                                    *)
LEMMA Judged ==
  ASSUME events' = events, alarms' \subseteq RuleIds PROVE Board!Judge
BY DEF Board!Judge, Open

(* A COMMIT shows the whole evaluation and keeps every decision.           *)
LEMMA CommitShows ==
  ASSUME BoardInv, pc = "commit", events' = Committed, alarms' = alarms
  PROVE  /\ Open' = alarms
         /\ Board!Evaluate
<1>1. Types /\ Marked /\ \A r \in RuleIds : Seen(r).open <=> r \in alarms
  BY DEF BoardInv, Written
<1>2. \A r \in RuleIds : events'[r] = Seen(r)
  BY DEF Committed
<1>3. Open' = alarms
  BY <1>1, <1>2 DEF Open, Types
<1>4. \A r \in RuleIds : Mark(events'[r]) = Mark(events[r])
  BY <1>1, <1>2 DEF Marked
<1>5. [r \in RuleIds |-> Mark(events'[r])] = [r \in RuleIds |-> Mark(events[r])]
  BY <1>4
<1> QED BY <1>3, <1>5 DEF Board!Evaluate, Mark

LEMMA DecideShows ==
  ASSUME BoardInv, NEW x \in RuleIds, NEW decision \in {"acked", "silenced"},
         Decide(x, decision)
  PROVE  Board!Decide(x, decision) \/ UNCHANGED Board!vars
<1>1. events \in [RuleIds -> Rows]
  BY DEF BoardInv, Types
<1>2. events' = [events EXCEPT ![x] = Decided(@, decision)] /\ alarms' = alarms
  BY DEF Decide, process
<1>3. events[x] \in Rows /\ events'[x] = Decided(events[x], decision)
      /\ \A r \in RuleIds \ {x} : events'[r] = events[r]
  BY <1>1, <1>2
<1>4. CASE Decided(events[x], decision) = events[x]
  <2>1. events' = events
    BY <1>1, <1>2, <1>4
  <2> QED BY <2>1, <1>2, Stutter
<1>5. CASE /\ events[x].open /\ Mark(events[x]) = "none"
           /\ Mark(Decided(events[x], decision)) = decision
  <2>1. \A r \in RuleIds : events'[r].open = events[r].open
    BY <1>3, DecidedFacts
  <2>2. Open' = Open
    BY <2>1 DEF Open
  <2>3. x \in Open
    BY <1>5 DEF Open
  <2>4. [r \in RuleIds |-> Mark(events'[r])]
          = [[r \in RuleIds |-> Mark(events[r])] EXCEPT ![x] = decision]
    BY <1>3, <1>5
  <2> QED BY <2>2, <2>3, <2>4, <1>2, <1>5 DEF Board!Decide, Mark
<1> QED BY <1>3, <1>4, <1>5, DecidedFacts

LEMMA StepShows == BoardInv /\ [Next]_vars => [Board!Next]_(Board!vars)
<1> SUFFICES ASSUME BoardInv, [Next]_vars PROVE Board!Next \/ UNCHANGED Board!vars
  OBVIOUS
<1>1. Types
  BY DEF BoardInv
<1>2. CASE \/ Start \/ Reconnect \/ ReconnectFails \/ Cycle \/ Load \/ LoadFails
           \/ Begin \/ ClearOthers \/ Stop \/ EditRules \/ PointChanges \/ UNCHANGED vars
           \/ \E r \in RuleIds : ReadPoint(r) \/ Upsert(r)
  <2>1. UNCHANGED <<alarms, events>>
    BY <1>2 DEF Start, Reconnect, ReconnectFails, Cycle, Load, LoadFails, Begin, ClearOthers,
                Stop, EditRules, PointChanges, vars, process, database, ReadPoint, Upsert
  <2> QED BY <2>1, Stutter
<1>3. CASE Collected \/ Leave \/ Publish \/ Killed
  <2>1. events' = events /\ alarms' \subseteq RuleIds
    BY <1>1, <1>3 DEF Types, Collected, Leave, Publish, Killed, Ends, process, database
  <2> QED BY <2>1, Judged DEF Board!Next
<1>4. CASE Commit
  BY <1>4, CommitShows DEF Commit, process, Board!Next
<1>5. CASE SyncFails
  <2>1. events' = events \/ (pc = "commit" /\ events' = Committed)
    BY <1>5 DEF SyncFails
  <2>2. UNCHANGED alarms
    BY <1>5 DEF SyncFails
  <2> QED BY <2>1, <2>2, Stutter, CommitShows DEF Board!Next
<1>6. ASSUME NEW r \in RuleIds, NEW decision \in {"acked", "silenced"}, Decide(r, decision)
      PROVE  Board!Next \/ UNCHANGED Board!vars
  BY <1>6, DecideShows DEF Board!Next, Board!Marks
<1> QED BY <1>2, <1>3, <1>4, <1>5, <1>6 DEF Next, Service

LEMMA InitShows == Init => Board!Init
BY DEF Init, Board!Init, Open, NoRow

(* The rows a reader of alarm_events sees are those of one evaluation at a *)
(* time, whatever statement of sync_active_alarms fails or is the last one *)
(* of a killed process, and a decision taken in the portal meanwhile stays.*)
THEOREM OneEvaluationAtATime == Spec => BoardIsOneEvaluation
<1>1. Init => Board!Init
  BY InitShows
<1>2. BoardInv /\ [Next]_vars => [Board!Next]_(Board!vars)
  BY StepShows
<1> QED BY <1>1, <1>2, BoardInvariant, PTL DEF Spec, BoardIsOneEvaluation, Board!Spec

-----------------------------------------------------------------------------
(***************************************************************************)
(* The two tables and the service agree.                                   *)
(***************************************************************************)
LEMMA OpenRows == ASSUME events' = events PROVE Open' = Open
BY DEF Open

LEMMA DecideOpens ==
  ASSUME BoardInv, NEW x \in RuleIds, NEW decision \in {"acked", "silenced"},
         Decide(x, decision)
  PROVE  Open' = Open
<1>1. events[x] \in Rows
      /\ events' = [events EXCEPT ![x] = Decided(@, decision)]
      /\ events \in [RuleIds -> Rows]
  BY DEF BoardInv, Types, Decide
<1>2. \A r \in RuleIds : events'[r].open = events[r].open
  BY <1>1, DecidedFacts
<1> QED BY <1>2 DEF Open

LEMMA NextKeepsPublished ==
  ASSUME BoardInv, Published, [Next]_vars PROVE Published'
<1> USE DEF Published, AgreesBetweenCycles
<1>1. CASE \/ Start \/ Reconnect \/ ReconnectFails \/ Cycle \/ Load \/ LoadFails
           \/ Begin \/ ClearOthers \/ Collected \/ \E r \in RuleIds : ReadPoint(r) \/ Upsert(r)
  <2>1. pc' \notin {"publish", "sleep"}
    BY <1>1 DEF Start, Reconnect, ReconnectFails, Cycle, Load, LoadFails, Begin, ClearOthers,
                Collected, ReadPoint, Upsert
  <2> QED BY <2>1
<1>2. CASE Stop \/ EditRules \/ PointChanges \/ UNCHANGED vars
  <2>1. UNCHANGED <<pc, leaving, alarms, events, shm>>
    BY <1>2 DEF Stop, EditRules, PointChanges, vars, process, database
  <2> QED BY <2>1, OpenRows
<1>3. CASE \E r \in RuleIds, decision \in {"acked", "silenced"} : Decide(r, decision)
  <2>1. Open' = Open
    BY <1>3, DecideOpens
  <2>2. UNCHANGED <<pc, leaving, alarms, shm>>
    BY <1>3 DEF Decide, process
  <2> QED BY <2>1, <2>2
<1>4. CASE Commit
  <2>1. pc' = "publish" /\ Open' = alarms /\ alarms' = alarms
    BY <1>4, CommitShows DEF Commit, process
  <2> QED BY <2>1
<1>5. CASE SyncFails
  <2>1. (pc' = "publish" /\ leaving') \/ pc' = "leave"
    BY <1>5 DEF SyncFails
  <2> QED BY <2>1
<1>6. CASE Publish
  <2>1. CASE leaving
    BY <2>1, <1>6 DEF Publish, Ends
  <2>2. CASE ~leaving
    <3>1. Open' = Open
      BY <1>6, OpenRows DEF Publish, database
    <3> QED BY <3>1, <2>2, <1>6 DEF Publish, process
  <2> QED BY <2>1, <2>2
<1>7. CASE Leave
  BY <1>7 DEF Leave
<1>8. CASE Killed
  BY <1>8 DEF Killed, Ends
<1> QED BY <1>1, <1>2, <1>3, <1>4, <1>5, <1>6, <1>7, <1>8 DEF Next, Service

(* Between two cycles the rows of alarm_events, the alarm_active table and *)
(* the service's own list are the same alarms, whatever failed before.     *)
THEOREM CyclesAgree == Spec => []AgreesBetweenCycles
<1>1. Init => Published
  BY DEF Init, Published, AgreesBetweenCycles
<1>2. BoardInv /\ Published /\ [Next]_vars => Published'
  BY NextKeepsPublished
<1>3. Published => AgreesBetweenCycles
  BY DEF Published
<1> QED BY <1>1, <1>2, <1>3, BoardInvariant, PTL DEF Spec

=============================================================================
