------------------------------ MODULE AlarmService ------------------------------
(***************************************************************************)
(* The alarm service, the portal's acknowledgements and the alarm_events   *)
(* table they share.                                                       *)
(*                                                                         *)
(* Every cycle the service reads the point of each rule, one after the     *)
(* other, brings alarm_events up to date in one transaction and then       *)
(* replaces the alarm_active table of the shared memory.  A portal request *)
(* is one UPDATE of one row.  A row a transaction has changed is locked    *)
(* until its end, and PostgreSQL evaluates an UPDATE that had to wait on   *)
(* the new row, so that requests act on rows that are not locked.          *)
(*                                                                         *)
(* The times of an alarm are left out.  Db.sync_active_alarms of the       *)
(* portal (web/db.py) is called by nobody.                                 *)
(***************************************************************************)
EXTENDS Integers, FiniteSets

CONSTANTS
    RuleIds,      \* ids of alarm rules; an alarm has the id of its rule
    PointOf,      \* rule -> its point
    OpOf,         \* rule -> its comparison operator
    ThresholdOf,  \* rule -> its threshold
    Points,
    Values,
    Invalid,      \* a point without a valid value
    Capacity,     \* rows of the alarm_active table
    ReloadEvery,  \* cycles between two loads of the rules
    MaxFaults     \* bound: failing statements and killed processes

Operators == {"<", "<=", ">", ">=", "==", "!="}

ASSUME AlarmAssumption ==
    /\ PointOf \in [RuleIds -> Points]
    /\ OpOf \in [RuleIds -> Operators]
    /\ ThresholdOf \in [RuleIds -> Int]
    /\ Values \subseteq Int
    /\ Invalid \notin Values
    /\ Capacity \in Nat
    /\ ReloadEvery \in Nat \ {0}
    /\ MaxFaults \in Nat
    /\ IsFiniteSet(RuleIds)

VARIABLES
    pc,        \* the service's step; "down" when no process runs
    stopping,  \* ~g_running
    leaving,   \* the loop has been left
    conn,      \* what libpq knows of the connection: "ok" or "bad"
    rules,     \* the rules loaded
    cycle,     \* reload_cycle % ReloadEvery
    todo,      \* rules to read, or alarms to write, in this cycle
    found,     \* alarms collected so far
    alarms,    \* the active alarms of this cycle
    view,      \* rows as the open transaction has changed them
    locked,    \* rows the open transaction has changed
    events,    \* the committed rows of alarm_events
    table,     \* the enabled rows of alarm_rules
    shm,       \* alarm ids in the alarm_active table
    reading,   \* point -> its value in the shared memory
    faults     \* bound: faults to come

process == <<stopping, leaving, conn, rules, cycle, todo, found, alarms>>
Ends ==
    /\ pc' = "down"
    /\ stopping' = FALSE
    /\ leaving' = FALSE
    /\ conn' = "bad"
    /\ rules' = {}
    /\ cycle' = 0
    /\ todo' = {}
    /\ found' = {}
    /\ alarms' = {}
database == <<view, locked, events>>
vars == <<pc, process, database, table, shm, reading, faults>>

-----------------------------------------------------------------------------
(***************************************************************************)
(* Rules and rows.                                                         *)
(***************************************************************************)
Compare(value, op, threshold) ==
    CASE op = "<" -> value < threshold
      [] op = "<=" -> value <= threshold
      [] op = ">" -> value > threshold
      [] op = ">=" -> value >= threshold
      [] op = "==" -> value = threshold
      [] OTHER -> value # threshold

Condition(r) ==
    /\ reading[PointOf[r]] # Invalid
    /\ Compare(reading[PointOf[r]], OpOf[r], ThresholdOf[r])

\* cleared_at IS NULL is "open".
NoRow == [open |-> FALSE, status |-> "none"]
NoView == [r \in RuleIds |-> NoRow]
Rows == [open : BOOLEAN, status : {"none", "active", "acked", "silenced", "cleared"}]

\* A slip: an alarm that is seen again becomes active again.
RaisedAnew(row) ==
    [open |-> TRUE,
     status |-> "active"]

\* INSERT ... ON CONFLICT (alarm_id) DO UPDATE
Raised(row) ==
    [open |-> TRUE,
     status |-> IF row.status \in {"acked", "silenced"} THEN row.status ELSE "active"]

\* A slip: alarms an operator has decided about stay open.
ClearedUnlessDecided(row) ==
    IF row.open /\ row.status = "active"
    THEN [open |-> FALSE, status |-> IF row.status = "active" THEN "cleared" ELSE row.status]
    ELSE row

\* UPDATE ... WHERE cleared_at IS NULL AND alarm_id NOT IN (...)
Cleared(row) ==
    IF row.open
    THEN [open |-> FALSE, status |-> IF row.status = "active" THEN "cleared" ELSE row.status]
    ELSE row

\* ack_alarm() and silence_alarm()
Decided(row, decision) ==
    [row EXCEPT !.status = IF row.open /\ row.status = "active" THEN decision ELSE @]

\* What the transaction sees of a row.
Seen(r) == IF r \in locked THEN view[r] ELSE events[r]

Fault == faults > 0 /\ faults' = faults - 1

-----------------------------------------------------------------------------
(***************************************************************************)
(* The service.                                                            *)
(***************************************************************************)
\* load_alarm_rules(): a failing load returns no rules and may cost the connection.
Loads ==
    \/ rules' = table /\ conn' = "ok" /\ UNCHANGED faults
    \/ rules' = {} /\ conn' \in {"ok", "bad"} /\ Fault

\* main() up to the loop: connect, attach, load.
Start ==
    /\ pc = "down"
    /\ pc' = "start"
    /\ Loads
    /\ UNCHANGED <<stopping, leaving, cycle, todo, found, alarms, database, table, shm, reading>>

\* The head of the loop when the connection was lost: connect again and load.
Reconnect ==
    /\ pc \in {"start", "sleep"}
    /\ ~stopping
    /\ conn = "bad"
    /\ Loads
    /\ pc' = IF cycle = 0 THEN "load" ELSE "collect"
    /\ cycle' = (cycle + 1) % ReloadEvery
    /\ todo' = rules'
    /\ UNCHANGED <<stopping, leaving, found, alarms, database, table, shm, reading>>

\* The server that was lost is still away.
ReconnectFails ==
    /\ pc \in {"start", "sleep"}
    /\ ~stopping
    /\ conn = "bad"
    /\ pc' = "leave"
    /\ UNCHANGED <<process, database, table, shm, reading, faults>>

\* A slip: the rules are loaded once, before the loop.
CycleWithoutReload ==
    /\ pc \in {"start", "sleep"}
    /\ stopping \/ conn = "ok"
    /\ pc' = IF stopping THEN "leave" ELSE "collect"
    /\ cycle' = (cycle + 1) % ReloadEvery
    /\ todo' = IF stopping THEN {} ELSE rules
    /\ UNCHANGED <<stopping, leaving, conn, rules, found, alarms, database, table, shm, reading, faults>>

\* The head of the loop: leave it, load the rules, or go on to collect.
Cycle ==
    /\ pc \in {"start", "sleep"}
    /\ stopping \/ conn = "ok"
    /\ pc' = IF stopping THEN "leave" ELSE IF cycle = 0 THEN "load" ELSE "collect"
    /\ cycle' = (cycle + 1) % ReloadEvery
    /\ todo' = IF stopping THEN {} ELSE rules
    /\ UNCHANGED <<stopping, leaving, conn, rules, found, alarms, database, table, shm, reading, faults>>

\* Rules are replaced only by rules.
Load ==
    /\ pc = "load"
    /\ conn = "ok"
    /\ pc' = "collect"
    /\ rules' = IF table = {} THEN rules ELSE table
    /\ todo' = rules'
    /\ UNCHANGED <<stopping, leaving, conn, cycle, found, alarms, database, table, shm, reading,
                   faults>>

\* A load that finds the connection lost drops it, and the transaction that follows
\* connects again.
LoadFails ==
    /\ pc = "load"
    /\ \/ Fault /\ conn' \in {"ok", "bad"}
       \/ conn = "bad" /\ conn' = "ok" /\ UNCHANGED faults
    /\ pc' = "collect"
    /\ UNCHANGED <<stopping, leaving, rules, cycle, todo, found, alarms, database, table, shm,
                   reading>>

\* collect_active_alarms() reads one point after the other.
ReadPoint(r) ==
    /\ pc = "collect"
    /\ r \in todo
    /\ todo' = todo \ {r}
    /\ found' = IF Condition(r) THEN found \cup {r} ELSE found
    /\ UNCHANGED <<pc, stopping, leaving, conn, rules, cycle, alarms, database, table, shm,
                   reading, faults>>

Collected ==
    /\ pc = "collect"
    /\ todo = {}
    /\ alarms' = found
    /\ found' = {}
    /\ pc' = "begin"
    /\ UNCHANGED <<stopping, leaving, conn, rules, cycle, todo, database, table, shm,
                   reading, faults>>

\* sync_active_alarms(): BEGIN, one upsert for each alarm, one UPDATE, COMMIT.
Begin ==
    /\ pc = "begin"
    /\ conn = "ok"
    /\ locked' = {}
    /\ todo' = alarms
    /\ pc' = "upsert"
    /\ UNCHANGED <<stopping, leaving, conn, rules, cycle, found, alarms, view, events, table, shm,
                   reading, faults>>

Upsert(r) ==
    /\ pc = "upsert"
    /\ r \in todo
    /\ todo' = todo \ {r}
    /\ view' = [view EXCEPT ![r] = Raised(Seen(r))]
    /\ locked' = locked \cup {r}
    /\ UNCHANGED <<pc, stopping, leaving, conn, rules, cycle, found, alarms, events, table, shm,
                   reading, faults>>

ClearOthers ==
    /\ pc = "upsert"
    /\ todo = {}
    /\ LET gone == {r \in RuleIds \ alarms : Seen(r).open}
       IN  /\ view' = [r \in RuleIds |-> IF r \in gone THEN Cleared(Seen(r)) ELSE view[r]]
           /\ locked' = locked \cup gone
    /\ pc' = "commit"
    /\ UNCHANGED <<process, events, table, shm, reading, faults>>

Committed == [r \in RuleIds |-> Seen(r)]

Commit ==
    /\ pc = "commit"
    /\ events' = Committed
    /\ locked' = {}
    /\ view' = NoView
    /\ pc' = "publish"
    /\ UNCHANGED <<process, table, shm, reading, faults>>

\* Whatever fails ends the loop; what fails while leaving it is passed over.  A COMMIT
\* whose answer is lost may have been carried out.
SyncFails ==
    /\ \/ pc = "begin" /\ conn = "bad" /\ UNCHANGED <<conn, events, faults>>
       \/ /\ pc \in {"begin", "upsert", "commit"}
          /\ conn = "ok"
          /\ Fault
          /\ conn' \in {"ok", "bad"}
          /\ UNCHANGED events
       \/ /\ pc = "commit"
          /\ Fault
          /\ conn' = "bad"
          /\ events' = Committed
    /\ locked' = {}
    /\ view' = NoView
    /\ todo' = {}
    /\ pc' = IF leaving THEN "publish" ELSE "leave"
    /\ UNCHANGED <<stopping, leaving, rules, cycle, found, alarms, table, shm, reading>>

\* replace_active_alarms(); too many alarms leave the table as it was.
Publish ==
    /\ pc = "publish"
    /\ shm' = IF Cardinality(alarms) <= Capacity THEN alarms ELSE shm
    /\ IF leaving THEN Ends ELSE pc' = "sleep" /\ UNCHANGED process
    /\ UNCHANGED <<database, table, reading, faults>>

\* After the loop everything is cleared, in the database if it can be reached.
Leave ==
    /\ pc = "leave"
    /\ leaving' = TRUE
    /\ alarms' = {}
    /\ pc' = IF conn = "ok" THEN "begin" ELSE "publish"
    /\ UNCHANGED <<stopping, conn, rules, cycle, todo, found, database, table, shm, reading, faults>>

Stop ==
    /\ pc # "down"
    /\ ~stopping
    /\ stopping' = TRUE
    /\ UNCHANGED <<pc, leaving, conn, rules, cycle, todo, found, alarms, database, table, shm,
                   reading, faults>>

\* The server rolls back the transaction of a process that is gone.
Killed ==
    /\ pc # "down"
    /\ Fault
    /\ Ends
    /\ locked' = {}
    /\ view' = NoView
    /\ UNCHANGED <<events, table, shm, reading>>

Service ==
    \/ Reconnect \/ ReconnectFails \/ Cycle \/ Load \/ LoadFails \/ Collected \/ Begin \/ ClearOthers
    \/ Commit \/ SyncFails \/ Publish \/ Leave
    \/ \E r \in RuleIds : ReadPoint(r) \/ Upsert(r)

-----------------------------------------------------------------------------
(***************************************************************************)
(* The portal and the plant.                                               *)
(***************************************************************************)
Decide(r, decision) ==
    /\ events[r] # NoRow
    /\ r \notin locked
    /\ events' = [events EXCEPT ![r] = Decided(@, decision)]
    /\ UNCHANGED <<pc, process, view, locked, table, shm, reading, faults>>

EditRules ==
    /\ table' \in SUBSET RuleIds
    /\ UNCHANGED <<pc, process, database, shm, reading, faults>>

PointChanges ==
    /\ \E p \in Points, v \in Values \cup {Invalid} : reading' = [reading EXCEPT ![p] = v]
    /\ UNCHANGED <<pc, process, database, table, shm, faults>>

Init ==
    /\ pc = "down"
    /\ stopping = FALSE
    /\ leaving = FALSE
    /\ conn = "bad"
    /\ rules = {}
    /\ cycle = 0
    /\ todo = {}
    /\ found = {}
    /\ alarms = {}
    /\ view = NoView
    /\ locked = {}
    /\ events = [r \in RuleIds |-> NoRow]
    /\ table \in SUBSET RuleIds
    /\ shm = {}
    /\ reading = [p \in Points |-> Invalid]
    /\ faults = MaxFaults

Next ==
    \/ Start \/ Service \/ Stop \/ Killed
    \/ EditRules \/ PointChanges
    \/ \E r \in RuleIds, decision \in {"acked", "silenced"} : Decide(r, decision)

Spec == Init /\ [][Next]_vars

\* A running service takes its next step: the sleep and the database calls end.
FairSpec == Spec /\ WF_vars(Service)

-----------------------------------------------------------------------------
(***************************************************************************)
(* Properties.                                                             *)
(***************************************************************************)
Open == {r \in RuleIds : events[r].open}

\* The board a reader of alarm_events sees: a transaction of many statements, cut
\* short anywhere, is one evaluation or none, and requests in between are not lost.
Board == INSTANCE AlarmBoard WITH
    Alarms <- RuleIds,
    verdict <- alarms,
    open <- Open,
    mark <- [r \in RuleIds |->
                IF events[r].status \in {"acked", "silenced"} THEN events[r].status ELSE "none"]
BoardIsOneEvaluation == Board!Spec

\* Between two cycles the database, the shared memory and the service agree on the
\* active alarms, whatever failed before, unless there are too many for the table.
AgreesBetweenCycles ==
    pc = "sleep" =>
        Open = alarms /\ (Cardinality(alarms) <= Capacity => shm = alarms)

\* While a service runs: a rule that stays in the table and whose condition goes on
\* holding has its alarm listed in the end, and a rule that is deleted or disabled for
\* good, or whose condition goes on failing, has it cleared, in alarm_events and, when
\* no list is too long for it, in the shared table.  The one exception is the last rule:
\* a load that returns no rules is taken for a failed one, and changes nothing.
\* (A failed load at a reconnection drops all rules, and clears all alarms, until the
\* next periodic load: faults are finitely many, and the property speaks of after them.)
Running == pc # "down"
Fits == Cardinality(alarms) <= Capacity
Deleted(r) == r \notin table /\ table # {}

Follows(r) ==
    /\ <>[](Running /\ r \in table /\ Condition(r)) => <>[](events[r].open)
    /\ <>[](Running /\ r \in table /\ Condition(r) /\ Fits) => <>[](r \in shm)
    /\ <>[](Running /\ ~Condition(r)) => <>[](~events[r].open)
    /\ <>[](Running /\ ~Condition(r) /\ Fits) => <>[](r \notin shm)
    /\ <>[](Running /\ Deleted(r)) => <>[](~events[r].open)
    /\ <>[](Running /\ Deleted(r) /\ Fits) => <>[](r \notin shm)
AlarmsFollowConditions == \A r \in RuleIds : Follows(r)

=============================================================================
