--------------------------- MODULE ManualOverride ---------------------------
(***************************************************************************)
(* Manual override: an operator commands a point that strategies control,  *)
(* and the strategies are to leave it alone for a while.                   *)
(*   - The portal posts the command first, and only then tries to write a  *)
(*     row for each enabled strategy bound to the point. The statement has *)
(*     its parameters inside a quoted INTERVAL, never succeeds, and its    *)
(*     failure is swallowed: the rows there are come from somebody else    *)
(*     who writes to the database.                                         *)
(*   - The engine reads the rows when it reloads its strategies, every     *)
(*     ReloadInterval cycles, into a map it forgets before each reading.   *)
(*   - The time in a row reaches the engine as text, of which its parser   *)
(*     keeps the date alone, because PostgreSQL writes a space where it    *)
(*     wants a "T" (lines 169-190). The date is that of the database's     *)
(*     time zone, and is taken for a midnight of the engine's.             *)
(*                                                                         *)
(* One point; all of Strategies are enabled and bound to it, and the last  *)
(* step of a cycle stands for everything the engine would submit to it.    *)
(***************************************************************************)
EXTENDS Integers, FiniteSets

CONSTANTS
  Strategies,
  Duration,         (* how long the rows ask for                            *)
  Day,              (* ticks from midnight to midnight                      *)
  DbZone, EngineZone, (* how far each one's clock is ahead of UTC           *)
  Start,            (* the time of the first step                           *)
  ReloadInterval,
  Engine, Operator, (* whose command it is                                  *)
  None,
  MaxTime,          (* bound: the time of the last tick                     *)
  MaxFaults         (* bound: failed database calls and engine restarts     *)

ASSUME TimesAssumption ==
  /\ Duration \in Nat \ {0} /\ Day \in Nat \ {0} /\ ReloadInterval \in Nat \ {0}
  /\ MaxTime \in Nat /\ MaxFaults \in Nat
(* The run is not on the first day of the epoch.                           *)
ASSUME ZonesAssumption ==
  /\ DbZone \in Int /\ EngineZone \in Int /\ Start \in Nat
  /\ Start + DbZone - EngineZone >= Day
ASSUME NamesAssumption ==
  Strategies # {} /\ Engine # Operator /\ None \notin {Engine, Operator}

VARIABLES
  now,
  until,    (* strategy_runtime_state.manual_override_until; 0: null        *)
  portal,   (* "idle", or "row": a command is posted, its rows are next     *)
  slot,     (* whose command is in the point's slot                         *)
  applied,  (* whose command the device last got                            *)
  eng,      (* the engine                                                   *)
  unseen,   (* rows written since they were last read (history)             *)
  faults

vars == <<now, until, portal, slot, applied, eng, unseen, faults>>

Overridden == {s \in Strategies : until[s] > now}

Started ==
  [pc |-> "begin", cycle |-> 0, loaded |-> {},
   overrides |-> [s \in Strategies |-> 0]]

Init ==
  /\ now = Start
  /\ until = [s \in Strategies |-> 0]
  /\ portal = "idle"
  /\ slot = None
  /\ applied = None
  /\ eng = Started
  /\ unseen = {}
  /\ faults = 0

Tick ==
  /\ now < MaxTime
  /\ now' = now + 1
  /\ UNCHANGED <<until, portal, slot, applied, eng, unseen, faults>>

Fails == faults < MaxFaults /\ faults' = faults + 1

-----------------------------------------------------------------------------
(* The portal: api_submit_command stores the command over whatever the     *)
(* slot holds, then _write_manual_override_for_point tries to write the    *)
(* rows; the first statement fails and ends it, and nobody is told.        *)

Command ==
  /\ portal = "idle"
  /\ now < MaxTime
  /\ slot' = Operator
  /\ portal' = "row"
  /\ UNCHANGED <<now, until, applied, eng, unseen, faults>>

WriteRows ==
  /\ portal = "row"
  /\ portal' = "idle"
  /\ UNCHANGED <<now, until, slot, applied, eng, unseen, faults>>

(* How much later the engine may take a row's end to be: the date is that  *)
(* of a zone further east.                                                 *)
Overstay == IF DbZone > EngineZone THEN DbZone - EngineZone ELSE 0

(* Somebody else writes rows. The bound leaves every row the time to end.  *)
RowsAppear ==
  /\ now + Duration + Overstay <= MaxTime
  /\ \E S \in SUBSET Strategies \ {{}} :
       /\ until' = [s \in Strategies |-> IF s \in S THEN now + Duration ELSE until[s]]
       /\ unseen' = unseen \cup S
  /\ UNCHANGED <<now, portal, slot, applied, eng, faults>>

(* The collector executes the command in the slot.                         *)
Execute ==
  /\ slot # None
  /\ applied' = slot
  /\ slot' = None
  /\ UNCHANGED <<now, until, portal, eng, unseen, faults>>

-----------------------------------------------------------------------------
(* The engine's cycle                                                      *)

NextCycle == (eng.cycle + 1) % ReloadInterval

(* load_strategies, when it is time: all of them, or none if it fails.     *)
Begin ==
  /\ eng.pc = "begin"
  /\ IF eng.cycle = 0
     THEN \/ /\ eng' = [eng EXCEPT !.pc = "load", !.loaded = Strategies]
             /\ UNCHANGED faults
          \/ /\ eng' = [eng EXCEPT !.pc = "load", !.loaded = {}]
             /\ Fails
     ELSE /\ eng' = [eng EXCEPT !.pc = "check", !.cycle = NextCycle]
          /\ UNCHANGED faults
  /\ UNCHANGED <<now, until, portal, slot, applied, unseen>>

(* A slip: the end of the day is kept instead of its beginning.            *)
ParsedLate(t) == ((t + DbZone) \div Day + 1) * Day - EngineZone

(* pq_get_ts_ms, on the text PostgreSQL writes: midnight in the engine's   *)
(* zone of the date in the database's.                                     *)
Parsed(t) == ((t + DbZone) \div Day) * Day - EngineZone

(* load_manual_overrides: the map is cleared, then filled with the rows    *)
(* that have not ended, by their own time and by the time parsed; a call   *)
(* that fails leaves it empty.                                             *)
Kept(S) ==
  [s \in Strategies |->
     IF s \in S /\ Parsed(until[s]) > now THEN Parsed(until[s]) ELSE 0]

LoadOverrides ==
  /\ eng.pc = "load"
  /\ \E rows \in {Overridden, {}} :
       /\ IF rows = Overridden THEN unseen' = {} /\ UNCHANGED faults
                               ELSE unseen' = Strategies /\ Fails
       /\ eng' = [eng EXCEPT !.pc = "check", !.cycle = NextCycle,
                             !.overrides = Kept(rows)]
  /\ UNCHANGED <<now, until, portal, slot, applied>>

(* A slip: only when they are all under override.                          *)
PausedWhenAll == \A s \in eng.loaded : eng.overrides[s] > now

(* One strategy under override pauses them all.                            *)
Paused == \E s \in eng.loaded : eng.overrides[s] > now

(* A slip: without strategies the engine waits for some to turn up.        *)
CheckWaits ==
  /\ eng.pc = "check"
  /\ eng' = [eng EXCEPT !.pc = IF eng.loaded = {} THEN "check"
                              ELSE IF Paused THEN "begin" ELSE "submit"]
  /\ UNCHANGED <<now, until, portal, slot, applied, unseen, faults>>

(* Without strategies, or under override, the cycle ends here.             *)
Check ==
  /\ eng.pc = "check"
  /\ eng' = [eng EXCEPT !.pc = IF eng.loaded = {} \/ Paused THEN "begin" ELSE "submit"]
  /\ UNCHANGED <<now, until, portal, slot, applied, unseen, faults>>

(* A slot that is busy keeps its command.                                  *)
Submit ==
  /\ eng.pc = "submit"
  /\ slot' = IF slot = None THEN Engine ELSE slot
  /\ eng' = [eng EXCEPT !.pc = "begin"]
  /\ UNCHANGED <<now, until, portal, applied, unseen, faults>>

Restart ==
  /\ Fails
  /\ eng' = Started
  /\ unseen' = Strategies
  /\ UNCHANGED <<now, until, portal, slot, applied>>

Cycle == Begin \/ LoadOverrides \/ Check \/ Submit

Next == Tick \/ Command \/ WriteRows \/ RowsAppear \/ Execute \/ Cycle \/ Restart

Spec == Init /\ [][Next]_vars

(* Time passes, the portal's handler finishes, and the engine's loop and   *)
(* the control thread never stop.                                          *)
FairSpec ==
  Spec /\ WF_vars(Tick) /\ WF_vars(WriteRows) /\ WF_vars(Execute) /\ WF_vars(Cycle)

-----------------------------------------------------------------------------
(* The engine never stays away longer than the row says, but for the time   *)
(* its own clock is behind the database's: no restart, later takeover or    *)
(* failed call leaves a pause behind that nobody asked for.                 *)
NeverOutwaits ==
  \A s \in Strategies : eng.overrides[s] <= until[s] + Overstay

(* The engine submits over a row that has not ended, by its own time and by *)
(* the time parsed, only if the row was written since the rows were last    *)
(* read, or that reading failed: otherwise one row holds back everything,   *)
(* in every cycle up to the next reading.                                   *)
RowsRespected ==
  eng.pc = "submit"
    => \A s \in Strategies \ unseen : until[s] <= now \/ Parsed(until[s]) <= now

(* The engine always goes back to work: commands and rows come to an end at *)
(* the bound, and the last pause does not outlive them.                     *)
EngineResumes == []<>(slot = Engine)
=============================================================================
