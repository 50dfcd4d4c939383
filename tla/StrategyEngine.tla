--------------------------- MODULE StrategyEngine ---------------------------
(***************************************************************************)
(* The strategy engine's control cycle (services/strategy_engine) closed   *)
(* over the site it controls:                                              *)
(*   - AntiReverseFlow computes the total power of the batteries from the  *)
(*     grid meter, SocProtection clamps it, PV curtailment steps in when   *)
(*     the batteries cannot absorb an export, and the total is shared      *)
(*     among the batteries (BESS groups) that may take part;               *)
(*   - every reading comes from the point tables, where the poll threads   *)
(*     refresh it block by block, each block at its own time;              *)
(*   - every target leaves through a command slot that the collector's     *)
(*     control thread applies at its own time, or fails to apply;          *)
(*   - strategies are loaded by one query for their definitions and two    *)
(*     for each of them, any of which may fail alone.                      *)
(*                                                                         *)
(* A cycle is four steps, each reading the point tables as they then are.  *)
(* Powers are integers in a unit above the code's 0.1 tolerances; positive *)
(* is import for the grid and discharge for a battery.  The PV plants all  *)
(* get one percentage, so they are one plant, its limit in the same unit   *)
(* (limit_pct * rated / 100) and no run state bound to it.  Bindings are   *)
(* those of the demo: the grid, the PV plant and the batteries' powers,    *)
(* run states and set points for AntiReverseFlow, the batteries' states of *)
(* charge, powers, run states and set points for SocProtection.  Command   *)
(* slots are those of CommandSlots, reduced to the command they hold;      *)
(* manual overrides are ManualOverride's subject.                          *)
(***************************************************************************)
EXTENDS Integers, FiniteSets, FiniteSetsExt, Functions

CONSTANTS
  Groups,           (* BESS groups                                          *)
  ChargeLimit,      (* bess_max_charge_kw#group, max_charge_kw if not given *)
  DischargeLimit,   (* bess_max_discharge_kw#group, likewise                *)
  MaxCharge, MaxDischarge, ExportLimit, Deadband,
  SocLow, SocHigh,
  HasSoc,           (* a SOC protection strategy is enabled                 *)
  EnablePv,         (* enable_pv_curtailment                                *)
  LimitMin, LimitMax, RecoveryStep,
  RecoveryDeadband, (* kPvRecoveryDeadbandKw                                *)
  DefaultLimit,     (* max_charge_kw, max_discharge_kw not given            *)
  DefaultDeadband,  (* deadband_kw not given                                *)
  DefaultLow, DefaultHigh,  (* soc_low, soc_high not given                  *)
  ReloadInterval,   (* OPENEMS_STRATEGY_RELOAD_INTERVAL, in cycles          *)
  Again,            (* strategies that are loaded are loaded again; FALSE:  *)
                    (* a run over before that                               *)
  Pv,               (* the PV plant's command slot                          *)
  None,             (* no command                                           *)
  Bad,              (* a reading that failed or is not valid                *)
  Blocks,           (* the sets of points one block read brings             *)
  Loads, PvPowers,  (* what the site consumes and what the sun offers       *)
  Socs,             (* states of charge                                     *)
  Left,             (* battery set points an earlier engine may have left   *)
  MaxChanges,       (* bound: changes of load, sun and run states           *)
  MaxFaults         (* bound: failed polls, failed writes, failed queries   *)
                    (* and cycles that begin early                          *)

RecalcConfirmCycles == 2
PvRecoveryConfirmCycles == 3

Min2(a, b) == IF a < b THEN a ELSE b
Max2(a, b) == IF a > b THEN a ELSE b
Abs(n) == IF n < 0 THEN -n ELSE n
Clip(n, low, high) ==
  IF n \in low .. high THEN n ELSE IF n < low THEN low ELSE high

ASSUME RangeAssumption ==
  /\ MaxCharge \in Nat /\ MaxDischarge \in Nat /\ Deadband \in Nat
  /\ DefaultLimit \in Nat /\ DefaultDeadband \in Nat
  /\ ExportLimit \in Int
  /\ LimitMin \in Nat /\ LimitMax \in Nat /\ LimitMin <= LimitMax
ASSUME GroupsAssumption ==
  /\ IsFiniteSet(Groups) /\ Pv \notin Groups /\ "grid" \notin Groups \cup {Pv}
  /\ ReloadInterval \in Nat \ {0}
ASSUME LimitsAssumption ==
  ChargeLimit \in [Groups -> Nat] /\ DischargeLimit \in [Groups -> Nat]
ASSUME RecoveryAssumption == RecoveryStep \in Nat /\ RecoveryDeadband \in Nat
ASSUME PowersAssumption ==
  /\ Loads \subseteq Int /\ PvPowers \subseteq Int /\ Left \subseteq Int
  /\ None \notin Int /\ Bad \notin Int

VARIABLES
  load, sun,   (* consumption; what PV could produce                        *)
  running,     (* the batteries' run states                                 *)
  soc,         (* their states of charge                                    *)
  setpoint,    (* set-point registers of the batteries and the PV plant     *)
  power,       (* what each battery and the PV plant does                   *)
  db,          (* the readings in the point tables                          *)
  polled,      (* blocks polled since the last calculation                  *)
  cmd,         (* the command in each slot                                  *)
  eng,         (* the engine                                                *)
  changes, faults

site == <<load, sun, running, soc, setpoint, power>>
vars == <<site, db, polled, cmd, eng, changes, faults>>

Plants == Groups \cup {Pv}
Points ==
  ({"power"} \X (Plants \cup {"grid"})) \cup ({"soc", "run"} \X Groups)
    \cup {<<"limit", Pv>>}
Total(f, S) == MapThenSumSet(LAMBDA g : f[g], S)

(* What a battery or the PV plant moves towards.                           *)
Goal(x) == IF x = Pv THEN Min2(sun, setpoint[Pv]) ELSE setpoint[x]
GridPower == load - power[Pv] - Total(power, Groups)

(* The queries of load_strategies.                                         *)
Queries ==
  {"definitions", "arf bindings", "arf params"}
    \cup IF HasSoc THEN {"soc bindings", "soc params"} ELSE {}

Engine ==
  [pc |-> "sleep", cycle |-> 0, missing |-> {"definitions"},
   pair |-> [g \in Groups |-> g],
   hasLocked |-> FALSE, locked |-> 0, confirm |-> 0, pvConfirm |-> 0,
   target |-> 0, suppressed |-> "no", highClamp |-> FALSE]

Init ==
  /\ load \in Loads
  /\ sun \in PvPowers
  /\ running = [g \in Groups |-> TRUE]
  /\ soc \in [Groups -> Socs]
  /\ setpoint \in [Plants -> Left \cup (LimitMin .. LimitMax)]
  /\ setpoint[Pv] \in LimitMin .. LimitMax
  /\ \A g \in Groups : setpoint[g] \in Left
  /\ power = [x \in Plants |-> IF x = Pv THEN Min2(sun, setpoint[Pv]) ELSE setpoint[x]]
  /\ db = [p \in Points |-> Bad]
  /\ polled = {}
  /\ cmd = [x \in Plants |-> None]
  /\ eng = Engine
  /\ changes = 0
  /\ faults = 0

-----------------------------------------------------------------------------
(* The site                                                                *)

(* Load, sun or a run state changes; a battery that stops, or a plant the  *)
(* sun leaves, gives what it still can at once.                            *)
Change ==
  /\ changes < MaxChanges
  /\ changes' = changes + 1
  /\ \/ load' \in Loads \ {load} /\ UNCHANGED <<sun, running, power>>
     \/ /\ sun' \in PvPowers \ {sun}
        /\ power' = [power EXCEPT ![Pv] = Min2(@, sun')]
        /\ UNCHANGED <<load, running>>
     \/ \E g \in Groups :
          /\ running' = [running EXCEPT ![g] = ~@]
          /\ power' = [power EXCEPT ![g] = 0]
          /\ UNCHANGED <<load, sun>>
  /\ UNCHANGED <<soc, setpoint, db, polled, cmd, eng, faults>>

(* The PV plant, or a battery that runs, moves towards its goal, at its    *)
(* own pace.                                                               *)
Settle(x) ==
  /\ x \in Groups => running[x]
  /\ power[x] # Goal(x)
  /\ \E p \in Min2(power[x], Goal(x)) .. Max2(power[x], Goal(x)) :
       /\ p # power[x]
       /\ power' = [power EXCEPT ![x] = p]
  /\ UNCHANGED <<load, sun, running, soc, setpoint, db, polled, cmd,
                 eng, changes, faults>>

(* Charging fills a battery, discharging empties it.                       *)
Drift(g) ==
  /\ power[g] # 0
  /\ \E s \in Socs :
       /\ s = (IF power[g] < 0 THEN soc[g] + 1 ELSE soc[g] - 1)
       /\ soc' = [soc EXCEPT ![g] = s]
  /\ UNCHANGED <<load, sun, running, setpoint, power, db, polled, cmd,
                 eng, changes, faults>>

-----------------------------------------------------------------------------
(* The collector: poll threads and control threads                         *)

(* What the device holds for a point.                                      *)
Measured(p) ==
  CASE p = <<"power", "grid">> -> GridPower
    [] p[1] = "power" /\ p[2] # "grid" -> power[p[2]]
    [] p[1] = "soc" -> soc[p[2]]
    [] p[1] = "run" -> running[p[2]]
    [] p[1] = "limit" -> setpoint[Pv]

(* One block is read and stored: its points are of one moment.             *)
Poll(B) ==
  /\ db' = [p \in Points |-> IF p \in B THEN Measured(p) ELSE db[p]]
  /\ polled' = polled \cup {B}
  /\ UNCHANGED <<site, cmd, eng, changes, faults>>

(* A block that cannot be read leaves its points, and no others, invalid.  *)
PollFails(B) ==
  /\ faults < MaxFaults
  /\ faults' = faults + 1
  /\ db' = [p \in Points |-> IF p \in B THEN Bad ELSE db[p]]
  /\ polled' = polled \cup {B}
  /\ UNCHANGED <<site, cmd, eng, changes>>

(* A control thread executes the command in a slot.                        *)
Apply(x) ==
  /\ cmd[x] # None
  /\ setpoint' = [setpoint EXCEPT ![x] = cmd[x]]
  /\ cmd' = [cmd EXCEPT ![x] = None]
  /\ UNCHANGED <<load, sun, running, soc, power, db, polled, eng,
                 changes, faults>>

ApplyFails(x) ==
  /\ cmd[x] # None
  /\ faults < MaxFaults
  /\ faults' = faults + 1
  /\ cmd' = [cmd EXCEPT ![x] = None]
  /\ UNCHANGED <<site, db, polled, eng, changes>>

-----------------------------------------------------------------------------
(* The cycle.  submit_target: a slot that is busy keeps its command.       *)
Submitted(S, value) ==
  [x \in DOMAIN cmd |-> IF x \in S /\ cmd[x] = None THEN value[x] ELSE cmd[x]]

NextCycle(missing) ==
  IF Again \/ missing # {} THEN (eng.cycle + 1) % ReloadInterval ELSE 1
Unlocked == [eng EXCEPT !.hasLocked = FALSE, !.locked = 0, !.confirm = 0]

(* The strategies are loaded as new objects. Without their definitions     *)
(* there are none and nothing else is asked; a query for bindings or       *)
(* params that fails leaves that strategy without them, unnoticed. The     *)
(* bindings come in any order, and with them the two lists clamp walks.    *)
Loaded(missing, pair) == [Unlocked EXCEPT !.missing = missing, !.pair = pair]

(* The engine waits for no poll and no command: its next cycle may begin   *)
(* before every block is polled and every command executed since the last. *)
Early == polled # Blocks \/ \E x \in Plants : cmd[x] # None

(* A cycle begins, every ReloadInterval cycles with a load. Without        *)
(* strategies the engine idles until the next one.                         *)
Begin ==
  /\ eng.pc = "sleep"
  /\ \E missing \in SUBSET Queries, pair \in Bijection(Groups, Groups) :
       LET due == eng.cycle = 0
           e == IF due THEN Loaded(missing, pair) ELSE eng
           failures == Cardinality(missing) + IF Early THEN 1 ELSE 0
       IN /\ ~due => missing = {} /\ pair = eng.pair
          /\ "definitions" \in missing => missing = {"definitions"} /\ pair = eng.pair
          /\ faults + failures <= MaxFaults
          /\ faults' = faults + failures
          /\ eng' = [e EXCEPT !.cycle = NextCycle(e.missing), !.target = 0,
                              !.pc = IF "definitions" \in e.missing
                                     THEN "sleep" ELSE "calculate"]
  /\ UNCHANGED <<site, db, polled, cmd, changes>>

(* The parameters in use: a strategy without its own has the defaults.     *)
Default(query) == query \in eng.missing
ChargeMax == IF Default("arf params") THEN DefaultLimit ELSE MaxCharge
DischargeMax == IF Default("arf params") THEN DefaultLimit ELSE MaxDischarge
DeadbandUsed == IF Default("arf params") THEN DefaultDeadband ELSE Deadband
ExportUsed == IF Default("arf params") THEN 0 ELSE ExportLimit
Low == IF Default("soc params") THEN DefaultLow ELSE SocLow
High == IF Default("soc params") THEN DefaultHigh ELSE SocHigh

Grid == IF Default("arf bindings") THEN Bad ELSE db[<<"power", "grid">>]
BessPowers == [g \in Groups |-> db[<<"power", g>>]]
ValidPower == {g \in Groups : BessPowers[g] # Bad}
BessPower == IF ValidPower # {} THEN Total(BessPowers, ValidPower)
             ELSE IF eng.hasLocked THEN eng.locked ELSE 0
GridError == Grid - ExportUsed
Running(g) == db[<<"run", g>>] = TRUE

Confirmed ==
  IF ~eng.hasLocked \/ Abs(BessPower - eng.locked) > DeadbandUsed
     \/ Abs(GridError) <= DeadbandUsed
  THEN 0 ELSE eng.confirm + 1

(* A slip of the clamp: the charging limit is forgotten.                   *)
RawTargetUnclipped ==
  LET raw == BessPower + IF Abs(GridError) >= DeadbandUsed THEN GridError ELSE 0
  IN  Min2(raw, DischargeMax)

RawTarget ==
  LET raw == BessPower + IF Abs(GridError) >= DeadbandUsed THEN GridError ELSE 0
  IN  Clip(raw, -ChargeMax, DischargeMax)

Recalculated == IF Abs(RawTarget) < DeadbandUsed THEN 0 ELSE RawTarget

(* A slip of the confirmation: any error is acted on, without waiting for  *)
(* the batteries to have reached the target.                               *)
DueOnError == ~eng.hasLocked \/ Abs(GridError) > DeadbandUsed

(* The target is computed anew when there is none, or when the batteries   *)
(* have reached it and the error has been seen in two cycles.              *)
Due == ~eng.hasLocked \/ Confirmed >= RecalcConfirmCycles

(* AntiReverseFlow::calculate_target                                       *)
Calculate ==
  /\ eng.pc = "calculate"
  /\ eng' =
       LET e == [eng EXCEPT !.pc = "clamp", !.suppressed = "no",
                            !.target = 0, !.highClamp = FALSE]
       IN IF Grid = Bad THEN [e EXCEPT !.suppressed = "invalid"]
          ELSE IF \A g \in Groups : ~Running(g)
          THEN [e EXCEPT !.suppressed = "stopped"]
          ELSE IF Due
          THEN [e EXCEPT !.target = Recalculated, !.locked = Recalculated,
                         !.hasLocked = TRUE, !.confirm = 0]
          ELSE [e EXCEPT !.target = eng.locked, !.confirm = Confirmed]
  /\ polled' = {}
  /\ UNCHANGED <<site, db, cmd, changes, faults>>

(* A slip at the boundary: a full battery may still charge.                *)
MayTakeAtHigh(g, target) ==
  \/ target < 0 /\ db[<<"soc", g>>] <= High
  \/ target > 0 /\ db[<<"soc", g>>] > Low

MayTake(g, target) ==
  \/ target < 0 /\ db[<<"soc", g>>] < High
  \/ target > 0 /\ db[<<"soc", g>>] > Low

Clamps == HasSoc /\ ~Default("soc bindings")
SocKnown == {g \in Groups : Clamps /\ db[<<"soc", g>>] # Bad}

(* SocProtection::clamp walks the states of charge and the run states side *)
(* by side, each in the order its bindings came in.                        *)
Clamp ==
  /\ eng.pc = "clamp"
  /\ eng' =
       LET blocked ==
             /\ SocKnown # {}
             /\ eng.target # 0
             /\ \A g \in SocKnown :
                  ~(Running(eng.pair[g]) /\ MayTake(g, eng.target))
       IN [eng EXCEPT !.pc = "pv",
                      !.target = IF blocked THEN 0 ELSE @,
                      !.highClamp = blocked /\ eng.target < 0]
  /\ UNCHANGED <<site, db, polled, cmd, changes, faults>>

(* The limit the engine takes for current: a weighted sum of zero, like a  *)
(* failed reading, counts as no limit.                                     *)
CurrentLimit ==
  IF db[<<"limit", Pv>>] \in {Bad, 0} THEN LimitMax ELSE db[<<"limit", Pv>>]

Produced == IF db[<<"power", Pv>>] = Bad THEN 0 ELSE db[<<"power", Pv>>]

(* A slip of the compensation: the excess is not taken off.                *)
CurtailedLimitAsProduced ==
  Clip(Produced, LimitMin, LimitMax)

CurtailedLimit ==
  Clip(Max2(Produced - (ExportUsed - Grid), 0), LimitMin, LimitMax)

(* A slip of the recovery: the headroom with the wrong sign.               *)
RecoveredLimitReversed ==
  LET headroom == (ExportUsed + RecoveryDeadband) - Grid
  IN  Min2(CurrentLimit + Min2(RecoveryStep, Max2(headroom, 0)), LimitMax)

RecoveredLimit ==
  LET headroom == Grid - (ExportUsed + RecoveryDeadband)
  IN  Min2(CurrentLimit + Min2(RecoveryStep, Max2(headroom, 0)), LimitMax)

PvPost(limit) == cmd' = Submitted({Pv}, [x \in {Pv} |-> limit])

Curtail ==
  /\ Grid < ExportUsed
  /\ eng.highClamp \/ eng.suppressed = "stopped"
  /\ IF CurtailedLimit # CurrentLimit THEN PvPost(CurtailedLimit)
                                      ELSE UNCHANGED cmd
  /\ eng' = [eng EXCEPT !.pc = "distribute", !.pvConfirm = 0]

Recover ==
  /\ ~(Grid < ExportUsed /\ (eng.highClamp \/ eng.suppressed = "stopped"))
  /\ LET headroom == Grid > ExportUsed + RecoveryDeadband
         confirm == IF CurrentLimit < LimitMax /\ headroom
                    THEN Min2(eng.pvConfirm + 1, PvRecoveryConfirmCycles) ELSE 0
     IN /\ IF confirm >= PvRecoveryConfirmCycles /\ RecoveredLimit # CurrentLimit
           THEN PvPost(RecoveredLimit) ELSE UNCHANGED cmd
        /\ eng' = [eng EXCEPT !.pc = "distribute", !.pvConfirm = confirm]

(* PV curtailment compensation; without a valid grid reading it does       *)
(* nothing.                                                                *)
PvStep ==
  /\ eng.pc = "pv"
  /\ IF EnablePv /\ ~Default("arf params") /\ Grid # Bad THEN Curtail \/ Recover
     ELSE /\ eng' = [eng EXCEPT !.pc = "distribute"]
          /\ UNCHANGED cmd
  /\ UNCHANGED <<site, db, polled, changes, faults>>

(* Which batteries there are to share a target is what the bindings of     *)
(* either strategy say.                                                    *)
Bound == ~Default("arf bindings") \/ Clamps

(* A slip of the sharing: a stopped battery gets its share.                *)
EligibleStopped ==
  {g \in Groups :
     /\ Bound
     /\ (g \in SocKnown /\ eng.target # 0) => MayTake(g, eng.target)}

(* The batteries that take part in a target.                               *)
Eligible ==
  {g \in Groups :
     /\ Bound
     /\ Running(g)
     /\ (g \in SocKnown /\ eng.target # 0) => MayTake(g, eng.target)}

Limit(g) == IF Default("arf params") THEN DefaultLimit
            ELSE IF eng.target > 0 THEN DischargeLimit[g] ELSE ChargeLimit[g]
Weight(g) == IF \A h \in Eligible : Limit(h) = 0 THEN 1 ELSE Limit(g)

(* Shares are proportional to the limits of the batteries that take part.  *)
Share(g) ==
  LET total == Total([h \in Eligible |-> Weight(h)], Eligible)
      part == (Abs(eng.target) * Weight(g)) \div total
  IN  IF eng.target < 0 THEN -part ELSE part

(* The shares are submitted; what they add up to is the locked target, and *)
(* all that the next cycle finds of this one.                              *)
Distribute ==
  /\ eng.pc = "distribute"
  /\ cmd' = Submitted(Eligible, [g \in Eligible |-> Share(g)])
  /\ eng' = [eng EXCEPT !.pc = "sleep", !.hasLocked = TRUE,
                        !.locked = IF Eligible = {} THEN 0 ELSE eng.target,
                        !.target = 0, !.suppressed = "no", !.highClamp = FALSE]
  /\ UNCHANGED <<site, db, polled, changes, faults>>

-----------------------------------------------------------------------------
Cycle == Begin \/ Calculate \/ Clamp \/ PvStep \/ Distribute

Next ==
  \/ Change
  \/ \E x \in Plants : Settle(x) \/ Apply(x) \/ ApplyFails(x)
  \/ \E g \in Groups : Drift(g)
  \/ \E B \in Blocks : Poll(B) \/ PollFails(B)
  \/ Cycle

Spec == Init /\ [][Next]_vars

(* The engine's loop, the poll threads and the control threads never stop: *)
(* a block not polled since the last calculation, and a command in a slot, *)
(* are not left alone for ever; the PV plant and a battery that runs get   *)
(* to their goals.                                                         *)
FairSpec ==
  /\ Spec
  /\ WF_vars(Cycle)
  /\ WF_vars(\E B \in Blocks \ polled : Poll(B))
  /\ WF_vars(\E x \in Plants : Apply(x))
  /\ \A x \in Plants : WF_vars(Settle(x))

-----------------------------------------------------------------------------
(* What the parameters in use allow the station to charge and discharge.   *)
StationRange == -ChargeMax .. DischargeMax

(* The engine's targets keep to the limits in use: what calculate_target   *)
(* locks, what the clamp leaves of it and what mark_target_applied writes  *)
(* back, through lost readings, stopped batteries and loads that succeed   *)
(* in part. A target found under the default limits never outlives them:   *)
(* the next load forgets it.                                               *)
TargetInRange ==
  eng.locked \in StationRange /\ eng.target \in StationRange

(* Once load, sun and run states stay as they are, the export ends for good *)
(* unless the batteries already take all the station may give them, or none *)
(* runs and the PV plant is not to be curtailed.                            *)
ExportEnds ==
  <>[](\/ GridPower >= ExportLimit - Deadband
       \/ Total(setpoint, Groups) = -MaxCharge
       \/ ~EnablePv /\ \A g \in Groups : ~running[g])

(* Once they stay as they are, the engine stops changing its mind: it only  *)
(* repeats the set points the devices already have.                         *)
SettlesDown ==
  <>[][cmd' # cmd => \A x \in DOMAIN cmd : cmd'[x] \in {None, setpoint[x]}]_vars

(* When one battery stops for good and the others can go on charging, they  *)
(* take over its share: the export ends, or they charge all the station     *)
(* may. The run states must stand in the order of the states of charge,     *)
(* for in any other clamp takes one battery's for the other's.              *)
InOrder == \A g \in Groups : eng.pair[g] = g
OthersTakeOver ==
  \A g \in Groups :
    <>[](/\ ~running[g] /\ InOrder
         /\ \A h \in Groups \ {g} : running[h] /\ soc[h] < SocHigh)
      => <>[](\/ GridPower >= ExportLimit - Deadband
              \/ Total(setpoint, Groups \ {g}) = -MaxCharge)

(* A curtailed PV plant is given back its power: its limit rises until it   *)
(* is lifted or the site has no headroom left ("PV curtailment recovering   *)
(* toward 100%").                                                           *)
CurtailmentIsLifted ==
  []<>(setpoint[Pv] = LimitMax \/ GridPower <= ExportLimit + RecoveryDeadband)

(* SOC protection: once every battery runs and is full for good, none is    *)
(* told to charge any more, although the engine still sees an export.       *)
FullStationStopsCharging ==
  <>[](\A g \in Groups : running[g] /\ soc[g] >= SocHigh)
    => <>[](\A g \in Groups : setpoint[g] >= 0)
=============================================================================
