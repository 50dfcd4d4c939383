------------------------- MODULE ManualOverrideProofs -------------------------
(***************************************************************************)
(* What the engine makes of the rows, for any strategies, durations, time  *)
(* zones and lengths of a day, and any failures:                           *)
(*   - it never pauses longer than a row says, but for the time its clock  *)
(*     is behind the database's;                                           *)
(*   - it submits over a row that has not ended only if it has not read it. *)
(***************************************************************************)
EXTENDS ManualOverride, TLAPS

Times == [Strategies -> Nat]

EngineTimes ==
  /\ eng \in [pc : {"begin", "load", "check", "submit"}, cycle : Int,
              loaded : SUBSET Strategies, overrides : [Strategies -> Int]]
  /\ eng.loaded \in {{}, Strategies}

(* Rows never end later than one written at this moment would: a later one *)
(* never shortens an earlier one.                                          *)
PauseInv ==
  /\ now \in Nat
  /\ until \in Times
  /\ \A s \in Strategies : until[s] <= now + Duration
  /\ EngineTimes
  /\ NeverOutwaits

(* The conversion never gives a time later than the other clock explains.  *)
LEMMA ParsedNotLater ==
  ASSUME NEW t \in Nat PROVE Parsed(t) \in Int /\ Parsed(t) <= t + Overstay
<1>1. Day \in Nat \ {0} /\ DbZone \in Int /\ EngineZone \in Int
  BY TimesAssumption, ZonesAssumption
<1>2. ASSUME NEW n \in Int, NEW d \in Nat \ {0}
      PROVE  (n \div d) * d \in Int /\ (n \div d) * d <= n
  BY SMT
<1>3. ((t + DbZone) \div Day) * Day \in Int /\ ((t + DbZone) \div Day) * Day <= t + DbZone
  BY <1>1, <1>2
<1>4. DbZone - EngineZone <= Overstay /\ Overstay \in Nat
  BY <1>1 DEF Overstay
<1> DEFINE midnight == ((t + DbZone) \div Day) * Day
<1> HIDE DEF midnight
<1>5. Parsed(t) = midnight - EngineZone
  BY DEF Parsed, midnight
<1>6. midnight \in Int /\ midnight <= t + DbZone
  BY <1>3 DEF midnight
<1> QED BY <1>1, <1>4, <1>5, <1>6

LEMMA KeptNotLater ==
  ASSUME until \in Times, NEW S
  PROVE  /\ Kept(S) \in [Strategies -> Int]
         /\ \A s \in Strategies : Kept(S)[s] <= until[s] + Overstay
<1>1. ASSUME NEW s \in Strategies
      PROVE  Kept(S)[s] \in Int /\ Kept(S)[s] <= until[s] + Overstay
  <2>1. until[s] \in Nat
    BY DEF Times
  <2>2. Overstay \in Nat
    BY ZonesAssumption DEF Overstay
  <2>3. Parsed(until[s]) \in Int /\ Parsed(until[s]) <= until[s] + Overstay
    BY <2>1, ParsedNotLater
  <2> HIDE DEF Parsed, Overstay
  <2> QED BY <2>1, <2>2, <2>3 DEF Kept
<1> QED BY <1>1 DEF Kept

(* Reading the rows keeps the invariant.                                   *)
LEMMA LoadKeepsPause == PauseInv /\ LoadOverrides => PauseInv'
<1> SUFFICES ASSUME PauseInv, LoadOverrides PROVE PauseInv'
  OBVIOUS
<1>1. PICK rows : eng' = [eng EXCEPT !.pc = "check", !.cycle = NextCycle,
                                     !.overrides = Kept(rows)]
  BY DEF LoadOverrides
<1>2. /\ Kept(rows) \in [Strategies -> Int]
      /\ \A s \in Strategies : Kept(rows)[s] <= until[s] + Overstay
  BY KeptNotLater DEF PauseInv
<1>3. UNCHANGED <<now, until>>
  BY DEF LoadOverrides
<1>4. NextCycle \in Int
  BY TimesAssumption DEF NextCycle, PauseInv, EngineTimes
<1> HIDE DEF Kept, Overstay
<1> QED BY <1>1, <1>2, <1>3, <1>4 DEF PauseInv, EngineTimes, NeverOutwaits

(* Rows only move on, so a pause that ended in time still does.            *)
LEMMA RowsKeepPause == PauseInv /\ RowsAppear => PauseInv'
<1> SUFFICES ASSUME PauseInv, RowsAppear PROVE PauseInv'
  OBVIOUS
<1> USE TimesAssumption
<1>1. PICK S \in SUBSET Strategies :
        until' = [s \in Strategies |-> IF s \in S THEN now + Duration ELSE until[s]]
  BY DEF RowsAppear
<1>2. until' \in Times
      /\ \A s \in Strategies : until[s] <= until'[s] /\ until'[s] <= now + Duration
  BY <1>1 DEF PauseInv, Times
<1>3. UNCHANGED <<now, eng>>
  BY DEF RowsAppear
<1>4. ASSUME NEW s \in Strategies PROVE eng.overrides[s] <= until'[s] + Overstay
  <2>1. Overstay \in Nat
    BY ZonesAssumption DEF Overstay
  <2>2. /\ eng.overrides[s] \in Int /\ until[s] \in Nat /\ until'[s] \in Nat
        /\ eng.overrides[s] <= until[s] + Overstay /\ until[s] <= until'[s]
    BY <1>2 DEF PauseInv, EngineTimes, NeverOutwaits, Times
  <2> QED BY <2>1, <2>2
<1> QED BY <1>2, <1>3, <1>4 DEF PauseInv, EngineTimes, NeverOutwaits

(* So does every other step.                                               *)
LEMMA StepKeepsPause == PauseInv /\ [Next]_vars => PauseInv'
<1> SUFFICES ASSUME PauseInv, [Next]_vars PROVE PauseInv'
  OBVIOUS
<1> USE TimesAssumption
<1>1. CASE Tick
  BY <1>1 DEF Tick, PauseInv, EngineTimes, NeverOutwaits, Times
<1>2. CASE Command \/ WriteRows \/ Execute
  BY <1>2 DEF Command, WriteRows, Execute, PauseInv, EngineTimes, NeverOutwaits
<1>3. CASE RowsAppear
  BY <1>3, RowsKeepPause
<1>4. CASE Begin
  <2>1. NextCycle \in Int
    BY DEF NextCycle, PauseInv, EngineTimes
  <2> QED BY <1>4, <2>1 DEF Begin, PauseInv, EngineTimes, NeverOutwaits
<1>5. CASE LoadOverrides
  BY <1>5, LoadKeepsPause
<1>6. CASE Check
  BY <1>6 DEF Check, PauseInv, EngineTimes, NeverOutwaits
<1>7. CASE Submit
  BY <1>7 DEF Submit, PauseInv, EngineTimes, NeverOutwaits
<1>8. CASE Restart
  <2>1. Overstay \in Nat
    BY ZonesAssumption DEF Overstay
  <2> QED BY <1>8, <2>1 DEF Restart, Started, PauseInv, EngineTimes, NeverOutwaits, Times
<1>9. CASE UNCHANGED vars
  BY <1>9 DEF vars, PauseInv, EngineTimes, NeverOutwaits
<1> QED BY <1>1, <1>2, <1>3, <1>4, <1>5, <1>6, <1>7, <1>8, <1>9 DEF Next, Cycle

LEMMA PauseInvHolds == Spec => []PauseInv
<1>1. Init => PauseInv
  <2>1. Overstay \in Nat
    BY ZonesAssumption DEF Overstay
  <2> QED BY <2>1, TimesAssumption, ZonesAssumption
          DEF Init, Started, PauseInv, EngineTimes, NeverOutwaits, Times
<1> QED BY <1>1, StepKeepsPause, PTL DEF Spec

(* The engine never stays away longer than the row says, but for the time  *)
(* its clock is behind the database's (lines 169-190 and 286-310).         *)
THEOREM PauseEndsWithRow == Spec => []NeverOutwaits
<1>1. PauseInv => NeverOutwaits
  BY DEF PauseInv
<1> QED BY <1>1, PauseInvHolds, PTL

-----------------------------------------------------------------------------
(* A row that lasts, by its own time and by the time parsed.               *)
Lasts(s) == until[s] > now /\ Parsed(until[s]) > now

(* What was read and lasts is in the map, and a cycle that got past the    *)
(* check found nothing there that lasts.                                   *)
ReadInv ==
  /\ \A s \in Strategies \ unseen :
       Lasts(s) => eng.overrides[s] = Parsed(until[s])
  /\ eng.pc = "submit" => \A s \in Strategies : eng.overrides[s] <= now

LEMMA LoadReads == PauseInv /\ LoadOverrides => ReadInv'
<1> SUFFICES ASSUME PauseInv, LoadOverrides PROVE ReadInv'
  OBVIOUS
<1>1. PICK rows \in {Overridden, {}} :
        /\ IF rows = Overridden THEN unseen' = {} ELSE unseen' = Strategies
        /\ eng' = [eng EXCEPT !.pc = "check", !.cycle = NextCycle,
                              !.overrides = Kept(rows)]
  BY DEF LoadOverrides
<1>2. UNCHANGED <<now, until>>
  BY DEF LoadOverrides
<1>3. eng'.pc = "check" /\ eng'.overrides = Kept(rows)
  BY <1>1 DEF PauseInv, EngineTimes
<1>4. ASSUME NEW s \in Strategies \ unseen', Lasts(s)
      PROVE  Kept(rows)[s] = Parsed(until[s])
  <2>1. rows = Overridden
    BY <1>1
  <2>2. s \in rows
    BY <1>4, <2>1 DEF Overridden, Lasts
  <2> QED BY <1>4, <2>2 DEF Kept, Lasts
<1>5. ASSUME NEW s \in Strategies \ unseen', Lasts(s)'
      PROVE  eng'.overrides[s] = Parsed(until'[s])
  <2>1. Lasts(s)
    BY <1>2, <1>5 DEF Lasts, Parsed
  <2>2. Kept(rows)[s] = Parsed(until[s])
    BY <1>4, <2>1
  <2> QED BY <1>2, <1>3, <2>2 DEF Parsed
<1> QED BY <1>3, <1>5 DEF ReadInv, Parsed

LEMMA StepKeepsRead == PauseInv /\ ReadInv /\ [Next]_vars => ReadInv'
<1> SUFFICES ASSUME PauseInv, ReadInv, [Next]_vars PROVE ReadInv'
  OBVIOUS
<1> USE DEF Lasts
<1> HIDE DEF Parsed
<1>1. CASE Tick
  <2>1. now' = now + 1 /\ UNCHANGED <<until, eng, unseen>>
    BY <1>1 DEF Tick
  <2>2. \A s \in Strategies : until[s] \in Nat /\ Parsed(until[s]) \in Int
    BY ParsedNotLater DEF PauseInv, Times
  <2>3. ASSUME NEW s \in Strategies, Lasts(s)' PROVE Lasts(s)
    <3>1. until[s] > now + 1 /\ Parsed(until[s]) > now + 1
      BY <2>1, <2>3 DEF Parsed
    <3> QED BY <2>2, <3>1 DEF PauseInv
  <2>4. ASSUME NEW s \in Strategies, eng.overrides[s] <= now
        PROVE  eng.overrides[s] <= now + 1
    BY <2>4 DEF PauseInv, EngineTimes
  <2> HIDE DEF Lasts
  <2>5. ASSUME NEW s \in Strategies \ unseen, Lasts(s)'
        PROVE  eng'.overrides[s] = Parsed(until'[s])
    BY <2>1, <2>3, <2>5 DEF ReadInv, Parsed
  <2> QED BY <2>1, <2>4, <2>5 DEF ReadInv, Parsed
<1>2. CASE UNCHANGED <<now, until, eng, unseen>>
  BY <1>2 DEF ReadInv, Parsed
<1>3. CASE RowsAppear
  <2>1. PICK S \in SUBSET Strategies :
          /\ until' = [s \in Strategies |-> IF s \in S THEN now + Duration ELSE until[s]]
          /\ unseen' = unseen \cup S
    BY <1>3 DEF RowsAppear
  <2>2. UNCHANGED <<now, eng>>
    BY <1>3 DEF RowsAppear
  <2>3. \A s \in Strategies \ unseen' : s \notin unseen /\ until'[s] = until[s]
    BY <2>1
  <2> QED BY <2>2, <2>3 DEF ReadInv, Parsed
<1>4. CASE Begin
  <2>1. UNCHANGED <<now, until, unseen>> /\ eng'.overrides = eng.overrides
        /\ eng'.pc # "submit"
    BY <1>4 DEF Begin, PauseInv, EngineTimes
  <2> QED BY <2>1 DEF ReadInv, Parsed
<1>5. CASE LoadOverrides
  BY <1>5, LoadReads
<1>6. CASE Check
  <2>1. UNCHANGED <<now, until, unseen>> /\ eng'.overrides = eng.overrides
    BY <1>6 DEF Check, PauseInv, EngineTimes
  <2>2. ASSUME eng'.pc = "submit", NEW s \in Strategies PROVE eng.overrides[s] <= now
    <3>1. eng.loaded = Strategies /\ ~Paused
      BY <1>6, <2>2 DEF Check, PauseInv, EngineTimes
    <3> QED BY <3>1 DEF Paused, PauseInv, EngineTimes
  <2> QED BY <2>1, <2>2 DEF ReadInv, Parsed
<1>7. CASE Submit
  <2>1. UNCHANGED <<now, until, unseen>> /\ eng'.overrides = eng.overrides
        /\ eng'.pc # "submit"
    BY <1>7 DEF Submit, PauseInv, EngineTimes
  <2> QED BY <2>1 DEF ReadInv, Parsed
<1>8. CASE Restart
  <2>1. unseen' = Strategies /\ eng'.pc = "begin"
    BY <1>8 DEF Restart, Started
  <2> QED BY <2>1 DEF ReadInv
<1>9. CASE Command \/ WriteRows \/ Execute \/ UNCHANGED vars
  <2>1. UNCHANGED <<now, until, eng, unseen>>
    BY <1>9 DEF Command, WriteRows, Execute, vars
  <2> QED BY <1>2, <2>1
<1> QED BY <1>1, <1>3, <1>4, <1>5, <1>6, <1>7, <1>8, <1>9 DEF Next, Cycle

(* The engine submits over a row that lasts only if it has not read it     *)
(* (lines 286-310 and 631-654).                                            *)
THEOREM RowsAreRespected == Spec => []RowsRespected
<1>1. Init => ReadInv
  BY TimesAssumption, ZonesAssumption DEF Init, Started, ReadInv, Lasts
<1>2. PauseInv /\ ReadInv => RowsRespected
  <2> SUFFICES ASSUME PauseInv, ReadInv, eng.pc = "submit",
                      NEW s \in Strategies \ unseen
               PROVE  until[s] <= now \/ Parsed(until[s]) <= now
    BY DEF RowsRespected
  <2>1. until[s] \in Nat /\ Parsed(until[s]) \in Int /\ now \in Nat
    BY ParsedNotLater DEF PauseInv, Times
  <2>2. eng.overrides[s] <= now /\ (Lasts(s) => eng.overrides[s] = Parsed(until[s]))
    BY DEF ReadInv
  <2> HIDE DEF Parsed
  <2> QED BY <2>1, <2>2 DEF Lasts
<1> QED BY <1>1, <1>2, StepKeepsRead, PauseInvHolds, PTL DEF Spec
=============================================================================
