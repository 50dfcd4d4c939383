------------------------- MODULE StrategyEngineProofs -------------------------
(***************************************************************************)
(* The engine's targets and the sum of the batteries' shares stay in the   *)
(* range that the parameters in use allow the station, for every site,     *)
(* every set of batteries, every timing of polls and commands, any number  *)
(* of lost readings and failed writes, and loads that succeed, fail or     *)
(* succeed in part, in any order. A sum over a set is a function of its    *)
(* subsets, chosen; that there is one, and what it is, follows from a      *)
(* smallest set for which it were otherwise.                               *)
(***************************************************************************)
EXTENDS StrategyEngine, FiniteSetTheorems, TLAPS

Fields ==
  {"pc", "cycle", "missing", "pair", "hasLocked", "locked", "confirm",
   "pvConfirm", "target", "suppressed", "highClamp"}

(* The range itself, and the engine still being the record it starts as.   *)
TargetInv == TargetInRange /\ DOMAIN eng = Fields

(* The limits in use are naturals.                                         *)
LEMMA LimitsInUse == ChargeMax \in Nat /\ DischargeMax \in Nat
  BY RangeAssumption DEF ChargeMax, DischargeMax

(* Zero is in the range, whatever the limits in use are.                   *)
LEMMA ZeroInRange == 0 \in StationRange
  BY LimitsInUse DEF StationRange

(* A target computed anew is in the range, whatever the readings hold.     *)
LEMMA RecalculatedInRange == Recalculated \in StationRange
<1>1. -ChargeMax \in StationRange /\ DischargeMax \in StationRange
  BY LimitsInUse DEF StationRange
<1>2. ASSUME NEW n PROVE Clip(n, -ChargeMax, DischargeMax) \in StationRange
  BY <1>1 DEF Clip, StationRange
<1>3. RawTarget \in StationRange
  BY <1>2 DEF RawTarget
<1> QED BY <1>3, ZeroInRange DEF Recalculated

(* The range changes only with the strategies' parameters.                 *)
LEMMA SameRange == ASSUME eng'.missing = eng.missing PROVE StationRange' = StationRange
  BY DEF StationRange, ChargeMax, DischargeMax, Default

(* A step that loads nothing and whose targets are zero, the ones before   *)
(* or one computed anew keeps the invariant.                               *)
LEMMA RangeKept ==
  ASSUME TargetInv, DOMAIN eng' = Fields, eng'.missing = eng.missing,
         eng'.locked \in {0, eng.locked, eng.target, Recalculated},
         eng'.target \in {0, eng.locked, eng.target, Recalculated}
  PROVE  TargetInv'
<1>1. StationRange' = StationRange
  BY SameRange
<1>2. eng'.locked \in StationRange /\ eng'.target \in StationRange
  BY ZeroInRange, RecalculatedInRange DEF TargetInv, TargetInRange
<1> QED BY <1>1, <1>2 DEF TargetInv, TargetInRange, Fields

(* Calculating keeps the invariant: the target is zero, the one locked, or *)
(* one computed anew.                                                      *)
LEMMA CalculateKeepsRange == TargetInv /\ Calculate => TargetInv'
<1> SUFFICES ASSUME TargetInv, Calculate PROVE TargetInv'
  OBVIOUS
<1> DEFINE e == [eng EXCEPT !.pc = "clamp", !.suppressed = "no",
                            !.target = 0, !.highClamp = FALSE]
<1>1. DOMAIN e = Fields /\ e.locked = eng.locked /\ e.target = 0
      /\ e.missing = eng.missing
  BY DEF TargetInv, Fields
<1>2. CASE Grid = Bad
  <2>1. eng' = [e EXCEPT !.suppressed = "invalid"]
    BY <1>2 DEF Calculate
  <2> HIDE DEF e
  <2> QED BY <1>1, <2>1, RangeKept DEF Fields
<1>3. CASE Grid # Bad /\ \A g \in Groups : ~Running(g)
  <2>1. eng' = [e EXCEPT !.suppressed = "stopped"]
    BY <1>3 DEF Calculate
  <2> HIDE DEF e
  <2> QED BY <1>1, <2>1, RangeKept DEF Fields
<1>4. CASE Grid # Bad /\ (\E g \in Groups : Running(g)) /\ Due
  <2>1. eng' = [e EXCEPT !.target = Recalculated, !.locked = Recalculated,
                         !.hasLocked = TRUE, !.confirm = 0]
    BY <1>4 DEF Calculate
  <2> HIDE DEF e
  <2> QED BY <1>1, <2>1, RangeKept DEF Fields
<1>5. CASE Grid # Bad /\ (\E g \in Groups : Running(g)) /\ ~Due
  <2>1. eng' = [e EXCEPT !.target = eng.locked, !.confirm = Confirmed]
    BY <1>5 DEF Calculate
  <2> HIDE DEF e
  <2> QED BY <1>1, <2>1, RangeKept DEF Fields
<1> QED BY <1>2, <1>3, <1>4, <1>5

(* A load may change the range, but forgets the targets found under the    *)
(* old one.                                                                *)
LEMMA BeginKeepsRange == TargetInv /\ Begin => TargetInv'
<1> SUFFICES ASSUME TargetInv, Begin PROVE TargetInv'
  OBVIOUS
<1>1. PICK missing \in SUBSET Queries, pair \in Bijection(Groups, Groups) :
        LET e == IF eng.cycle = 0 THEN Loaded(missing, pair) ELSE eng
        IN  eng' = [e EXCEPT !.cycle = NextCycle(e.missing), !.target = 0,
                             !.pc = IF "definitions" \in e.missing
                                    THEN "sleep" ELSE "calculate"]
  BY DEF Begin
<1>2. CASE eng.cycle # 0
  <2>1. /\ DOMAIN eng' = Fields /\ eng'.missing = eng.missing
        /\ eng'.locked = eng.locked /\ eng'.target = 0
    BY <1>1, <1>2 DEF TargetInv, Fields
  <2> QED BY <2>1, RangeKept
<1>3. CASE eng.cycle = 0
  <2> DEFINE e == Loaded(missing, pair)
  <2>1. DOMAIN e = Fields /\ e.locked = 0
    BY DEF TargetInv, Fields, Loaded, Unlocked
  <2>2. eng' = [e EXCEPT !.cycle = NextCycle(e.missing), !.target = 0,
                         !.pc = IF "definitions" \in e.missing
                                THEN "sleep" ELSE "calculate"]
    BY <1>1, <1>3
  <2> HIDE DEF e
  <2>3. DOMAIN eng' = Fields /\ eng'.locked = 0 /\ eng'.target = 0
    BY <2>1, <2>2 DEF Fields
  <2>4. 0 \in StationRange'
    <3>1. ChargeMax' \in Nat /\ DischargeMax' \in Nat
      BY RangeAssumption DEF ChargeMax, DischargeMax
    <3>2. StationRange' = -(ChargeMax') .. DischargeMax'
      BY DEF StationRange
    <3>3. ASSUME NEW c \in Nat, NEW d \in Nat PROVE 0 \in -c .. d
      OBVIOUS
    <3> QED BY <3>1, <3>2, <3>3, Zenon
  <2> QED BY <2>3, <2>4 DEF TargetInv, TargetInRange, Fields
<1> QED BY <1>2, <1>3

(* So does every step of the cycle.                                        *)
LEMMA CycleKeepsRange == TargetInv /\ Cycle => TargetInv'
<1> SUFFICES ASSUME TargetInv, Cycle PROVE TargetInv'
  OBVIOUS
<1>1. CASE Begin
  BY <1>1, BeginKeepsRange
<1>2. CASE Calculate
  BY <1>2, CalculateKeepsRange
<1>3. CASE Clamp
  <2>1. /\ DOMAIN eng' = Fields /\ eng'.missing = eng.missing
        /\ eng'.locked = eng.locked /\ eng'.target \in {0, eng.target}
    BY <1>3 DEF Clamp, TargetInv, Fields
  <2> QED BY <2>1, RangeKept
<1>4. CASE PvStep
  <2>1. /\ DOMAIN eng' = Fields /\ eng'.missing = eng.missing
        /\ eng'.locked = eng.locked /\ eng'.target = eng.target
    BY <1>4 DEF PvStep, Curtail, Recover, TargetInv, Fields
  <2> QED BY <2>1, RangeKept
<1>5. CASE Distribute
  <2>1. /\ DOMAIN eng' = Fields /\ eng'.missing = eng.missing
        /\ eng'.locked \in {0, eng.target} /\ eng'.target = 0
    BY <1>5 DEF Distribute, TargetInv, Fields
  <2> QED BY <2>1, RangeKept
<1> QED BY <1>1, <1>2, <1>3, <1>4, <1>5 DEF Cycle

LEMMA InitTargets == Init => TargetInv
  BY ZeroInRange DEF Init, Engine, TargetInv, TargetInRange, Fields

LEMMA StepKeepsTargets == TargetInv /\ [Next]_vars => TargetInv'
<1> SUFFICES ASSUME TargetInv, [Next]_vars PROVE TargetInv'
  OBVIOUS
<1>1. CASE Cycle
  BY <1>1, CycleKeepsRange
<1>2. CASE eng' = eng
  <2>1. DOMAIN eng' = Fields
    BY <1>2 DEF TargetInv, Fields
  <2> QED BY <1>2, <2>1, RangeKept
<1>3. ASSUME NEW B \in Blocks, Poll(B) \/ PollFails(B) PROVE eng' = eng
  BY <1>3 DEF Poll, PollFails
<1>4. ASSUME NEW x \in Plants, Settle(x) \/ Apply(x) \/ ApplyFails(x)
      PROVE eng' = eng
  BY <1>4 DEF Settle, Apply, ApplyFails
<1>5. ASSUME NEW g \in Groups, Drift(g) PROVE eng' = eng
  BY <1>5 DEF Drift
<1>6. Change => eng' = eng
  BY DEF Change
<1>7. UNCHANGED vars => eng' = eng
  BY DEF vars
<1> QED BY <1>1, <1>2, <1>3, <1>4, <1>5, <1>6, <1>7 DEF Next

(* What the engine locks, sends and writes back is never more than the     *)
(* parameters in use allow the station to charge or discharge, even when   *)
(* a load leaves a strategy with the defaults and the next one with its    *)
(* own (AntiReverseFlow::calculate_target, SocProtection::clamp,           *)
(* mark_target_applied, load_strategies).                                  *)
THEOREM TargetsKeepToStation == Spec => []TargetInRange
<1>1. TargetInv => TargetInRange
  BY DEF TargetInv
<1> QED BY InitTargets, StepKeepsTargets, <1>1, PTL DEF Spec

-----------------------------------------------------------------------------
(* Sums over a set.  A recursive function is the choice of a function that *)
(* satisfies its equation; that there is one, and what it sums up to, is   *)
(* shown by looking at the smallest set for which it would not be so.      *)

(* The equation of the function Total is defined by, over the subsets of S. *)
SumsOf(f, S, g) ==
  g = [s \in SUBSET S |->
         IF s = {} THEN 0
         ELSE LET x == CHOOSE x \in s : TRUE IN f[x] + g[s \ {x}]]

LEMMA TotalIsSum ==
  ASSUME NEW f, NEW S
  PROVE  Total(f, S) = (CHOOSE g : SumsOf(f, S, g))[S]
BY DEF Total, MapThenSumSet, MapThenFoldSet, SumsOf

(* Among sets of subsets of a finite set there is a smallest one.          *)
LEMMA SmallestSubset ==
  ASSUME NEW S, IsFiniteSet(S), NEW W \in SUBSET (SUBSET S), W # {}
  PROVE  \E T \in W : \A U \in W : U \subseteq T => U = T
<1>1. W \subseteq FiniteSubsetsOf(S)
  BY FS_FiniteSubsetsOfFinite
<1>2. IsWellFoundedOn(StrictSubsetOrdering(S), FiniteSubsetsOf(S))
  BY FS_StrictSubsetOrderingWellFounded
<1>3. PICK T \in W : \A U \in W : ~ (<<U, T>> \in StrictSubsetOrdering(S))
  BY <1>1, <1>2, WFMin
<1>4. ASSUME NEW U \in W, U \subseteq T PROVE U = T
  <2>1. <<U, T>> \in (SUBSET S) \X (SUBSET S)
    OBVIOUS
  <2> QED BY <1>3, <1>4, <2>1 DEF StrictSubsetOrdering
<1> QED BY <1>4

LEMMA SumsAgree ==
  ASSUME NEW f, NEW S, IsFiniteSet(S), NEW T \in SUBSET S, NEW U \in SUBSET S,
         NEW g, SumsOf(f, T, g), NEW h, SumsOf(f, U, h)
  PROVE  \A s \in SUBSET (T \cap U) : g[s] = h[s]
<1> DEFINE W == {s \in SUBSET (T \cap U) : g[s] # h[s]}
<1>1. SUFFICES ASSUME W # {} PROVE FALSE
  OBVIOUS
<1>2. PICK s \in W : \A u \in W : u \subseteq s => u = s
  <2>1. W \in SUBSET (SUBSET S)
    OBVIOUS
  <2> HIDE DEF W
  <2> QED BY <1>1, <2>1, SmallestSubset
<1>3. s \in SUBSET T /\ s \in SUBSET U /\ g[s] # h[s]
  OBVIOUS
<1> DEFINE x == CHOOSE x \in s : TRUE
<1>4. CASE s = {}
  <2>1. g[s] = 0 /\ h[s] = 0
    BY <1>3, <1>4 DEF SumsOf
  <2> QED BY <1>3, <2>1
<1>5. CASE s # {}
  <2>1. x \in s
    BY <1>5
  <2>2. s \ {x} \notin W
    BY <1>2, <2>1
  <2>3. g[s \ {x}] = h[s \ {x}]
    BY <2>2
  <2>4. g[s] = f[x] + g[s \ {x}] /\ h[s] = f[x] + h[s \ {x}]
    BY <1>3, <1>5 DEF SumsOf
  <2> QED BY <1>3, <2>3, <2>4
<1> QED BY <1>4, <1>5

LEMMA SumsExist ==
  ASSUME NEW f, NEW S, IsFiniteSet(S)
  PROVE  \E g : SumsOf(f, S, g)
<1> DEFINE W == {T \in SUBSET S : ~ \E g : SumsOf(f, T, g)}
<1>1. SUFFICES ASSUME W # {} PROVE FALSE
  OBVIOUS
<1>2. PICK T \in W : \A U \in W : U \subseteq T => U = T
  <2>1. W \in SUBSET (SUBSET S)
    OBVIOUS
  <2> HIDE DEF W
  <2> QED BY <1>1, <2>1, SmallestSubset
<1> DEFINE h(U) == CHOOSE g : SumsOf(f, U, g)
           c(s) == CHOOSE x \in s : TRUE
           G == [s \in SUBSET T |-> IF s = {} THEN 0
                                    ELSE f[c(s)] + h(s \ {c(s)})[s \ {c(s)}]]
<1>3. ASSUME NEW U \in SUBSET T, U # T PROVE SumsOf(f, U, h(U))
  <2>1. U \notin W
    BY <1>2, <1>3
  <2>2. \E g : SumsOf(f, U, g)
    BY <2>1
  <2> QED BY <2>2
<1>4. ASSUME NEW s \in SUBSET T, s # {}
      PROVE  h(s \ {c(s)})[s \ {c(s)}] = G[s \ {c(s)}]
  <2> DEFINE u == s \ {c(s)}
             v == u \ {c(u)}
  <2>1. c(s) \in s
    BY <1>4
  <2>2. u \in SUBSET T /\ u # T
    BY <2>1
  <2>3. SumsOf(f, u, h(u))
    BY <1>3, <2>2
  <2>4. CASE u = {}
    <3>1. h(u)[u] = 0
      BY <2>3, <2>4 DEF SumsOf
    <3>2. G[u] = 0
      BY <2>2, <2>4
    <3> QED BY <3>1, <3>2
  <2>5. CASE u # {}
    <3>1. c(u) \in u /\ v \in SUBSET u /\ v \in SUBSET T /\ v # T
      BY <2>2, <2>5
    <3>2. SumsOf(f, v, h(v))
      BY <1>3, <3>1
    <3>3. h(u)[v] = h(v)[v]
      <4> HIDE DEF u, v, h
      <4>1. u \in SUBSET S /\ v \in SUBSET S /\ v \in SUBSET (u \cap v)
        BY <2>2, <3>1
      <4>2. \A w \in SUBSET (u \cap v) : h(u)[w] = h(v)[w]
        BY <2>3, <3>2, <4>1, SumsAgree
      <4> QED BY <4>1, <4>2
    <3>4. h(u)[u] = f[c(u)] + h(u)[v]
      <4> HIDE DEF u, h
      <4> QED BY <2>3, <2>5 DEF SumsOf
    <3>5. G[u] = f[c(u)] + h(v)[v]
      <4> HIDE DEF u, h
      <4> QED BY <2>2, <2>5
    <3> QED BY <3>3, <3>4, <3>5
  <2> QED BY <2>4, <2>5
<1>5. SumsOf(f, T, G)
  <2> DEFINE sum(s) == IF s = {} THEN 0 ELSE f[c(s)] + G[s \ {c(s)}]
  <2>1. ASSUME NEW s \in SUBSET T PROVE G[s] = sum(s)
    <3>1. G[s] = IF s = {} THEN 0 ELSE f[c(s)] + h(s \ {c(s)})[s \ {c(s)}]
      <4> HIDE DEF h, c
      <4> QED OBVIOUS
    <3> HIDE DEF h, G
    <3>2. CASE s = {}
      BY <3>1, <3>2
    <3>3. CASE s # {}
      BY <3>1, <3>3, <1>4
    <3> QED BY <3>2, <3>3
  <2>2. G = [s \in SUBSET T |-> G[s]]
    <3> HIDE DEF h, c
    <3> QED OBVIOUS
  <2> HIDE DEF G
  <2>3. G = [s \in SUBSET T |-> sum(s)]
    <3> HIDE DEF sum
    <3> QED BY <2>1, <2>2
  <2> QED BY <2>3 DEF SumsOf
<1> QED BY <1>2, <1>5

LEMMA TotalOfNone == ASSUME NEW f PROVE Total(f, {}) = 0
<1>1. \E g : SumsOf(f, {}, g)
  BY SumsExist, FS_EmptySet
<1> DEFINE g == CHOOSE g : SumsOf(f, {}, g)
<1>2. SumsOf(f, {}, g)
  BY <1>1
<1>3. g[{}] = 0
  BY <1>2 DEF SumsOf
<1> QED BY <1>3, TotalIsSum

(* The element a sum begins with.                                          *)
First(S) == CHOOSE x \in S : TRUE

LEMMA TotalOfMore ==
  ASSUME NEW f, NEW S, IsFiniteSet(S), S # {}
  PROVE  /\ First(S) \in S
         /\ Total(f, S) = f[First(S)] + Total(f, S \ {First(S)})
<1> DEFINE c == First(S)
           T == S \ {c}
           g == CHOOSE g : SumsOf(f, S, g)
           h == CHOOSE h : SumsOf(f, T, h)
<1>1. c \in S
  BY DEF First
<1>2. IsFiniteSet(T)
  BY FS_RemoveElement
<1>3. SumsOf(f, S, g) /\ SumsOf(f, T, h)
  BY <1>2, SumsExist
<1>4. g[S] = f[c] + g[T]
  <2> HIDE DEF g
  <2> QED BY <1>3 DEF SumsOf, First
<1>5. g[T] = h[T]
  <2>1. T \in SUBSET S /\ S \in SUBSET S /\ T \in SUBSET (S \cap T)
    OBVIOUS
  <2> HIDE DEF g, h, T
  <2>2. \A s \in SUBSET (S \cap T) : g[s] = h[s]
    BY <1>3, <2>1, SumsAgree
  <2> QED BY <2>1, <2>2
<1>6. Total(f, S) = g[S] /\ Total(f, T) = h[T]
  BY TotalIsSum
<1> QED BY <1>1, <1>4, <1>5, <1>6

(* A sum of integers is an integer; one of naturals bounds each of them.   *)
LEMMA TotalOfIntegers ==
  ASSUME NEW S, IsFiniteSet(S), NEW f, \A x \in S : f[x] \in Int
  PROVE  Total(f, S) \in Int
<1> DEFINE W == {T \in SUBSET S : Total(f, T) \notin Int}
<1>1. SUFFICES ASSUME W # {} PROVE FALSE
  OBVIOUS
<1>2. PICK T \in W : \A U \in W : U \subseteq T => U = T
  <2>1. W \in SUBSET (SUBSET S)
    OBVIOUS
  <2> HIDE DEF W
  <2> QED BY <1>1, <2>1, SmallestSubset
<1>3. T \subseteq S /\ IsFiniteSet(T) /\ Total(f, T) \notin Int
  BY FS_Subset
<1>4. T # {}
  BY <1>3, TotalOfNone
<1>5. PICK x \in T : Total(f, T) = f[x] + Total(f, T \ {x})
  BY <1>3, <1>4, TotalOfMore
<1>6. Total(f, T \ {x}) \in Int
  BY <1>2, <1>3
<1> QED BY <1>3, <1>5, <1>6

LEMMA TotalBounds ==
  ASSUME NEW S, IsFiniteSet(S), NEW f, \A x \in S : f[x] \in Nat
  PROVE  Total(f, S) \in Nat /\ \A x \in S : f[x] <= Total(f, S)
<1> DEFINE Bounds(T) == Total(f, T) \in Nat /\ \A x \in T : f[x] <= Total(f, T)
           W == {T \in SUBSET S : ~ Bounds(T)}
<1>1. SUFFICES ASSUME W # {} PROVE FALSE
  OBVIOUS
<1>2. PICK T \in W : \A U \in W : U \subseteq T => U = T
  <2>1. W \in SUBSET (SUBSET S)
    OBVIOUS
  <2> HIDE DEF W
  <2> QED BY <1>1, <2>1, SmallestSubset
<1>3. T \subseteq S /\ IsFiniteSet(T) /\ ~ Bounds(T)
  BY FS_Subset
<1>4. T # {}
  BY <1>3, TotalOfNone
<1>5. PICK x \in T : Total(f, T) = f[x] + Total(f, T \ {x})
  BY <1>3, <1>4, TotalOfMore
<1>6. Bounds(T \ {x})
  BY <1>2, <1>3
<1>7. f[x] \in Nat /\ \A y \in T : y = x \/ y \in T \ {x}
  BY <1>3
<1>8. Bounds(T)
  BY <1>3, <1>5, <1>6, <1>7
<1> QED BY <1>3, <1>8

(* Summands between two multiples of their weights add up to a sum between *)
(* these multiples of the weights' sum.                                    *)
LEMMA SumsInProportion ==
  ASSUME NEW S, IsFiniteSet(S), NEW f, NEW w,
         NEW D \in Nat, NEW a \in Int, NEW b \in Int,
         \A x \in S : f[x] \in Int /\ w[x] \in Nat,
         \A x \in S : a * w[x] <= D * f[x] /\ D * f[x] <= b * w[x]
  PROVE  a * Total(w, S) <= D * Total(f, S) /\ D * Total(f, S) <= b * Total(w, S)
<1> DEFINE Fits(T) == /\ a * Total(w, T) <= D * Total(f, T)
                      /\ D * Total(f, T) <= b * Total(w, T)
           W == {T \in SUBSET S : ~ Fits(T)}
<1>1. SUFFICES ASSUME W # {} PROVE FALSE
  OBVIOUS
<1>2. PICK T \in W : \A U \in W : U \subseteq T => U = T
  <2>1. W \in SUBSET (SUBSET S)
    OBVIOUS
  <2> HIDE DEF W
  <2> QED BY <1>1, <2>1, SmallestSubset
<1>3. T \subseteq S /\ IsFiniteSet(T) /\ ~ Fits(T)
  BY FS_Subset
<1>4. T # {}
  <2>1. Fits({})
    BY TotalOfNone
  <2> QED BY <1>3, <2>1
<1> DEFINE x == First(T)
           U == T \ {x}
<1>5. /\ x \in T
      /\ Total(f, T) = f[x] + Total(f, U) /\ Total(w, T) = w[x] + Total(w, U)
  BY <1>3, <1>4, TotalOfMore
<1>6. Fits(U)
  BY <1>2, <1>3, <1>5
<1>7. Total(f, U) \in Int /\ Total(w, U) \in Int
  <2>1. U \subseteq S /\ IsFiniteSet(U)
    BY <1>3, FS_RemoveElement
  <2>2. \A y \in U : f[y] \in Int /\ w[y] \in Int
    BY <2>1
  <2> HIDE DEF U
  <2> QED BY <2>1, <2>2, TotalOfIntegers
<1>8. /\ f[x] \in Int /\ w[x] \in Nat
      /\ a * w[x] <= D * f[x] /\ D * f[x] <= b * w[x]
  BY <1>3, <1>5
<1>9. Fits(T)
  <2> HIDE DEF x, U
  <2> QED BY <1>5, <1>6, <1>7, <1>8
<1> QED BY <1>3, <1>9

-----------------------------------------------------------------------------
(* What the shares add up to.                                              *)

(* The weights of the batteries that take part are naturals and not all    *)
(* zero, so a share is a quotient.                                         *)
LEMMA Weights ==
  /\ IsFiniteSet(Eligible)
  /\ \A g \in Eligible : Weight(g) \in Nat
  /\ Eligible # {} => Total([h \in Eligible |-> Weight(h)], Eligible) \in Nat \ {0}
<1> DEFINE w == [h \in Eligible |-> Weight(h)]
<1>1. \A h \in Groups : Limit(h) \in Nat
  BY LimitsAssumption, RangeAssumption DEF Limit
<1>2. Eligible \subseteq Groups /\ IsFiniteSet(Eligible)
  <2>1. Eligible \subseteq Groups
    BY DEF Eligible
  <2> QED BY <2>1, GroupsAssumption, FS_Subset
<1>3. \A h \in Eligible : Weight(h) \in Nat
  BY <1>1, <1>2 DEF Weight
<1>4. ASSUME Eligible # {} PROVE Total(w, Eligible) \in Nat \ {0}
  <2>1. PICK h \in Eligible : Weight(h) # 0
    BY <1>1, <1>2, <1>4 DEF Weight
  <2>2. \A x \in Eligible : w[x] = Weight(x)
    OBVIOUS
  <2>3. Total(w, Eligible) \in Nat /\ w[h] <= Total(w, Eligible)
    <3> HIDE DEF w
    <3> QED BY <1>2, <1>3, <2>2, TotalBounds
  <2> QED BY <1>3, <2>1, <2>2, <2>3
<1> QED BY <1>2, <1>3, <1>4

(* A share is the target's part for its weight, rounded towards zero.      *)
LEMMA ShareFits ==
  ASSUME eng.target \in Int, NEW g \in Eligible
  PROVE  LET total == Total([h \in Eligible |-> Weight(h)], Eligible)
         IN  /\ Share(g) \in Int
             /\ eng.target >= 0 => /\ 0 <= total * Share(g)
                                   /\ total * Share(g) <= eng.target * Weight(g)
             /\ eng.target < 0 => /\ eng.target * Weight(g) <= total * Share(g)
                                  /\ total * Share(g) <= 0
<1> DEFINE total == Total([h \in Eligible |-> Weight(h)], Eligible)
           n == Abs(eng.target) * Weight(g)
           part == n \div total
<1>1. total \in Nat \ {0} /\ Weight(g) \in Nat
  BY Weights
<1>2. n \in Nat
  <2>1. Abs(eng.target) \in Nat
    BY DEF Abs
  <2> QED BY <1>1, <2>1
<1>3. part \in Nat /\ total * part <= n /\ 0 <= total * part
  <2> HIDE DEF n, total
  <2> QED BY <1>1, <1>2
<1>4. Share(g) = IF eng.target < 0 THEN -part ELSE part
  BY DEF Share
<1>5. n = IF eng.target < 0 THEN -(eng.target * Weight(g)) ELSE eng.target * Weight(g)
  BY <1>1 DEF Abs
<1> HIDE DEF n, part, total
<1> QED BY <1>1, <1>2, <1>3, <1>4, <1>5 DEF total

(* What a cycle that begins to distribute now would send to the batteries. *)
SharesInRange ==
  Total([g \in Eligible |-> Share(g)], Eligible) \in StationRange

(* The shares sent to the batteries never add up to more than the          *)
(* parameters in use allow the station to charge or discharge, whatever    *)
(* the batteries' limits and whichever of them take part.                  *)
THEOREM SharesKeepToStation == Spec => []SharesInRange
<1>1. TargetInv => SharesInRange
  <2> SUFFICES ASSUME TargetInv PROVE SharesInRange
    OBVIOUS
  <2> DEFINE w == [h \in Eligible |-> Weight(h)]
             v == [g \in Eligible |-> Share(g)]
             D == Total(w, Eligible)
             t == eng.target
  <2>1. t \in StationRange /\ t \in Int
    BY LimitsInUse DEF TargetInv, TargetInRange, StationRange
  <2>2. IsFiniteSet(Eligible)
    BY Weights
  <2>3. CASE Eligible = {}
    BY <2>3, TotalOfNone, ZeroInRange DEF SharesInRange
  <2>4. CASE Eligible # {}
    <3>1. D \in Nat \ {0} /\ \A g \in Eligible : w[g] = Weight(g) /\ w[g] \in Nat
      BY <2>4, Weights
    <3>2. \A g \in Eligible :
            /\ v[g] \in Int
            /\ t >= 0 => 0 <= D * v[g] /\ D * v[g] <= t * w[g]
            /\ t < 0 => t * w[g] <= D * v[g] /\ D * v[g] <= 0
      BY <2>1, ShareFits
    <3>6. D = Total(w, Eligible)
      OBVIOUS
    <3> HIDE DEF w, v, D, t
    <3>7. D \in Nat /\ 0 \in Int /\ \A g \in Eligible : v[g] \in Int /\ w[g] \in Nat
      BY <3>1, <3>2
    <3>3. Total(v, Eligible) \in Int
      BY <2>2, <3>2, TotalOfIntegers
    <3>4. CASE t >= 0
      <4>1. \A g \in Eligible : 0 * w[g] <= D * v[g] /\ D * v[g] <= t * w[g]
        BY <3>1, <3>2, <3>4
      <4>2. 0 * D <= D * Total(v, Eligible) /\ D * Total(v, Eligible) <= t * D
        BY <2>1, <2>2, <3>6, <3>7, <4>1, SumsInProportion
      <4>3. 0 <= Total(v, Eligible) /\ Total(v, Eligible) <= t
        BY <2>1, <3>1, <3>3, <4>2
      <4> QED BY <2>1, <3>3, <3>4, <4>3, LimitsInUse DEF SharesInRange, StationRange, v
    <3>5. CASE t < 0
      <4>1. \A g \in Eligible : t * w[g] <= D * v[g] /\ D * v[g] <= 0 * w[g]
        BY <3>1, <3>2, <3>5
      <4>2. t * D <= D * Total(v, Eligible) /\ D * Total(v, Eligible) <= 0 * D
        BY <2>1, <2>2, <3>6, <3>7, <4>1, SumsInProportion
      <4>3. t <= Total(v, Eligible) /\ Total(v, Eligible) <= 0
        BY <2>1, <3>1, <3>3, <4>2
      <4> QED BY <2>1, <3>3, <3>5, <4>3, LimitsInUse DEF SharesInRange, StationRange, v
    <3> QED BY <2>1, <3>4, <3>5
  <2> QED BY <2>3, <2>4
<1> QED BY InitTargets, StepKeepsTargets, <1>1, PTL DEF Spec

=============================================================================
