------------------------- MODULE PointSeqlockProofs -------------------------
(***************************************************************************)
(* Proofs about PointSeqlock, in both builds.  For any number of processes *)
(* and any crashes: types, and that no read is stale.  For one writing     *)
(* process, which may die: the parity of update_seq.  For one writing      *)
(* process that has not died: that a read which ends on an even update_seq *)
(* is of one write, in a release build if no write began in the meantime.  *)
(* (With a second writing process update_seq can be even while a slot is   *)
(* half written, and so it can in the first write after a crash.)          *)
(***************************************************************************)
EXTENDS PointSeqlock, TLAPS

-----------------------------------------------------------------------------
(* Parity                                                                  *)

LEMMA OddSucc ==
  ASSUME NEW n \in Nat
  PROVE  n + 1 \in Nat /\ (Odd(n + 1) <=> ~Odd(n))
BY SMT DEF Odd

LEMMA MadeOddIsOdd ==
  ASSUME NEW n \in Nat
  PROVE  /\ MadeOdd(n) \in Nat
         /\ Odd(MadeOdd(n))
         /\ Odd(n) => MadeOdd(n) = n
<1>1. CASE Odd(n)
  BY <1>1 DEF MadeOdd
<1>2. CASE ~Odd(n)
  BY <1>2, OddSucc DEF MadeOdd
<1> QED BY <1>1, <1>2

-----------------------------------------------------------------------------
(* Types                                                                   *)

(* Whatever the build, the writers and the crashes: every variable keeps   *)
(* its type, and a slot is written and read to its last field.             *)
THEOREM TypeCorrect == Spec => []TypeOK
<1>1. Init => TypeOK
  <2> SUFFICES ASSUME Init PROVE TypeOK
    OBVIOUS
  <2>1. \A p \in Writers : NotReading(p) \in ReadState
    BY DEF NotReading, ReadState, ReadPc
  <2>2. NotWriting \in WriteState
    BY DEF NotWriting, WriteState, WritePc
  <2>3. PICK p \in Writers : rd = [r \in Readers |-> NotReading(p)]
    BY DEF Init
  <2>4. rd \in [Readers -> ReadState] /\ \A r \in Readers : rd[r].todo = {}
    BY <2>1, <2>3 DEF NotReading
  <2>5. wr \in [Writers -> WriteState] /\ \A w \in Writers : wr[w].todo = {}
    BY <2>2 DEF Init, NotWriting
  <2> QED BY <2>4, <2>5 DEF Init, TypeOK
<1>2. TypeOK /\ [Next]_vars => TypeOK'
  <2> SUFFICES ASSUME TypeOK, [Next]_vars PROVE TypeOK'
    OBVIOUS
  <2>a. ASSUME NEW w \in Writers, NEW x \in WriteState, Write(w, x),
               x.pc \in {"idle", "fin"} => x.todo = {}
        PROVE  /\ wr' \in [Writers -> WriteState]
               /\ \A v \in Writers :
                    wr'[v].pc \in {"idle", "fin"} => wr'[v].todo = {}
    BY <2>a DEF TypeOK, Write
  <2>b. ASSUME NEW r \in Readers, NEW x \in ReadState, Read(r, x),
               x.pc # "copy" => x.todo = {}
        PROVE  /\ rd' \in [Readers -> ReadState]
               /\ \A q \in Readers : rd'[q].pc # "copy" => rd'[q].todo = {}
    BY <2>b DEF TypeOK, Read
  <2>c. \A w \in Writers : wr[w] \in WriteState
    BY DEF TypeOK
  <2>d. \A r \in Readers : rd[r] \in ReadState
    BY DEF TypeOK
  <2> USE DEF WritePc, ReadPc
  <2>1. ASSUME NEW w \in Writers, StartWrite(w) PROVE TypeOK'
    <3> DEFINE x == [wr[w] EXCEPT !.pc = "inc", !.ver = wr[w].ver + 1,
                                  !.todo = Fields]
    <3>0. wr[w].ver + 1 \in Nat
      BY <2>c DEF WriteState
    <3>1. x \in WriteState /\ x.pc = "inc"
      BY <3>0, <2>c DEF WriteState
    <3>2. Write(w, x)
      BY <2>1 DEF StartWrite
    <3> HIDE DEF x
    <3> QED BY <2>1, <3>1, <3>2, <2>a DEF StartWrite, TypeOK
  <2>2. ASSUME NEW w \in Writers, LoadSeq(w) PROVE TypeOK'
    <3> DEFINE x == [wr[w] EXCEPT !.loaded = TRUE, !.reg = seq]
    <3>1. x \in WriteState /\ x.pc = wr[w].pc /\ x.todo = wr[w].todo
      BY <2>c DEF WriteState, TypeOK
    <3>2. Write(w, x)
      BY <2>2 DEF LoadSeq
    <3> HIDE DEF x
    <3> QED BY <2>2, <3>1, <3>2, <2>a DEF LoadSeq, TypeOK
  <2>3. ASSUME NEW w \in Writers, StoreIncrement(w) PROVE TypeOK'
    <3> DEFINE x == [wr[w] EXCEPT !.pc = IF Optimised THEN "fields" ELSE "or",
                                  !.loaded = FALSE]
    <3>1. x \in WriteState /\ x.pc \in {"fields", "or"}
      BY <2>c DEF WriteState
    <3>2. Write(w, x)
      BY <2>3 DEF StoreIncrement
    <3>3. wr[w].reg + 1 \in Nat
      BY <2>c DEF WriteState
    <3>4. seq' \in Nat
      BY <2>3, <3>3, MadeOddIsOdd DEF StoreIncrement
    <3> HIDE DEF x
    <3> QED BY <2>3, <3>1, <3>2, <3>4, <2>a DEF StoreIncrement, TypeOK
  <2>4. ASSUME NEW w \in Writers, StoreOdd(w) PROVE TypeOK'
    <3> DEFINE x == [wr[w] EXCEPT !.pc = "fields", !.loaded = FALSE]
    <3>1. x \in WriteState /\ x.pc = "fields"
      BY <2>c DEF WriteState
    <3>2. Write(w, x)
      BY <2>4 DEF StoreOdd
    <3>3. wr[w].reg \in Nat
      BY <2>c DEF WriteState
    <3>4. seq' \in Nat
      BY <2>4, <3>3, MadeOddIsOdd DEF StoreOdd
    <3> HIDE DEF x
    <3> QED BY <2>4, <3>1, <3>2, <3>4, <2>a DEF StoreOdd, TypeOK
  <2>5. ASSUME NEW w \in Writers, NEW f \in Fields, StoreField(w, f)
        PROVE TypeOK'
    <3> DEFINE x == [wr[w] EXCEPT
                       !.todo = wr[w].todo \ {f},
                       !.pc = IF wr[w].todo = {f} THEN "fin" ELSE "fields"]
    <3>1. x \in WriteState /\ (x.pc \in {"idle", "fin"} => x.todo = {})
      BY <2>c DEF WriteState
    <3>2. Write(w, x)
      BY <2>5 DEF StoreField
    <3>3. cell' \in [Writers -> [Fields -> Nat]]
      BY <2>5, <2>c DEF StoreField, TypeOK, WriteState
    <3> HIDE DEF x
    <3> QED BY <2>5, <3>1, <3>2, <3>3, <2>a DEF StoreField, TypeOK
  <2>6. ASSUME NEW w \in Writers, FinishWrite(w) PROVE TypeOK'
    <3> DEFINE x == [wr[w] EXCEPT !.pc = "idle", !.loaded = FALSE]
    <3>1. x \in WriteState /\ x.todo = wr[w].todo
      BY <2>c DEF WriteState
    <3>2. Write(w, x) /\ wr[w].todo = {}
      BY <2>6 DEF FinishWrite, TypeOK
    <3>3. seq' \in Nat /\ ended' \in [Writers -> Nat] /\ dirty' = FALSE
      BY <2>6, <2>c DEF FinishWrite, TypeOK, WriteState
    <3> HIDE DEF x
    <3> QED BY <2>6, <3>1, <3>2, <3>3, <2>a DEF FinishWrite, TypeOK
  <2>7. ASSUME NEW w \in Writers, WriterCrash(w) PROVE TypeOK'
    <3> DEFINE x == [NotWriting EXCEPT !.ver = wr[w].ver]
    <3>1. x \in WriteState /\ x.todo = {}
      BY <2>c DEF WriteState, NotWriting
    <3>2. Write(w, x)
      BY <2>7 DEF WriterCrash
    <3> HIDE DEF x
    <3> QED BY <2>7, <3>1, <3>2, <2>a DEF WriterCrash, TypeOK
  <2>8. ASSUME NEW r \in Readers, NEW p \in Writers, StartRead(r, p)
        PROVE TypeOK'
    <3> DEFINE x == [NotReading(p) EXCEPT !.pc = "first", !.floor = ended[p]]
    <3>1. x \in ReadState /\ x.todo = {}
      BY DEF ReadState, NotReading, TypeOK
    <3>2. Read(r, x)
      BY <2>8 DEF StartRead
    <3> HIDE DEF x
    <3> QED BY <2>8, <3>1, <3>2, <2>b DEF StartRead, TypeOK
  <2>9. ASSUME NEW r \in Readers, LoadFirst(r) PROVE TypeOK'
    <3> DEFINE x == [rd[r] EXCEPT !.seq1 = seq,
                                  !.pc = IF Odd(seq) THEN "test" ELSE "copy",
                                  !.todo = IF Odd(seq) THEN {} ELSE Fields]
    <3>1. x \in ReadState /\ (x.pc # "copy" => x.todo = {})
      BY <2>d DEF ReadState, TypeOK
    <3>2. Read(r, x)
      BY <2>9 DEF LoadFirst
    <3> HIDE DEF x
    <3> QED BY <2>9, <3>1, <3>2, <2>b DEF LoadFirst, TypeOK
  <2>10. ASSUME NEW r \in Readers, NEW f \in Fields, CopyField(r, f)
         PROVE TypeOK'
    <3> DEFINE c == [rd[r].copy EXCEPT ![f] = cell[rd[r].point][f]]
               x == [rd[r] EXCEPT !.copy = c, !.todo = rd[r].todo \ {f}]
    <3>0. cell[rd[r].point][f] \in Nat
      BY <2>d DEF ReadState, TypeOK
    <3>c. c \in [Fields -> Nat]
      BY <3>0, <2>d DEF ReadState
    <3>2. Read(r, x) /\ rd[r].pc = "copy"
      BY <2>10 DEF CopyField
    <3> HIDE DEF c
    <3>1. x \in ReadState /\ x.pc = rd[r].pc
      BY <3>c, <2>d DEF ReadState
    <3> HIDE DEF x
    <3> QED BY <2>10, <3>1, <3>2, <2>b DEF CopyField, TypeOK
  <2>11. ASSUME NEW r \in Readers, LoadSecond(r) PROVE TypeOK'
    <3> DEFINE x == [rd[r] EXCEPT
                       !.seq2 = IF Optimised THEN rd[r].seq1 ELSE seq,
                       !.pc = "test"]
    <3>1. x \in ReadState /\ x.todo = rd[r].todo
      BY <2>d DEF ReadState, TypeOK
    <3>2. Read(r, x) /\ rd[r].todo = {}
      BY <2>11 DEF LoadSecond
    <3> HIDE DEF x
    <3> QED BY <2>11, <3>1, <3>2, <2>b DEF LoadSecond, TypeOK
  <2>12. ASSUME NEW r \in Readers, Test(r) PROVE TypeOK'
    <3> DEFINE x == [rd[r] EXCEPT !.pc =
                       IF rd[r].seq1 = rd[r].seq2 THEN "done"
                       ELSE IF Optimised THEN "spin" ELSE "first"]
    <3>1. x \in ReadState /\ x.todo = rd[r].todo
      BY <2>d DEF ReadState
    <3>2. Read(r, x) /\ rd[r].todo = {}
      BY <2>12 DEF Test, TypeOK
    <3> HIDE DEF x
    <3> QED BY <2>12, <3>1, <3>2, <2>b DEF Test, TypeOK
  <2>13. ASSUME NEW r \in Readers, Return(r) PROVE TypeOK'
    <3> DEFINE x == NotReading(rd[r].point)
    <3>1. x \in ReadState /\ x.todo = {}
      BY <2>d DEF ReadState, NotReading
    <3>2. Read(r, x)
      BY <2>13 DEF Return
    <3> HIDE DEF x
    <3> QED BY <2>13, <3>1, <3>2, <2>b DEF Return, TypeOK
  <2>14. CASE UNCHANGED vars
    BY <2>14 DEF vars, TypeOK
  <2> QED BY <2>1, <2>2, <2>3, <2>4, <2>5, <2>6, <2>7, <2>8, <2>9, <2>10,
             <2>11, <2>12, <2>13, <2>14 DEF Next, WriteStep, ReadStep, Spin
<1> QED BY <1>1, <1>2, PTL DEF Spec

-----------------------------------------------------------------------------
(* Parity through crashes                                                  *)

(* What ParityRepaired rests on: once loaded for the last increment, reg   *)
(* is update_seq itself.                                                   *)
ParityOf(w) ==
  /\ wr[w].pc \in {"fields", "fin"} => Odd(seq)
  /\ wr[w].pc = "fields" => ~wr[w].loaded
  /\ (wr[w].pc = "fin" /\ wr[w].loaded) => wr[w].reg = seq
  /\ (wr[w].pc = "idle" /\ ~dirty) => ~Odd(seq)

LEMMA ReadsWriteNothing ==
  ASSUME NEW r \in Readers, ReadStep(r) \/ \E p \in Writers : StartRead(r, p)
  PROVE  UNCHANGED <<build, seq, cell, wr, crashes, dirty, ended>>
BY DEF ReadStep, StartRead, LoadFirst, CopyField, LoadSecond, Test, Spin,
       Return, vars

LEMMA ParityStep ==
  ASSUME NEW o, Writers = {o}, TypeOK, ParityOf(o), [Next]_vars
  PROVE  ParityOf(o)'
<1>1. o \in Writers /\ wr[o] \in WriteState /\ seq \in Nat
  BY DEF TypeOK
<1>t. wr \in [Writers -> WriteState]
  BY DEF TypeOK
<1>2. wr[o].reg \in Nat /\ wr[o].reg + 1 \in Nat
  BY <1>1 DEF WriteState
<1>3. CASE StartWrite(o)
  BY <1>1, <1>3, <1>t DEF StartWrite, Write, ParityOf, WriteState
<1>4. CASE LoadSeq(o)
  BY <1>1, <1>4, <1>t DEF LoadSeq, Write, ParityOf, WriteState
<1>5. CASE StoreIncrement(o)
  <2>1. Odd(MadeOdd(wr[o].reg + 1))
    BY <1>2, MadeOddIsOdd
  <2>2. Optimised => Odd(seq')
    BY <1>5, <2>1 DEF StoreIncrement
  <2>3. wr'[o].pc = (IF Optimised THEN "fields" ELSE "or") /\ ~wr'[o].loaded
    BY <1>1, <1>5, <1>t DEF StoreIncrement, Write, WriteState
  <2> QED BY <2>2, <2>3 DEF ParityOf
<1>6. CASE StoreOdd(o)
  <2>1. Odd(seq')
    BY <1>2, <1>6, MadeOddIsOdd DEF StoreOdd
  <2>2. wr'[o].pc = "fields" /\ ~wr'[o].loaded
    BY <1>1, <1>6, <1>t DEF StoreOdd, Write, WriteState
  <2> QED BY <2>1, <2>2 DEF ParityOf
<1>7. ASSUME NEW f \in Fields, StoreField(o, f) PROVE ParityOf(o)'
  BY <1>1, <1>7, <1>t DEF StoreField, Write, ParityOf, WriteState
<1>8. CASE FinishWrite(o)
  <2>1. seq' = seq + 1 /\ Odd(seq)
    BY <1>8 DEF FinishWrite, ParityOf
  <2>2. ~Odd(seq')
    BY <1>1, <2>1, OddSucc
  <2>3. wr'[o].pc = "idle"
    BY <1>1, <1>8, <1>t DEF FinishWrite, Write, WriteState
  <2> QED BY <2>2, <2>3 DEF ParityOf
<1>9. CASE WriterCrash(o)
  <2>1. wr'[o].pc = "idle" /\ dirty'
    BY <1>1, <1>9, <1>t DEF WriterCrash, Write, NotWriting
  <2> QED BY <2>1 DEF ParityOf
<1>10. ASSUME NEW r \in Readers,
              ReadStep(r) \/ \E p \in Writers : StartRead(r, p)
       PROVE  ParityOf(o)'
  BY <1>10, ReadsWriteNothing DEF ParityOf
<1>11. CASE UNCHANGED vars
  BY <1>11 DEF vars, ParityOf
<1> QED BY <1>3, <1>4, <1>5, <1>6, <1>7, <1>8, <1>9, <1>10, <1>11
        DEF Next, WriteStep

(* With one writing process, in either build, update_seq is odd while      *)
(* fields are stored and even after a completed write, however often the   *)
(* process dies inside a write and starts again.                           *)
THEOREM ParityAlwaysRepaired ==
  ASSUME NEW o, Writers = {o}
  PROVE  Spec => []ParityRepaired
<1>1. Init => ParityOf(o)
  <2> SUFFICES ASSUME Init PROVE ParityOf(o)
    OBVIOUS
  <2>1. wr[o].pc = "idle" /\ seq = 0
    BY DEF Init, NotWriting
  <2>2. ~Odd(0)
    BY SMT DEF Odd
  <2> QED BY <2>1, <2>2 DEF ParityOf
<1>2. TypeOK /\ ParityOf(o) /\ [Next]_vars => ParityOf(o)'
  BY ParityStep
<1>3. ParityOf(o) => ParityRepaired
  BY DEF ParityOf, ParityRepaired
<1> QED BY <1>1, <1>2, <1>3, TypeCorrect, PTL DEF Spec

-----------------------------------------------------------------------------
(* No read is stale                                                        *)

(* A process's slot is never older than its last ended write, because the  *)
(* fields it has stored are those of the version it is writing.            *)
AgeOf(w) ==
  /\ wr[w].ver >= ended[w]
  /\ \A f \in Fields : cell[w][f] >= ended[w]
  /\ wr[w].pc \in {"inc", "or"} => wr[w].todo = Fields
  /\ wr[w].pc \in {"fields", "fin"} =>
       \A f \in Fields \ wr[w].todo : cell[w][f] >= wr[w].ver

Fresh(r) == \A f \in Fields : rd[r].copy[f] >= rd[r].floor

(* What a reader has copied is no older than floor.  The loop is left only *)
(* after a copy: its odd first load goes to the condition with seq2 = 0    *)
(* the first time, which no odd seq1 equals, and then with a full copy.    *)
FreshOf(r) ==
  /\ rd[r].floor <= ended[rd[r].point]
  /\ rd[r].pc = "copy" =>
       \A f \in Fields \ rd[r].todo : rd[r].copy[f] >= rd[r].floor
  /\ rd[r].pc = "first" => (rd[r].seq2 = 0 \/ Fresh(r))
  /\ rd[r].pc = "test" => (Fresh(r) \/ (rd[r].seq2 = 0 /\ Odd(rd[r].seq1)))
  /\ rd[r].pc = "done" => Fresh(r)

FreshInv ==
  /\ \A w \in Writers : AgeOf(w)
  /\ \A r \in Readers : FreshOf(r)

(* A step of a process keeps its slot's age and ends no write backwards.   *)
LEMMA AgeStep ==
  ASSUME NEW w \in Writers, TypeOK, AgeOf(w),
         StartWrite(w) \/ WriteStep(w) \/ WriterCrash(w)
  PROVE  /\ AgeOf(w)'
         /\ ended'[w] \in Nat /\ ended'[w] >= ended[w]
<1>1. /\ wr \in [Writers -> WriteState] /\ wr[w] \in WriteState
      /\ ended[w] \in Nat /\ cell[w] \in [Fields -> Nat]
      /\ wr[w].pc \in {"idle", "fin"} => wr[w].todo = {}
  BY DEF TypeOK
<1>2. wr[w].ver \in Nat /\ \A f \in Fields : cell[w][f] \in Nat
  BY <1>1 DEF WriteState
<1> DEFINE Goal == /\ AgeOf(w)'
                   /\ ended'[w] \in Nat /\ ended'[w] >= ended[w]
<1>3. CASE StartWrite(w)
  <2>1. /\ wr'[w].pc = "inc" /\ wr'[w].ver = wr[w].ver + 1
        /\ wr'[w].todo = Fields
    BY <1>1, <1>3 DEF StartWrite, Write, WriteState
  <2>2. UNCHANGED <<cell, ended>>
    BY <1>3 DEF StartWrite
  <2> QED BY <1>1, <1>2, <2>1, <2>2 DEF AgeOf
<1>4. CASE LoadSeq(w)
  <2>1. /\ wr'[w].pc = wr[w].pc /\ wr'[w].ver = wr[w].ver
        /\ wr'[w].todo = wr[w].todo
    BY <1>1, <1>4 DEF LoadSeq, Write, WriteState
  <2>2. UNCHANGED <<cell, ended>>
    BY <1>4 DEF LoadSeq
  <2> QED BY <1>1, <1>2, <2>1, <2>2 DEF AgeOf
<1>5. CASE StoreIncrement(w) \/ StoreOdd(w)
  <2>1. /\ wr'[w].pc \in {"or", "fields"} /\ wr'[w].ver = wr[w].ver
        /\ wr'[w].todo = wr[w].todo
    <3>1. CASE StoreIncrement(w)
      BY <1>1, <3>1 DEF StoreIncrement, Write, WriteState
    <3>2. CASE StoreOdd(w)
      BY <1>1, <3>2 DEF StoreOdd, Write, WriteState
    <3> QED BY <1>5, <3>1, <3>2
  <2>2. UNCHANGED <<cell, ended>> /\ wr[w].pc \in {"inc", "or"}
    BY <1>5 DEF StoreIncrement, StoreOdd
  <2>3. wr[w].todo = Fields
    BY <2>2 DEF AgeOf
  <2> QED BY <1>1, <1>2, <2>1, <2>2, <2>3 DEF AgeOf
<1>6. ASSUME NEW g \in Fields, StoreField(w, g) PROVE Goal
  <2>1. /\ wr'[w].pc \in {"fields", "fin"} /\ wr'[w].ver = wr[w].ver
        /\ wr'[w].todo = wr[w].todo \ {g}
    BY <1>1, <1>6 DEF StoreField, Write, WriteState
  <2>2. cell'[w] = [cell[w] EXCEPT ![g] = wr[w].ver]
    BY <1>6 DEF StoreField, TypeOK
  <2>3. \A f \in Fields :
          cell'[w][f] = IF f = g THEN wr[w].ver ELSE cell[w][f]
    BY <1>1, <2>2
  <2>4. ended' = ended /\ wr[w].pc = "fields"
    BY <1>6 DEF StoreField
  <2> QED BY <1>1, <1>2, <2>1, <2>3, <2>4 DEF AgeOf
<1>7. CASE FinishWrite(w)
  <2>1. wr'[w].pc = "idle" /\ wr'[w].ver = wr[w].ver
    BY <1>1, <1>7 DEF FinishWrite, Write, WriteState
  <2>2. cell' = cell /\ ended'[w] = wr[w].ver /\ wr[w].pc = "fin"
    BY <1>7 DEF FinishWrite, TypeOK
  <2> QED BY <1>1, <1>2, <2>1, <2>2 DEF AgeOf
<1>8. CASE WriterCrash(w)
  <2>1. wr'[w].pc = "idle" /\ wr'[w].ver = wr[w].ver
    BY <1>1, <1>8 DEF WriterCrash, Write, NotWriting
  <2>2. UNCHANGED <<cell, ended>>
    BY <1>8 DEF WriterCrash
  <2> QED BY <1>1, <1>2, <2>1, <2>2 DEF AgeOf
<1> QED BY <1>3, <1>4, <1>5, <1>6, <1>7, <1>8 DEF WriteStep

(* A process touches no other process's write or slot, and no reader.      *)
LEMMA OthersUntouched ==
  ASSUME NEW w \in Writers, NEW v \in Writers, v # w, TypeOK,
         StartWrite(w) \/ WriteStep(w) \/ WriterCrash(w)
  PROVE  wr'[v] = wr[v] /\ cell'[v] = cell[v] /\ ended'[v] = ended[v]
BY DEF StartWrite, WriteStep, LoadSeq, StoreIncrement, StoreOdd, StoreField,
       FinishWrite, WriterCrash, Write, TypeOK

LEMMA WritersReadNothing ==
  ASSUME NEW w \in Writers,
         StartWrite(w) \/ WriteStep(w) \/ WriterCrash(w)
  PROVE  rd' = rd
BY DEF StartWrite, WriteStep, LoadSeq, StoreIncrement, StoreOdd, StoreField,
       FinishWrite, WriterCrash

LEMMA FreshStep ==
  ASSUME NEW r \in Readers, TypeOK, \A w \in Writers : AgeOf(w), FreshOf(r),
         ReadStep(r) \/ \E p \in Writers : StartRead(r, p)
  PROVE  FreshOf(r)'
<1> DEFINE p == rd[r].point
<1>1. /\ rd \in [Readers -> ReadState] /\ rd[r] \in ReadState
      /\ p \in Writers /\ ended[p] \in Nat /\ seq \in Nat
  BY DEF TypeOK, ReadState
<1>2. /\ rd[r].floor \in Nat /\ rd[r].seq1 \in Nat /\ rd[r].seq2 \in Nat
      /\ rd[r].copy \in [Fields -> Nat]
  BY <1>1 DEF ReadState
<1>3. UNCHANGED <<cell, ended>>
  BY ReadsWriteNothing
<1>4. ASSUME NEW q \in Writers, StartRead(r, q) PROVE FreshOf(r)'
  <2>1. /\ rd'[r].pc = "first" /\ rd'[r].seq2 = 0 /\ rd'[r].floor = ended[q]
        /\ rd'[r].point = q /\ ended[q] \in Nat
    BY <1>1, <1>4 DEF StartRead, Read, NotReading, TypeOK
  <2> QED BY <1>3, <2>1 DEF FreshOf
<1>5. CASE LoadFirst(r)
  <2>1. /\ rd'[r].pc = (IF Odd(seq) THEN "test" ELSE "copy")
        /\ rd'[r].seq1 = seq /\ rd'[r].seq2 = rd[r].seq2
        /\ rd'[r].todo = (IF Odd(seq) THEN {} ELSE Fields)
        /\ rd'[r].copy = rd[r].copy /\ rd'[r].floor = rd[r].floor
        /\ rd'[r].point = p
    BY <1>1, <1>5 DEF LoadFirst, Read, ReadState
  <2>2. rd[r].seq2 = 0 \/ Fresh(r)
    BY <1>5 DEF LoadFirst, FreshOf
  <2>3. CASE Odd(seq)
    BY <1>3, <2>1, <2>2, <2>3 DEF FreshOf, Fresh
  <2>4. CASE ~Odd(seq)
    BY <1>3, <2>1, <2>4 DEF FreshOf
  <2> QED BY <2>3, <2>4
<1>6. ASSUME NEW g \in Fields, CopyField(r, g) PROVE FreshOf(r)'
  <2>1. /\ rd'[r].pc = "copy" /\ rd[r].pc = "copy"
        /\ rd'[r].todo = rd[r].todo \ {g} /\ rd'[r].floor = rd[r].floor
        /\ rd'[r].copy = [rd[r].copy EXCEPT ![g] = cell[p][g]]
        /\ rd'[r].point = p
    BY <1>1, <1>6 DEF CopyField, Read, ReadState
  <2>2. \A f \in Fields :
          rd'[r].copy[f] = IF f = g THEN cell[p][g] ELSE rd[r].copy[f]
    BY <1>2, <2>1
  <2>3. cell[p][g] \in Nat /\ cell[p][g] >= ended[p]
    BY <1>1 DEF AgeOf, TypeOK
  <2>4. cell[p][g] >= rd[r].floor
    BY <1>1, <1>2, <2>3 DEF FreshOf
  <2>5. \A f \in Fields \ rd'[r].todo : rd'[r].copy[f] >= rd'[r].floor
    BY <2>1, <2>2, <2>4 DEF FreshOf
  <2> QED BY <1>3, <2>1, <2>5 DEF FreshOf
<1>7. CASE LoadSecond(r)
  <2>1. /\ rd'[r].pc = "test" /\ rd'[r].copy = rd[r].copy
        /\ rd'[r].floor = rd[r].floor /\ rd'[r].point = p
    BY <1>1, <1>7 DEF LoadSecond, Read, ReadState
  <2>2. rd[r].pc = "copy" /\ rd[r].todo = {}
    BY <1>7 DEF LoadSecond
  <2> QED BY <1>3, <2>1, <2>2 DEF FreshOf, Fresh
<1>8. CASE Test(r)
  <2>1. /\ rd'[r].pc = (IF rd[r].seq1 = rd[r].seq2 THEN "done"
                       ELSE IF Optimised THEN "spin" ELSE "first")
        /\ rd'[r].seq2 = rd[r].seq2 /\ rd'[r].copy = rd[r].copy
        /\ rd'[r].floor = rd[r].floor /\ rd'[r].point = p
    BY <1>1, <1>8 DEF Test, Read, ReadState
  <2>2. Fresh(r) \/ (rd[r].seq2 = 0 /\ Odd(rd[r].seq1))
    BY <1>8 DEF Test, FreshOf
  <2>3. ~Odd(0)
    BY SMT DEF Odd
  <2>4. rd[r].seq1 = rd[r].seq2 => Fresh(r)
    BY <2>2, <2>3
  <2> QED BY <1>3, <2>1, <2>2, <2>4 DEF FreshOf, Fresh
<1>9. CASE Return(r)
  <2>1. rd'[r].pc = "idle" /\ rd'[r].floor = 0 /\ rd'[r].point = p
    BY <1>1, <1>9 DEF Return, Read, NotReading
  <2> QED BY <1>1, <1>3, <2>1 DEF FreshOf
<1>10. CASE Spin(r)
  BY <1>10 DEF Spin, vars, FreshOf, Fresh
<1> QED BY <1>4, <1>5, <1>6, <1>7, <1>8, <1>9, <1>10 DEF ReadStep

LEMMA OtherReadersUntouched ==
  ASSUME NEW r \in Readers, NEW q \in Readers, q # r, TypeOK,
         ReadStep(r) \/ \E p \in Writers : StartRead(r, p)
  PROVE  rd'[q] = rd[q]
BY DEF ReadStep, StartRead, LoadFirst, CopyField, LoadSecond, Test, Spin,
       Return, Read, TypeOK, vars

(* No read, not even one that ends on an odd update_seq, returns a field   *)
(* older than the last write that had ended when it began: for any number  *)
(* of writing processes, in either build, whoever dies inside a write.     *)
THEOREM ReadsNeverStale == Spec => []NeverStale
<1>1. Init => FreshInv
  <2> SUFFICES ASSUME Init PROVE FreshInv
    OBVIOUS
  <2>1. ASSUME NEW w \in Writers PROVE AgeOf(w)
    BY DEF Init, AgeOf, NotWriting
  <2>2. PICK p \in Writers : rd = [r \in Readers |-> NotReading(p)]
    BY DEF Init
  <2>3. ASSUME NEW r \in Readers PROVE FreshOf(r)
    BY <2>2 DEF Init, FreshOf, NotReading
  <2> QED BY <2>1, <2>3 DEF FreshInv
<1>2. TypeOK /\ FreshInv /\ [Next]_vars => FreshInv'
  <2> SUFFICES ASSUME TypeOK, FreshInv, [Next]_vars PROVE FreshInv'
    OBVIOUS
  <2>1. ASSUME NEW w \in Writers,
               StartWrite(w) \/ WriteStep(w) \/ WriterCrash(w)
        PROVE  FreshInv'
    <3>1. ASSUME NEW v \in Writers
          PROVE  AgeOf(v)' /\ ended'[v] \in Nat /\ ended'[v] >= ended[v]
      <4>1. CASE v = w
        BY <2>1, <4>1, AgeStep DEF FreshInv
      <4>2. CASE v # w
        <5>1. wr'[v] = wr[v] /\ cell'[v] = cell[v] /\ ended'[v] = ended[v]
          BY <2>1, <4>2, OthersUntouched
        <5>2. AgeOf(v) /\ ended[v] \in Nat
          BY DEF FreshInv, TypeOK
        <5> QED BY <5>1, <5>2 DEF AgeOf
      <4> QED BY <4>1, <4>2
    <3>2. ASSUME NEW r \in Readers PROVE FreshOf(r)'
      <4>1. rd' = rd /\ FreshOf(r) /\ rd[r].point \in Writers
        BY <2>1, WritersReadNothing DEF FreshInv, TypeOK, ReadState
      <4>2. rd[r].floor \in Nat /\ ended[rd[r].point] \in Nat
        BY <4>1 DEF TypeOK, ReadState
      <4>3. rd[r].floor <= ended'[rd[r].point]
        BY <3>1, <4>1, <4>2 DEF FreshOf
      <4> QED BY <4>1, <4>3 DEF FreshOf, Fresh
    <3> QED BY <3>1, <3>2 DEF FreshInv
  <2>2. ASSUME NEW r \in Readers,
               ReadStep(r) \/ \E p \in Writers : StartRead(r, p)
        PROVE  FreshInv'
    <3>1. UNCHANGED <<cell, wr, ended>>
      BY <2>2, ReadsWriteNothing
    <3>2. FreshOf(r)'
      BY <2>2, FreshStep DEF FreshInv
    <3>3. ASSUME NEW q \in Readers, q # r PROVE FreshOf(q)'
      BY <2>2, <3>1, <3>3, OtherReadersUntouched DEF FreshInv, FreshOf, Fresh
    <3> QED BY <3>1, <3>2, <3>3 DEF FreshInv, AgeOf
  <2>3. CASE UNCHANGED vars
    BY <2>3 DEF vars, FreshInv, AgeOf, FreshOf, Fresh
  <2> QED BY <2>1, <2>2, <2>3 DEF Next
<1>3. FreshInv => NeverStale
  BY DEF FreshInv, FreshOf, Fresh, NeverStale
<1> QED BY <1>1, <1>2, <1>3, TypeCorrect, PTL DEF Spec

-----------------------------------------------------------------------------
(* A read that ends on an even update_seq                                  *)

(* The writing process: the slot holds the version before, in the fields   *)
(* still to be stored, and the version being written in the others.        *)
WriterOf(o) ==
  /\ wr[o].loaded => wr[o].pc \in {"inc", "or", "fin"} /\ wr[o].reg = seq
  /\ wr[o].pc \in {"idle", "inc"} => ~Odd(seq)
  /\ wr[o].pc \in {"or", "fields", "fin"} => Odd(seq)
  /\ wr[o].pc \in {"inc", "or"} => wr[o].todo = Fields
  /\ \A f \in Fields :
       IF f \in wr[o].todo THEN cell[o][f] + 1 = wr[o].ver
                           ELSE cell[o][f] = wr[o].ver

(* A reader: while update_seq has not moved since its first load, what it  *)
(* has copied is still in the slot.  In a debug build it finds out with    *)
(* its second load, and what it returns then stays of one write.           *)
Unmoved(o, r) ==
  /\ rd[r].seq1 <= seq
  /\ (rd[r].seq1 = seq /\ ~Odd(seq)) =>
       \A f \in Fields \ rd[r].todo : rd[r].copy[f] = cell[o][f]

ReaderOf(o, r) ==
  /\ rd[r].pc \in {"copy", "test", "done"} => Unmoved(o, r)
  /\ rd[r].pc = "copy" => ~Odd(rd[r].seq1)
  /\ (rd[r].pc = "test" /\ ~Optimised) =>
       ((rd[r].seq1 = rd[r].seq2 /\ ~Odd(rd[r].seq1)) => Uniform(rd[r].copy))
  /\ (rd[r].pc = "done" /\ ~Optimised) =>
       (~Odd(rd[r].seq1) => Uniform(rd[r].copy))

ReadInv(o) == WriterOf(o) /\ \A r \in Readers : ReaderOf(o, r)

-----------------------------------------------------------------------------
(* Steps of the writer                                                     *)

LEMMA WriterStep ==
  ASSUME NEW o \in Writers, TypeOK, WriterOf(o),
         StartWrite(o) \/ WriteStep(o)
  PROVE  /\ WriterOf(o)'
         /\ seq' \in Nat /\ seq' >= seq
         /\ seq' = seq /\ ~Odd(seq) => cell'[o] = cell[o]
         /\ rd' = rd /\ build' = build
<1>1. /\ wr \in [Writers -> WriteState] /\ wr[o] \in WriteState
      /\ seq \in Nat /\ cell[o] \in [Fields -> Nat]
      /\ wr[o].pc \in {"idle", "fin"} => wr[o].todo = {}
  BY DEF TypeOK
<1>2. wr[o].reg \in Nat /\ wr[o].ver \in Nat /\ wr[o].loaded \in BOOLEAN
  BY <1>1 DEF WriteState
<1>3. \A f \in Fields : cell[o][f] \in Nat
  BY <1>1
<1> DEFINE Goal == /\ WriterOf(o)'
                   /\ seq' \in Nat /\ seq' >= seq
                   /\ seq' = seq /\ ~Odd(seq) => cell'[o] = cell[o]
                   /\ rd' = rd /\ build' = build
<1>4. CASE StartWrite(o)
  <2>1. /\ wr'[o].pc = "inc" /\ wr'[o].ver = wr[o].ver + 1
        /\ wr'[o].todo = Fields /\ wr'[o].loaded = wr[o].loaded
    BY <1>1, <1>4 DEF StartWrite, Write, WriteState
  <2>2. ~wr[o].loaded /\ ~Odd(seq)
    BY <1>4 DEF StartWrite, WriterOf
  <2>3. \A f \in Fields : cell[o][f] + 1 = wr[o].ver + 1
    BY <1>1, <1>4 DEF StartWrite, WriterOf
  <2>4. UNCHANGED <<seq, cell, rd, build>>
    BY <1>4 DEF StartWrite
  <2> QED BY <1>1, <2>1, <2>2, <2>3, <2>4 DEF WriterOf
<1>5. CASE LoadSeq(o)
  <2>1. /\ wr'[o].pc = wr[o].pc /\ wr'[o].ver = wr[o].ver
        /\ wr'[o].todo = wr[o].todo /\ wr'[o].reg = seq
    BY <1>1, <1>5 DEF LoadSeq, Write, WriteState
  <2>2. UNCHANGED <<seq, cell, rd, build>> /\ wr[o].pc \in {"inc", "or", "fin"}
    BY <1>5 DEF LoadSeq
  <2> QED BY <1>1, <2>1, <2>2 DEF WriterOf
<1>6. CASE StoreIncrement(o)
  <2>1. /\ wr'[o].pc \in {"or", "fields"} /\ wr'[o].ver = wr[o].ver
        /\ wr'[o].todo = wr[o].todo /\ ~wr'[o].loaded
    BY <1>1, <1>6 DEF StoreIncrement, Write, WriteState
  <2>2. ~Odd(seq) /\ wr[o].pc = "inc" /\ wr[o].todo = Fields /\ wr[o].reg = seq
    BY <1>6 DEF StoreIncrement, WriterOf
  <2>3. seq' = seq + 1 /\ Odd(seq')
    BY <1>1, <1>6, <2>2, OddSucc, MadeOddIsOdd DEF StoreIncrement
  <2>4. UNCHANGED <<cell, rd, build>>
    BY <1>6 DEF StoreIncrement
  <2> QED BY <1>1, <2>1, <2>2, <2>3, <2>4 DEF WriterOf
<1>7. CASE StoreOdd(o)
  <2>1. /\ wr'[o].pc = "fields" /\ wr'[o].ver = wr[o].ver
        /\ wr'[o].todo = wr[o].todo /\ ~wr'[o].loaded
    BY <1>1, <1>7 DEF StoreOdd, Write, WriteState
  <2>2. seq' = MadeOdd(seq) /\ Odd(seq) /\ wr[o].pc = "or"
    BY <1>7 DEF StoreOdd, WriterOf
  <2>3. seq' = seq
    BY <1>1, <2>2, MadeOddIsOdd
  <2>4. UNCHANGED <<cell, rd, build>>
    BY <1>7 DEF StoreOdd
  <2> QED BY <1>1, <2>1, <2>2, <2>3, <2>4 DEF WriterOf
<1>8. ASSUME NEW g \in Fields, StoreField(o, g) PROVE Goal
  <2>1. /\ wr'[o].pc \in {"fields", "fin"} /\ wr'[o].ver = wr[o].ver
        /\ wr'[o].todo = wr[o].todo \ {g} /\ wr'[o].loaded = wr[o].loaded
    BY <1>1, <1>8 DEF StoreField, Write, WriteState
  <2>2. Odd(seq) /\ ~wr[o].loaded /\ wr[o].pc = "fields"
    BY <1>8 DEF StoreField, WriterOf
  <2>3. cell' = [cell EXCEPT ![o] = [cell[o] EXCEPT ![g] = wr[o].ver]]
    BY <1>8 DEF StoreField
  <2>4. cell'[o] = [cell[o] EXCEPT ![g] = wr[o].ver]
    BY <2>3 DEF TypeOK
  <2>5. \A f \in Fields :
          cell'[o][f] = IF f = g THEN wr[o].ver ELSE cell[o][f]
    BY <1>1, <2>4
  <2>6. UNCHANGED <<seq, rd, build>>
    BY <1>8 DEF StoreField
  <2>7. \A f \in Fields :
          IF f \in wr'[o].todo THEN cell'[o][f] + 1 = wr'[o].ver
                               ELSE cell'[o][f] = wr'[o].ver
    BY <2>1, <2>5 DEF WriterOf
  <2> QED BY <1>1, <2>1, <2>2, <2>6, <2>7 DEF WriterOf
<1>9. CASE FinishWrite(o)
  <2>1. /\ wr'[o].pc = "idle" /\ wr'[o].ver = wr[o].ver
        /\ wr'[o].todo = wr[o].todo /\ ~wr'[o].loaded
    BY <1>1, <1>9 DEF FinishWrite, Write, WriteState
  <2>2. seq' = seq + 1 /\ Odd(seq)
    BY <1>9 DEF FinishWrite, WriterOf
  <2>3. ~Odd(seq')
    BY <1>1, <2>2, OddSucc
  <2>4. UNCHANGED <<cell, rd, build>>
    BY <1>9 DEF FinishWrite
  <2> QED BY <1>1, <2>1, <2>2, <2>3, <2>4 DEF WriterOf
<1> QED BY <1>4, <1>5, <1>6, <1>7, <1>8, <1>9 DEF WriteStep

-----------------------------------------------------------------------------
(* Steps of a reader                                                       *)

(* A step of the writer leaves what a reader knows true: it stores a field *)
(* only under an odd update_seq, and every store makes update_seq grow.    *)
LEMMA ReaderKeptByWriter ==
  ASSUME NEW o \in Writers, NEW r \in Readers, TypeOK, ReaderOf(o, r),
         seq' \in Nat, seq' >= seq,
         seq' = seq /\ ~Odd(seq) => cell'[o] = cell[o],
         rd' = rd, build' = build
  PROVE  ReaderOf(o, r)'
<1>1. rd[r] \in ReadState /\ seq \in Nat
  BY DEF TypeOK
<1>2. rd[r].seq1 \in Nat
  BY <1>1 DEF ReadState
<1>3. ASSUME Unmoved(o, r) PROVE Unmoved(o, r)'
  BY <1>1, <1>2, <1>3 DEF Unmoved
<1> QED BY <1>3 DEF ReaderOf, Optimised

(* Under an even update_seq the slot holds one version in all its fields.  *)
LEMMA EvenSlotUniform ==
  ASSUME NEW o \in Writers, TypeOK, WriterOf(o), ~Odd(seq)
  PROVE  \A f, g \in Fields : cell[o][f] = cell[o][g]
<1>1. wr[o] \in WriteState
  BY DEF TypeOK
<1>2. wr[o].pc \in {"idle", "inc"} /\ (wr[o].pc = "idle" => wr[o].todo = {})
  BY <1>1 DEF WriterOf, WriteState, WritePc, TypeOK
<1>3. CASE wr[o].todo = {}
  BY <1>3 DEF WriterOf
<1>4. CASE wr[o].todo = Fields
  <2>1. \A f \in Fields : cell[o][f] \in Nat /\ cell[o][f] + 1 = wr[o].ver
    BY <1>4 DEF WriterOf, TypeOK
  <2>2. wr[o].ver \in Nat
    BY <1>1 DEF WriteState
  <2> QED BY <2>1, <2>2
<1> QED BY <1>2, <1>3, <1>4 DEF WriterOf

LEMMA ReaderStep ==
  ASSUME NEW o, Writers = {o}, NEW r \in Readers, TypeOK,
         WriterOf(o), ReaderOf(o, r),
         ReadStep(r) \/ \E p \in Writers : StartRead(r, p)
  PROVE  ReaderOf(o, r)'
<1>1. /\ rd \in [Readers -> ReadState] /\ rd[r] \in ReadState
      /\ o \in Writers /\ rd[r].point = o
      /\ seq \in Nat
  BY DEF TypeOK, ReadState
<1>2. /\ rd[r].seq1 \in Nat /\ rd[r].seq2 \in Nat
      /\ rd[r].copy \in [Fields -> Nat]
  BY <1>1 DEF ReadState
<1>3. UNCHANGED <<seq, cell, build>>
  BY ReadsWriteNothing
<1>4. ASSUME NEW p \in Writers, StartRead(r, p) PROVE ReaderOf(o, r)'
  <2>1. rd'[r].pc = "first"
    BY <1>1, <1>4 DEF StartRead, Read, NotReading
  <2> QED BY <1>1, <1>3, <2>1 DEF ReaderOf
<1>5. CASE LoadFirst(r)
  <2>1. /\ rd'[r].pc = (IF Odd(seq) THEN "test" ELSE "copy")
        /\ rd'[r].seq1 = seq
        /\ rd'[r].todo = (IF Odd(seq) THEN {} ELSE Fields)
    BY <1>1, <1>5 DEF LoadFirst, Read, ReadState
  <2>2. Unmoved(o, r)'
    BY <1>1, <1>3, <2>1 DEF Unmoved
  <2> QED BY <1>3, <2>1, <2>2 DEF ReaderOf
<1>6. ASSUME NEW g \in Fields, CopyField(r, g) PROVE ReaderOf(o, r)'
  <2>1. /\ rd'[r].pc = "copy" /\ rd[r].pc = "copy"
        /\ rd'[r].seq1 = rd[r].seq1
        /\ rd'[r].todo = rd[r].todo \ {g}
        /\ rd'[r].copy = [rd[r].copy EXCEPT ![g] = cell[o][g]]
    BY <1>1, <1>6 DEF CopyField, Read, ReadState
  <2>2. \A f \in Fields :
          rd'[r].copy[f] = IF f = g THEN cell[o][g] ELSE rd[r].copy[f]
    BY <1>2, <2>1
  <2>3. Unmoved(o, r)'
    BY <1>3, <2>1, <2>2 DEF ReaderOf, Unmoved
  <2> QED BY <1>3, <2>1, <2>3 DEF ReaderOf
<1>7. CASE LoadSecond(r)
  <2>1. /\ rd'[r].pc = "test" /\ rd'[r].seq1 = rd[r].seq1
        /\ rd'[r].seq2 = (IF Optimised THEN rd[r].seq1 ELSE seq)
        /\ rd'[r].copy = rd[r].copy /\ rd'[r].todo = rd[r].todo
    BY <1>1, <1>7 DEF LoadSecond, Read, ReadState
  <2>2. rd[r].pc = "copy" /\ rd[r].todo = {}
    BY <1>7 DEF LoadSecond
  <2>3. ASSUME rd[r].seq1 = seq, ~Odd(seq) PROVE Uniform(rd[r].copy)
    BY <1>1, <2>2, <2>3, EvenSlotUniform DEF ReaderOf, Unmoved, Uniform
  <2>4. Unmoved(o, r)'
    BY <1>3, <2>1, <2>2 DEF ReaderOf, Unmoved
  <2>5. Optimised' = Optimised
    BY <1>3 DEF Optimised
  <2> QED BY <2>1, <2>3, <2>4, <2>5 DEF ReaderOf
<1>8. CASE Test(r)
  <2>1. /\ rd'[r].pc = (IF rd[r].seq1 = rd[r].seq2 THEN "done"
                        ELSE IF Optimised THEN "spin" ELSE "first")
        /\ rd'[r].seq1 = rd[r].seq1 /\ rd'[r].copy = rd[r].copy
        /\ rd'[r].todo = rd[r].todo
    BY <1>1, <1>8 DEF Test, Read, ReadState
  <2>2. rd[r].pc = "test"
    BY <1>8 DEF Test
  <2>3. Unmoved(o, r)'
    BY <1>3, <2>1, <2>2 DEF ReaderOf, Unmoved
  <2>4. Optimised' = Optimised
    BY <1>3 DEF Optimised
  <2> QED BY <2>1, <2>2, <2>3, <2>4 DEF ReaderOf
<1>9. CASE Return(r)
  <2>1. rd'[r].pc = "idle"
    BY <1>1, <1>9 DEF Return, Read, NotReading
  <2> QED BY <2>1 DEF ReaderOf
<1>10. CASE Spin(r)
  BY <1>10 DEF Spin, vars, ReaderOf, Unmoved, Optimised
<1> QED BY <1>4, <1>5, <1>6, <1>7, <1>8, <1>9, <1>10 DEF ReadStep

-----------------------------------------------------------------------------
(* Until its process dies, a slot under an even update_seq is whole, and   *)
(* so is a read of it.                                                     *)
LEMMA ReadInvInductive ==
  ASSUME NEW o, Writers = {o}
  PROVE  Spec => [](crashes = 0 => ReadInv(o))
<1> DEFINE Inv == crashes = 0 => ReadInv(o)
<1>1. Init => Inv
  <2> SUFFICES ASSUME Init PROVE ReadInv(o)
    OBVIOUS
  <2>1. ~Odd(0)
    BY SMT DEF Odd
  <2>2. WriterOf(o)
    BY <2>1 DEF Init, WriterOf, NotWriting
  <2>3. ASSUME NEW r \in Readers PROVE ReaderOf(o, r)
    BY DEF Init, ReaderOf, NotReading
  <2> QED BY <2>2, <2>3 DEF ReadInv
<1>2. TypeOK /\ Inv /\ [Next]_vars => Inv'
  <2> SUFFICES ASSUME TypeOK, Inv, [Next]_vars, crashes' = 0
               PROVE  ReadInv(o)'
    OBVIOUS
  <2>1. o \in Writers /\ crashes \in Nat
    BY DEF TypeOK
  <2>2. CASE StartWrite(o) \/ WriteStep(o)
    <3>1. crashes' = crashes
      BY <2>2 DEF StartWrite, WriteStep, LoadSeq, StoreIncrement, StoreOdd,
                  StoreField, FinishWrite
    <3>2. ReadInv(o)
      BY <3>1
    <3> QED BY <2>1, <2>2, <3>2, WriterStep, ReaderKeptByWriter DEF ReadInv
  <2>3. ~WriterCrash(o)
    BY <2>1 DEF WriterCrash
  <2>4. ASSUME NEW r \in Readers,
               ReadStep(r) \/ \E p \in Writers : StartRead(r, p)
        PROVE  ReadInv(o)'
    <3>1. UNCHANGED <<build, seq, cell, wr, crashes>>
      BY <2>4, ReadsWriteNothing
    <3>2. ReadInv(o)
      BY <3>1
    <3>3. ReaderOf(o, r)'
      BY <2>4, <3>2, ReaderStep DEF ReadInv
    <3>4. ASSUME NEW q \in Readers, q # r PROVE ReaderOf(o, q)'
      BY <2>4, <3>1, <3>2, <3>4, OtherReadersUntouched
      DEF ReadInv, ReaderOf, Unmoved, Optimised
    <3> QED BY <3>1, <3>2, <3>3, <3>4 DEF ReadInv, WriterOf
  <2>5. CASE UNCHANGED vars
    BY <2>5 DEF vars, ReadInv, WriterOf, ReaderOf, Unmoved, Optimised
  <2> QED BY <2>2, <2>3, <2>4, <2>5 DEF Next
<1> QED BY <1>1, <1>2, TypeCorrect, PTL DEF Spec

(* In both builds, until the writing process dies inside a write: a read   *)
(* that ends on an even update_seq returns the fields of one write, in a   *)
(* release build if no write began since it loaded update_seq.             *)
THEOREM EvenReadsConsistent ==
  ASSUME NEW o, Writers = {o}
  PROVE  Spec => []EvenReadConsistent
<1>1. TypeOK /\ (crashes = 0 => ReadInv(o)) => EvenReadConsistent
  <2> SUFFICES ASSUME TypeOK, ReadInv(o), NEW r \in Readers,
                      rd[r].pc = "done", ~Odd(rd[r].seq1),
                      Optimised => seq = rd[r].seq1
               PROVE  Uniform(rd[r].copy)
    BY DEF EvenReadConsistent
  <2>1. CASE Optimised
    <3>1. o \in Writers /\ rd[r].todo = {}
      BY DEF TypeOK
    <3>2. \A f, g \in Fields : cell[o][f] = cell[o][g]
      BY <2>1, <3>1, EvenSlotUniform DEF ReadInv
    <3> QED BY <2>1, <3>1, <3>2 DEF ReadInv, ReaderOf, Unmoved, Uniform
  <2>2. CASE ~Optimised
    BY <2>2 DEF ReadInv, ReaderOf
  <2> QED BY <2>1, <2>2
<1> QED BY <1>1, ReadInvInductive, TypeCorrect, PTL

=============================================================================
