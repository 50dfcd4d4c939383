---------------------------- MODULE PointSeqlock ----------------------------
(***************************************************************************)
(* update_seq of the telemetry and teleindication tables: how the          *)
(* processes that write point slots and the processes that read them share *)
(* a table without a lock.                                                 *)
(*                                                                         *)
(* A writer (a collector process; RtDb::process_mutex_ lets it write one   *)
(* slot at a time) makes update_seq odd, stores the fields of a slot and   *)
(* increments update_seq again.  A reader copies the fields between two    *)
(* loads of update_seq.  There is one update_seq for the whole table, and  *)
(* each collector process writes the slots of its own devices: cell[w]     *)
(* stands for the slot of a point of process w.                            *)
(*                                                                         *)
(* Data are abstracted to versions: the n-th write of a process stores n   *)
(* in every field (value, timestamp, quality, valid).                      *)
(*                                                                         *)
(* The accesses are plain loads and stores of memory other processes       *)
(* write, so what a build makes of them is part of the model:              *)
(*   "release"  what the repository ships (scripts/build_linux.sh, the     *)
(*              Dockerfile).  GCC -O3 makes one store of seq++ and         *)
(*              seq |= 1, and the reader loads update_seq once and takes   *)
(*              its second load from a register;                           *)
(*   "debug"    every load and store of the source is performed            *)
(*              (scripts/build_linux.sh --debug).                          *)
(***************************************************************************)
EXTENDS Naturals

CONSTANTS
  Writers,    (* collector processes                                        *)
  Readers,    (* reading threads of other processes                         *)
  Fields,     (* the fields of a slot                                       *)
  Builds,     (* the builds in question (above)                             *)
  MaxWrites,  (* bound: writes of one process                               *)
  MaxCrashes  (* bound: crashes of writers                                  *)

ASSUME BuildsAssumption == Builds \subseteq {"release", "debug"}
ASSUME SeqBoundsAssumption == MaxWrites \in Nat /\ MaxCrashes \in Nat

VARIABLES
  build,    (* the build all the processes run                              *)
  seq,      (* TableHeader::update_seq                                      *)
  cell,     (* the fields of each process's slot                            *)
  wr,       (* the write each process is in                                 *)
  rd,       (* the read each reader is in                                   *)
  crashes,  (* what MaxCrashes counts                                       *)
  dirty,    (* history: a process died in a write and none has ended since  *)
  ended     (* history: the last version each process finished writing      *)

vars == <<build, seq, cell, wr, rd, crashes, dirty, ended>>

Optimised == build = "release"

Odd(n) == n % 2 = 1

(* The stages of a write: the increment, |= 1, the fields, the last        *)
(* increment.  A read-modify-write of update_seq is a load, kept in reg,   *)
(* and a store.                                                            *)
WritePc == {"idle", "inc", "or", "fields", "fin"}
ReadPc == {"idle", "first", "copy", "test", "spin", "done"}

NotWriting == [pc |-> "idle", loaded |-> FALSE, reg |-> 0, ver |-> 0, todo |-> {}]

(* What read_telemetry's locals hold at its start: seq1 = seq2 = 0 and a   *)
(* zeroed result.                                                          *)
NotReading(p) ==
  [pc |-> "idle", point |-> p, seq1 |-> 0, seq2 |-> 0, todo |-> {},
   copy |-> [f \in Fields |-> 0], floor |-> 0]

Init ==
  /\ build \in Builds
  /\ seq = 0
  /\ cell = [w \in Writers |-> [f \in Fields |-> 0]]
  /\ wr = [w \in Writers |-> NotWriting]
  /\ \E p \in Writers : rd = [r \in Readers |-> NotReading(p)]
  /\ crashes = 0
  /\ dirty = FALSE
  /\ ended = [w \in Writers |-> 0]

-----------------------------------------------------------------------------
(* write_telemetry, write_teleindication and their batches                 *)

Write(w, record) == wr' = [wr EXCEPT ![w] = record]

StartWrite(w) ==
  /\ wr[w].pc = "idle"
  /\ wr[w].ver < MaxWrites
  /\ Write(w, [wr[w] EXCEPT !.pc = "inc", !.ver = wr[w].ver + 1, !.todo = Fields])
  /\ UNCHANGED <<build, seq, cell, rd, crashes, dirty, ended>>

LoadSeq(w) ==
  /\ wr[w].pc \in {"inc", "or", "fin"}
  /\ ~wr[w].loaded
  /\ Write(w, [wr[w] EXCEPT !.loaded = TRUE, !.reg = seq])
  /\ UNCHANGED <<build, seq, cell, rd, crashes, dirty, ended>>

MadeOdd(n) == IF Odd(n) THEN n ELSE n + 1

(* Slips of the increment: |= 1 forgotten; update_seq += 2, as the command *)
(* table has it.                                                           *)
StoreIncrementOnly(w) ==
  /\ wr[w].pc = "inc"
  /\ wr[w].loaded
  /\ seq' = wr[w].reg + 1
  /\ Write(w, [wr[w] EXCEPT !.pc = "fields", !.loaded = FALSE])
  /\ UNCHANGED <<build, cell, rd, crashes, dirty, ended>>

StoreIncrementByTwo(w) ==
  /\ wr[w].pc = "inc"
  /\ wr[w].loaded
  /\ seq' = wr[w].reg + 2
  /\ Write(w, [wr[w] EXCEPT !.pc = "fields", !.loaded = FALSE])
  /\ UNCHANGED <<build, cell, rd, crashes, dirty, ended>>

(* update_table_header_on_write: update_seq++, then update_seq |= 1.       *)
StoreIncrement(w) ==
  /\ wr[w].pc = "inc"
  /\ wr[w].loaded
  /\ seq' = IF Optimised THEN MadeOdd(wr[w].reg + 1) ELSE wr[w].reg + 1
  /\ Write(w, [wr[w] EXCEPT !.pc = IF Optimised THEN "fields" ELSE "or",
                            !.loaded = FALSE])
  /\ UNCHANGED <<build, cell, rd, crashes, dirty, ended>>

StoreOdd(w) ==
  /\ wr[w].pc = "or"
  /\ wr[w].loaded
  /\ seq' = MadeOdd(wr[w].reg)
  /\ Write(w, [wr[w] EXCEPT !.pc = "fields", !.loaded = FALSE])
  /\ UNCHANGED <<build, cell, rd, crashes, dirty, ended>>

StoreField(w, f) ==
  /\ wr[w].pc = "fields"
  /\ f \in wr[w].todo
  /\ cell' = [cell EXCEPT ![w] = [cell[w] EXCEPT ![f] = wr[w].ver]]
  /\ Write(w, [wr[w] EXCEPT
                 !.todo = wr[w].todo \ {f},
                 !.pc = IF wr[w].todo = {f} THEN "fin" ELSE "fields"])
  /\ UNCHANGED <<build, seq, rd, crashes, dirty, ended>>

(* finish_table_header_write                                               *)
FinishWrite(w) ==
  /\ wr[w].pc = "fin"
  /\ wr[w].loaded
  /\ seq' = wr[w].reg + 1
  /\ Write(w, [wr[w] EXCEPT !.pc = "idle", !.loaded = FALSE])
  /\ dirty' = FALSE
  /\ ended' = [ended EXCEPT ![w] = wr[w].ver]
  /\ UNCHANGED <<build, cell, rd, crashes>>

(* A collector process dies inside a write and is started again.           *)
WriterCrash(w) ==
  /\ wr[w].pc # "idle"
  /\ crashes < MaxCrashes
  /\ crashes' = crashes + 1
  /\ Write(w, [NotWriting EXCEPT !.ver = wr[w].ver])
  /\ dirty' = TRUE
  /\ UNCHANGED <<build, seq, cell, rd, ended>>

-----------------------------------------------------------------------------
(* read_telemetry and read_teleindication                                  *)

Read(r, record) == rd' = [rd EXCEPT ![r] = record]

StartRead(r, p) ==
  /\ rd[r].pc = "idle"
  /\ Read(r, [NotReading(p) EXCEPT !.pc = "first", !.floor = ended[p]])
  /\ UNCHANGED <<build, seq, cell, wr, crashes, dirty, ended>>

(* seq1 = update_seq; an odd value makes the loop "continue", that is, go  *)
(* to its condition seq1 != seq2 with the seq2 of the round before.        *)
LoadFirst(r) ==
  /\ rd[r].pc = "first"
  /\ Read(r, [rd[r] EXCEPT !.seq1 = seq,
                           !.pc = IF Odd(seq) THEN "test" ELSE "copy",
                           !.todo = IF Odd(seq) THEN {} ELSE Fields])
  /\ UNCHANGED <<build, seq, cell, wr, crashes, dirty, ended>>

CopyField(r, f) ==
  /\ rd[r].pc = "copy"
  /\ f \in rd[r].todo
  /\ Read(r, [rd[r] EXCEPT
                !.copy = [rd[r].copy EXCEPT ![f] = cell[rd[r].point][f]],
                !.todo = rd[r].todo \ {f}])
  /\ UNCHANGED <<build, seq, cell, wr, crashes, dirty, ended>>

LoadSecond(r) ==
  /\ rd[r].pc = "copy"
  /\ rd[r].todo = {}
  /\ Read(r, [rd[r] EXCEPT !.seq2 = IF Optimised THEN rd[r].seq1 ELSE seq,
                           !.pc = "test"])
  /\ UNCHANGED <<build, seq, cell, wr, crashes, dirty, ended>>

(* Slips of the condition: it leaves on an odd first load; it never ends.  *)
TestLeavesOnOdd(r) ==
  /\ rd[r].pc = "test"
  /\ Read(r, [rd[r] EXCEPT !.pc =
                IF rd[r].seq1 = rd[r].seq2 \/ Odd(rd[r].seq1)
                THEN "done" ELSE "first"])
  /\ UNCHANGED <<build, seq, cell, wr, crashes, dirty, ended>>

TestComparesWithStart(r) ==
  /\ rd[r].pc = "test"
  /\ Read(r, [rd[r] EXCEPT !.pc = IF rd[r].seq2 = 0 THEN "done" ELSE "first"])
  /\ UNCHANGED <<build, seq, cell, wr, crashes, dirty, ended>>

(* while (seq1 != seq2).  The optimised loop has no load left in it: once  *)
(* its test fails it jumps to itself for ever.                             *)
Test(r) ==
  /\ rd[r].pc = "test"
  /\ Read(r, [rd[r] EXCEPT !.pc =
                IF rd[r].seq1 = rd[r].seq2 THEN "done"
                ELSE IF Optimised THEN "spin" ELSE "first"])
  /\ UNCHANGED <<build, seq, cell, wr, crashes, dirty, ended>>

Spin(r) ==
  /\ rd[r].pc = "spin"
  /\ UNCHANGED vars

Return(r) ==
  /\ rd[r].pc = "done"
  /\ Read(r, NotReading(rd[r].point))
  /\ UNCHANGED <<build, seq, cell, wr, crashes, dirty, ended>>

-----------------------------------------------------------------------------
WriteStep(w) ==
  \/ LoadSeq(w)
  \/ StoreIncrement(w)
  \/ StoreOdd(w)
  \/ \E f \in Fields : StoreField(w, f)
  \/ FinishWrite(w)

ReadStep(r) ==
  \/ LoadFirst(r)
  \/ \E f \in Fields : CopyField(r, f)
  \/ LoadSecond(r)
  \/ Test(r)
  \/ Spin(r)
  \/ Return(r)

Next ==
  \/ \E w \in Writers : StartWrite(w) \/ WriteStep(w) \/ WriterCrash(w)
  \/ \E r \in Readers : ReadStep(r) \/ \E p \in Writers : StartRead(r, p)

Spec == Init /\ [][Next]_vars

(* Threads inside a read or a write keep running; nobody has to start one. *)
FairSpec ==
  /\ Spec
  /\ \A w \in Writers : WF_vars(WriteStep(w))
  /\ \A r \in Readers : WF_vars(ReadStep(r))

-----------------------------------------------------------------------------
(* Properties                                                              *)

WriteState ==
  [pc : WritePc, loaded : BOOLEAN, reg : Nat, ver : Nat, todo : SUBSET Fields]
ReadState ==
  [pc : ReadPc, point : Writers, seq1 : Nat, seq2 : Nat, todo : SUBSET Fields,
   copy : [Fields -> Nat], floor : Nat]

(* Every variable keeps its type, and neither a write nor a read is over   *)
(* while a field is left.                                                  *)
TypeOK ==
  /\ build \in Builds
  /\ seq \in Nat
  /\ cell \in [Writers -> [Fields -> Nat]]
  /\ wr \in [Writers -> WriteState]
  /\ rd \in [Readers -> ReadState]
  /\ crashes \in Nat
  /\ dirty \in BOOLEAN
  /\ ended \in [Writers -> Nat]
  /\ \A w \in Writers : wr[w].pc \in {"idle", "fin"} => wr[w].todo = {}
  /\ \A r \in Readers : rd[r].pc # "copy" => rd[r].todo = {}

Uniform(v) == \A f, g \in Fields : v[f] = v[g]

(* A read that ends on an even update_seq returns the fields of one write, *)
(* as long as no write was cut short: in a debug build always, in a        *)
(* release build if no write of any slot began since its load of           *)
(* update_seq, which it does not look at again.  (The loop can also be     *)
(* left on an odd one: see LoadFirst.)                                     *)
EvenReadConsistent ==
  crashes = 0 =>
    \A r \in Readers :
      ( /\ rd[r].pc = "done"
        /\ ~Odd(rd[r].seq1)
        /\ Optimised => seq = rd[r].seq1 ) => Uniform(rd[r].copy)

(* A read never returns a field older than the last write that had ended   *)
(* when it began, nor the zeroed result it started from.                   *)
NeverStale ==
  \A r \in Readers :
    rd[r].pc = "done" => \A f \in Fields : rd[r].copy[f] >= rd[r].floor

(* With one writing process, update_seq is odd while fields are stored,    *)
(* also in the first write after a crash left it odd, and even again once  *)
(* a write has ended: |= 1 keeps a crash from inverting the parity.        *)
ParityRepaired ==
  /\ \A w \in Writers : wr[w].pc = "fields" => Odd(seq)
  /\ (~dirty /\ \A w \in Writers : wr[w].pc = "idle") => ~Odd(seq)

(* A read that has begun returns once the writers pause, as they do        *)
(* between two polls: MaxWrites bounds the writes it can overlap.  (A      *)
(* writer that never paused could starve any seqlock reader.)  It may wait *)
(* only while a write was cut short and no later one has ended.  This is   *)
(* what the comment on process_mutex_ in rt_db.h relies on.                *)
EveryReadReturns ==
  \A r \in Readers : rd[r].pc # "idle" ~> (rd[r].pc = "idle" \/ dirty)

(* The same, with the one exception a release build makes of it: a read    *)
(* whose only load of update_seq met a write in progress.  A read that     *)
(* meets none of them returns, whatever is written afterwards.             *)
OnlyMidWriteReadsHang ==
  \A r \in Readers :
    rd[r].pc # "idle" ~>
      (rd[r].pc = "idle" \/ dirty \/ (Optimised /\ Odd(rd[r].seq1)))

=============================================================================
