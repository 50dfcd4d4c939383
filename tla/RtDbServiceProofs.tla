--------------------------- MODULE RtDbServiceProofs ---------------------------
(***************************************************************************)
(* Proofs about RtDbService for any tables, points, processes and runs:    *)
(* types; that an attach which nothing disturbed maps the finished tables  *)
(* of one run; and that the history's rows carry their own point's value.  *)
(***************************************************************************)
EXTENDS RtDbService, FiniteSetTheorems, TLAPS

-----------------------------------------------------------------------------
(* Types                                                                   *)

Slot == PointSet \cup {Zero, Stray}
Id == PointSet \cup {None}

CatalogObject == [init : 0 .. MaxRuns, listed : SUBSET Names]
EntryType == [point : Id, category : Cats, slot : [Cats -> Nat]]
IndexObject ==
  [init : 0 .. MaxRuns, entry : [Rows -> EntryType], used : [Cats -> Nat]]
SlotObject == [init : 0 .. MaxRuns, rows : Nat, value : [Rows -> Slot]]

ObjectOf(t) ==
  IF t = "catalog" THEN CatalogObject
  ELSE IF t = "point_index" THEN IndexObject ELSE SlotObject

MemOK ==
  /\ mem \in [Names -> [Runs -> CatalogObject \cup IndexObject \cup SlotObject]]
  /\ \A t \in Names, n \in Runs : mem[t][n] \in ObjectOf(t)

Registering == {"name", "category", "invalidate", "assign"}
(* The stages in which rtdb_service maps every table.                      *)
Complete == {"header", "list", "run"} \cup Registering

SrvOK ==
  /\ srv \in [pc : {"down", "create", "unlink"} \cup Complete, k : Nat,
              run : 0 .. MaxRuns, map : [Names -> 0 .. MaxRuns]]
  /\ srv.pc # "down" => srv.run \in Runs
  /\ srv.pc \in {"create", "header", "list", "unlink"} => srv.k \in 1 .. Len(Tables)
  /\ srv.pc \in Registering => srv.k \in Rows
  /\ srv.pc = "create" =>
       \A k \in 1 .. Len(Tables) :
          srv.map[Tables[k]] \in IF k < srv.k THEN Runs ELSE {0}
  /\ srv.pc \in Complete => \A t \in Names : srv.map[t] \in Runs

ClientOK(c) ==
  /\ cl[c].pc = "attach" =>
       /\ cl[c].k \in 1 .. (Len(Tables) + 1)
       /\ \A j \in 1 .. Len(Tables) : j < cl[c].k => cl[c].map[Tables[j]] \in Runs
  /\ cl[c].pc # "attach" => \A t \in Names : cl[c].map[t] \in Runs

ClientsOK ==
  /\ cl \in [Clients -> [pc : {"attach", "use", "value", "insert"}, k : Nat,
                         map : [Names -> 0 .. MaxRuns], skew : BOOLEAN]]
  /\ overlap \in [Clients -> BOOLEAN]
  /\ \A c \in Clients : ClientOK(c)

Snapshot ==
  [ids : Seq(Id), cats : Seq(Cats), values : [Cats -> Seq(Slot)],
   half : BOOLEAN, row : Nat \ {0}]

(* How many of the first k points have the category.                       *)
CountTo(k, c) == Cardinality({j \in 1 .. k : Category[Points[j]] = c})

(* Slots are given out in the points' order, from a zeroed index.          *)
IndexOK ==
  /\ \A n \in Runs, i \in Rows, c \in Cats :
       mem["point_index"][n].entry[i].slot[c] \in 1 .. Invalid
  /\ srv.pc \in {"create", "header", "list"} /\ srv.map["point_index"] # 0 =>
       \A c \in Cats : Index.used[c] = 0
  /\ srv.pc \in Registering => \A c \in Cats : Index.used[c] = CountTo(srv.k - 1, c)

SampleOK ==
  /\ snap \in Snapshot
  /\ Len(snap.ids) = Len(snap.cats)
  /\ h.pc = "value" => snap.row \in Rows
  /\ tx \subseteq [point : Id, value : Slot]

(* Every variable keeps its type; a process that has attached, and the     *)
(* service once it has created the tables, maps an object of every table.  *)
TypeOK ==
  /\ link \in [Names -> 0 .. MaxRuns]
  /\ MemOK /\ SrvOK /\ ClientsOK /\ IndexOK /\ SampleOK

LEMMA TableFacts ==
  /\ Len(Tables) \in Nat /\ Len(Tables) >= 2
  /\ \A k \in 1 .. Len(Tables) : Tables[k] \in Names
  /\ \A t \in Names : \E k \in 1 .. Len(Tables) : t = Tables[k]
  /\ Cats \subseteq Names \ {"catalog", "point_index"}
  /\ "catalog" \in Names /\ "point_index" \in Names
<1>1. Len(Tables) \in Nat
  BY TablesAssumption
<1>2. PICK k \in 2 .. Len(Tables) : Tables[k] = "point_index"
  BY TablesAssumption
<1>3. Len(Tables) >= 2
  BY <1>1, <1>2
<1>4. Names = {Tables[j] : j \in 1 .. Len(Tables)}
  BY DEF Names
<1>5. \A j \in 2 .. Len(Tables) : j \in 1 .. Len(Tables)
  BY <1>1
<1>6. Cats \cup {"point_index"} \subseteq Names
  BY <1>4, <1>5, TablesAssumption
<1>7. "catalog" \in Names
  BY <1>1, <1>3, <1>4, TablesAssumption
<1> QED BY <1>1, <1>3, <1>4, <1>6, <1>7 DEF Cats

LEMMA RowFacts ==
  /\ Len(Points) \in Nat
  /\ \A i \in Rows : Points[i] \in PointSet /\ Category[Points[i]] \in Cats
BY PointsAssumption DEF Rows, PointSet

LEMMA ZeroedType ==
  ASSUME NEW t \in Names
  PROVE  Zeroed(t) \in ObjectOf(t) /\ Zeroed(t).init = 0
<1>1. FreeEntry \in EntryType
  BY DEF FreeEntry, EntryType, Id, Cats
<1>2. 0 \in 0 .. MaxRuns
  BY RunsAssumption
<1> QED BY <1>1, <1>2, Zenon DEF Zeroed, ObjectOf, CatalogObject, IndexObject, SlotObject, Slot

(* One object of the memory changes and no other.                          *)
LEMMA OneObject ==
  ASSUME MemOK, NEW t \in Names, NEW n \in Runs, NEW o \in ObjectOf(t),
         mem' = [mem EXCEPT ![t][n] = o]
  PROVE  /\ MemOK'
         /\ \A u \in Names, m \in Runs :
              mem'[u][m] = IF u = t /\ m = n THEN o ELSE mem[u][m]
<1>1. o \in CatalogObject \cup IndexObject \cup SlotObject
  BY DEF ObjectOf
<1>2. mem' \in [Names -> [Runs -> CatalogObject \cup IndexObject \cup SlotObject]]
  BY <1>1 DEF MemOK
<1>3. \A u \in Names, m \in Runs :
        mem'[u][m] = IF u = t /\ m = n THEN o ELSE mem[u][m]
  BY DEF MemOK
<1> QED BY <1>2, <1>3 DEF MemOK

-----------------------------------------------------------------------------
(* The steps of rtdb_service                                               *)

LEMMA NextTableFacts ==
  ASSUME SrvOK, srv.k \in 1 .. Len(Tables), NEW pc
  PROVE  LET s == NextTable(pc) IN
         /\ s = [pc |-> s.pc, k |-> s.k, run |-> srv.run, map |-> srv.map]
         /\ srv.k < Len(Tables) => s.pc = srv.pc /\ s.k = srv.k + 1
         /\ srv.k = Len(Tables) => s.pc = pc /\ s.k = 1
<1>1. /\ srv = [pc |-> srv.pc, k |-> srv.k, run |-> srv.run, map |-> srv.map]
      /\ srv.k \in Nat /\ Len(Tables) \in Nat
  BY TableFacts DEF SrvOK
<1>2. CASE srv.k < Len(Tables)
  <2>1. NextTable(pc) = [srv EXCEPT !.k = srv.k + 1]
    BY <1>2 DEF NextTable
  <2> QED BY <1>1, <1>2, <2>1
<1>3. CASE srv.k = Len(Tables)
  <2>1. NextTable(pc) = [srv EXCEPT !.k = 1, !.pc = pc]
    BY <1>1, <1>3 DEF NextTable
  <2>2. NextTable(pc) = [pc |-> pc, k |-> 1, run |-> srv.run, map |-> srv.map]
    BY <1>1, <2>1, Zenon
  <2>3. ~(srv.k < Len(Tables))
    BY <1>1, <1>3
  <2> QED BY <2>2, <2>3
<1> QED BY <1>1, <1>2, <1>3

(* The object Create takes: the name's, or a new one of this run.          *)
Taken(t) == IF link[t] = 0 THEN srv.run ELSE link[t]

LEMMA CreateEffect ==
  ASSUME TypeOK, Create
  PROVE  LET t == Tables[srv.k] IN
         /\ t \in Names /\ Taken(t) \in Runs
         /\ MemOK'
         /\ \A u \in Names, m \in Runs :
              mem'[u][m] = IF u = t /\ m = Taken(t) THEN Zeroed(t) ELSE mem[u][m]
         /\ link' = [link EXCEPT ![t] = Taken(t)]
         /\ srv'.map = [srv.map EXCEPT ![t] = Taken(t)] /\ srv'.run = srv.run
         /\ srv.k < Len(Tables) => srv'.pc = "create" /\ srv'.k = srv.k + 1
         /\ srv.k = Len(Tables) => srv'.pc = "header" /\ srv'.k = 1
         /\ SrvOK'
<1> DEFINE t == Tables[srv.k]
           n == Taken(t)
<1>1. srv.pc = "create" /\ srv.k \in 1 .. Len(Tables) /\ SrvOK
  BY DEF Create, TypeOK, SrvOK
<1>2. t \in Names /\ n \in Runs
  BY <1>1, TableFacts DEF TypeOK, SrvOK, Runs, Taken
<1>3. Zeroed(t) \in ObjectOf(t)
  BY <1>2, ZeroedType
<1>4. mem' = [mem EXCEPT ![t][n] = Zeroed(t)] /\ link' = [link EXCEPT ![t] = n]
  BY DEF Create, Taken
<1>5. srv' = [NextTable("header") EXCEPT !.map[t] = n]
  BY DEF Create, Taken
<1> HIDE DEF t, n
<1>6. /\ MemOK'
      /\ \A u \in Names, m \in Runs :
           mem'[u][m] = IF u = t /\ m = n THEN Zeroed(t) ELSE mem[u][m]
  BY <1>2, <1>3, <1>4, OneObject, Zenon DEF TypeOK
<1> DEFINE s == NextTable("header")
<1>7. /\ s = [pc |-> s.pc, k |-> s.k, run |-> srv.run, map |-> srv.map]
      /\ srv.k < Len(Tables) => s.pc = srv.pc /\ s.k = srv.k + 1
      /\ srv.k = Len(Tables) => s.pc = "header" /\ s.k = 1
  BY <1>1, NextTableFacts
<1> HIDE DEF s
<1>8. srv' = [pc |-> s.pc, k |-> s.k, run |-> srv.run,
              map |-> [srv.map EXCEPT ![t] = n]]
  BY <1>5, <1>7 DEF s
<1>9. SrvOK'
  <2>1. srv'.map \in [Names -> 0 .. MaxRuns]
    BY <1>1, <1>2, <1>8 DEF SrvOK, Runs
  <2>2. srv' \in [pc : {"down", "create", "unlink"} \cup Complete, k : Nat,
                  run : 0 .. MaxRuns, map : [Names -> 0 .. MaxRuns]]
    BY <1>1, <1>7, <1>8, <2>1, TableFacts DEF SrvOK, Complete
  <2>3. \A j \in 1 .. Len(Tables) :
          srv'.map[Tables[j]] = IF j = srv.k THEN n ELSE srv.map[Tables[j]]
    BY <1>1, <1>8, TablesAssumption, TableFacts DEF t, SrvOK
  <2>4. CASE srv.k < Len(Tables)
    <3>1. srv'.pc = "create" /\ srv'.k = srv.k + 1 /\ srv'.run = srv.run
      BY <1>1, <1>7, <1>8, <2>4
    <3>2. \A j \in 1 .. Len(Tables) :
            srv'.map[Tables[j]] \in IF j < srv'.k THEN Runs ELSE {0}
      BY <1>1, <1>2, <2>3, <3>1, TableFacts DEF SrvOK
    <3> QED BY <1>1, <2>2, <2>4, <3>1, <3>2, TableFacts
            DEF SrvOK, Complete, Registering
  <2>5. CASE srv.k = Len(Tables)
    <3>1. srv'.pc = "header" /\ srv'.k = 1 /\ srv'.run = srv.run
      BY <1>7, <1>8, <2>5
    <3>2. \A j \in 1 .. Len(Tables) : srv'.map[Tables[j]] \in Runs
      <4>1. \A j \in 1 .. Len(Tables) :
              srv.map[Tables[j]] \in IF j < srv.k THEN Runs ELSE {0}
        BY <1>1 DEF SrvOK
      <4>2. \A j \in 1 .. Len(Tables) : j = srv.k \/ j < srv.k
        BY <2>5, TableFacts
      <4> QED BY <1>2, <2>3, <4>1, <4>2
    <3>3. \A u \in Names : srv'.map[u] \in Runs
      BY <3>2, TableFacts
    <3> QED BY <1>1, <2>2, <3>1, <3>3, TableFacts DEF SrvOK, Registering
  <2> QED BY <1>1, <2>4, <2>5, TableFacts
<1>10. UNCHANGED <<cl, snap, tx>> /\ overlap' \in [Clients -> BOOLEAN]
  BY Zenon DEF Create, history, Disturbed, TypeOK, ClientsOK
<1> QED BY <1>1, <1>2, <1>4, <1>6, <1>7, <1>8, <1>9 DEF t, n, Taken

LEMMA HeaderEffect ==
  ASSUME TypeOK, InitHeader
  PROVE  LET t == Tables[srv.k]
             n == srv.map[t]
         IN
         /\ t \in Names /\ n \in Runs
         /\ MemOK'
         /\ \A u \in Names, m \in Runs :
              mem'[u][m] = IF u = t /\ m = n
                           THEN [mem[t][n] EXCEPT !.init = srv.run] ELSE mem[u][m]
         /\ srv'.map = srv.map /\ srv'.run = srv.run
         /\ srv.k < Len(Tables) => srv'.pc = "header" /\ srv'.k = srv.k + 1
         /\ srv.k = Len(Tables) => srv'.pc = "list" /\ srv'.k = 1
         /\ SrvOK'
<1> DEFINE t == Tables[srv.k]
           n == srv.map[t]
           o == [mem[t][n] EXCEPT !.init = srv.run]
<1>1. srv.pc = "header" /\ srv.k \in 1 .. Len(Tables) /\ SrvOK
  BY DEF InitHeader, TypeOK, SrvOK
<1>2. t \in Names /\ n \in Runs
  BY <1>1, TableFacts DEF SrvOK, Complete
<1>3. mem' = [mem EXCEPT ![t][n] = o]
  BY DEF InitHeader
<1>4. mem[t][n] \in ObjectOf(t) /\ srv.run \in 0 .. MaxRuns
  BY <1>1, <1>2 DEF TypeOK, MemOK, SrvOK
<1> DEFINE s == NextTable("list")
<1>5. srv' = s
  BY DEF InitHeader
<1>6. /\ s = [pc |-> s.pc, k |-> s.k, run |-> srv.run, map |-> srv.map]
      /\ srv.k < Len(Tables) => s.pc = srv.pc /\ s.k = srv.k + 1
      /\ srv.k = Len(Tables) => s.pc = "list" /\ s.k = 1
  BY <1>1, NextTableFacts
<1> HIDE DEF t, n, s
<1>7. o \in ObjectOf(t)
  BY <1>4, Zenon DEF ObjectOf, CatalogObject, IndexObject, SlotObject
<1> HIDE DEF o
<1>8. /\ MemOK'
      /\ \A u \in Names, m \in Runs :
           mem'[u][m] = IF u = t /\ m = n THEN o ELSE mem[u][m]
  BY <1>2, <1>3, <1>7, OneObject, Zenon DEF TypeOK
<1>9. SrvOK'
  <2>1. srv' \in [pc : {"down", "create", "unlink"} \cup Complete, k : Nat,
                  run : 0 .. MaxRuns, map : [Names -> 0 .. MaxRuns]]
    BY <1>1, <1>5, <1>6, TableFacts DEF SrvOK, Complete
  <2>2. srv'.pc \in {"header", "list"} /\ srv'.k \in 1 .. Len(Tables)
    BY <1>1, <1>5, <1>6, TableFacts
  <2>3. srv'.run = srv.run /\ srv'.map = srv.map
    BY <1>5, <1>6
  <2>4. srv.run \in Runs /\ \A u \in Names : srv.map[u] \in Runs
    BY <1>1 DEF SrvOK, Complete
  <2> QED BY <2>1, <2>2, <2>3, <2>4 DEF SrvOK, Registering
<1>10. /\ srv'.map = srv.map /\ srv'.run = srv.run
       /\ srv.k < Len(Tables) => srv'.pc = "header" /\ srv'.k = srv.k + 1
       /\ srv.k = Len(Tables) => srv'.pc = "list" /\ srv'.k = 1
  BY <1>1, <1>5, <1>6
<1> QED BY <1>2, <1>8, <1>9, <1>10 DEF t, n, o

LEMMA ListEffect ==
  ASSUME TypeOK, List
  PROVE  LET n == srv.map["catalog"] IN
         /\ n \in Runs
         /\ MemOK'
         /\ \A u \in Names, m \in Runs :
              mem'[u][m] = IF u = "catalog" /\ m = n
                           THEN [mem[u][m] EXCEPT !.listed = @ \cup {Tables[srv.k]}]
                           ELSE mem[u][m]
         /\ srv'.map = srv.map /\ srv'.run = srv.run
         /\ srv.k < Len(Tables) => srv'.pc = "list" /\ srv'.k = srv.k + 1
         /\ srv.k = Len(Tables) =>
              srv'.pc = (IF Points = <<>> THEN "run" ELSE "name") /\ srv'.k = 1
         /\ SrvOK'
<1> DEFINE n == srv.map["catalog"]
           o == [mem["catalog"][n] EXCEPT !.listed = @ \cup {Tables[srv.k]}]
           pc == IF Points = <<>> THEN "run" ELSE "name"
           s == NextTable(pc)
<1>1. srv.pc = "list" /\ srv.k \in 1 .. Len(Tables) /\ SrvOK
  BY DEF List, TypeOK, SrvOK
<1>2. n \in Runs /\ Tables[srv.k] \in Names
  BY <1>1, TableFacts DEF SrvOK, Complete
<1>3. mem' = [mem EXCEPT !["catalog"][n] = o]
  BY DEF List
<1>4. mem["catalog"][n] \in CatalogObject
  BY <1>2, TableFacts DEF TypeOK, MemOK, ObjectOf
<1>5. srv' = s
  BY DEF List
<1>6. /\ s = [pc |-> s.pc, k |-> s.k, run |-> srv.run, map |-> srv.map]
      /\ srv.k < Len(Tables) => s.pc = srv.pc /\ s.k = srv.k + 1
      /\ srv.k = Len(Tables) => s.pc = pc /\ s.k = 1
  BY <1>1, NextTableFacts
<1> HIDE DEF n, s
<1>7. o \in ObjectOf("catalog")
  BY <1>2, <1>4 DEF ObjectOf, CatalogObject
<1> HIDE DEF o
<1>8. /\ MemOK'
      /\ \A u \in Names, m \in Runs :
           mem'[u][m] = IF u = "catalog" /\ m = n THEN o ELSE mem[u][m]
  <2> DEFINE t == "catalog"
  <2>1. t \in Names /\ o \in ObjectOf(t) /\ mem' = [mem EXCEPT ![t][n] = o] /\ MemOK
    BY <1>3, <1>7, TableFacts DEF TypeOK
  <2> HIDE DEF t
  <2>2. /\ MemOK'
        /\ \A u \in Names, m \in Runs :
             mem'[u][m] = IF u = t /\ m = n THEN o ELSE mem[u][m]
    BY <1>2, <2>1, OneObject, Zenon
  <2> QED BY <2>2 DEF t
<1>9. SrvOK'
  <2>1. srv' \in [pc : {"down", "create", "unlink"} \cup Complete, k : Nat,
                  run : 0 .. MaxRuns, map : [Names -> 0 .. MaxRuns]]
    BY <1>1, <1>5, <1>6, TableFacts DEF SrvOK, Complete, Registering
  <2>2. Points # <<>> => 1 \in Rows
    BY PointsAssumption DEF Rows
  <2> QED BY <1>1, <1>5, <1>6, <2>1, <2>2, TableFacts
          DEF SrvOK, Complete, Registering
<1>10. \A u \in Names, m \in Runs :
         mem'[u][m] = IF u = "catalog" /\ m = n
                      THEN [mem[u][m] EXCEPT !.listed = @ \cup {Tables[srv.k]}]
                      ELSE mem[u][m]
  BY <1>8, Zenon DEF o
<1> QED BY <1>1, <1>2, <1>5, <1>6, <1>8, <1>9, <1>10 DEF n

(* A step of a registration: one entry of the index changes.               *)
LEMMA SetEntryEffect ==
  ASSUME TypeOK, NEW pc \in Registering, NEW next \in Registering,
         NEW e \in EntryType, SetEntry(pc, next, e)
  PROVE  LET n == srv.map["point_index"] IN
         /\ n \in Runs /\ srv.k \in Rows
         /\ MemOK'
         /\ \A u \in Names, m \in Runs :
              mem'[u][m] = IF u = "point_index" /\ m = n
                           THEN [mem[u][m] EXCEPT !.entry[srv.k] = e]
                           ELSE mem[u][m]
         /\ srv'.map = srv.map /\ srv'.run = srv.run /\ srv'.k = srv.k
         /\ srv'.pc = next
         /\ SrvOK'
<1> DEFINE t == "point_index"
           n == srv.map[t]
           o == [mem[t][n] EXCEPT !.entry[srv.k] = e]
<1>1. srv.pc = pc /\ SrvOK /\ srv.k \in Rows /\ n \in Runs
  BY TableFacts DEF SetEntry, TypeOK, SrvOK, Complete
<1>2. t \in Names /\ mem[t][n] \in IndexObject
  BY <1>1, TableFacts DEF TypeOK, MemOK, ObjectOf
<1>3. o \in ObjectOf(t)
  BY <1>1, <1>2 DEF ObjectOf, IndexObject
<1>4. mem' = [mem EXCEPT ![t][n] = o]
  BY DEF SetEntry
<1>5. MemOK
  BY DEF TypeOK
<1> HIDE DEF t, n, o
<1>6. /\ MemOK'
      /\ \A u \in Names, m \in Runs :
           mem'[u][m] = IF u = t /\ m = n THEN o ELSE mem[u][m]
  BY <1>1, <1>2, <1>3, <1>4, <1>5, OneObject, Zenon
<1>7. srv' = [srv EXCEPT !.pc = next]
  BY DEF SetEntry
<1>8. SrvOK' /\ srv'.pc = next /\ UNCHANGED <<srv.map, srv.run, srv.k>>
  BY <1>1, <1>7 DEF SrvOK, Registering, Complete
<1> QED BY <1>1, <1>6, <1>8 DEF t, n, o

(* The three of them.                                                      *)
LEMMA EntriesHaveType ==
  ASSUME TypeOK, srv.pc \in Registering
  PROVE  /\ [FreeEntry EXCEPT !.point = Points[srv.k]] \in EntryType
         /\ [Index.entry[srv.k] EXCEPT !.category = Category[Points[srv.k]]] \in EntryType
         /\ [Index.entry[srv.k] EXCEPT !.slot = [c \in Cats |-> Invalid]] \in EntryType
<1>1. srv.k \in Rows /\ srv.map["point_index"] \in Runs
  BY TableFacts DEF TypeOK, SrvOK, Complete
<1>2. Index \in IndexObject
  BY <1>1, TableFacts DEF Index, TypeOK, MemOK, ObjectOf
<1>3. Index.entry[srv.k] \in EntryType
  BY <1>1, <1>2 DEF IndexObject
<1>4. FreeEntry \in EntryType
  BY DEF FreeEntry, EntryType, Id, Cats
<1>5. Points[srv.k] \in Id /\ Category[Points[srv.k]] \in Cats /\ Invalid \in Nat
  BY <1>1, RowFacts DEF Id, Invalid
<1> QED BY <1>3, <1>4, <1>5 DEF EntryType

(* The last step for a point: the next slot of its table, cleared.         *)
LEMMA AssignEffect ==
  ASSUME TypeOK, Assign
  PROVE  LET c == Category[Points[srv.k]]
             n == srv.map["point_index"]
             slot == Index.used[c] + 1
         IN
         /\ c \in Cats /\ n \in Runs /\ srv.k \in Rows /\ slot \in Nat
         /\ MemOK'
         /\ \A u \in Names, m \in Runs :
              mem'[u][m] =
                IF u = "point_index" /\ m = n
                THEN [mem[u][m] EXCEPT !.entry[srv.k].slot[c] = slot, !.used[c] = slot]
                ELSE IF u = c /\ m = srv.map[c]
                THEN [mem[u][m] EXCEPT !.value[slot] = Zero, !.rows = slot]
                ELSE mem[u][m]
         /\ srv'.map = srv.map /\ srv'.run = srv.run
         /\ srv.k < Len(Points) => srv'.pc = "name" /\ srv'.k = srv.k + 1
         /\ srv.k = Len(Points) => srv'.pc = "run" /\ srv'.k = 1
         /\ SrvOK'
<1> DEFINE c == Category[Points[srv.k]]
           t == "point_index"
           n == srv.map[t]
           slot == Index.used[c] + 1
           o == [mem[t][n] EXCEPT !.entry[srv.k].slot[c] = slot, !.used[c] = slot]
           v == [mem[c][srv.map[c]] EXCEPT !.value[slot] = Zero, !.rows = slot]
           mid == [mem EXCEPT ![t][n] = o]
<1>1. srv.pc = "assign" /\ SrvOK /\ srv.k \in Rows /\ n \in Runs
  BY TableFacts, Zenon DEF Assign, TypeOK, SrvOK, Complete, Registering
<1>2. c \in Cats /\ c \in Names /\ c # t /\ c # "catalog" /\ t \in Names
  BY <1>1, RowFacts, TableFacts
<1>3. srv.map[c] \in Runs
  BY <1>1, <1>2 DEF SrvOK, Complete, Registering
<1>4. mem[t][n] \in IndexObject /\ mem[c][srv.map[c]] \in SlotObject /\ MemOK
  BY <1>1, <1>2, <1>3 DEF TypeOK, MemOK, ObjectOf
<1>5. slot \in Nat
  BY <1>2, <1>4 DEF IndexObject, Index
<1>6. o \in IndexObject
  <2>1. mem[t][n].entry[srv.k] \in EntryType
    BY <1>1, <1>4 DEF IndexObject
  <2>2. [mem[t][n].entry[srv.k] EXCEPT !.slot[c] = slot] \in EntryType
    BY <1>2, <1>5, <2>1, Zenon DEF EntryType
  <2> DEFINE x == [mem[t][n].entry[srv.k] EXCEPT !.slot[c] = slot]
  <2>3. o = [mem[t][n] EXCEPT !.entry = [mem[t][n].entry EXCEPT ![srv.k] = x],
                              !.used = [mem[t][n].used EXCEPT ![c] = slot]]
    OBVIOUS
  <2> HIDE DEF x, slot, o
  <2>4. x \in EntryType
    BY <2>2, Zenon DEF x
  <2> QED BY <1>1, <1>2, <1>4, <1>5, <2>3, <2>4, Zenon DEF IndexObject
<1>7. v \in SlotObject
  BY <1>4, <1>5, Zenon DEF SlotObject, Slot
<1>8. mem' = [mid EXCEPT ![c][srv.map[c]] = v]
  BY Zenon DEF Assign
<1> HIDE DEF c, t, n, slot, o, v
<1>9. /\ mid \in [Names -> [Runs -> CatalogObject \cup IndexObject \cup SlotObject]]
      /\ \A u \in Names, m \in Runs :
           mid[u][m] = IF u = t /\ m = n THEN o ELSE mem[u][m]
  BY <1>1, <1>2, <1>4, <1>6 DEF MemOK
<1> HIDE DEF mid
<1>10. /\ mem' \in [Names -> [Runs -> CatalogObject \cup IndexObject \cup SlotObject]]
       /\ \A u \in Names, m \in Runs :
            mem'[u][m] = IF u = t /\ m = n THEN o
                         ELSE IF u = c /\ m = srv.map[c] THEN v ELSE mem[u][m]
  BY <1>2, <1>3, <1>7, <1>8, <1>9
<1>11. MemOK'
  BY <1>2, <1>4, <1>6, <1>7, <1>10 DEF MemOK, ObjectOf, t
<1>12. srv' = IF srv.k < Len(Points) THEN [srv EXCEPT !.k = @ + 1, !.pc = "name"]
                                     ELSE [srv EXCEPT !.k = 1, !.pc = "run"]
  BY Zenon DEF Assign
<1>13. /\ SrvOK' /\ UNCHANGED <<srv.map, srv.run>>
       /\ srv.k < Len(Points) => srv'.pc = "name" /\ srv'.k = srv.k + 1
       /\ srv.k = Len(Points) => srv'.pc = "run" /\ srv'.k = 1
  <2>1. srv.k \in Nat /\ Len(Points) \in Nat /\ srv.k <= Len(Points)
    BY <1>1, RowFacts DEF Rows
  <2>2. CASE srv.k < Len(Points)
    <3>1. srv' = [srv EXCEPT !.k = srv.k + 1, !.pc = "name"] /\ srv.k + 1 \in Rows
      <4>1. srv' = [srv EXCEPT !.k = srv.k + 1, !.pc = "name"]
        BY <1>12, <2>2
      <4>2. srv.k + 1 \in Rows
        BY <1>1, <2>1, <2>2 DEF Rows
      <4> QED BY <4>1, <4>2
    <3>2. /\ srv'.pc = "name" /\ srv'.k = srv.k + 1
          /\ UNCHANGED <<srv.map, srv.run>>
      BY <1>1, <3>1 DEF SrvOK
    <3>3. srv' \in [pc : {"down", "create", "unlink"} \cup Complete, k : Nat,
                    run : 0 .. MaxRuns, map : [Names -> 0 .. MaxRuns]]
      <4>1. srv' = [pc |-> "name", k |-> srv.k + 1, run |-> srv.run, map |-> srv.map]
        BY <1>1, <3>1, Zenon DEF SrvOK
      <4>2. srv.k + 1 \in Nat
        BY <2>1
      <4> QED BY <1>1, <4>1, <4>2 DEF SrvOK, Complete, Registering
    <3> QED BY <1>1, <2>1, <2>2, <3>1, <3>2, <3>3 DEF SrvOK, Registering, Complete
  <2>3. CASE srv.k = Len(Points)
    <3>1. srv' = [srv EXCEPT !.k = 1, !.pc = "run"]
      BY <1>12, <2>1, <2>3
    <3>2. /\ srv'.pc = "run" /\ srv'.k = 1
          /\ UNCHANGED <<srv.map, srv.run>>
      BY <1>1, <3>1 DEF SrvOK
    <3>3. srv' \in [pc : {"down", "create", "unlink"} \cup Complete, k : Nat,
                    run : 0 .. MaxRuns, map : [Names -> 0 .. MaxRuns]]
      BY <1>1, <3>1, Zenon DEF SrvOK, Complete, Registering
    <3> QED BY <1>1, <2>1, <2>3, <3>2, <3>3 DEF SrvOK, Registering, Complete
  <2> QED BY <2>1, <2>2, <2>3
<1>14. \A u \in Names, m \in Runs :
         mem'[u][m] =
           IF u = t /\ m = n
           THEN [mem[u][m] EXCEPT !.entry[srv.k].slot[c] = slot, !.used[c] = slot]
           ELSE IF u = c /\ m = srv.map[c]
           THEN [mem[u][m] EXCEPT !.value[slot] = Zero, !.rows = slot]
           ELSE mem[u][m]
  BY <1>10, Zenon DEF o, v
<1> QED BY <1>1, <1>2, <1>5, <1>11, <1>13, <1>14, Zenon DEF c, t, n, slot

(* The steps that leave the objects alone.                                 *)
LEMMA OtherServiceSteps ==
  ASSUME TypeOK, Start \/ CreateFails \/ Stop \/ Unlink \/ Crash
  PROVE  SrvOK' /\ link' \in [Names -> 0 .. MaxRuns] /\ UNCHANGED <<mem, cl, history>>
<1>1. SrvOK /\ link \in [Names -> 0 .. MaxRuns] /\ srv.k \in Nat
  BY DEF TypeOK, SrvOK
<1>2. srv = [pc |-> srv.pc, k |-> srv.k, run |-> srv.run, map |-> srv.map]
  BY <1>1 DEF SrvOK
<1>3. NoMap \in [Names -> 0 .. MaxRuns] /\ \A t \in Names : NoMap[t] = 0
  BY RunsAssumption DEF NoMap
<1>4. CASE Start
  <2>1. srv' = [pc |-> "create", k |-> 1, run |-> srv.run + 1, map |-> NoMap]
    BY <1>4 DEF Start
  <2>2. srv.run + 1 \in Runs
    BY <1>1, <1>4, RunsAssumption DEF Start, SrvOK, Runs
  <2> QED BY <1>1, <1>3, <1>4, <2>1, <2>2, TableFacts, RunsAssumption
          DEF Start, SrvOK, memory, history, Runs, Complete, Registering
<1>5. CASE CreateFails \/ Stop
  <2>1. srv' = [pc |-> "unlink", k |-> Len(Tables), run |-> srv.run, map |-> srv.map]
    BY <1>2, <1>5, Zenon DEF CreateFails, Stop
  <2>2. srv.run \in Runs
    BY <1>1, <1>5 DEF CreateFails, Stop, SrvOK
  <2> QED BY <1>1, <1>5, <2>1, <2>2, TableFacts
          DEF CreateFails, Stop, SrvOK, memory, history, Complete, Registering
<1>6. ASSUME \/ Crash
             \/ srv' = [srv EXCEPT !.pc = "down", !.k = 1, !.map = NoMap]
      PROVE  SrvOK'
  <2>1. srv' = [pc |-> "down", k |-> 1, run |-> srv.run, map |-> NoMap]
    BY <1>2, <1>6, Zenon DEF Crash
  <2> QED BY <1>1, <1>3, <2>1 DEF SrvOK, Complete, Registering
<1>7. CASE Unlink
  <2>1. srv.pc = "unlink" /\ srv.k \in 1 .. Len(Tables) /\ srv.run \in Runs
    BY <1>1, <1>7 DEF Unlink, SrvOK
  <2>2. link' \in [Names -> 0 .. MaxRuns]
    <3>1. link' = [link EXCEPT ![Tables[srv.k]] = 0] /\ 0 \in 0 .. MaxRuns
      BY <1>7, RunsAssumption DEF Unlink
    <3> QED BY <1>1, <3>1, Zenon
  <2>3. CASE srv.k > 1
    <3>1. srv' = [pc |-> srv.pc, k |-> srv.k - 1, run |-> srv.run, map |-> srv.map]
      BY <1>2, <1>7, <2>3 DEF Unlink
    <3>2. srv.k - 1 \in 1 .. Len(Tables) /\ srv.k - 1 \in Nat
      BY <2>1, <2>3, TableFacts
    <3>3. SrvOK'
      BY <1>1, <2>1, <3>1, <3>2 DEF SrvOK, Complete, Registering
    <3> QED BY <1>7, <2>2, <3>3 DEF Unlink, history
  <2>4. CASE ~(srv.k > 1)
    <3>1. srv' = [srv EXCEPT !.pc = "down", !.k = 1, !.map = NoMap]
      BY <1>7, <2>4 DEF Unlink
    <3> QED BY <1>6, <1>7, <2>2, <3>1, Zenon DEF Unlink, history
  <2> QED BY <2>3, <2>4
<1>8. CASE Crash
  BY <1>1, <1>6, <1>8 DEF Crash, memory, history
<1> QED BY <1>4, <1>5, <1>7, <1>8

-----------------------------------------------------------------------------
(* The steps of the attached processes                                     *)

(* A write changes one slot of one table the process maps.                 *)
LEMMA WriteEffect ==
  ASSUME TypeOK, NEW c \in Clients,
         WriteAstray(c) \/ \E p \in PointSet : Write(c, p)
  PROVE  /\ MemOK'
         /\ \E t \in Cats, n \in Runs, s \in Nat, x \in Slot :
              \A u \in Names, m \in Runs :
                mem'[u][m] = IF u = t /\ m = n
                             THEN [mem[u][m] EXCEPT !.value[s] = x] ELSE mem[u][m]
<1>1. ASSUME NEW t \in Cats, NEW s \in Nat, NEW x \in Slot, cl[c].pc = "use",
             mem' = [mem EXCEPT ![t][cl[c].map[t]].value[s] = x]
      PROVE  /\ MemOK'
             /\ \E n \in Runs :
                  \A u \in Names, m \in Runs :
                    mem'[u][m] = IF u = t /\ m = n
                                 THEN [mem[u][m] EXCEPT !.value[s] = x] ELSE mem[u][m]
  <2> DEFINE n == cl[c].map[t]
             o == [mem[t][n] EXCEPT !.value[s] = x]
  <2>1. t \in Names /\ t # "catalog" /\ t # "point_index" /\ n \in Runs
    BY <1>1, TableFacts, Zenon DEF TypeOK, ClientsOK, ClientOK
  <2>2. mem[t][n] \in SlotObject /\ MemOK
    BY <2>1 DEF TypeOK, MemOK, ObjectOf
  <2>3. mem' = [mem EXCEPT ![t][n] = o]
    BY <1>1
  <2> HIDE DEF n
  <2>4. o \in ObjectOf(t)
    BY <2>1, <2>2 DEF ObjectOf, SlotObject
  <2> HIDE DEF o
  <2>5. /\ MemOK'
        /\ \A u \in Names, m \in Runs :
             mem'[u][m] = IF u = t /\ m = n THEN o ELSE mem[u][m]
    BY <2>1, <2>2, <2>3, <2>4, OneObject, Zenon
  <2> QED BY <2>1, <2>5 DEF o
<1>2. CASE WriteAstray(c)
  <2>1. PICK t \in Cats, i \in Rows :
          mem' = [mem EXCEPT ![t][cl[c].map[t]].value[i] = Stray]
    BY <1>2, Zenon DEF WriteAstray
  <2>2. cl[c].pc = "use" /\ Stray \in Slot
    BY <1>2, Zenon DEF WriteAstray, Slot
  <2>3. i \in Nat
    BY RowFacts DEF Rows
  <2> DEFINE x == Stray
  <2>4. x \in Slot /\ mem' = [mem EXCEPT ![t][cl[c].map[t]].value[i] = x]
    BY <2>1, <2>2
  <2> HIDE DEF x
  <2>5. /\ MemOK'
        /\ \E n \in Runs :
             \A u \in Names, m \in Runs :
               mem'[u][m] = IF u = t /\ m = n
                            THEN [mem[u][m] EXCEPT !.value[i] = x] ELSE mem[u][m]
    BY <1>1, <2>2, <2>3, <2>4, Zenon
  <2> QED BY <2>3, <2>4, <2>5, ZenonT(60)
<1>3. CASE \E p \in PointSet : Write(c, p)
  <2>1. PICK p \in PointSet : Write(c, p)
    BY <1>3
  <2> DEFINE t == Category[p]
             e(i) == mem["point_index"][cl[c].map["point_index"]].entry[i]
  <2>2. PICK i \in Rows :
          mem' = [mem EXCEPT ![t][cl[c].map[t]].value[e(i).slot[t]] =
                               IF Finished(e(i)) THEN p ELSE Stray]
    BY <2>1, Zenon DEF Write
  <2>3. t \in Cats /\ cl[c].pc = "use"
    BY <2>1, PointsAssumption, Zenon DEF Write
  <2>4. cl[c].map["point_index"] \in Runs
    BY <2>3, TableFacts DEF TypeOK, ClientsOK, ClientOK
  <2>5. mem["point_index"][cl[c].map["point_index"]] \in IndexObject
    BY <2>4, TableFacts DEF TypeOK, MemOK, ObjectOf
  <2>6. e(i) \in EntryType
    BY <2>5 DEF IndexObject
  <2>7. e(i).slot[t] \in Nat
    BY <2>3, <2>6 DEF EntryType
  <2> DEFINE s == e(i).slot[t]
             x == IF Finished(e(i)) THEN p ELSE Stray
  <2>8. x \in Slot /\ mem' = [mem EXCEPT ![t][cl[c].map[t]].value[s] = x]
    BY <2>2, Zenon DEF Slot
  <2> HIDE DEF t, s, x
  <2>9. s \in Nat
    BY <2>7 DEF s
  <2>10. /\ MemOK'
         /\ \E n \in Runs :
              \A u \in Names, m \in Runs :
                mem'[u][m] = IF u = t /\ m = n
                             THEN [mem[u][m] EXCEPT !.value[s] = x] ELSE mem[u][m]
    BY <1>1, <2>3, <2>8, <2>9, Zenon
  <2> QED BY <2>3, <2>8, <2>9, <2>10, ZenonT(60)
<1> QED BY <1>2, <1>3, Zenon

(* Attaching maps one more table, starts again or ends.                    *)
LEMMA OpenEffect ==
  ASSUME TypeOK, NEW c \in Clients, Open(c)
  PROVE  LET t == Tables[cl[c].k] IN
         /\ cl[c].pc = "attach" /\ cl[c].k \in 1 .. Len(Tables)
         /\ t \in Names /\ link[t] \in Runs /\ mem[t][link[t]].init # 0
         /\ Listed(c, t)
         /\ \A d \in Clients : d # c => cl'[d] = cl[d]
         /\ cl'[c].pc = "attach" /\ cl'[c].k = cl[c].k + 1
         /\ cl'[c].map = [cl[c].map EXCEPT ![t] = link[t]]
         /\ ClientsOK'
<1> DEFINE t == Tables[cl[c].k]
<1>1. ClientsOK /\ ClientOK(c)
  BY DEF TypeOK, ClientsOK
<1>2. cl[c].pc = "attach" /\ cl[c].k \in 1 .. Len(Tables)
  BY <1>1, TableFacts DEF Open, ClientOK
<1>3. t \in Names /\ link[t] \in Runs /\ mem[t][link[t]].init # 0
  BY <1>2, TableFacts DEF Open, Openable, TypeOK, Runs
<1>4. cl' = [cl EXCEPT ![c] = [cl[c] EXCEPT !.map = [cl[c].map EXCEPT ![t] = link[t]],
                                            !.k = cl[c].k + 1]]
  BY Zenon DEF Open
<1>5. Listed(c, Tables[cl[c].k])
  BY DEF Open
<1> HIDE DEF t
<1>6. cl'[c] = [pc |-> "attach", k |-> cl[c].k + 1,
                map |-> [cl[c].map EXCEPT ![t] = link[t]], skew |-> cl[c].skew]
  <2>1. cl'[c] = [cl[c] EXCEPT !.map = [cl[c].map EXCEPT ![t] = link[t]],
                               !.k = cl[c].k + 1]
    BY <1>1, <1>4 DEF ClientsOK
  <2>2. cl[c] \in [pc : {"attach", "use", "value", "insert"}, k : Nat,
                   map : [Names -> 0 .. MaxRuns], skew : BOOLEAN]
    BY <1>1 DEF ClientsOK
  <2> QED BY <1>2, <2>1, <2>2, Zenon
<1>7. \A d \in Clients : d # c => cl'[d] = cl[d]
  BY <1>1, <1>4 DEF ClientsOK
<1>8. \A j \in 1 .. Len(Tables) :
        cl'[c].map[Tables[j]] = IF j = cl[c].k THEN link[t] ELSE cl[c].map[Tables[j]]
  <2>1. cl[c].map \in [Names -> 0 .. MaxRuns]
    BY <1>1 DEF ClientsOK
  <2>2. cl'[c].map = [cl[c].map EXCEPT ![t] = link[t]]
    BY <1>6
  <2> QED BY <1>2, <2>1, <2>2, TablesAssumption, TableFacts, Zenon DEF t
<1>9. ClientOK(c)'
  <2>1. cl'[c].pc = "attach" /\ cl'[c].k = cl[c].k + 1
    BY <1>6
  <2>2. cl'[c].k \in 1 .. (Len(Tables) + 1)
    BY <1>2, <2>1, TableFacts
  <2>3. \A j \in 1 .. Len(Tables) : j < cl'[c].k => cl'[c].map[Tables[j]] \in Runs
    <3>1. \A j \in 1 .. Len(Tables) : j < cl[c].k => cl[c].map[Tables[j]] \in Runs
      BY <1>1, <1>2 DEF ClientOK
    <3>2. TAKE j \in 1 .. Len(Tables)
    <3>3. j < cl'[c].k => j = cl[c].k \/ j < cl[c].k
      BY <1>2, <2>1, TableFacts
    <3> QED BY <1>3, <1>8, <3>1, <3>3
  <2> QED BY <2>1, <2>2, <2>3 DEF ClientOK
<1>10. cl'[c] \in [pc : {"attach", "use", "value", "insert"}, k : Nat,
                   map : [Names -> 0 .. MaxRuns], skew : BOOLEAN]
  <2>1. [cl[c].map EXCEPT ![t] = link[t]] \in [Names -> 0 .. MaxRuns]
    BY <1>1, <1>3 DEF ClientsOK, Runs
  <2>2. cl[c].k + 1 \in Nat /\ cl[c].skew \in BOOLEAN
    BY <1>1, <1>2, TableFacts DEF ClientsOK
  <2> QED BY <1>6, <2>1, <2>2
<1>11. ClientsOK'
  <2>1. \A d \in Clients : ClientOK(d)'
    BY <1>1, <1>7, <1>9, Zenon DEF ClientsOK, ClientOK
  <2>2. cl' \in [Clients -> [pc : {"attach", "use", "value", "insert"}, k : Nat,
                             map : [Names -> 0 .. MaxRuns], skew : BOOLEAN]]
    BY <1>1, <1>4, <1>7, <1>10 DEF ClientsOK
  <2>3. overlap' = overlap
    BY DEF Open
  <2> QED BY <1>1, <2>1, <2>2, <2>3 DEF ClientsOK
<1> QED BY <1>2, <1>3, <1>5, <1>6, <1>7, <1>11 DEF t

LEMMA WaitingType ==
  /\ Waiting \in [pc : {"attach", "use", "value", "insert"}, k : Nat,
                  map : [Names -> 0 .. MaxRuns], skew : BOOLEAN]
  /\ Waiting.pc = "attach" /\ Waiting.k = 1
BY RunsAssumption DEF Waiting, NoMap

(* The process starts anew; the others are as they were.                   *)
LEMMA StartAgain ==
  ASSUME ClientsOK, NEW c \in Clients, cl' = [cl EXCEPT ![c] = Waiting],
         overlap' \in [Clients -> BOOLEAN]
  PROVE  ClientsOK' /\ cl'[c] = Waiting /\ \A d \in Clients : d # c => cl'[d] = cl[d]
<1>1. cl'[c] = Waiting /\ \A d \in Clients : d # c => cl'[d] = cl[d]
  BY DEF ClientsOK
<1>2. cl' \in [Clients -> [pc : {"attach", "use", "value", "insert"}, k : Nat,
                           map : [Names -> 0 .. MaxRuns], skew : BOOLEAN]]
  BY WaitingType DEF ClientsOK
<1>3. ClientOK(c)'
  BY <1>1, WaitingType, TableFacts DEF ClientOK
<1> QED BY <1>1, <1>2, <1>3 DEF ClientsOK, ClientOK

LEMMA AttachedEffect ==
  ASSUME TypeOK, NEW c \in Clients, Attached(c)
  PROVE  /\ ClientsOK'
         /\ \A d \in Clients : d # c => cl'[d] = cl[d]
         /\ cl'[c].pc = "use" /\ cl'[c].map = cl[c].map
         /\ cl'[c].skew = \E t \in Names \ {"catalog"} :
                             mem[t][cl[c].map[t]].init = 0
         /\ \A t \in Names : cl[c].map[t] \in Runs
<1> DEFINE b == \E t \in Names \ {"catalog"} : mem[t][cl[c].map[t]].init = 0
<1>1. ClientsOK /\ ClientOK(c) /\ b \in BOOLEAN
  BY DEF TypeOK, ClientsOK
<1>2. cl' = [cl EXCEPT ![c] = [cl[c] EXCEPT !.pc = "use", !.k = 1, !.skew = b]]
  BY Zenon DEF Attached
<1> HIDE DEF b
<1>3. cl'[c] = [pc |-> "use", k |-> 1, map |-> cl[c].map, skew |-> b]
  BY <1>1, <1>2, Zenon DEF ClientsOK
<1>4. \A d \in Clients : d # c => cl'[d] = cl[d]
  BY <1>1, <1>2 DEF ClientsOK
<1>5. \A t \in Names : cl[c].map[t] \in Runs
  BY <1>1, TableFacts DEF Attached, Attaching, ClientOK
<1>6. ClientOK(c)'
  BY <1>3, <1>5 DEF ClientOK
<1>7. cl'[c] \in [pc : {"attach", "use", "value", "insert"}, k : Nat,
                  map : [Names -> 0 .. MaxRuns], skew : BOOLEAN]
  BY <1>1, <1>3 DEF ClientsOK
<1>8. ClientsOK'
  BY <1>1, <1>2, <1>4, <1>6, <1>7, Zenon DEF ClientsOK, ClientOK, Attached
<1> QED BY <1>3, <1>4, <1>5, <1>8 DEF b

LEMMA AttachKeepsTypes ==
  ASSUME TypeOK, NEW c \in Clients, Attach(c)
  PROVE  /\ ClientsOK'
         /\ cl'[History] = cl[History] \/ cl'[History].pc # "value"
<1>1. ClientsOK
  BY DEF TypeOK
<1>2. CASE Open(c)
  BY <1>2, OpenEffect, HistoryAssumption, Zenon
<1>3. CASE OpenFails(c)
  <2>1. overlap' \in [Clients -> BOOLEAN] /\ cl' = [cl EXCEPT ![c] = Waiting]
    BY <1>1, <1>3 DEF OpenFails, ClientsOK
  <2> QED BY <1>1, <2>1, StartAgain, WaitingType, HistoryAssumption, Zenon
<1>4. CASE Attached(c)
  BY <1>4, AttachedEffect, HistoryAssumption, Zenon
<1> QED BY <1>2, <1>3, <1>4 DEF Attach

-----------------------------------------------------------------------------
(* The steps of the history service                                        *)

HistoryAt(pc) ==
  /\ ClientsOK'
  /\ cl'[History].pc = pc
  /\ UNCHANGED <<cl[History].map, cl[History].skew, cl[History].k>>
  /\ \A d \in Clients : d # History => cl'[d] = cl[d]

LEMMA HistoryGoes ==
  ASSUME TypeOK, h.pc # "attach", NEW pc \in {"use", "value", "insert"},
         HistoryGoesTo(pc), UNCHANGED overlap
  PROVE  HistoryAt(pc)
<1>1. ClientsOK /\ ClientOK(History)
  BY HistoryAssumption DEF TypeOK, ClientsOK
<1>2. cl' = [cl EXCEPT ![History] = [cl[History] EXCEPT !.pc = pc]]
  BY DEF HistoryGoesTo
<1>3. /\ cl[History] \in [pc : {"attach", "use", "value", "insert"}, k : Nat,
                          map : [Names -> 0 .. MaxRuns], skew : BOOLEAN]
      /\ cl'[History] = [cl[History] EXCEPT !.pc = pc]
  BY <1>1, <1>2, HistoryAssumption DEF ClientsOK
<1>4. /\ cl'[History].pc = pc
      /\ UNCHANGED <<cl[History].map, cl[History].skew, cl[History].k>>
      /\ cl'[History] \in [pc : {"attach", "use", "value", "insert"}, k : Nat,
                           map : [Names -> 0 .. MaxRuns], skew : BOOLEAN]
  BY <1>3
<1>5. \A d \in Clients : d # History => cl'[d] = cl[d]
  BY <1>1, <1>2 DEF ClientsOK
<1>6. \A d \in Clients : ClientOK(d)'
  BY <1>1, <1>4, <1>5, Zenon DEF ClientsOK, ClientOK, h
<1>7. cl' \in [Clients -> [pc : {"attach", "use", "value", "insert"}, k : Nat,
                           map : [Names -> 0 .. MaxRuns], skew : BOOLEAN]]
  BY <1>1, <1>2, <1>4, Zenon DEF ClientsOK
<1> QED BY <1>1, <1>4, <1>5, <1>6, <1>7 DEF HistoryAt, ClientsOK

LEMMA NoSnapshotType ==
  /\ NoSnapshot \in Snapshot
  /\ NoSnapshot.ids = <<>> /\ NoSnapshot.cats = <<>>
BY DEF NoSnapshot, Snapshot

(* The entry the history service reads, while there is one.                *)
LEMMA EntryHasType ==
  ASSUME TypeOK, h.pc \in {"use", "value"}, snap.row \in Rows
  PROVE  /\ h.map["point_index"] \in Runs /\ Entry \in EntryType
         /\ \A c \in Cats : Entry.slot[c] \in 1 .. Invalid
<1>1. h.map["point_index"] \in Runs
  BY HistoryAssumption, TableFacts DEF TypeOK, ClientsOK, ClientOK, h
<1>2. mem["point_index"][h.map["point_index"]] \in IndexObject
  BY <1>1, TableFacts DEF TypeOK, MemOK, ObjectOf
<1> QED BY <1>1, <1>2, Zenon DEF Entry, IndexObject, TypeOK, IndexOK

(* Sets of positions, and a row's position among those of its category.    *)
LEMMA SubRange ==
  ASSUME NEW i \in Nat, NEW S \in SUBSET (1 .. i)
  PROVE  /\ IsFiniteSet(S) /\ Cardinality(S) \in 0 .. i
         /\ i \in S => Cardinality(S) >= 1
<1>1. IsFiniteSet(1 .. i) /\ Cardinality(1 .. i) = i
  BY FS_Interval
<1>2. IsFiniteSet(S) /\ Cardinality(S) <= i
  BY <1>1, FS_Subset, Zenon
<1>3. Cardinality(S) \in Nat /\ (Cardinality(S) = 0 <=> S = {})
  BY <1>2, FS_CardinalityType, FS_EmptySet, Zenon
<1> QED BY <1>2, <1>3

LEMMA PositionBounds ==
  ASSUME NEW i \in Nat \ {0}
  PROVE  Position(i) \in 1 .. i
<1> DEFINE S == {j \in 1 .. i : snap.cats[j] = snap.cats[i]}
<1>1. S \in SUBSET (1 .. i) /\ i \in S
  OBVIOUS
<1>2. Cardinality(S) \in 1 .. i
  BY <1>1, SubRange
<1> QED BY <1>2 DEF Position

LEMMA SnapshotMovesOn ==
  ASSUME snap \in Snapshot, NEW r \in Nat \ {0}, snap' = [snap EXCEPT !.row = r]
  PROVE  /\ snap' \in Snapshot /\ snap'.row = r
         /\ UNCHANGED <<snap.ids, snap.cats, snap.values, snap.half>>
BY Zenon DEF Snapshot

LEMMA SampleKept ==
  ASSUME NEW pc, HistoryAt(pc), snap' \in Snapshot, Len(snap'.ids) = Len(snap'.cats),
         pc = "value" => snap'.row \in Rows, tx' \subseteq [point : Id, value : Slot]
  PROVE  ClientsOK' /\ SampleOK'
<1>1. ClientsOK' /\ cl'[History].pc = pc
  BY DEF HistoryAt
<1> QED BY <1>1 DEF SampleOK, h

LEMMA SampleKeepsTypes ==
  ASSUME TypeOK, Sample \/ StatementFails
  PROVE  ClientsOK' /\ SampleOK' /\ UNCHANGED <<memory, srv, overlap>>
<1>1. /\ ClientsOK /\ MemOK /\ snap \in Snapshot /\ Len(snap.ids) = Len(snap.cats)
      /\ tx \subseteq [point : Id, value : Slot]
      /\ h.pc = "value" => snap.row \in Rows
  BY DEF TypeOK, SampleOK
<1>2. UNCHANGED <<memory, srv, overlap>>
  BY DEF Sample, SnapshotName, SnapshotValue, SnapshotAstray, Insert, Commit, StatementFails
<1> SUFFICES ClientsOK' /\ SampleOK'
  BY <1>2
<1>3. ASSUME cl' = [cl EXCEPT ![History] = Waiting], snap' = NoSnapshot,
             tx' \in {tx, {}}
      PROVE  ClientsOK' /\ SampleOK'
  <2>1. ClientsOK' /\ cl'[History].pc = "attach"
    BY <1>1, <1>2, <1>3, StartAgain, WaitingType, HistoryAssumption, Zenon DEF ClientsOK
  <2> QED BY <1>1, <1>3, <2>1, NoSnapshotType DEF SampleOK, h
<1>4. CASE SnapshotName
  <2>1. h.pc = "use" /\ UNCHANGED tx
    BY <1>4 DEF SnapshotName
  <2>2. CASE snap.row > Len(Points)
    <3>1. HistoryGoesTo("insert") /\ snap' = [snap EXCEPT !.row = 1]
      BY <1>4, <2>2 DEF SnapshotName
    <3>2. HistoryAt("insert")
      BY <1>2, <2>1, <3>1, HistoryGoes
    <3>3. snap' \in Snapshot /\ UNCHANGED <<snap.ids, snap.cats>>
      BY <1>1, <3>1, SnapshotMovesOn
    <3> QED BY <1>1, <2>1, <3>2, <3>3, SampleKept
  <2>3. CASE snap.row <= Len(Points)
    <3>1. snap.row \in Rows
      BY <1>1, <2>3, RowFacts DEF Rows, Snapshot
    <3>2. Entry \in EntryType
      BY <2>1, <3>1, EntryHasType
    <3>3. CASE Entry.point = None
      <4>1. UNCHANGED cl /\ snap' = [snap EXCEPT !.row = snap.row + 1]
        BY <1>1, <1>4, <2>3, <3>3, RowFacts DEF SnapshotName, Snapshot
      <4>2. snap' \in Snapshot /\ UNCHANGED <<snap.ids, snap.cats>>
        <5>1. snap.row + 1 \in Nat \ {0}
          BY <1>1 DEF Snapshot
        <5> QED BY <1>1, <4>1, <5>1, SnapshotMovesOn
      <4>3. ClientsOK'
        BY <1>1, <1>2, <4>1 DEF ClientsOK, ClientOK
      <4> QED BY <1>1, <2>1, <4>1, <4>2, <4>3 DEF SampleOK, h
    <3>4. CASE Entry.point # None
      <4>1. /\ HistoryGoesTo("value")
            /\ snap' = [snap EXCEPT !.ids = Append(snap.ids, Entry.point),
                                    !.cats = Append(snap.cats, Entry.category),
                                    !.half = snap.half \/ ~Finished(Entry)]
        BY <1>1, <1>4, <2>3, <3>4, RowFacts DEF SnapshotName, Snapshot
      <4>2. HistoryAt("value")
        BY <1>2, <2>1, <4>1, HistoryGoes
      <4>3. /\ Append(snap.ids, Entry.point) \in Seq(Id)
            /\ Append(snap.cats, Entry.category) \in Seq(Cats)
            /\ Len(Append(snap.ids, Entry.point)) = Len(snap.ids) + 1
            /\ Len(Append(snap.cats, Entry.category)) = Len(snap.cats) + 1
        BY <1>1, <3>2 DEF EntryType, Snapshot
      <4>4. /\ snap'.ids = Append(snap.ids, Entry.point)
            /\ snap'.cats = Append(snap.cats, Entry.category)
            /\ snap'.row = snap.row
            /\ snap' \in Snapshot
        BY <1>1, <4>1, <4>3, Zenon DEF Snapshot
      <4> QED BY <1>1, <2>1, <3>1, <4>2, <4>3, <4>4, SampleKept
    <3> QED BY <3>3, <3>4
  <2> QED BY <1>1, <2>2, <2>3, RowFacts DEF Snapshot
<1>5. CASE SnapshotValue
  <2> DEFINE c == Entry.category
             slot == Entry.slot[c]
             x == mem[c][h.map[c]].value[slot]
  <2>1. h.pc = "value" /\ UNCHANGED tx /\ snap.row \in Rows
    BY <1>1, <1>5 DEF SnapshotValue
  <2>2. CASE slot = Invalid
    BY <1>3, <1>5, <2>1, <2>2 DEF SnapshotValue
  <2>3. CASE slot # Invalid
    <3>1. /\ Entry \in EntryType /\ h.map["point_index"] \in Runs
          /\ \A d \in Cats : Entry.slot[d] \in 1 .. Invalid
      BY <2>1, EntryHasType
    <3>2. c \in Cats /\ slot \in Nat
      BY <3>1 DEF EntryType
    <3>3. h.map[c] \in Runs /\ c \in Names /\ c # "catalog" /\ c # "point_index"
      BY <1>1, <2>1, <3>2, HistoryAssumption, TableFacts, Zenon DEF ClientsOK, ClientOK, h
    <3>4. mem[c][h.map[c]] \in SlotObject
      BY <1>1, <3>3 DEF MemOK, ObjectOf
    <3>5. slot \in Rows
      <4>1. slot \in 1 .. Invalid
        BY <3>1, <3>2
      <4> QED BY <2>3, <3>2, <4>1, RowFacts DEF Rows, Invalid
    <3>6. x \in Slot
      BY <3>4, <3>5 DEF SlotObject
    <3>7. /\ HistoryGoesTo("use")
          /\ snap' = [snap EXCEPT !.values[c] = Append(snap.values[c], x),
                                  !.half = snap.half \/ ~Finished(Entry),
                                  !.row = snap.row + 1]
      BY <1>5, <2>3, Zenon DEF SnapshotValue
    <3> HIDE DEF c, x
    <3>8. HistoryAt("use")
      BY <1>2, <2>1, <3>7, HistoryGoes
    <3>9. Append(snap.values[c], x) \in Seq(Slot)
      BY <1>1, <3>2, <3>6 DEF Snapshot
    <3> DEFINE f == [snap.values EXCEPT ![c] = Append(snap.values[c], x)]
    <3>10. f \in [Cats -> Seq(Slot)] /\ snap.row + 1 \in Nat \ {0}
      BY <1>1, <3>2, <3>9 DEF Snapshot
    <3>11. snap' = [snap EXCEPT !.values = f, !.half = snap.half \/ ~Finished(Entry),
                                !.row = snap.row + 1]
      BY <3>7
    <3> HIDE DEF f
    <3>12. snap' \in Snapshot /\ snap'.ids = snap.ids /\ snap'.cats = snap.cats
      BY <1>1, <3>10, <3>11, Zenon DEF Snapshot
    <3> QED BY <1>1, <2>1, <3>8, <3>12, SampleKept
  <2> QED BY <2>2, <2>3
<1>6. CASE SnapshotAstray
  <2>1. /\ h.pc = "use" /\ UNCHANGED tx /\ HistoryGoesTo("insert")
        /\ snap' = [NoSnapshot EXCEPT !.ids = <<None>>, !.cats = <<"telemetry">>,
                                      !.values["telemetry"] = <<Stray>>, !.half = TRUE]
    BY <1>6 DEF SnapshotAstray
  <2>2. HistoryAt("insert")
    BY <1>2, <2>1, HistoryGoes
  <2>3. None \in Id /\ "telemetry" \in Cats /\ Stray \in Slot
    BY DEF Id, Cats, Slot
  <2>4. snap' \in Snapshot /\ snap'.ids = <<None>> /\ snap'.cats = <<"telemetry">>
    <3> DEFINE f == [NoSnapshot.values EXCEPT !["telemetry"] = <<Stray>>]
               x == Stray
    <3>1. f \in [Cats -> Seq(Slot)]
      <4>1. NoSnapshot.values \in [Cats -> Seq(Slot)] /\ x \in Slot
        BY <2>3, NoSnapshotType DEF Snapshot
      <4> HIDE DEF x
      <4>2. <<x>> \in Seq(Slot)
        BY <4>1
      <4> QED BY <2>3, <4>1, <4>2 DEF x
    <3>2. snap' = [NoSnapshot EXCEPT !.ids = <<None>>, !.cats = <<"telemetry">>,
                                     !.values = f, !.half = TRUE]
      BY <2>1
    <3> HIDE DEF f
    <3>3. <<None>> \in Seq(Id) /\ <<"telemetry">> \in Seq(Cats)
      BY <2>3
    <3> QED BY <3>1, <3>2, <3>3, NoSnapshotType, Zenon DEF Snapshot
  <2> QED BY <1>1, <2>1, <2>2, <2>4, SampleKept
<1>7. CASE Insert
  <2> DEFINE i == snap.row
             x == ValuesOf(snap.cats[i])[Position(i)]
  <2>1. /\ h.pc = "insert" /\ UNCHANGED cl /\ i \in 1 .. Len(snap.ids)
        /\ snap' = [snap EXCEPT !.row = snap.row + 1]
    BY <1>1, <1>7 DEF Insert, Snapshot
  <2>2. snap' \in Snapshot /\ UNCHANGED <<snap.ids, snap.cats>>
    <3>1. snap.row + 1 \in Nat \ {0}
      BY <1>1 DEF Snapshot
    <3> QED BY <1>1, <2>1, <3>1, SnapshotMovesOn
  <2>3. tx' = IF Position(i) > Len(ValuesOf(snap.cats[i])) THEN tx
              ELSE tx \cup {[point |-> snap.ids[i], value |-> x]}
    BY <1>7 DEF Insert
  <2>4. Position(i) \in 1 .. i
    BY <1>1, <2>1, PositionBounds DEF Snapshot
  <2>5. ValuesOf(snap.cats[i]) \in Seq(Slot) /\ snap.ids[i] \in Id
    BY <1>1, <2>1 DEF ValuesOf, Snapshot
  <2>6. Position(i) <= Len(ValuesOf(snap.cats[i])) => x \in Slot
    BY <2>1, <2>4, <2>5
  <2>7. tx' \subseteq [point : Id, value : Slot]
    BY <1>1, <2>1, <2>3, <2>4, <2>5, <2>6
  <2>8. ClientsOK'
    BY <1>1, <1>2, <2>1 DEF ClientsOK, ClientOK
  <2> QED BY <1>1, <2>1, <2>2, <2>7, <2>8 DEF SampleOK, h
<1>8. CASE Commit
  <2>1. h.pc = "insert" /\ tx' = {} /\ snap' = NoSnapshot /\ HistoryGoesTo("use")
    BY <1>8 DEF Commit
  <2>2. HistoryAt("use")
    BY <1>2, <2>1, HistoryGoes
  <2> QED BY <2>1, <2>2, NoSnapshotType, SampleKept
<1>9. CASE StatementFails
  BY <1>3, <1>9 DEF StatementFails
<1> QED BY <1>2, <1>4, <1>5, <1>6, <1>7, <1>8, <1>9 DEF Sample

-----------------------------------------------------------------------------
(* Slots                                                                   *)

LEMMA CountFacts ==
  ASSUME NEW k \in Rows, NEW c \in Cats
  PROVE  /\ CountTo(k - 1, c) \in 0 .. (k - 1)
         /\ CountTo(k, c) \in 0 .. k
         /\ CountTo(k, c) = CountTo(k - 1, c)
                              + IF Category[Points[k]] = c THEN 1 ELSE 0
         /\ CountTo(0, c) = 0
<1> DEFINE S(m) == {j \in 1 .. m : Category[Points[j]] = c}
<1>1. k \in Nat /\ k - 1 \in Nat /\ ~(k \in 1 .. (k - 1))
  BY RowFacts DEF Rows
<1>2. /\ IsFiniteSet(S(k - 1)) /\ Cardinality(S(k - 1)) \in 0 .. (k - 1)
      /\ Cardinality(S(k)) \in 0 .. k
  BY <1>1, SubRange
<1>3. S(k) = IF Category[Points[k]] = c THEN S(k - 1) \cup {k} ELSE S(k - 1)
  BY <1>1
<1>4. k \notin S(k - 1)
  BY <1>1
<1>5. Cardinality(S(k - 1) \cup {k}) = Cardinality(S(k - 1)) + 1
  BY <1>2, <1>4, FS_AddElement
<1>6. Cardinality(S(k)) = Cardinality(S(k - 1))
                            + IF Category[Points[k]] = c THEN 1 ELSE 0
  <2>1. CASE Category[Points[k]] = c
    BY <1>3, <1>5, <2>1, Zenon
  <2>2. CASE Category[Points[k]] # c
    <3>1. S(k) = S(k - 1)
      BY <1>3, <2>2
    <3> HIDE DEF S
    <3> QED BY <1>2, <2>2, <3>1
  <2> QED BY <2>1, <2>2
<1>7. Cardinality(S(0)) = 0
  BY FS_EmptySet
<1> QED BY <1>2, <1>6, <1>7 DEF CountTo

(* No point is registered yet.                                             *)
LEMMA NoneCounted ==
  ASSUME NEW c \in Cats
  PROVE  CountTo(0, c) = 0
<1>1. {j \in 1 .. 0 : Category[Points[j]] = c} = {}
  OBVIOUS
<1> QED BY <1>1, FS_EmptySet DEF CountTo

LEMMA ZeroedIndex ==
  /\ Zeroed("point_index").entry = [i \in Rows |-> FreeEntry]
  /\ Zeroed("point_index").used = [c \in Cats |-> 0]
  /\ \A c \in Cats : FreeEntry.slot[c] \in 1 .. Invalid
BY RowFacts DEF Zeroed, FreeEntry, Invalid

LEMMA CreateKeepsIndex ==
  ASSUME TypeOK, Create
  PROVE  IndexOK'
<1> DEFINE t == Tables[srv.k]
<1>1. /\ t \in Names /\ Taken(t) \in Runs
      /\ \A u \in Names, m \in Runs :
           mem'[u][m] = IF u = t /\ m = Taken(t) THEN Zeroed(t) ELSE mem[u][m]
      /\ srv'.map = [srv.map EXCEPT ![t] = Taken(t)]
      /\ srv'.pc \in {"create", "header"}
  <2>1. srv.k \in Nat /\ srv.k <= Len(Tables) /\ Len(Tables) \in Nat
    BY TableFacts DEF Create, TypeOK, SrvOK
  <2>2. /\ srv.k < Len(Tables) => srv'.pc = "create"
        /\ srv.k = Len(Tables) => srv'.pc = "header"
    BY CreateEffect
  <2>3. srv'.pc \in {"create", "header"}
    BY <2>1, <2>2
  <2> QED BY <2>3, CreateEffect
<1> HIDE DEF t
<1>2. /\ srv.pc = "create" /\ srv.map \in [Names -> 0 .. MaxRuns]
      /\ "point_index" \in Names
  BY TableFacts DEF Create, TypeOK, SrvOK
<1>3. ASSUME NEW n \in Runs, NEW i \in Rows, NEW c \in Cats
      PROVE  mem'["point_index"][n].entry[i].slot[c] \in 1 .. Invalid
  BY <1>1, <1>2, ZeroedIndex DEF TypeOK, IndexOK
<1>4. ASSUME srv'.map["point_index"] # 0, NEW c \in Cats
      PROVE  mem'["point_index"][srv'.map["point_index"]].used[c] = 0
  <2>1. CASE t = "point_index"
    BY <1>1, <1>2, <2>1, ZeroedIndex
  <2>2. CASE t # "point_index"
    <3>1. srv'.map["point_index"] = srv.map["point_index"]
      BY <1>1, <1>2, <2>2
    <3>2. srv.map["point_index"] \in Runs
      BY <1>2, <1>4, <3>1 DEF Runs
    <3> QED BY <1>1, <1>2, <1>4, <2>2, <3>1, <3>2 DEF TypeOK, IndexOK, Index
  <2> QED BY <2>1, <2>2
<1> QED BY <1>1, <1>3, <1>4 DEF IndexOK, Index, Registering

(* A step after which the index is what it was, at the same place.         *)
LEMMA IndexKept ==
  ASSUME IndexOK,
         \A n \in Runs : /\ mem'["point_index"][n].entry = mem["point_index"][n].entry
                         /\ mem'["point_index"][n].used = mem["point_index"][n].used,
         srv.map["point_index"] \in 0 .. MaxRuns, UNCHANGED srv.map,
         \/ UNCHANGED <<srv.pc, srv.k>>
         \/ {srv.pc, srv'.pc} \subseteq {"header", "list"}
         \/ /\ srv.pc = "list" /\ srv'.pc = "name" /\ srv'.k = 1
            /\ srv.map["point_index"] # 0
         \/ srv'.pc = "run",
         srv.pc \in Registering => srv.map["point_index"] # 0
  PROVE  IndexOK'
<1>1. \A n \in Runs, i \in Rows, c \in Cats :
        mem'["point_index"][n].entry[i].slot[c] \in 1 .. Invalid
  BY DEF IndexOK
<1>2. srv.map["point_index"] # 0 => Index'.used = Index.used
  BY DEF Index, Runs
<1>3. ASSUME srv.pc = "list", srv'.k = 1, srv.map["point_index"] # 0, NEW c \in Cats
      PROVE  Index'.used[c] = CountTo(srv'.k - 1, c)
  <2>1. Index.used[c] = 0 /\ srv'.k - 1 = 0
    BY <1>3 DEF IndexOK
  <2> QED BY <1>2, <1>3, <2>1, NoneCounted
<1> QED BY <1>1, <1>2, <1>3 DEF IndexOK, Registering

LEMMA SetEntryKeepsIndex ==
  ASSUME TypeOK, NEW pc \in Registering, NEW next \in Registering,
         NEW e \in EntryType, SetEntry(pc, next, e),
         \A c \in Cats : e.slot[c] \in 1 .. Invalid
  PROVE  IndexOK'
<1> DEFINE n == srv.map["point_index"]
<1>1. /\ n \in Runs /\ srv.k \in Rows
      /\ \A u \in Names, m \in Runs :
           mem'[u][m] = IF u = "point_index" /\ m = n
                        THEN [mem[u][m] EXCEPT !.entry[srv.k] = e] ELSE mem[u][m]
      /\ srv'.map = srv.map /\ srv'.k = srv.k /\ srv'.pc = next
  BY SetEntryEffect
<1>2. srv.pc = pc /\ MemOK /\ IndexOK /\ "point_index" \in Names
  BY TableFacts DEF SetEntry, TypeOK
<1> HIDE DEF n
<1>3. \A m \in Runs : mem["point_index"][m] \in IndexObject
  BY <1>2 DEF MemOK, ObjectOf
<1>4. \A m \in Runs, i \in Rows :
        mem'["point_index"][m].entry[i] =
          IF m = n /\ i = srv.k THEN e ELSE mem["point_index"][m].entry[i]
  <2>1. TAKE m \in Runs
  <2>2. CASE m = n
    <3>1. mem'["point_index"][n] = [mem["point_index"][n] EXCEPT !.entry[srv.k] = e]
      BY <1>1, <1>2
    <3> QED BY <1>1, <1>3, <2>2, <3>1 DEF IndexObject
  <2>3. CASE m # n
    BY <1>1, <1>2, <2>3, Zenon
  <2> QED BY <2>2, <2>3
<1>5. \A m \in Runs : mem'["point_index"][m].used = mem["point_index"][m].used
  <2>1. TAKE m \in Runs
  <2>2. CASE m = n
    <3>1. mem'["point_index"][n] = [mem["point_index"][n] EXCEPT !.entry[srv.k] = e]
      BY <1>1, <1>2
    <3> QED BY <1>1, <1>3, <2>2, <3>1 DEF IndexObject
  <2>3. CASE m # n
    <3>1. mem'["point_index"][m] = mem["point_index"][m]
      BY <1>1, <1>2, <2>3, Zenon
    <3> QED BY <3>1
  <2> QED BY <2>2, <2>3
<1>6. \A m \in Runs, i \in Rows, c \in Cats :
        mem'["point_index"][m].entry[i].slot[c] \in 1 .. Invalid
  BY <1>2, <1>4 DEF IndexOK
<1>7. \A c \in Cats : Index'.used[c] = CountTo(srv'.k - 1, c)
  BY <1>1, <1>2, <1>5 DEF IndexOK, Index, n
<1> QED BY <1>1, <1>6, <1>7 DEF IndexOK, Registering

LEMMA AssignKeepsIndex ==
  ASSUME TypeOK, Assign
  PROVE  IndexOK'
<1> DEFINE c == Category[Points[srv.k]]
           n == srv.map["point_index"]
           slot == Index.used[c] + 1
<1>1. /\ c \in Cats /\ n \in Runs /\ srv.k \in Rows /\ slot \in Nat
      /\ srv'.map = srv.map
  BY AssignEffect, Zenon
<1>2. \A u \in Names, m \in Runs :
        mem'[u][m] =
          IF u = "point_index" /\ m = n
          THEN [mem[u][m] EXCEPT !.entry[srv.k].slot[c] = slot, !.used[c] = slot]
          ELSE IF u = c /\ m = srv.map[c]
          THEN [mem[u][m] EXCEPT !.value[slot] = Zero, !.rows = slot]
          ELSE mem[u][m]
  BY AssignEffect, Zenon
<1>3. /\ srv.k < Len(Points) => srv'.pc = "name" /\ srv'.k = srv.k + 1
      /\ srv.k = Len(Points) => srv'.pc = "run" /\ srv'.k = 1
  BY AssignEffect, Zenon
<1>4. /\ srv.pc = "assign" /\ MemOK /\ IndexOK
      /\ "point_index" \in Names /\ c # "point_index"
  BY <1>1, TableFacts, Zenon DEF Assign, TypeOK
<1>5. \A m \in Runs : mem["point_index"][m] \in IndexObject
  BY <1>4 DEF MemOK, ObjectOf
<1>6. srv.k \in Nat /\ 1 <= srv.k /\ srv.k <= Len(Points) /\ Len(Points) \in Nat
  BY <1>1, RowFacts DEF Rows
<1>7. \A d \in Cats : /\ Index.used[d] = CountTo(srv.k - 1, d)
                      /\ CountTo(srv.k - 1, d) \in 0 .. (srv.k - 1)
                      /\ CountTo(srv.k, d) = CountTo(srv.k - 1, d)
                                               + IF c = d THEN 1 ELSE 0
  BY <1>1, <1>4, CountFacts DEF IndexOK, Registering
<1>8. slot = Index.used[c] + 1 /\ slot \in 1 .. Invalid
  BY <1>1, <1>6, <1>7 DEF Invalid
<1> HIDE DEF slot, c, n
<1>9. /\ mem'["point_index"][n] =
           [mem["point_index"][n] EXCEPT !.entry[srv.k].slot[c] = slot, !.used[c] = slot]
      /\ \A m \in Runs : m # n => mem'["point_index"][m] = mem["point_index"][m]
  BY <1>1, <1>2, <1>4, Zenon
<1>10. /\ mem'["point_index"][n].used = [mem["point_index"][n].used EXCEPT ![c] = slot]
       /\ mem'["point_index"][n].entry =
            [mem["point_index"][n].entry EXCEPT
               ![srv.k] = [mem["point_index"][n].entry[srv.k] EXCEPT !.slot[c] = slot]]
  BY <1>1, <1>5, <1>9 DEF IndexObject
<1>11. \A i \in Rows, d \in Cats :
         mem'["point_index"][n].entry[i].slot[d] =
           IF i = srv.k /\ d = c THEN slot ELSE mem["point_index"][n].entry[i].slot[d]
  <2>1. /\ mem["point_index"][n].entry \in [Rows -> EntryType]
        /\ mem["point_index"][n].entry[srv.k] \in EntryType
    BY <1>1, <1>5 DEF IndexObject
  <2>2. \A d \in Cats :
          [mem["point_index"][n].entry[srv.k] EXCEPT !.slot[c] = slot].slot[d] =
            IF d = c THEN slot ELSE mem["point_index"][n].entry[srv.k].slot[d]
    BY <1>1, <2>1 DEF EntryType
  <2> QED BY <1>1, <1>10, <2>1, <2>2
<1>12. \A m \in Runs, i \in Rows, d \in Cats :
         mem'["point_index"][m].entry[i].slot[d] \in 1 .. Invalid
  <2>1. \A m \in Runs, i \in Rows, d \in Cats :
          mem["point_index"][m].entry[i].slot[d] \in 1 .. Invalid
    BY <1>4 DEF IndexOK
  <2>2. TAKE m \in Runs, i \in Rows, d \in Cats
  <2>3. CASE m = n
    BY <1>8, <1>11, <2>1, <2>3
  <2>4. CASE m # n
    BY <1>9, <2>1, <2>4
  <2> QED BY <2>3, <2>4
<1>13. ASSUME srv'.pc = "name", NEW d \in Cats
       PROVE  Index'.used[d] = CountTo(srv'.k - 1, d)
  <2>1. srv'.k - 1 = srv.k
    BY <1>3, <1>6, <1>13
  <2>2. mem["point_index"][n].used \in [Cats -> Nat]
    BY <1>1, <1>5 DEF IndexObject
  <2>3. Index'.used = [Index.used EXCEPT ![c] = slot] /\ Index.used \in [Cats -> Nat]
    BY <1>1, <1>10, <2>2, Zenon DEF Index, n
  <2>4. CASE d = c
    BY <1>7, <1>8, <2>1, <2>3, <2>4
  <2>5. CASE d # c
    BY <1>7, <2>1, <2>3, <2>5
  <2> QED BY <2>4, <2>5
<1>14. srv'.pc \in {"name", "run"}
  BY <1>3, <1>6
<1> QED BY <1>12, <1>13, <1>14 DEF IndexOK, Registering

(* Every step keeps the types.                                             *)
LEMMA ServiceKeepsTypes ==
  ASSUME TypeOK, Serve \/ CreateFails \/ Stop \/ Crash
  PROVE  TypeOK'
<1>1. /\ link \in [Names -> 0 .. MaxRuns]
      /\ MemOK /\ SrvOK /\ ClientsOK /\ IndexOK /\ SampleOK
  BY DEF TypeOK
<1>2. UNCHANGED <<cl, snap, tx>> /\ overlap' \in [Clients -> BOOLEAN]
  BY <1>1, Zenon DEF Serve, Start, CreateFails, Create, InitHeader, List, Name, Categorise,
       Invalidate, Assign, SetEntry, Stop, Unlink, Crash, Disturbed, history, ClientsOK
<1>3. ClientsOK' /\ SampleOK'
  BY <1>1, <1>2 DEF ClientsOK, ClientOK, SampleOK, h
<1>4. CASE Start \/ CreateFails \/ Stop \/ Unlink \/ Crash
  <2>1. SrvOK' /\ link' \in [Names -> 0 .. MaxRuns] /\ UNCHANGED mem
    BY <1>4, OtherServiceSteps
  <2>2. MemOK'
    BY <1>1, <2>1 DEF MemOK
  <2>3. \/ srv'.pc \in {"down", "unlink"}
        \/ srv'.pc = "create" /\ srv'.map["point_index"] = 0
    <3>1. SrvOK /\ NoMap["point_index"] = 0 /\ srv.k \in Nat
      BY <1>1, TableFacts DEF NoMap, SrvOK
    <3>2. CASE Start
      BY <3>1, <3>2 DEF Start
    <3>3. CASE CreateFails \/ Stop \/ Crash
      BY <3>1, <3>3, Zenon DEF CreateFails, Stop, Crash, SrvOK
    <3>4. CASE Unlink
      BY <3>1, <3>4 DEF Unlink, SrvOK
    <3> QED BY <1>4, <3>2, <3>3, <3>4
  <2>4. IndexOK'
    BY <1>1, <2>1, <2>3 DEF IndexOK, Registering
  <2> QED BY <1>3, <2>1, <2>2, <2>4 DEF TypeOK
<1>5. CASE Create
  <2>1. MemOK' /\ SrvOK' /\ link' \in [Names -> 0 .. MaxRuns]
    BY <1>1, <1>5, CreateEffect DEF Runs
  <2> QED BY <1>3, <1>5, <2>1, CreateKeepsIndex DEF TypeOK
<1>6. CASE InitHeader
  <2>1. MemOK' /\ SrvOK' /\ UNCHANGED link
    BY <1>6, HeaderEffect DEF InitHeader
  <2>2. IndexOK'
    <3> DEFINE t == Tables[srv.k]
               n == srv.map[t]
    <3>1. /\ t \in Names /\ n \in Runs /\ srv.pc = "header"
          /\ \A u \in Names, m \in Runs :
               mem'[u][m] = IF u = t /\ m = n
                            THEN [mem[t][n] EXCEPT !.init = srv.run] ELSE mem[u][m]
          /\ srv'.map = srv.map /\ srv'.pc \in {"header", "list"}
      <4>1. /\ srv.pc = "header" /\ srv.k \in Nat
            /\ srv.k <= Len(Tables) /\ Len(Tables) \in Nat
        BY <1>1, <1>6, TableFacts DEF InitHeader, SrvOK
      <4>2. /\ srv.k < Len(Tables) => srv'.pc = "header"
            /\ srv.k = Len(Tables) => srv'.pc = "list"
        BY <1>6, HeaderEffect
      <4>3. srv'.pc \in {"header", "list"}
        BY <4>1, <4>2
      <4> QED BY <1>6, <4>1, <4>3, HeaderEffect, Zenon
    <3> HIDE DEF t, n
    <3>2. \A m \in Runs : /\ mem'["point_index"][m].entry = mem["point_index"][m].entry
                          /\ mem'["point_index"][m].used = mem["point_index"][m].used
      <4>1. \A m \in Runs : mem["point_index"][m] \in IndexObject
        BY <1>1, TableFacts DEF MemOK, ObjectOf
      <4> QED BY <3>1, <4>1, TableFacts DEF IndexObject
    <3>3. srv.map["point_index"] \in 0 .. MaxRuns
      BY <1>1, TableFacts DEF SrvOK
    <3>4. {srv.pc, srv'.pc} \subseteq {"header", "list"} /\ srv.pc \notin Registering
      BY <3>1 DEF Registering
    <3> QED BY <1>1, <3>1, <3>2, <3>3, <3>4, IndexKept
  <2> QED BY <1>1, <1>3, <2>1, <2>2 DEF TypeOK
<1>7. CASE List
  <2>1. MemOK' /\ SrvOK' /\ UNCHANGED link
    BY <1>7, ListEffect DEF List
  <2>2. IndexOK'
    <3>1. /\ srv.pc = "list"
          /\ \A m \in Runs : mem'["point_index"][m] = mem["point_index"][m]
          /\ srv'.map = srv.map
          /\ \/ srv'.pc \in {"list", "run"}
             \/ srv'.pc = "name" /\ srv'.k = 1
      BY <1>1, <1>7, ListEffect, TableFacts DEF List, SrvOK
    <3>2. srv.map["point_index"] \in Runs /\ srv.map["point_index"] \in 0 .. MaxRuns
      BY <1>1, <3>1, TableFacts DEF SrvOK, Complete
    <3>3. srv.map["point_index"] # 0 /\ srv.pc \notin Registering
      BY <3>1, <3>2 DEF Registering, Runs
    <3> QED BY <1>1, <3>1, <3>2, <3>3, IndexKept
  <2> QED BY <1>1, <1>3, <2>1, <2>2 DEF TypeOK
<1>8. CASE Name \/ Categorise \/ Invalidate
  <2>1. MemOK' /\ SrvOK' /\ IndexOK' /\ UNCHANGED link
    <3>1. UNCHANGED link /\ srv.pc \in Registering
      BY <1>8 DEF Name, Categorise, Invalidate, SetEntry, Registering
    <3>2. \A c \in Cats : FreeEntry.slot[c] \in 1 .. Invalid
      BY ZeroedIndex
    <3>3. \A c \in Cats : Index.entry[srv.k].slot[c] \in 1 .. Invalid
      <4>1. srv.k \in Rows /\ srv.map["point_index"] \in Runs
        BY <1>1, <3>1, TableFacts DEF SrvOK, Complete
      <4> QED BY <1>1, <4>1, Zenon DEF IndexOK, Index
    <3>4. {"name", "category", "invalidate", "assign"} = Registering
      BY DEF Registering
    <3>5. CASE Name
      <4> DEFINE e == [FreeEntry EXCEPT !.point = Points[srv.k]]
      <4>1. e \in EntryType /\ SetEntry("name", "category", e) /\ e.slot = FreeEntry.slot
        BY <3>1, <3>5, EntriesHaveType DEF Name, FreeEntry
      <4> HIDE DEF e
      <4> QED BY <3>1, <3>2, <3>4, <4>1, SetEntryEffect, SetEntryKeepsIndex
    <3>6. CASE Categorise
      <4> DEFINE e == [Index.entry[srv.k] EXCEPT !.category = Category[Points[srv.k]]]
      <4>1. /\ e \in EntryType /\ SetEntry("category", "invalidate", e)
            /\ e.slot = Index.entry[srv.k].slot
        BY <3>1, <3>6, EntriesHaveType DEF Categorise, EntryType
      <4> HIDE DEF e
      <4> QED BY <3>1, <3>3, <3>4, <4>1, SetEntryEffect, SetEntryKeepsIndex
    <3>7. CASE Invalidate
      <4> DEFINE e == [Index.entry[srv.k] EXCEPT !.slot = [c \in Cats |-> Invalid]]
      <4>1. e \in EntryType /\ SetEntry("invalidate", "assign", e)
        BY <3>1, <3>7, EntriesHaveType DEF Invalidate
      <4>2. \A c \in Cats : e.slot[c] \in 1 .. Invalid
        BY <4>1, RowFacts DEF EntryType, Invalid
      <4> HIDE DEF e
      <4> QED BY <3>1, <3>4, <4>1, <4>2, SetEntryEffect, SetEntryKeepsIndex
    <3> QED BY <1>8, <3>5, <3>6, <3>7
  <2> QED BY <1>1, <1>3, <2>1 DEF TypeOK
<1>9. CASE Assign
  BY <1>1, <1>3, <1>9, AssignEffect, AssignKeepsIndex, Zenon DEF TypeOK, Assign
<1> QED BY <1>4, <1>5, <1>6, <1>7, <1>8, <1>9 DEF Serve

LEMMA ClientsKeepTypes ==
  ASSUME TypeOK, NEW c \in Clients,
         Attach(c) \/ WriteAstray(c) \/ \E p \in PointSet : Write(c, p)
  PROVE  TypeOK'
<1>1. /\ link \in [Names -> 0 .. MaxRuns]
      /\ MemOK /\ SrvOK /\ ClientsOK /\ IndexOK /\ SampleOK
  BY DEF TypeOK
<1>2. UNCHANGED <<link, srv, snap, tx>>
  BY Zenon DEF Attach, Open, OpenFails, Attached, WriteAstray, Write, memory, history
<1>3. SrvOK'
  BY <1>1, <1>2 DEF SrvOK
<1>4. CASE Attach(c)
  <2>1. UNCHANGED mem
    BY <1>4 DEF Attach, Open, OpenFails, Attached, memory
  <2>2. MemOK' /\ IndexOK'
    BY <1>1, <1>2, <2>1 DEF MemOK, IndexOK, Index
  <2>3. ClientsOK' /\ SampleOK'
    BY <1>1, <1>2, <1>4, AttachKeepsTypes DEF SampleOK, h
  <2> QED BY <1>1, <1>2, <1>3, <2>2, <2>3 DEF TypeOK
<1>5. CASE WriteAstray(c) \/ \E p \in PointSet : Write(c, p)
  <2>1. UNCHANGED <<cl, overlap>>
    BY <1>5, Zenon DEF WriteAstray, Write
  <2>2. ClientsOK' /\ SampleOK'
    BY <1>1, <1>2, <2>1 DEF ClientsOK, ClientOK, SampleOK, h
  <2>3. MemOK'
    BY <1>5, WriteEffect
  <2>4. \A n \in Runs : mem'["point_index"][n] = mem["point_index"][n]
    BY <1>5, WriteEffect, TableFacts, Zenon
  <2>5. srv.map["point_index"] \in 0 .. MaxRuns
    BY <1>1, TableFacts DEF SrvOK
  <2>6. srv.pc \in Registering => srv.map["point_index"] # 0
    BY <1>1, TableFacts DEF SrvOK, Complete, Runs
  <2>7. IndexOK'
    BY <1>1, <1>2, <2>4, <2>5, <2>6, IndexKept
  <2> QED BY <1>1, <1>2, <1>3, <2>2, <2>3, <2>7 DEF TypeOK
<1> QED BY <1>4, <1>5

LEMMA InitTypes == Init => TypeOK
<1> SUFFICES ASSUME Init PROVE TypeOK
  OBVIOUS
<1>1. NoMap \in [Names -> 0 .. MaxRuns]
  BY RunsAssumption DEF NoMap
<1>2. \A t \in Names, n \in Runs : mem[t][n] = Zeroed(t)
  BY DEF Init
<1>3. MemOK
  <2>1. \A t \in Names : Zeroed(t) \in CatalogObject \cup IndexObject \cup SlotObject
    BY ZeroedType DEF ObjectOf
  <2> QED BY <1>2, <2>1, ZeroedType DEF Init, MemOK
<1>4. SrvOK
  BY <1>1, RunsAssumption DEF Init, SrvOK, Complete, Registering
<1>5. ClientsOK
  <2>1. \A c \in Clients : cl[c] = Waiting
    BY DEF Init
  <2>2. \A c \in Clients : ClientOK(c)
    BY <2>1, WaitingType, TableFacts DEF ClientOK
  <2> QED BY <2>2, WaitingType DEF Init, ClientsOK
<1>6. IndexOK
  <2>1. \A n \in Runs, i \in Rows : mem["point_index"][n].entry[i] = FreeEntry
    BY <1>2, ZeroedIndex, TableFacts
  <2>2. srv.pc = "down"
    BY DEF Init
  <2> QED BY <2>1, <2>2, ZeroedIndex DEF IndexOK, Registering
<1>7. SampleOK
  <2>1. h.pc = "attach"
    BY WaitingType, HistoryAssumption DEF Init, h
  <2> QED BY <2>1, NoSnapshotType DEF Init, SampleOK
<1> QED BY <1>1, <1>3, <1>4, <1>5, <1>6, <1>7 DEF Init, TypeOK

LEMMA NextKeepsTypes == TypeOK /\ [Next]_vars => TypeOK'
<1> SUFFICES ASSUME TypeOK, [Next]_vars PROVE TypeOK'
  OBVIOUS
<1>1. CASE Serve \/ CreateFails \/ Stop \/ Crash
  BY <1>1, ServiceKeepsTypes
<1>2. ASSUME NEW c \in Clients,
             Attach(c) \/ WriteAstray(c) \/ \E p \in PointSet : Write(c, p)
      PROVE  TypeOK'
  BY <1>2, ClientsKeepTypes
<1>3. CASE Sample \/ StatementFails
  <2>1. ClientsOK' /\ SampleOK' /\ UNCHANGED <<memory, srv, overlap>>
    BY <1>3, SampleKeepsTypes
  <2> QED BY <2>1 DEF TypeOK, memory, MemOK, SrvOK, IndexOK, Index
<1>4. CASE UNCHANGED vars
  BY <1>4, Zenon DEF vars, TypeOK, MemOK, SrvOK, ClientsOK, ClientOK, IndexOK, Index, SampleOK, h
<1> QED BY <1>1, <1>2, <1>3, <1>4 DEF Next

(* Every variable keeps its type, whatever the configuration.              *)
THEOREM TypeCorrect == Spec => []TypeOK
BY InitTypes, NextKeepsTypes, PTL DEF Spec

-----------------------------------------------------------------------------
(* An undisturbed attach maps the finished tables of one run.              *)

Linked(t) == mem[t][link[t]]

(* While rtdb_service creates the tables those behind it are zeroed, and   *)
(* no header is written, and no table listed, before all of them are.      *)
ServiceInv ==
  /\ srv.pc = "create" =>
       \A k \in 1 .. Len(Tables) : k < srv.k =>
          /\ link[Tables[k]] = srv.map[Tables[k]]
          /\ Linked(Tables[k]).init = 0
  /\ srv.pc \in Complete =>
       \A k \in 1 .. Len(Tables) :
          /\ link[Tables[k]] = srv.map[Tables[k]]
          /\ Linked(Tables[k]).init = IF srv.pc = "header" /\ k >= srv.k
                                      THEN 0 ELSE srv.run
  /\ (srv.pc = "create" /\ srv.k > 1) \/ srv.pc = "header" =>
       Linked("catalog").listed = {}

(* A catalog with a header that lists a table: all the tables that have a  *)
(* name, also those a crashed run left, are of the catalog's run.          *)
CatalogInv ==
  (link["catalog"] # 0 /\ Linked("catalog").init # 0 /\ Linked("catalog").listed # {})
    => \A t \in Names : link[t] # 0 => Linked(t).init = Linked("catalog").init

(* What an undisturbed process has mapped is still what the names lead to. *)
AttachingInv ==
  \A c \in Clients :
    (cl[c].pc = "attach" /\ cl[c].k > 1 /\ ~overlap[c]) =>
      /\ \A j \in 1 .. Len(Tables) : j < cl[c].k =>
           /\ link[Tables[j]] = cl[c].map[Tables[j]]
           /\ link[Tables[j]] # 0 /\ Linked(Tables[j]).init # 0
      /\ cl[c].k > 2 => Linked("catalog").listed # {}

AttachInv == ServiceInv /\ CatalogInv /\ AttachingInv

(* Registration and writes leave every header and the catalog alone.       *)
LEMMA HeadersKept ==
  ASSUME TypeOK,
         \/ Name \/ Categorise \/ Invalidate \/ Assign
         \/ \E c \in Clients : WriteAstray(c) \/ \E p \in PointSet : Write(c, p)
  PROVE  \A u \in Names, m \in Runs :
           /\ mem'[u][m].init = mem[u][m].init
           /\ u = "catalog" => mem'[u][m].listed = mem[u][m].listed
<1>1. \A u \in Names, m \in Runs : mem[u][m] \in ObjectOf(u)
  BY DEF TypeOK, MemOK
<1>2. \A m \in Runs : mem["point_index"][m] \in IndexObject
  BY <1>1, TableFacts DEF ObjectOf
<1>3. \A t \in Cats, m \in Runs : mem[t][m] \in SlotObject
  BY <1>1, TableFacts DEF ObjectOf
<1>4. ASSUME NEW pc \in Registering, NEW next \in Registering, NEW e \in EntryType,
             SetEntry(pc, next, e), NEW u \in Names, NEW m \in Runs
      PROVE  /\ mem'[u][m].init = mem[u][m].init
             /\ u = "catalog" => mem'[u][m].listed = mem[u][m].listed
  <2>1. mem'[u][m] = IF u = "point_index" /\ m = srv.map["point_index"]
                     THEN [mem[u][m] EXCEPT !.entry[srv.k] = e] ELSE mem[u][m]
    BY <1>4, SetEntryEffect
  <2> QED BY <1>2, <2>1 DEF IndexObject
<1>5. CASE Name \/ Categorise \/ Invalidate
  <2>1. srv.pc \in Registering
    BY <1>5 DEF Name, Categorise, Invalidate, SetEntry, Registering
  <2> QED BY <1>4, <1>5, <2>1, EntriesHaveType
          DEF Name, Categorise, Invalidate, Registering
<1>6. CASE Assign
  <2> DEFINE c == Category[Points[srv.k]]
             n == srv.map["point_index"]
             slot == Index.used[c] + 1
  <2>1. /\ c \in Cats
        /\ \A u \in Names, m \in Runs :
             mem'[u][m] =
               IF u = "point_index" /\ m = n
               THEN [mem[u][m] EXCEPT !.entry[srv.k].slot[c] = slot, !.used[c] = slot]
               ELSE IF u = c /\ m = srv.map[c]
               THEN [mem[u][m] EXCEPT !.value[slot] = Zero, !.rows = slot]
               ELSE mem[u][m]
    BY <1>6, AssignEffect, Zenon
  <2> HIDE DEF c, n, slot
  <2>2. TAKE u \in Names, m \in Runs
  <2>3. c # "catalog"
    BY <2>1, TableFacts, Zenon
  <2>4. CASE u = "point_index" /\ m = n
    BY <1>2, <2>1, <2>4, Zenon DEF IndexObject
  <2>5. CASE u = c /\ m = srv.map[c] /\ ~(u = "point_index" /\ m = n)
    <3>1. mem'[u][m] = [mem[u][m] EXCEPT !.value[slot] = Zero, !.rows = slot]
      BY <2>1, <2>5, Zenon
    <3>2. mem[u][m] \in SlotObject
      BY <1>3, <2>1, <2>5, Zenon
    <3>3. mem'[u][m].init = mem[u][m].init
      BY <3>1, <3>2 DEF SlotObject
    <3> QED BY <2>3, <2>5, <3>3
  <2>6. CASE ~(u = c /\ m = srv.map[c]) /\ ~(u = "point_index" /\ m = n)
    BY <2>1, <2>6, Zenon
  <2> QED BY <2>4, <2>5, <2>6
<1>7. ASSUME NEW c \in Clients, WriteAstray(c) \/ \E p \in PointSet : Write(c, p),
             NEW u \in Names, NEW m \in Runs
      PROVE  /\ mem'[u][m].init = mem[u][m].init
             /\ u = "catalog" => mem'[u][m].listed = mem[u][m].listed
  <2>1. PICK t \in Cats, n \in Runs, s \in Nat, x \in Slot :
          \A v \in Names, o \in Runs :
            mem'[v][o] = IF v = t /\ o = n
                         THEN [mem[v][o] EXCEPT !.value[s] = x] ELSE mem[v][o]
    BY <1>7, WriteEffect, Zenon
  <2>2. t # "catalog"
    BY TableFacts
  <2>3. CASE u = t /\ m = n
    BY <1>3, <2>1, <2>2, <2>3, Zenon DEF SlotObject
  <2>4. CASE ~(u = t /\ m = n)
    BY <2>1, <2>4, Zenon
  <2> QED BY <2>3, <2>4
<1> QED BY <1>5, <1>6, <1>7

LEMMA AttachInvKept ==
  ASSUME TypeOK, AttachInv, UNCHANGED <<link, cl, overlap, srv.map, srv.run>>,
         \A u \in Names, m \in Runs :
           /\ mem'[u][m].init = mem[u][m].init
           /\ u = "catalog" => mem'[u][m].listed = mem[u][m].listed,
         \/ UNCHANGED <<srv.pc, srv.k>>
         \/ srv.pc \in Registering /\ srv'.pc \in Registering \cup {"run"}
  PROVE  AttachInv'
<1>1. \A t \in Names : link[t] # 0 => /\ link[t] \in Runs
                                      /\ Linked(t)'.init = Linked(t).init
  BY DEF TypeOK, Linked, Runs
<1>2. link["catalog"] # 0 => Linked("catalog")'.listed = Linked("catalog").listed
  BY <1>1, TableFacts DEF Linked
<1>3. \A k \in 1 .. Len(Tables) : Tables[k] \in Names
  BY TableFacts
<1>4. ServiceInv'
  <2>1. srv.pc = "create" => \A k \in 1 .. Len(Tables) : k < srv.k => link[Tables[k]] # 0
    <3>1. srv.pc = "create" =>
            \A k \in 1 .. Len(Tables) : k < srv.k => srv.map[Tables[k]] \in Runs
      BY DEF TypeOK, SrvOK
    <3> QED BY <3>1 DEF AttachInv, ServiceInv, Runs
  <2>2. srv.pc \in Complete => \A k \in 1 .. Len(Tables) : link[Tables[k]] # 0
    BY <1>3 DEF AttachInv, ServiceInv, TypeOK, SrvOK, Runs
  <2>3. (srv.pc = "create" /\ srv.k > 1) \/ srv.pc = "header" => link["catalog"] # 0
    BY <2>1, <2>2, TableFacts, TablesAssumption DEF Complete
  <2> QED BY <1>1, <1>2, <1>3, <2>1, <2>2, <2>3
          DEF AttachInv, ServiceInv, Complete, Registering
<1>5. CatalogInv'
  BY <1>1, <1>2, TableFacts DEF AttachInv, CatalogInv
<1>6. AttachingInv'
  <2>1. Tables[1] = "catalog" /\ 1 \in 1 .. Len(Tables)
    BY TablesAssumption, TableFacts
  <2> QED BY <1>1, <1>2, <1>3, <2>1 DEF AttachInv, AttachingInv
<1> QED BY <1>4, <1>5, <1>6 DEF AttachInv

LEMMA CreateKeepsAttachInv ==
  ASSUME TypeOK, AttachInv, Create
  PROVE  AttachInv'
<1>1. PICK t \in Names, n \in Runs :
      /\ t = Tables[srv.k] /\ n = Taken(t)
      /\ link' = [link EXCEPT ![t] = n]
      /\ srv'.map = [srv.map EXCEPT ![t] = n]
      /\ srv.k < Len(Tables) => srv'.pc = "create" /\ srv'.k = srv.k + 1
      /\ srv.k = Len(Tables) => srv'.pc = "header" /\ srv'.k = 1
  BY CreateEffect
<1>2. \A u \in Names, m \in Runs :
        mem'[u][m] = IF u = t /\ m = n THEN Zeroed(t) ELSE mem[u][m]
  BY <1>1, CreateEffect
<1>3. /\ srv.pc = "create" /\ srv.k \in 1 .. Len(Tables) /\ srv.k \in Nat
      /\ Len(Tables) \in Nat
      /\ \A j \in 1 .. Len(Tables) : j < srv.k => srv.map[Tables[j]] \in Runs
      /\ srv.map \in [Names -> 0 .. MaxRuns] /\ link \in [Names -> 0 .. MaxRuns]
  BY TableFacts DEF Create, TypeOK, SrvOK
<1>4. \A j \in 1 .. Len(Tables) : /\ Tables[j] \in Names
                                  /\ Tables[j] = t => j = srv.k
  BY <1>1, <1>3, TablesAssumption, TableFacts
<1>5. Tables[1] = "catalog" /\ 1 \in 1 .. Len(Tables) /\ "catalog" \in Names
  BY TablesAssumption, TableFacts
<1>6. cl' = cl
  BY DEF Create
<1>7. overlap' = IF link[t] = 0 THEN overlap
                 ELSE [c \in Clients |->
                         overlap[c] \/ (cl[c].pc = "attach" /\ cl[c].k > 1)]
  BY <1>1 DEF Create, Disturbed
<1>8. /\ link'[t] = n /\ srv'.map[t] = n
      /\ Linked(t)' = Zeroed(t) /\ Linked(t)'.init = 0
      /\ t = "catalog" => Linked(t)'.listed = {}
  <2>1. link'[t] = n /\ srv'.map[t] = n /\ Linked(t)' = Zeroed(t)
    BY <1>1, <1>2, <1>3 DEF Linked
  <2> QED BY <1>1, <2>1, ZeroedType DEF Zeroed
<1>9. \A u \in Names : u # t =>
        /\ link'[u] = link[u] /\ srv'.map[u] = srv.map[u]
        /\ link[u] # 0 => Linked(u)' = Linked(u)
  BY <1>1, <1>2, <1>3 DEF Linked, Runs
<1>10. \A j \in 1 .. Len(Tables) : j <= srv.k =>
         link'[Tables[j]] = srv'.map[Tables[j]] /\ Linked(Tables[j])'.init = 0
  <2>1. TAKE j \in 1 .. Len(Tables)
  <2>2. CASE j = srv.k
    BY <1>1, <1>8, <2>2
  <2>3. CASE j < srv.k
    <3>1. link[Tables[j]] = srv.map[Tables[j]] /\ Linked(Tables[j]).init = 0
      BY <1>3, <2>3 DEF AttachInv, ServiceInv
    <3>2. link[Tables[j]] # 0 /\ Tables[j] # t
      BY <1>3, <1>4, <2>3, <3>1 DEF Runs
    <3> QED BY <1>4, <1>9, <3>1, <3>2
  <2> QED BY <1>3, <2>2, <2>3
<1>11. Linked("catalog")'.listed = {} /\ Linked("catalog")'.init = 0
  <2>1. Linked("catalog")'.init = 0
    BY <1>3, <1>5, <1>10
  <2>2. CASE srv.k = 1
    BY <1>1, <1>5, <1>8, <2>1, <2>2
  <2>3. CASE srv.k > 1
    <3>1. Linked("catalog").listed = {} /\ link["catalog"] = srv.map["catalog"]
      BY <1>3, <1>5, <2>3 DEF AttachInv, ServiceInv
    <3>2. "catalog" # t /\ link["catalog"] # 0
      BY <1>3, <1>4, <1>5, <2>3, <3>1 DEF Runs
    <3> QED BY <1>5, <1>9, <2>1, <3>1, <3>2
  <2> QED BY <1>3, <2>2, <2>3
<1>12. ServiceInv'
  <2>1. CASE srv.k < Len(Tables)
    <3>1. srv'.pc = "create" /\ srv'.k = srv.k + 1
      BY <1>1, <2>1
    <3>2. \A j \in 1 .. Len(Tables) : j < srv'.k => j <= srv.k
      BY <1>3, <3>1
    <3> QED BY <1>10, <1>11, <3>1, <3>2 DEF ServiceInv, Complete, Registering
  <2>2. CASE srv.k = Len(Tables)
    <3>1. srv'.pc = "header" /\ srv'.k = 1
      BY <1>1, <2>2
    <3>2. \A j \in 1 .. Len(Tables) : j >= srv'.k /\ j <= srv.k
      BY <1>3, <2>2, <3>1
    <3> QED BY <1>10, <1>11, <3>1, <3>2 DEF ServiceInv
  <2> QED BY <1>3, <2>1, <2>2
<1>13. CatalogInv'
  BY <1>11 DEF CatalogInv
<1>14. AttachingInv'
  <2> SUFFICES ASSUME NEW c \in Clients, cl[c].pc = "attach", cl[c].k > 1, ~overlap'[c]
               PROVE  /\ \A j \in 1 .. Len(Tables) : j < cl[c].k =>
                           /\ link'[Tables[j]] = cl[c].map[Tables[j]]
                           /\ link'[Tables[j]] # 0 /\ Linked(Tables[j])'.init # 0
                      /\ cl[c].k > 2 => Linked("catalog")'.listed # {}
    BY <1>6 DEF AttachingInv
  <2>1. link[t] = 0 /\ ~overlap[c]
    BY <1>7, Zenon
  <2>2. \A j \in 1 .. Len(Tables) : j < cl[c].k =>
           /\ link[Tables[j]] = cl[c].map[Tables[j]]
           /\ link[Tables[j]] # 0 /\ Linked(Tables[j]).init # 0
    BY <2>1 DEF AttachInv, AttachingInv
  <2>3. \A j \in 1 .. Len(Tables) : j < cl[c].k =>
           /\ link'[Tables[j]] = link[Tables[j]]
           /\ Linked(Tables[j])' = Linked(Tables[j])
    BY <1>4, <1>9, <2>1, <2>2
  <2>4. cl[c].k > 2 => Linked("catalog").listed # {}
    BY <2>1 DEF AttachInv, AttachingInv
  <2>5. cl[c].k \in Nat
    BY DEF TypeOK, ClientsOK
  <2> QED BY <1>5, <2>2, <2>3, <2>4, <2>5
<1> QED BY <1>12, <1>13, <1>14 DEF AttachInv

LEMMA HeaderKeepsAttachInv ==
  ASSUME TypeOK, AttachInv, InitHeader
  PROVE  AttachInv'
<1>1. PICK t \in Names, n \in Runs :
      /\ t = Tables[srv.k] /\ n = srv.map[t] /\ UNCHANGED <<link, cl, overlap>>
      /\ srv'.map = srv.map /\ srv'.run = srv.run
      /\ srv.k < Len(Tables) => srv'.pc = "header" /\ srv'.k = srv.k + 1
      /\ srv.k = Len(Tables) => srv'.pc = "list" /\ srv'.k = 1
  BY HeaderEffect DEF InitHeader
<1>2. \A u \in Names, m \in Runs :
        mem'[u][m] = IF u = t /\ m = n
                     THEN [mem[t][n] EXCEPT !.init = srv.run] ELSE mem[u][m]
  BY <1>1, HeaderEffect, Zenon
<1>3. /\ srv.pc = "header" /\ srv.k \in 1 .. Len(Tables) /\ srv.k \in Nat
      /\ Len(Tables) \in Nat /\ srv.run \in Runs
  BY TableFacts DEF InitHeader, TypeOK, SrvOK
<1>4. \A j \in 1 .. Len(Tables) :
        /\ Tables[j] \in Names /\ (Tables[j] = t <=> j = srv.k)
        /\ link[Tables[j]] = srv.map[Tables[j]] /\ link[Tables[j]] \in Runs
        /\ Linked(Tables[j]).init = IF j >= srv.k THEN 0 ELSE srv.run
  BY <1>1, <1>3, TablesAssumption, TableFacts, Zenon
     DEF AttachInv, ServiceInv, Complete, TypeOK, SrvOK
<1>5. Tables[1] = "catalog" /\ 1 \in 1 .. Len(Tables) /\ "catalog" \in Names
  BY TablesAssumption, TableFacts
<1>6. link[t] = n
  BY <1>1, <1>3, <1>4
<1>7. \A u \in Names, m \in Runs : mem[u][m] \in ObjectOf(u)
  BY DEF TypeOK, MemOK
<1>8. \A j \in 1 .. Len(Tables) :
        Linked(Tables[j])'.init = IF j = srv.k THEN srv.run ELSE Linked(Tables[j]).init
  <2>1. TAKE j \in 1 .. Len(Tables)
  <2>2. CASE j = srv.k
    <3>1. Tables[j] = t /\ Linked(t)' = [mem[t][n] EXCEPT !.init = srv.run]
      BY <1>1, <1>2, <1>4, <1>6, <2>2, Zenon DEF Linked
    <3>2. mem[t][n] \in ObjectOf(t)
      BY <1>1, <1>7
    <3>3. [mem[t][n] EXCEPT !.init = srv.run].init = srv.run
      BY <3>2 DEF ObjectOf, CatalogObject, IndexObject, SlotObject
    <3> QED BY <2>2, <3>1, <3>3
  <2>3. CASE j # srv.k
    <3>1. Tables[j] \in Names /\ Tables[j] # t /\ link[Tables[j]] \in Runs
      BY <1>4, <2>3
    <3>2. mem'[Tables[j]][link[Tables[j]]] = mem[Tables[j]][link[Tables[j]]]
      BY <1>2, <3>1
    <3>3. link' = link
      BY <1>1
    <3> QED BY <2>3, <3>2, <3>3 DEF Linked
  <2> QED BY <2>2, <2>3
<1>9. Linked("catalog")'.listed = {}
  <2>1. Linked("catalog").listed = {} /\ link["catalog"] \in Runs
    BY <1>3, <1>4, <1>5 DEF AttachInv, ServiceInv
  <2>2. mem["catalog"][link["catalog"]] \in CatalogObject
    BY <1>5, <1>7, <2>1 DEF ObjectOf
  <2>3. Linked("catalog")'.listed = mem["catalog"][link["catalog"]].listed
    <3> DEFINE l == link["catalog"]
    <3>1. /\ link'["catalog"] = l /\ l \in Runs
          /\ \/ mem'["catalog"][l] = mem["catalog"][l]
             \/ mem'["catalog"][l] = [mem["catalog"][l] EXCEPT !.init = srv.run]
      BY <1>1, <1>2, <1>5, <2>1
    <3>2. mem'["catalog"][l].listed = mem["catalog"][l].listed
      BY <2>2, <3>1 DEF CatalogObject
    <3> QED BY <3>1, <3>2 DEF Linked
  <2> QED BY <2>1, <2>3 DEF Linked
<1>10. ServiceInv'
  <2>1. \A j \in 1 .. Len(Tables) : Linked(Tables[j])'.init =
                                      IF j > srv.k THEN 0 ELSE srv.run
    BY <1>3, <1>4, <1>8
  <2>2. CASE srv.k < Len(Tables)
    <3>1. srv'.pc = "header" /\ srv'.k = srv.k + 1
      BY <1>1, <2>2
    <3>2. \A j \in 1 .. Len(Tables) : j >= srv'.k <=> j > srv.k
      BY <1>3, <3>1
    <3> QED BY <1>1, <1>4, <1>9, <2>1, <3>1, <3>2 DEF ServiceInv
  <2>3. CASE srv.k = Len(Tables)
    <3>1. srv'.pc = "list"
      BY <1>1, <2>3
    <3>2. \A j \in 1 .. Len(Tables) : ~(j > srv.k)
      BY <1>3, <2>3
    <3> QED BY <1>1, <1>4, <2>1, <3>1, <3>2 DEF ServiceInv
  <2> QED BY <1>3, <2>2, <2>3
<1>11. CatalogInv'
  BY <1>9 DEF CatalogInv
<1>12. AttachingInv'
  <2>1. Linked("catalog").listed = {} /\ srv.run # 0
    BY <1>3 DEF AttachInv, ServiceInv, Runs
  <2> QED BY <1>1, <1>8, <2>1, Zenon DEF AttachInv, AttachingInv
<1> QED BY <1>10, <1>11, <1>12 DEF AttachInv

LEMMA ListKeepsAttachInv ==
  ASSUME TypeOK, AttachInv, List
  PROVE  AttachInv'
<1> DEFINE n == srv.map["catalog"]
           x == Tables[srv.k]
<1>1. /\ n \in Runs /\ UNCHANGED <<link, cl, overlap>>
      /\ srv'.map = srv.map /\ srv'.run = srv.run
      /\ srv'.pc \in {"list", "run", "name"}
  <2>1. srv.k \in Nat /\ srv.k <= Len(Tables) /\ Len(Tables) \in Nat
    BY TableFacts DEF List, TypeOK, SrvOK
  <2>2. /\ n \in Runs /\ srv'.map = srv.map /\ srv'.run = srv.run
        /\ srv.k < Len(Tables) => srv'.pc = "list"
        /\ srv.k = Len(Tables) => srv'.pc \in {"run", "name"}
    BY ListEffect
  <2> QED BY <2>1, <2>2 DEF List
<1>2. \A u \in Names, m \in Runs :
        mem'[u][m] = IF u = "catalog" /\ m = n
                     THEN [mem[u][m] EXCEPT !.listed = @ \cup {x}] ELSE mem[u][m]
  BY <1>1, ListEffect
<1>3. Tables[1] = "catalog" /\ 1 \in 1 .. Len(Tables) /\ "catalog" \in Names
  BY TablesAssumption, TableFacts
<1>4. srv.pc = "list" /\ srv.run \in Runs
  BY DEF List, TypeOK, SrvOK
<1>5. \A j \in 1 .. Len(Tables) :
        /\ Tables[j] \in Names /\ link[Tables[j]] = srv.map[Tables[j]]
        /\ link[Tables[j]] \in Runs /\ Linked(Tables[j]).init = srv.run
  BY <1>4, TableFacts DEF AttachInv, ServiceInv, Complete, TypeOK, SrvOK
<1>6. \A m \in Runs : mem["catalog"][m] \in CatalogObject
  BY <1>3 DEF TypeOK, MemOK, ObjectOf
<1>7. \A u \in Names, m \in Runs : mem'[u][m].init = mem[u][m].init
  BY <1>2, <1>6, Zenon DEF CatalogObject
<1>8. \A j \in 1 .. Len(Tables) : Linked(Tables[j])'.init = srv.run
  BY <1>1, <1>5, <1>7 DEF Linked
<1>9. Linked("catalog")'.listed # {}
  <2>1. Linked("catalog")' = [mem["catalog"][n] EXCEPT !.listed = @ \cup {x}]
    BY <1>1, <1>2, <1>3, <1>5 DEF Linked
  <2>2. Linked("catalog")'.listed = mem["catalog"][n].listed \cup {x}
    BY <1>1, <1>6, <2>1 DEF CatalogObject
  <2> QED BY <2>2
<1>10. ServiceInv'
  BY <1>1, <1>5, <1>8 DEF ServiceInv
<1>11. CatalogInv'
  BY <1>8, TableFacts DEF CatalogInv
<1>12. AttachingInv'
  BY <1>1, <1>4, <1>5, <1>8, <1>9 DEF AttachInv, AttachingInv, Runs
<1> QED BY <1>10, <1>11, <1>12 DEF AttachInv

LEMMA OthersKeepAttachInv ==
  ASSUME TypeOK, AttachInv, Start \/ CreateFails \/ Stop \/ Unlink \/ Crash
  PROVE  AttachInv'
<1>1. UNCHANGED <<mem, cl>> /\ srv.k \in Nat /\ SrvOK
  BY OtherServiceSteps DEF TypeOK, SrvOK
<1>2. ServiceInv'
  <2>1. \/ srv'.pc \in {"down", "unlink"}
        \/ srv'.pc = "create" /\ srv'.k = 1
    <3>1. CASE Start
      BY <3>1 DEF Start
    <3>2. CASE CreateFails \/ Stop \/ Crash
      BY <1>1, <3>2, Zenon DEF CreateFails, Stop, Crash, SrvOK
    <3>3. CASE Unlink
      BY <1>1, <3>3 DEF Unlink, SrvOK
    <3> QED BY <3>1, <3>2, <3>3
  <2>2. \A k \in 1 .. Len(Tables) : ~(k < 1)
    BY TableFacts
  <2> QED BY <2>1, <2>2 DEF ServiceInv, Complete, Registering
<1>3. CASE Start \/ CreateFails \/ Stop \/ Crash
  <2>1. UNCHANGED <<link, overlap>>
    BY <1>3 DEF Start, CreateFails, Stop, Crash, memory
  <2> QED BY <1>1, <1>2, <2>1 DEF AttachInv, CatalogInv, AttachingInv, Linked
<1>4. CASE Unlink
  <2>1. PICK t : link' = [link EXCEPT ![t] = 0]
    BY <1>4, Zenon DEF Unlink
  <2>2. \A u \in Names : link'[u] = (IF u = t THEN 0 ELSE link[u])
    BY <2>1 DEF TypeOK
  <2>3. CatalogInv'
    BY <1>1, <2>2, TableFacts DEF AttachInv, CatalogInv, Linked
  <2>4. \A c \in Clients : cl[c].pc = "attach" /\ cl[c].k > 1 => overlap'[c]
    BY <1>4, Zenon DEF Unlink, Disturbed
  <2>5. AttachingInv'
    BY <1>1, <2>4 DEF AttachingInv
  <2> QED BY <1>2, <2>3, <2>5 DEF AttachInv
<1> QED BY <1>3, <1>4

LEMMA AttachKeepsAttachInv ==
  ASSUME TypeOK, AttachInv, NEW c \in Clients, Attach(c)
  PROVE  AttachInv'
<1>1. UNCHANGED <<link, mem, srv>>
  BY DEF Attach, Open, OpenFails, Attached, memory
<1>2. ServiceInv' /\ CatalogInv'
  BY <1>1 DEF AttachInv, ServiceInv, CatalogInv, Linked
<1>3. ASSUME \A d \in Clients : d # c => cl'[d] = cl[d] /\ overlap'[d] = overlap[d],
             cl'[c].pc # "attach" \/ cl'[c].k = 1
      PROVE  AttachingInv'
  BY <1>1, <1>3 DEF AttachInv, AttachingInv, Linked
<1>4. CASE Open(c)
  <2>1. PICK t \in Names :
          /\ t = Tables[cl[c].k] /\ cl[c].pc = "attach" /\ cl[c].k \in 1 .. Len(Tables)
          /\ link[t] \in Runs /\ Linked(t).init # 0 /\ Listed(c, t)
          /\ cl'[c].pc = "attach" /\ cl'[c].k = cl[c].k + 1
          /\ cl'[c].map = [cl[c].map EXCEPT ![t] = link[t]]
    BY <1>4, OpenEffect, Zenon DEF Linked
  <2>2. UNCHANGED overlap /\ \A d \in Clients : d # c => cl'[d] = cl[d]
    BY <1>4, OpenEffect, Zenon DEF Open
  <2>3. cl[c].k \in Nat /\ Len(Tables) \in Nat /\ cl[c].map \in [Names -> 0 .. MaxRuns]
    BY TableFacts DEF TypeOK, ClientsOK
  <2>4. \A j \in 1 .. Len(Tables) : Tables[j] \in Names /\ (Tables[j] = t => j = cl[c].k)
    BY <2>1, TablesAssumption, TableFacts
  <2>5. Tables[1] = "catalog" /\ 1 \in 1 .. Len(Tables)
    BY TablesAssumption, TableFacts
  <2>6. ASSUME ~overlap[c], NEW j \in 1 .. Len(Tables), j < cl'[c].k
        PROVE  /\ link[Tables[j]] = cl'[c].map[Tables[j]]
               /\ link[Tables[j]] # 0 /\ Linked(Tables[j]).init # 0
    <3>1. CASE j = cl[c].k
      BY <2>1, <2>3, <3>1 DEF Runs
    <3>2. CASE j < cl[c].k
      <4>1. /\ link[Tables[j]] = cl[c].map[Tables[j]]
            /\ link[Tables[j]] # 0 /\ Linked(Tables[j]).init # 0
        BY <2>1, <2>3, <2>6, <3>2 DEF AttachInv, AttachingInv
      <4> QED BY <2>1, <2>3, <2>4, <3>2, <4>1
    <3> QED BY <2>1, <2>3, <2>6, <3>1, <3>2
  <2>7. ASSUME ~overlap[c], cl'[c].k > 2
        PROVE  Linked("catalog").listed # {}
    <3>1. cl[c].k > 1
      BY <2>1, <2>3, <2>7
    <3>2. CASE cl[c].k > 2
      BY <2>1, <2>7, <3>1, <3>2 DEF AttachInv, AttachingInv
    <3>3. CASE cl[c].k = 2
      <4>1. t # "catalog"
        BY <2>1, <2>4, <2>5, <3>3
      <4>2. link["catalog"] = cl[c].map["catalog"]
        BY <2>1, <2>5, <2>7, <3>1 DEF AttachInv, AttachingInv
      <4> QED BY <2>1, <4>1, <4>2 DEF Listed, Linked
    <3> QED BY <2>3, <3>1, <3>2, <3>3
  <2>8. AttachingInv'
    <3> SUFFICES ASSUME NEW d \in Clients, cl'[d].pc = "attach", cl'[d].k > 1, ~overlap[d]
                 PROVE  /\ \A j \in 1 .. Len(Tables) : j < cl'[d].k =>
                             /\ link[Tables[j]] = cl'[d].map[Tables[j]]
                             /\ link[Tables[j]] # 0 /\ Linked(Tables[j]).init # 0
                        /\ cl'[d].k > 2 => Linked("catalog").listed # {}
      BY <1>1, <2>2 DEF AttachingInv, Linked
    <3>1. CASE d = c
      BY <2>6, <2>7, <3>1
    <3>2. CASE d # c
      BY <2>2, <3>2 DEF AttachInv, AttachingInv
    <3> QED BY <3>1, <3>2
  <2> QED BY <1>2, <2>8 DEF AttachInv
<1>5. CASE OpenFails(c)
  <2>1. /\ cl' = [cl EXCEPT ![c] = Waiting]
        /\ overlap' = [overlap EXCEPT ![c] = FALSE]
    BY <1>5 DEF OpenFails
  <2>2. \A d \in Clients : d # c => cl'[d] = cl[d] /\ overlap'[d] = overlap[d]
    BY <2>1 DEF TypeOK, ClientsOK
  <2>3. cl'[c].k = 1
    BY <2>1, WaitingType DEF TypeOK, ClientsOK
  <2> QED BY <1>2, <1>3, <2>2, <2>3 DEF AttachInv
<1>6. CASE Attached(c)
  <2>1. cl'[c].pc = "use" /\ \A d \in Clients : d # c => cl'[d] = cl[d]
    BY <1>6, AttachedEffect, Zenon
  <2>2. \A d \in Clients : d # c => overlap'[d] = overlap[d]
    BY <1>6 DEF Attached, TypeOK, ClientsOK
  <2> QED BY <1>2, <1>3, <2>1, <2>2 DEF AttachInv
<1> QED BY <1>4, <1>5, <1>6 DEF Attach

(* The history service's steps: it is attached, or starts again.           *)
LEMMA SampleMoves ==
  ASSUME TypeOK, Sample \/ StatementFails
  PROVE  /\ h.pc # "attach"
         /\ \A d \in Clients : d # History => cl'[d] = cl[d]
         /\ \/ cl'[History].pc = "attach" /\ cl'[History].k = 1
            \/ cl'[History].pc # "attach"
<1>1. \A d \in Clients : cl[d].pc \in {"attach", "use", "value", "insert"}
  BY DEF TypeOK, ClientsOK
<1>2. h.pc # "attach" /\ UNCHANGED overlap
  BY DEF Sample, SnapshotName, SnapshotValue, SnapshotAstray, Insert, Commit,
     StatementFails
<1>3. \/ UNCHANGED cl
      \/ cl' = [cl EXCEPT ![History] = Waiting]
      \/ \E pc \in {"use", "value", "insert"} : HistoryGoesTo(pc)
  BY DEF Sample, SnapshotName, SnapshotValue, SnapshotAstray, Insert, Commit,
     StatementFails
<1>4. CASE UNCHANGED cl
  BY <1>2, <1>4 DEF h
<1>5. CASE cl' = [cl EXCEPT ![History] = Waiting]
  BY <1>2, <1>5, WaitingType, HistoryAssumption DEF TypeOK, ClientsOK
<1>6. CASE \E pc \in {"use", "value", "insert"} : HistoryGoesTo(pc)
  BY <1>2, <1>6, HistoryGoes DEF HistoryAt
<1> QED BY <1>3, <1>4, <1>5, <1>6

LEMMA NextKeepsAttachInv == TypeOK /\ AttachInv /\ [Next]_vars => AttachInv'
<1> SUFFICES ASSUME TypeOK, AttachInv, [Next]_vars PROVE AttachInv'
  OBVIOUS
<1>1. CASE Start \/ CreateFails \/ Stop \/ Unlink \/ Crash
  BY <1>1, OthersKeepAttachInv
<1>2. CASE Create \/ InitHeader \/ List
  BY <1>2, CreateKeepsAttachInv, HeaderKeepsAttachInv, ListKeepsAttachInv
<1>3. CASE Name \/ Categorise \/ Invalidate \/ Assign
  <2>1. UNCHANGED <<link, cl, overlap, srv.map, srv.run>>
    BY <1>3, AssignEffect, Zenon
       DEF Name, Categorise, Invalidate, Assign, SetEntry, TypeOK, SrvOK
  <2>2. srv.pc \in Registering /\ srv'.pc \in Registering \cup {"run"}
    BY <1>3, Zenon DEF Name, Categorise, Invalidate, Assign, SetEntry, TypeOK, SrvOK, Registering
  <2> QED BY <1>3, <2>1, <2>2, HeadersKept, AttachInvKept
<1>4. ASSUME NEW c \in Clients, Attach(c)
      PROVE  AttachInv'
  BY <1>4, AttachKeepsAttachInv
<1>5. ASSUME NEW c \in Clients, WriteAstray(c) \/ \E p \in PointSet : Write(c, p)
      PROVE  AttachInv'
  <2>1. UNCHANGED <<link, cl, overlap, srv.map, srv.run, srv.pc, srv.k>>
    BY <1>5, Zenon DEF WriteAstray, Write
  <2> QED BY <1>5, <2>1, HeadersKept, AttachInvKept
<1>6. CASE Sample \/ StatementFails
  <2>1. UNCHANGED <<link, mem, srv, overlap>>
    BY <1>6, SampleKeepsTypes DEF memory
  <2>2. AttachingInv'
    BY <1>6, <2>1, SampleMoves DEF AttachInv, AttachingInv, Linked
  <2> QED BY <2>1, <2>2 DEF AttachInv, ServiceInv, CatalogInv, Linked
<1>7. CASE UNCHANGED vars
  BY <1>7 DEF vars, AttachInv, ServiceInv, CatalogInv, AttachingInv, Linked
<1> QED BY <1>1, <1>2, <1>3, <1>4, <1>5, <1>6, <1>7 DEF Next, Serve

LEMMA InitAttachInv == Init => AttachInv
<1> SUFFICES ASSUME Init PROVE AttachInv
  OBVIOUS
<1>1. srv.pc = "down" /\ link["catalog"] = 0
  BY TableFacts DEF Init, NoMap
<1>2. \A c \in Clients : ~(cl[c].k > 1)
  BY DEF Init, Waiting
<1> QED BY <1>1, <1>2
        DEF AttachInv, ServiceInv, CatalogInv, AttachingInv, Complete, Registering

(* Only Attached ends an attach.                                           *)
LEMMA OnlyAttachedEnds ==
  ASSUME TypeOK, [Next]_vars, NEW c \in Clients, cl[c].pc = "attach", cl'[c].pc = "use"
  PROVE  Attached(c)
<1>1. CASE Sample \/ StatementFails
  BY <1>1, SampleMoves DEF h
<1>2. ASSUME NEW d \in Clients, Attach(d)
      PROVE  Attached(c)
  <2>1. cl' = cl \/ d = c \/ cl'[c] = cl[c]
    BY <1>2 DEF Attach, Open, OpenFails, Attached, TypeOK, ClientsOK
  <2>2. d = c
    BY <2>1
  <2>3. ~Open(c)
    BY OpenEffect, Zenon
  <2>4. ~OpenFails(c)
    BY WaitingType DEF OpenFails, TypeOK, ClientsOK
  <2> QED BY <1>2, <2>2, <2>3, <2>4 DEF Attach
<1>3. CASE Serve \/ CreateFails \/ Stop \/ Crash
  <2>1. UNCHANGED cl
    BY <1>3, Zenon DEF Serve, Start, CreateFails, Create, InitHeader, List, Name, Categorise,
       Invalidate, Assign, SetEntry, Stop, Unlink, Crash
  <2> QED BY <2>1
<1>4. ASSUME NEW d \in Clients, WriteAstray(d) \/ \E p \in PointSet : Write(d, p)
      PROVE  Attached(c)
  BY <1>4, Zenon DEF WriteAstray, Write
<1>5. CASE UNCHANGED vars
  BY <1>5 DEF vars
<1> QED BY <1>1, <1>2, <1>3, <1>4, <1>5 DEF Next

(* An attach that no unlink and no zeroing disturbed maps tables with their *)
(* headers, all of one run (AttachIsWhole), for any number of tables,      *)
(* processes and runs: the service zeroes everything before the first      *)
(* header and lists nothing before the last.                               *)
THEOREM AttachMapsOneRun == Spec => AttachIsWhole
<1>1. TypeOK /\ AttachInv /\ [Next]_vars =>
        [\A c \in Clients :
           (Attaching(c, Len(Tables) + 1) /\ cl'[c].pc = "use" /\ ~overlap[c])
           => /\ ~cl'[c].skew
              /\ \E n \in Runs : \A t \in Names : mem[t][cl[c].map[t]].init = n]_vars
  <2> SUFFICES ASSUME TypeOK, AttachInv, [Next]_vars, NEW c \in Clients,
                      Attaching(c, Len(Tables) + 1), cl'[c].pc = "use", ~overlap[c]
               PROVE  /\ ~cl'[c].skew
                      /\ \E n \in Runs : \A t \in Names : mem[t][cl[c].map[t]].init = n
    OBVIOUS
  <2>1. /\ cl[c].pc = "attach" /\ cl[c].k = Len(Tables) + 1
        /\ Len(Tables) \in Nat /\ Len(Tables) >= 2
    BY TableFacts DEF Attaching
  <2>2. cl'[c].skew = \E t \in Names \ {"catalog"} : mem[t][cl[c].map[t]].init = 0
    BY <2>1, OnlyAttachedEnds, AttachedEffect, Zenon
  <2>3. \A j \in 1 .. Len(Tables) :
          /\ link[Tables[j]] = cl[c].map[Tables[j]]
          /\ link[Tables[j]] # 0 /\ Linked(Tables[j]).init # 0
    BY <2>1 DEF AttachInv, AttachingInv
  <2>4. Linked("catalog").listed # {}
    BY <2>1 DEF AttachInv, AttachingInv
  <2>5. \A t \in Names : /\ link[t] = cl[c].map[t] /\ link[t] # 0
                         /\ Linked(t).init # 0
    BY <2>3, TableFacts
  <2>6. PICK n : n = Linked("catalog").init
    OBVIOUS
  <2>7. \A t \in Names : mem[t][cl[c].map[t]].init = n
    BY <2>4, <2>5, <2>6, TableFacts DEF AttachInv, CatalogInv, Linked
  <2>8. n \in Runs
    <3>1. link["catalog"] \in Runs
      BY <2>5, TableFacts DEF TypeOK, Runs
    <3>2. mem["catalog"][link["catalog"]] \in CatalogObject
      BY <3>1, TableFacts DEF TypeOK, MemOK, ObjectOf
    <3>3. n \in 0 .. MaxRuns /\ n # 0
      BY <2>5, <2>6, <3>2, TableFacts DEF CatalogObject, Linked
    <3> QED BY <3>3, RunsAssumption DEF Runs
  <2>9. ~cl'[c].skew
    <3>1. n # 0
      BY <2>8 DEF Runs
    <3> QED BY <2>2, <2>7, <3>1
  <2> QED BY <2>7, <2>8, <2>9
<1>2. TypeOK /\ AttachInv /\ [Next]_vars => (TypeOK /\ AttachInv)'
  BY NextKeepsTypes, NextKeepsAttachInv
<1>3. Init => TypeOK /\ AttachInv
  BY InitTypes, InitAttachInv
<1> QED BY <1>1, <1>2, <1>3, PTL DEF Spec, AttachIsWhole

-----------------------------------------------------------------------------
(* The history's rows carry their own point's value.                       *)

(* The slot of the i-th point: its rank among those of its category.       *)
SlotOf(i) == CountTo(i, Category[Points[i]])

Entered(i) ==
  [point |-> Points[i], category |-> Category[Points[i]],
   slot |-> [c \in Cats |-> IF c = Category[Points[i]] THEN SlotOf(i) ELSE Invalid]]

(* A finished entry is the one of its row's point, and one in the making   *)
(* is finished at no stage before the last.                                *)
EntryInv ==
  /\ \A n \in Runs, i \in Rows :
       LET e == mem["point_index"][n].entry[i] IN Finished(e) => e = Entered(i)
  /\ srv.pc = "category" =>
       Index.entry[srv.k] = [FreeEntry EXCEPT !.point = Points[srv.k]]
  /\ srv.pc = "invalidate" =>
       Index.entry[srv.k] = [FreeEntry EXCEPT !.point = Points[srv.k],
                                              !.category = Category[Points[srv.k]]]
  /\ srv.pc = "assign" =>
       Index.entry[srv.k] = [point |-> Points[srv.k],
                             category |-> Category[Points[srv.k]],
                             slot |-> [c \in Cats |-> Invalid]]

(* A slot holds the value of the point it belongs to.                      *)
OwnedBy(c, s, x) ==
  x \in {Zero, Stray}
    \/ \E i \in Rows : Category[Points[i]] = c /\ SlotOf(i) = s /\ x = Points[i]

ValueInv ==
  \A c \in Cats, n \in Runs, s \in Rows : OwnedBy(c, s, mem[c][n].value[s])

LEMMA SlotsDiffer ==
  ASSUME NEW i \in Rows, NEW j \in Rows, Category[Points[i]] = Category[Points[j]],
         SlotOf(i) = SlotOf(j)
  PROVE  i = j
<1>1. ASSUME NEW a \in Rows, NEW b \in Rows, a < b,
             Category[Points[a]] = Category[Points[b]]
      PROVE  SlotOf(a) < SlotOf(b)
  <2> DEFINE c == Category[Points[b]]
             S(m) == {x \in 1 .. m : Category[Points[x]] = c}
  <2>1. c \in Cats /\ a \in Nat /\ b \in Nat /\ a <= b - 1 /\ b - 1 \in Nat
    BY <1>1, RowFacts DEF Rows
  <2>2. S(b - 1) \in SUBSET (1 .. (b - 1)) /\ S(a) \in SUBSET S(b - 1)
    BY <2>1
  <2>3. IsFiniteSet(S(b - 1))
    BY <2>1, <2>2, SubRange
  <2>4. Cardinality(S(a)) <= Cardinality(S(b - 1))
    BY <2>2, <2>3, FS_Subset
  <2>5. CountTo(a, c) <= CountTo(b - 1, c)
    BY <2>4 DEF CountTo
  <2>6. CountTo(b, c) = CountTo(b - 1, c) + 1 /\ CountTo(b - 1, c) \in 0 .. (b - 1)
    BY <2>1, CountFacts
  <2>7. CountTo(a, c) \in 0 .. a
    BY <2>1, CountFacts
  <2> QED BY <1>1, <2>5, <2>6, <2>7 DEF SlotOf
<1>2. SlotOf(i) \in Int /\ SlotOf(j) \in Int
  BY CountFacts, RowFacts DEF SlotOf
<1>3. i \in Nat /\ j \in Nat
  BY RowFacts DEF Rows
<1>4. ~(i < j)
  BY <1>1, <1>2
<1>5. ~(j < i)
  BY <1>1, <1>2
<1> QED BY <1>3, <1>4, <1>5

LEMMA Unfinished ==
  ASSUME NEW e \in EntryType, Rows # {},
         e.slot = [c \in Cats |-> 1] \/ e.slot = [c \in Cats |-> Invalid]
  PROVE  ~Finished(e)
<1>1. e.category \in Cats
  BY DEF EntryType
<1>2. 1 # Invalid
  BY RowFacts DEF Rows, Invalid
<1>3. PICK o \in Cats : o # e.category
  BY <1>1 DEF Cats
<1>4. CASE e.slot = [c \in Cats |-> 1]
  <2>1. e.slot[o] # Invalid
    BY <1>2, <1>4
  <2> QED BY <1>3, <2>1 DEF Finished
<1>5. CASE e.slot = [c \in Cats |-> Invalid]
  <2>1. e.slot[e.category] = Invalid
    BY <1>1, <1>5
  <2> QED BY <1>1, <2>1 DEF Finished
<1> QED BY <1>4, <1>5

LEMMA FreeEntryFacts ==
  /\ FreeEntry \in EntryType
  /\ FreeEntry.slot = [c \in Cats |-> 1]
BY DEF FreeEntry, EntryType, Id, Cats

(* The steps of rtdb_service outside of a registration.                    *)
Housekeeping ==
  \/ Start \/ Create \/ CreateFails \/ InitHeader \/ List \/ Stop \/ Unlink \/ Crash

LEMMA HousekeepingEffect ==
  ASSUME TypeOK, Housekeeping
  PROVE  /\ \A n \in Runs, i \in Rows :
              mem'["point_index"][n].entry[i]
                \in {mem["point_index"][n].entry[i], FreeEntry}
         /\ \A c \in Cats, n \in Runs, s \in Rows :
              mem'[c][n].value[s] \in {mem[c][n].value[s], Zero}
         /\ srv'.pc \notin {"category", "invalidate", "assign"}
<1>1. \A n \in Runs : mem["point_index"][n] \in IndexObject
  BY TableFacts DEF TypeOK, MemOK, ObjectOf
<1>2. \A c \in Cats, n \in Runs : mem[c][n] \in SlotObject
  BY TableFacts DEF TypeOK, MemOK, ObjectOf
<1>3. /\ \A c \in Cats : c \in Names /\ c # "catalog" /\ c # "point_index"
      /\ "point_index" \in Names
  BY TableFacts
<1>4. SrvOK /\ srv.k \in Nat
  BY DEF TypeOK, SrvOK
<1>5. CASE Start \/ CreateFails \/ Stop \/ Unlink \/ Crash
  <2>1. UNCHANGED mem
    BY <1>5, OtherServiceSteps
  <2>2. srv'.pc \in {"down", "create", "unlink"}
    <3>1. CASE Start
      BY <3>1 DEF Start
    <3>2. CASE CreateFails \/ Stop \/ Crash
      BY <1>4, <3>2, Zenon DEF CreateFails, Stop, Crash, SrvOK
    <3>3. CASE Unlink
      BY <1>4, <3>3 DEF Unlink, SrvOK
    <3> QED BY <1>5, <3>1, <3>2, <3>3
  <2> QED BY <2>1, <2>2
<1>6. CASE Create
  <2>1. PICK t \in Names, o \in Runs :
          \A u \in Names, m \in Runs :
            mem'[u][m] = IF u = t /\ m = o THEN Zeroed(t) ELSE mem[u][m]
    BY <1>6, CreateEffect, Zenon
  <2>2. srv'.pc \in {"create", "header"}
    BY <1>4, <1>6, CreateEffect, TableFacts DEF Create, SrvOK
  <2>3. \A i \in Rows : Zeroed("point_index").entry[i] = FreeEntry
    BY ZeroedIndex
  <2>4. \A c \in Cats, s \in Rows : Zeroed(c).value[s] = Zero
    BY <1>3 DEF Zeroed
  <2> QED BY <1>3, <2>1, <2>2, <2>3, <2>4
<1>7. CASE InitHeader
  <2>1. PICK t \in Names, o \in Runs :
          \A u \in Names, m \in Runs :
            mem'[u][m] = IF u = t /\ m = o
                         THEN [mem[t][o] EXCEPT !.init = srv.run] ELSE mem[u][m]
    BY <1>7, HeaderEffect, Zenon
  <2>2. srv'.pc \in {"header", "list"}
    <3>1. srv.k \in Nat /\ srv.k <= Len(Tables) /\ Len(Tables) \in Nat
      BY <1>4, <1>7, TableFacts DEF InitHeader, SrvOK
    <3>2. /\ srv.k < Len(Tables) => srv'.pc = "header"
          /\ srv.k = Len(Tables) => srv'.pc = "list"
      BY <1>7, HeaderEffect
    <3> QED BY <3>1, <3>2
  <2>3. \A n \in Runs : mem'["point_index"][n].entry = mem["point_index"][n].entry
    <3>1. TAKE n \in Runs
    <3>2. CASE t = "point_index" /\ n = o
      <4>1. mem'["point_index"][n] = [mem["point_index"][n] EXCEPT !.init = srv.run]
        BY <1>3, <2>1, <3>2
      <4> QED BY <1>1, <4>1 DEF IndexObject
    <3>3. CASE ~(t = "point_index" /\ n = o)
      BY <1>3, <2>1, <3>3
    <3> QED BY <3>2, <3>3
  <2>4. \A c \in Cats, n \in Runs : mem'[c][n].value = mem[c][n].value
    <3>1. TAKE c \in Cats, n \in Runs
    <3>2. CASE t = c /\ n = o
      <4>1. mem'[c][n] = [mem[c][n] EXCEPT !.init = srv.run]
        BY <1>3, <2>1, <3>2
      <4> QED BY <1>2, <4>1 DEF SlotObject
    <3>3. CASE ~(t = c /\ n = o)
      BY <1>3, <2>1, <3>3
    <3> QED BY <3>2, <3>3
  <2> QED BY <2>2, <2>3, <2>4
<1>8. CASE List
  <2>1. \A u \in Names, m \in Runs : u # "catalog" => mem'[u][m] = mem[u][m]
    BY <1>8, ListEffect, Zenon
  <2>2. srv'.pc \in {"list", "name", "run"}
    BY <1>4, <1>8, ListEffect, TableFacts DEF List, SrvOK
  <2> QED BY <1>3, <2>1, <2>2
<1> QED BY <1>5, <1>6, <1>7, <1>8 DEF Housekeeping

LEMMA HousekeepingKeepsEntries ==
  ASSUME TypeOK, EntryInv, ValueInv, Housekeeping
  PROVE  EntryInv' /\ ValueInv'
<1>1. ASSUME NEW n \in Runs, NEW i \in Rows,
             Finished(mem'["point_index"][n].entry[i])
      PROVE  mem'["point_index"][n].entry[i] = Entered(i)
  <2>1. ~Finished(FreeEntry)
    BY FreeEntryFacts, Unfinished
  <2>2. mem'["point_index"][n].entry[i] = mem["point_index"][n].entry[i]
    BY <1>1, <2>1, HousekeepingEffect
  <2> QED BY <1>1, <2>2 DEF EntryInv
<1>2. EntryInv'
  BY <1>1, HousekeepingEffect DEF EntryInv, Finished
<1>3. ValueInv'
  BY HousekeepingEffect DEF ValueInv, OwnedBy
<1> QED BY <1>2, <1>3

(* An entry in the making stays unfinished.                                *)
LEMMA SetEntryKeepsEntries ==
  ASSUME TypeOK, EntryInv, ValueInv, NEW pc \in Registering, NEW next \in Registering,
         NEW e \in EntryType, SetEntry(pc, next, e), ~Finished(e)
  PROVE  /\ \A n \in Runs, i \in Rows :
              LET f == mem'["point_index"][n].entry[i] IN Finished(f) => f = Entered(i)
         /\ Index'.entry[srv.k] = e
         /\ srv'.k = srv.k /\ srv'.pc = next
         /\ ValueInv'
<1>1. PICK n \in Runs :
        /\ n = srv.map["point_index"] /\ srv.k \in Rows
        /\ \A u \in Names, m \in Runs :
             mem'[u][m] = IF u = "point_index" /\ m = n
                          THEN [mem[u][m] EXCEPT !.entry[srv.k] = e] ELSE mem[u][m]
        /\ srv'.map = srv.map /\ srv'.k = srv.k /\ srv'.pc = next
  BY SetEntryEffect
<1>2. /\ \A m \in Runs : mem["point_index"][m] \in IndexObject
      /\ "point_index" \in Names
      /\ \A c \in Cats : c \in Names /\ c # "point_index"
  BY TableFacts, Zenon DEF TypeOK, MemOK, ObjectOf
<1>3. mem'["point_index"][n].entry = [mem["point_index"][n].entry EXCEPT ![srv.k] = e]
  <2>1. mem'["point_index"][n] = [mem["point_index"][n] EXCEPT !.entry[srv.k] = e]
    BY <1>1, <1>2
  <2> QED BY <1>2, <2>1 DEF IndexObject
<1>4. \A m \in Runs : m # n => mem'["point_index"][m] = mem["point_index"][m]
  BY <1>1, <1>2, Zenon
<1>5. mem["point_index"][n].entry \in [Rows -> EntryType]
  BY <1>2 DEF IndexObject
<1>6. ASSUME NEW m \in Runs, NEW i \in Rows, Finished(mem'["point_index"][m].entry[i])
      PROVE  mem'["point_index"][m].entry[i] = Entered(i)
  <2>1. ~(m = n /\ i = srv.k)
    BY <1>1, <1>3, <1>5, <1>6
  <2>2. mem'["point_index"][m].entry[i] = mem["point_index"][m].entry[i]
    BY <1>1, <1>3, <1>4, <1>5, <2>1
  <2> QED BY <1>6, <2>2 DEF EntryInv
<1>7. Index'.entry[srv.k] = e
  BY <1>1, <1>3, <1>5 DEF Index
<1>8. ValueInv'
  <2>1. \A c \in Cats, m \in Runs : mem'[c][m] = mem[c][m]
    BY <1>1, <1>2, Zenon
  <2> QED BY <2>1 DEF ValueInv, OwnedBy
<1> QED BY <1>1, <1>6, <1>7, <1>8

LEMMA RegistrationKeepsEntries ==
  ASSUME TypeOK, EntryInv, ValueInv, Name \/ Categorise \/ Invalidate
  PROVE  EntryInv' /\ ValueInv'
<1>1. srv.pc \in Registering
  BY DEF Name, Categorise, Invalidate, SetEntry, Registering
<1>2. /\ srv.k \in Rows /\ srv.map["point_index"] \in Runs
      /\ Points[srv.k] \in Id /\ Category[Points[srv.k]] \in Cats
  BY <1>1, TableFacts, RowFacts DEF TypeOK, SrvOK, Complete, Id
<1>3. {"name", "category", "invalidate", "assign"} = Registering
  BY DEF Registering
<1>4. CASE Name
  <2>1. PICK e : e = [FreeEntry EXCEPT !.point = Points[srv.k]]
    BY Zenon
  <2>2. e \in EntryType /\ SetEntry("name", "category", e)
    BY <1>1, <1>4, <2>1, EntriesHaveType DEF Name
  <2>3. e.slot = [c \in Cats |-> 1]
    BY <2>1, FreeEntryFacts DEF FreeEntry
  <2>4. ~Finished(e)
    BY <1>2, <2>2, <2>3, Unfinished
  <2>5. /\ \A n \in Runs, i \in Rows :
             LET f == mem'["point_index"][n].entry[i] IN Finished(f) => f = Entered(i)
        /\ Index'.entry[srv.k] = e
        /\ srv'.k = srv.k /\ srv'.pc = "category" /\ ValueInv'
    BY <1>3, <2>2, <2>4, SetEntryKeepsEntries
  <2> QED BY <2>1, <2>5 DEF EntryInv, Finished
<1>5. CASE Categorise
  <2>1. PICK e : e = [Index.entry[srv.k] EXCEPT !.category = Category[Points[srv.k]]]
    BY Zenon
  <2>2. e \in EntryType /\ SetEntry("category", "invalidate", e)
    BY <1>1, <1>5, <2>1, EntriesHaveType DEF Categorise
  <2>3. e = [FreeEntry EXCEPT !.point = Points[srv.k],
                              !.category = Category[Points[srv.k]]]
    BY <1>5, <2>1, Zenon DEF Categorise, SetEntry, EntryInv, FreeEntry
  <2>4. e.slot = [c \in Cats |-> 1]
    BY <2>3, FreeEntryFacts DEF FreeEntry
  <2>5. ~Finished(e)
    BY <1>2, <2>2, <2>4, Unfinished
  <2>6. /\ \A n \in Runs, i \in Rows :
             LET f == mem'["point_index"][n].entry[i] IN Finished(f) => f = Entered(i)
        /\ Index'.entry[srv.k] = e
        /\ srv'.k = srv.k /\ srv'.pc = "invalidate" /\ ValueInv'
    BY <1>3, <2>2, <2>5, SetEntryKeepsEntries
  <2> QED BY <2>3, <2>6 DEF EntryInv, Finished
<1>6. CASE Invalidate
  <2>1. PICK e : e = [Index.entry[srv.k] EXCEPT !.slot = [c \in Cats |-> Invalid]]
    BY Zenon
  <2>2. e \in EntryType /\ SetEntry("invalidate", "assign", e)
    BY <1>1, <1>6, <2>1, EntriesHaveType DEF Invalidate
  <2>3. e = [point |-> Points[srv.k], category |-> Category[Points[srv.k]],
             slot |-> [c \in Cats |-> Invalid]]
    BY <1>6, <2>1, Zenon DEF Invalidate, SetEntry, EntryInv, FreeEntry
  <2>4. ~Finished(e)
    BY <1>2, <2>2, <2>3, Unfinished
  <2>5. /\ \A n \in Runs, i \in Rows :
             LET f == mem'["point_index"][n].entry[i] IN Finished(f) => f = Entered(i)
        /\ Index'.entry[srv.k] = e
        /\ srv'.k = srv.k /\ srv'.pc = "assign" /\ ValueInv'
    BY <1>3, <2>2, <2>4, SetEntryKeepsEntries
  <2> QED BY <2>3, <2>5 DEF EntryInv, Finished
<1> QED BY <1>4, <1>5, <1>6

LEMMA AssignKeepsEntries ==
  ASSUME TypeOK, EntryInv, ValueInv, Assign
  PROVE  EntryInv' /\ ValueInv'
<1>1. PICK c \in Cats, n \in Runs, slot \in Nat, k \in Rows :
        /\ k = srv.k /\ c = Category[Points[k]] /\ n = srv.map["point_index"]
        /\ slot = Index.used[c] + 1
        /\ \A u \in Names, m \in Runs :
             mem'[u][m] =
               IF u = "point_index" /\ m = n
               THEN [mem[u][m] EXCEPT !.entry[srv.k].slot[c] = slot, !.used[c] = slot]
               ELSE IF u = c /\ m = srv.map[c]
               THEN [mem[u][m] EXCEPT !.value[slot] = Zero, !.rows = slot]
               ELSE mem[u][m]
  BY AssignEffect, ZenonT(60)
<1>2. srv.pc = "assign" /\ srv'.pc \in {"name", "run"}
  <2>1. k \in Nat /\ k <= Len(Points) /\ Len(Points) \in Nat
    BY RowFacts DEF Rows
  <2>2. /\ srv.k < Len(Points) => srv'.pc = "name"
        /\ srv.k = Len(Points) => srv'.pc = "run"
    BY AssignEffect, Zenon
  <2>3. k = srv.k
    BY <1>1, Zenon
  <2>4. srv.pc = "assign"
    BY Zenon DEF Assign
  <2> QED BY <2>1, <2>2, <2>3, <2>4
<1>3. /\ \A m \in Runs : mem["point_index"][m] \in IndexObject
      /\ \A d \in Cats, m \in Runs : mem[d][m] \in SlotObject
      /\ "point_index" \in Names
      /\ \A d \in Cats : d \in Names /\ d # "point_index"
  BY TableFacts DEF TypeOK, MemOK, ObjectOf
<1>4. slot = SlotOf(k)
  <2>1. Index.used[c] = CountTo(k - 1, c)
    BY <1>1, <1>2, Zenon DEF TypeOK, IndexOK, Registering
  <2>2. CountTo(k, c) = CountTo(k - 1, c) + 1
    BY <1>1, CountFacts, Zenon
  <2> QED BY <1>1, <2>1, <2>2, Zenon DEF SlotOf
<1>5. mem["point_index"][n].entry[k] =
        [point |-> Points[k], category |-> c, slot |-> [d \in Cats |-> Invalid]]
  BY <1>1, <1>2, Zenon DEF EntryInv, Index
<1>6. mem'["point_index"][n].entry =
        [mem["point_index"][n].entry EXCEPT
           ![k] = [mem["point_index"][n].entry[k] EXCEPT !.slot[c] = slot]]
  <2>1. mem'["point_index"][n] =
          [mem["point_index"][n] EXCEPT !.entry[srv.k].slot[c] = slot, !.used[c] = slot]
    <3>1. \A u \in Names, m \in Runs : u = "point_index" /\ m = n =>
            mem'[u][m] = [mem[u][m] EXCEPT !.entry[srv.k].slot[c] = slot, !.used[c] = slot]
      BY <1>1, ZenonT(60)
    <3>2. "point_index" \in Names /\ n \in Runs
      BY <1>3
    <3> QED BY <3>1, <3>2, ZenonT(60)
  <2>2. mem["point_index"][n] \in IndexObject
    BY <1>3
  <2>3. mem'["point_index"][n].entry =
          [mem["point_index"][n].entry EXCEPT ![srv.k].slot[c] = slot]
    BY <2>1, <2>2 DEF IndexObject
  <2>4. k = srv.k
    BY <1>1, Zenon
  <2> QED BY <2>3, <2>4
<1>7. mem["point_index"][n].entry \in [Rows -> EntryType]
  BY <1>3 DEF IndexObject
<1>8. mem'["point_index"][n].entry[k] = Entered(k)
  <2>1. [mem["point_index"][n].entry[k] EXCEPT !.slot[c] = slot] =
          [point |-> Points[k], category |-> c,
           slot |-> [[d \in Cats |-> Invalid] EXCEPT ![c] = slot]]
    BY <1>5
  <2>2. [[d \in Cats |-> Invalid] EXCEPT ![c] = slot] =
          [d \in Cats |-> IF d = c THEN slot ELSE Invalid]
    OBVIOUS
  <2>3. mem'["point_index"][n].entry[k] =
          [mem["point_index"][n].entry[k] EXCEPT !.slot[c] = slot]
    BY <1>6, <1>7
  <2>4. mem'["point_index"][n].entry[k] =
          [point |-> Points[k], category |-> c,
           slot |-> [d \in Cats |-> IF d = c THEN slot ELSE Invalid]]
    BY <2>1, <2>2, <2>3
  <2>5. c = Category[Points[k]]
    BY <1>1, Zenon
  <2> QED BY <1>4, <2>4, <2>5 DEF Entered
<1>9. ASSUME NEW m \in Runs, NEW i \in Rows, ~(m = n /\ i = k)
      PROVE  mem'["point_index"][m].entry[i] = mem["point_index"][m].entry[i]
  <2>1. CASE m = n
    BY <1>6, <1>7, <1>9, <2>1
  <2>2. CASE m # n
    BY <1>1, <1>3, <2>2, Zenon
  <2> QED BY <2>1, <2>2
<1>10. EntryInv'
  <2>1. ASSUME NEW m \in Runs, NEW i \in Rows, Finished(mem'["point_index"][m].entry[i])
        PROVE  mem'["point_index"][m].entry[i] = Entered(i)
    <3>1. CASE m = n /\ i = k
      BY <1>8, <3>1
    <3>2. CASE ~(m = n /\ i = k)
      BY <1>9, <2>1, <3>2 DEF EntryInv
    <3> QED BY <3>1, <3>2
  <2> QED BY <1>2, <2>1 DEF EntryInv, Finished
<1>11. ValueInv'
  <2>1. ASSUME NEW d \in Cats, NEW m \in Runs, NEW s \in Rows
        PROVE  mem'[d][m].value[s] \in {mem[d][m].value[s], Zero}
    <3>1. CASE d = c /\ m = srv.map[c]
      <4>1. mem'[d][m] = [mem[d][m] EXCEPT !.value[slot] = Zero, !.rows = slot]
        BY <1>1, <1>3, <3>1, Zenon
      <4>2. mem'[d][m].value = [mem[d][m].value EXCEPT ![slot] = Zero]
        BY <1>3, <4>1 DEF SlotObject
      <4>3. mem[d][m].value \in [Rows -> Slot]
        BY <1>3 DEF SlotObject
      <4> QED BY <4>2, <4>3
    <3>2. CASE ~(d = c /\ m = srv.map[c])
      BY <1>1, <1>3, <3>2, Zenon
    <3> QED BY <3>1, <3>2
  <2> QED BY <2>1 DEF ValueInv, OwnedBy
<1> QED BY <1>10, <1>11

(* A collector writes through a finished entry to the slot that is the     *)
(* point's own, and otherwise something that is no point's value.          *)
LEMMA WritesKeepEntries ==
  ASSUME TypeOK, EntryInv, ValueInv, NEW c \in Clients,
         WriteAstray(c) \/ \E p \in PointSet : Write(c, p)
  PROVE  EntryInv' /\ ValueInv'
<1>1. /\ UNCHANGED srv
      /\ cl[c].pc = "use"
  BY Zenon DEF WriteAstray, Write
<1>2. /\ \A d \in Cats, m \in Runs : mem[d][m] \in SlotObject
      /\ \A d \in Cats : d \in Names /\ d # "point_index"
      /\ "point_index" \in Names
      /\ mem \in [Names -> [Runs -> CatalogObject \cup IndexObject \cup SlotObject]]
      /\ cl[c].map["point_index"] \in Runs
      /\ \A d \in Cats : cl[c].map[d] \in Runs
  BY <1>1, TableFacts, Zenon DEF TypeOK, MemOK, ObjectOf, ClientsOK, ClientOK
<1>3. ASSUME NEW t \in Cats, NEW s, NEW x,
             mem' = [mem EXCEPT ![t][cl[c].map[t]].value[s] = x],
             s \in Rows => OwnedBy(t, s, x)
      PROVE  /\ \A m \in Runs : mem'["point_index"][m] = mem["point_index"][m]
             /\ ValueInv'
  <2>1. PICK n \in Runs : n = cl[c].map[t]
    BY <1>2
  <2>2. \A u \in Names, m \in Runs :
          mem'[u][m] = IF u = t /\ m = n
                       THEN [mem[u][m] EXCEPT !.value[s] = x] ELSE mem[u][m]
    BY <1>2, <1>3, <2>1
  <2>3. \A m \in Runs : mem'["point_index"][m] = mem["point_index"][m]
    BY <1>2, <2>2, Zenon
  <2>4. ASSUME NEW d \in Cats, NEW m \in Runs, NEW r \in Rows
        PROVE  OwnedBy(d, r, mem'[d][m].value[r])
    <3>1. CASE d = t /\ m = n
      <4>1. mem'[d][m].value = [mem[d][m].value EXCEPT ![s] = x]
        BY <1>2, <2>2, <3>1, Zenon DEF SlotObject
      <4>2. mem[d][m].value \in [Rows -> Slot]
        BY <1>2 DEF SlotObject
      <4>3. CASE r = s
        BY <1>3, <3>1, <4>1, <4>2, <4>3
      <4>4. CASE r # s
        BY <4>1, <4>2, <4>4 DEF ValueInv
      <4> QED BY <4>3, <4>4
    <3>2. CASE ~(d = t /\ m = n)
      <4>1. mem'[d][m] = mem[d][m]
        BY <1>2, <2>2, <3>2, Zenon
      <4> QED BY <4>1 DEF ValueInv
    <3> QED BY <3>1, <3>2
  <2> QED BY <2>3, <2>4 DEF ValueInv, OwnedBy
<1>4. ASSUME \A m \in Runs : mem'["point_index"][m] = mem["point_index"][m]
      PROVE  EntryInv'
  <2>1. srv.pc \in Registering => srv.map["point_index"] \in Runs
    BY TableFacts DEF TypeOK, SrvOK, Complete
  <2>2. srv.pc \in Registering => Index' = Index
    BY <1>1, <1>4, <2>1 DEF Index
  <2> QED BY <1>1, <1>4, <2>2 DEF EntryInv, Finished, Registering
<1>5. CASE WriteAstray(c)
  <2>1. PICK t \in Cats, i \in Rows :
          mem' = [mem EXCEPT ![t][cl[c].map[t]].value[i] = Stray]
    BY <1>5, Zenon DEF WriteAstray
  <2>2. OwnedBy(t, i, Stray)
    BY DEF OwnedBy
  <2> QED BY <1>3, <1>4, <2>1, <2>2, Zenon
<1>6. ASSUME NEW p \in PointSet, Write(c, p)
      PROVE  EntryInv' /\ ValueInv'
  <2>1. PICK i \in Rows :
          LET e == mem["point_index"][cl[c].map["point_index"]].entry[i]
              t == Category[p]
          IN /\ e.point = p
             /\ mem' = [mem EXCEPT ![t][cl[c].map[t]].value[e.slot[t]] =
                                     IF Finished(e) THEN p ELSE Stray]
    BY <1>6, Zenon DEF Write
  <2>2. PICK e : e = mem["point_index"][cl[c].map["point_index"]].entry[i]
    OBVIOUS
  <2>3. PICK t \in Cats : t = Category[p]
    BY PointsAssumption
  <2>4. PICK x : x = IF Finished(e) THEN p ELSE Stray
    OBVIOUS
  <2>5. e.point = p /\ mem' = [mem EXCEPT ![t][cl[c].map[t]].value[e.slot[t]] = x]
    BY <2>1, <2>2, <2>3, <2>4, Zenon
  <2>6. OwnedBy(t, e.slot[t], x)
    <3>1. CASE Finished(e)
      <4>1. e = Entered(i)
        BY <1>2, <2>2, <3>1 DEF EntryInv
      <4>2. p = Points[i] /\ t = Category[Points[i]] /\ e.slot[t] = SlotOf(i)
        BY <2>3, <2>5, <4>1 DEF Entered
      <4> QED BY <2>4, <3>1, <4>2 DEF OwnedBy
    <3>2. CASE ~Finished(e)
      BY <2>4, <3>2 DEF OwnedBy
    <3> QED BY <3>1, <3>2
  <2> QED BY <1>3, <1>4, <2>5, <2>6, Zenon
<1> QED BY <1>5, <1>6

-----------------------------------------------------------------------------
(* The snapshot                                                            *)

(* How many of the first m have the category, and so where the m-th's      *)
(* value is in its category's list.                                        *)
CountOf(cats, m, c) == Cardinality({j \in 1 .. m : cats[j] = c})

LEMMA CountOfFacts ==
  ASSUME NEW cats, NEW m \in Nat, NEW c
  PROVE  /\ CountOf(cats, m, c) \in 0 .. m
         /\ CountOf(cats, 0, c) = 0
         /\ CountOf(cats, m + 1, c) =
              CountOf(cats, m, c) + IF cats[m + 1] = c THEN 1 ELSE 0
<1> DEFINE S(k) == {j \in 1 .. k : cats[j] = c}
<1>1. S(m) \in SUBSET (1 .. m) /\ m + 1 \notin S(m)
  OBVIOUS
<1>2. IsFiniteSet(S(m)) /\ Cardinality(S(m)) \in 0 .. m
  BY <1>1, SubRange
<1>3. Cardinality(S(m) \cup {m + 1}) = Cardinality(S(m)) + 1
  BY <1>1, <1>2, FS_AddElement
<1>4. S(m + 1) = IF cats[m + 1] = c THEN S(m) \cup {m + 1} ELSE S(m)
  OBVIOUS
<1>5. S(0) = {}
  OBVIOUS
<1>6. Cardinality(S(0)) = 0
  BY <1>5, FS_EmptySet
<1> HIDE DEF S
<1>7. Cardinality(S(m + 1)) =
        Cardinality(S(m)) + IF cats[m + 1] = c THEN 1 ELSE 0
  <2>1. CASE cats[m + 1] = c
    BY <1>3, <1>4, <2>1, Zenon
  <2>2. CASE cats[m + 1] # c
    BY <1>2, <1>4, <2>2
  <2> QED BY <2>1, <2>2
<1> QED BY <1>2, <1>6, <1>7 DEF S, CountOf

LEMMA CountOfMonotone ==
  ASSUME NEW cats, NEW m \in Nat, NEW i \in 1 .. m, NEW c
  PROVE  CountOf(cats, i, c) <= CountOf(cats, m, c)
<1> DEFINE S(k) == {j \in 1 .. k : cats[j] = c}
<1>1. S(m) \in SUBSET (1 .. m) /\ S(i) \in SUBSET S(m)
  OBVIOUS
<1>2. IsFiniteSet(S(m))
  BY <1>1, SubRange
<1> QED BY <1>1, <1>2, FS_Subset DEF CountOf

LEMMA CountOfAgrees ==
  ASSUME NEW s, NEW t, NEW m \in Nat, \A j \in 1 .. m : s[j] = t[j], NEW c
  PROVE  CountOf(s, m, c) = CountOf(t, m, c)
<1>1. {j \in 1 .. m : s[j] = c} = {j \in 1 .. m : t[j] = c}
  OBVIOUS
<1> QED BY <1>1 DEF CountOf

LEMMA PositionIsCount ==
  \A i : Position(i) = CountOf(snap.cats, i, snap.cats[i])
BY DEF Position, CountOf

(* The rows whose value has been read.                                     *)
Filled == IF h.pc = "value" THEN Len(snap.ids) - 1 ELSE Len(snap.ids)

OwnOrNone(id, x) == x \in {id, Zero, Stray}

(* A snapshot that read no entry in the making has one value for every row *)
(* but the one it is at, in the list of the row's category and at the      *)
(* row's rank there.                                                       *)
SnapInv ==
  /\ h.pc # "insert" => tx = {}
  /\ h.pc = "attach" => snap = NoSnapshot
  /\ ~snap.half =>
       /\ h.pc = "value" =>
            /\ Len(snap.ids) >= 1
            /\ snap.ids[Len(snap.ids)] = Points[snap.row]
            /\ snap.cats[Len(snap.ids)] = Category[Points[snap.row]]
       /\ \A c \in Cats : Len(snap.values[c]) = CountOf(snap.cats, Filled, c)
       /\ \A i \in 1 .. Filled :
            LET c == snap.cats[i]
            IN OwnOrNone(snap.ids[i], snap.values[c][CountOf(snap.cats, i, c)])
       /\ \A r \in tx : OwnOrNone(r.point, r.value)

HistoryInv == EntryInv /\ ValueInv /\ SnapInv

LEMMA NoSnapshotInv ==
  snap = NoSnapshot /\ tx = {} /\ h.pc # "value" => SnapInv
<1> SUFFICES ASSUME snap = NoSnapshot, tx = {}, h.pc # "value" PROVE SnapInv
  OBVIOUS
<1>1. /\ snap.ids = <<>> /\ snap.cats = <<>> /\ \A c \in Cats : snap.values[c] = <<>>
  BY DEF NoSnapshot
<1>2. Filled = 0 /\ Len(<<>>) = 0
  BY <1>1 DEF Filled
<1>3. \A c \in Cats : CountOf(snap.cats, 0, c) = 0
  BY CountOfFacts
<1> QED BY <1>1, <1>2, <1>3 DEF SnapInv

LEMMA NameKeepsSnapInv ==
  ASSUME TypeOK, HistoryInv, SnapshotName
  PROVE  SnapInv'
<1>1. /\ snap \in Snapshot /\ Len(snap.ids) = Len(snap.cats) /\ tx = {}
      /\ h.pc = "use" /\ UNCHANGED <<tx, overlap>> /\ SnapInv
      /\ Len(snap.ids) \in Nat
  BY DEF TypeOK, SampleOK, HistoryInv, SnapInv, SnapshotName, Snapshot
<1>2. Filled = Len(snap.ids)
  BY <1>1 DEF Filled
<1>3. snap.row \in Nat \ {0} /\ Len(Points) \in Nat
  BY <1>1, RowFacts DEF Snapshot
<1>4. ASSUME UNCHANGED <<snap.ids, snap.cats, snap.values, snap.half>>,
             cl'[History].pc \in {"use", "insert"}
      PROVE  SnapInv'
  <2>1. Filled' = Filled
    BY <1>1, <1>2, <1>4 DEF Filled, h
  <2> QED BY <1>1, <1>4, <2>1 DEF SnapInv, h
<1>5. CASE snap.row > Len(Points)
  <2>1. HistoryGoesTo("insert") /\ snap' = [snap EXCEPT !.row = 1]
    BY <1>5 DEF SnapshotName
  <2>2. cl'[History].pc = "insert"
    BY <1>1, <2>1, HistoryGoes DEF HistoryAt
  <2> QED BY <1>1, <1>4, <2>1, <2>2, SnapshotMovesOn
<1>6. CASE snap.row <= Len(Points)
  <2>1. snap.row \in Rows /\ ~(snap.row > Len(Points))
    BY <1>3, <1>6 DEF Rows
  <2>2. Entry \in EntryType /\ h.map["point_index"] \in Runs
    BY <1>1, <2>1, EntryHasType
  <2>3. CASE Entry.point = None
    <3>1. UNCHANGED cl /\ snap' = [snap EXCEPT !.row = snap.row + 1]
      BY <2>1, <2>3 DEF SnapshotName
    <3>2. snap.row + 1 \in Nat \ {0}
      BY <1>3
    <3> QED BY <1>1, <1>4, <3>1, <3>2, SnapshotMovesOn DEF h
  <2>4. CASE Entry.point # None
    <3>1. PICK e : e = Entry
      OBVIOUS
    <3>2. /\ HistoryGoesTo("value")
          /\ snap' = [snap EXCEPT !.ids = Append(snap.ids, e.point),
                                  !.cats = Append(snap.cats, e.category),
                                  !.half = snap.half \/ ~Finished(e)]
      BY <2>1, <2>4, <3>1 DEF SnapshotName
    <3>3. cl'[History].pc = "value"
      BY <1>1, <3>2, HistoryGoes DEF HistoryAt
    <3>4. e.point \in Id /\ e.category \in Cats
      BY <2>2, <3>1 DEF EntryType
    <3>5. /\ snap'.ids = Append(snap.ids, e.point)
          /\ snap'.cats = Append(snap.cats, e.category)
          /\ snap'.half = (snap.half \/ ~Finished(e))
          /\ snap'.values = snap.values /\ snap'.row = snap.row
      BY <1>1, <3>2 DEF Snapshot
    <3>6. PICK m \in Nat : m = Len(snap.ids)
      BY <1>1
    <3>7. /\ Len(snap'.ids) = m + 1 /\ Len(snap'.cats) = m + 1
          /\ snap'.ids[m + 1] = e.point /\ snap'.cats[m + 1] = e.category
          /\ \A j \in 1 .. m : /\ snap'.ids[j] = snap.ids[j]
                               /\ snap'.cats[j] = snap.cats[j]
      BY <1>1, <3>4, <3>5, <3>6 DEF Snapshot
    <3>8. Filled' = m /\ Filled = m
      BY <1>2, <3>3, <3>6, <3>7 DEF Filled, h
    <3>9. ASSUME ~snap'.half
          PROVE  /\ Finished(e) /\ ~snap.half
                 /\ e.point = Points[snap.row] /\ e.category = Category[Points[snap.row]]
      <4>1. Finished(e) /\ ~snap.half
        BY <3>5, <3>9, Zenon
      <4>2. e = Entered(snap.row)
        BY <2>1, <2>2, <3>1, <4>1 DEF HistoryInv, EntryInv, Entry
      <4> QED BY <4>1, <4>2 DEF Entered
    <3>10. \A i \in 0 .. m : \A c : CountOf(snap'.cats, i, c) = CountOf(snap.cats, i, c)
      <4>1. TAKE i \in 0 .. m
      <4>2. TAKE c
      <4>3. i \in Nat /\ \A j \in 1 .. i : snap'.cats[j] = snap.cats[j]
        BY <3>7
      <4> QED BY <4>3, CountOfAgrees
    <3>11. ASSUME ~snap'.half
           PROVE  /\ \A c \in Cats : Len(snap'.values[c]) = CountOf(snap'.cats, m, c)
                  /\ \A i \in 1 .. m :
                       LET c == snap'.cats[i]
                       IN OwnOrNone(snap'.ids[i],
                                    snap'.values[c][CountOf(snap'.cats, i, c)])
      <4>1. \A c \in Cats : Len(snap.values[c]) = CountOf(snap.cats, m, c)
        BY <1>1, <3>8, <3>9, <3>11 DEF SnapInv
      <4>2. \A i \in 1 .. m :
              OwnOrNone(snap.ids[i],
                        snap.values[snap.cats[i]][CountOf(snap.cats, i, snap.cats[i])])
        BY <1>1, <3>8, <3>9, <3>11 DEF SnapInv
      <4> QED BY <3>5, <3>7, <3>10, <4>1, <4>2
    <3> QED BY <1>1, <3>3, <3>5, <3>7, <3>8, <3>9, <3>11 DEF SnapInv, h
  <2> QED BY <2>3, <2>4
<1> QED BY <1>3, <1>5, <1>6

LEMMA ValueKeepsSnapInv ==
  ASSUME TypeOK, HistoryInv, SnapshotValue
  PROVE  SnapInv'
<1>1. /\ snap \in Snapshot /\ Len(snap.ids) = Len(snap.cats) /\ tx = {}
      /\ h.pc = "value" /\ UNCHANGED <<tx, overlap>> /\ SnapInv
      /\ Len(snap.ids) \in Nat /\ snap.row \in Rows
  BY DEF TypeOK, SampleOK, HistoryInv, SnapInv, SnapshotValue, Snapshot
<1>2. Entry \in EntryType /\ h.map["point_index"] \in Runs
  BY <1>1, EntryHasType
<1>3. PICK e : e = Entry
  OBVIOUS
<1>4. PICK c \in Cats : c = e.category
  BY <1>2, <1>3 DEF EntryType
<1>5. CASE e.slot[c] = Invalid
  <2>1. cl' = [cl EXCEPT ![History] = Waiting] /\ snap' = NoSnapshot
    BY <1>3, <1>4, <1>5 DEF SnapshotValue
  <2>2. cl'[History].pc = "attach"
    BY <2>1, WaitingType, HistoryAssumption DEF TypeOK, ClientsOK
  <2>3. (snap = NoSnapshot /\ tx = {} /\ h.pc # "value" => SnapInv)'
    BY NoSnapshotInv, PTL
  <2>4. (snap = NoSnapshot /\ tx = {} /\ h.pc # "value")'
    BY <1>1, <2>1, <2>2 DEF h, NoSnapshot
  <2> QED BY <2>3, <2>4
<1>6. CASE e.slot[c] # Invalid
  <2>1. PICK x : x = mem[c][h.map[c]].value[e.slot[c]]
    OBVIOUS
  <2>2. /\ HistoryGoesTo("use")
        /\ snap' = [snap EXCEPT !.values[c] = Append(snap.values[c], x),
                                !.half = snap.half \/ ~Finished(e),
                                !.row = snap.row + 1]
    BY <1>3, <1>4, <1>6, <2>1, Zenon DEF SnapshotValue
  <2>3. cl'[History].pc = "use"
    BY <1>1, <2>2, HistoryGoes DEF HistoryAt
  <2>4. /\ UNCHANGED <<snap.ids, snap.cats>>
        /\ snap'.values = [snap.values EXCEPT ![c] = Append(snap.values[c], x)]
        /\ snap'.half = (snap.half \/ ~Finished(e))
    BY <1>1, <2>2 DEF Snapshot
  <2>5. SUFFICES ASSUME ~snap'.half
                 PROVE  /\ \A d \in Cats : Len(snap'.values[d]) =
                                             CountOf(snap.cats, Len(snap.ids), d)
                        /\ \A i \in 1 .. Len(snap.ids) :
                             LET d == snap.cats[i]
                             IN OwnOrNone(snap.ids[i],
                                          snap'.values[d][CountOf(snap.cats, i, d)])
    <3>1. Filled' = Len(snap.ids)
      BY <2>3, <2>4 DEF Filled, h
    <3> QED BY <1>1, <2>3, <2>4, <3>1, Zenon DEF SnapInv, h
  <2>6. PICK m \in Nat : m + 1 = Len(snap.ids)
    <3>1. Len(snap.ids) >= 1
      BY <1>1, <2>4, <2>5, Zenon DEF SnapInv
    <3>2. Len(snap.ids) - 1 \in Nat
      BY <1>1, <3>1
    <3> QED BY <1>1, <3>2
  <2>7. Filled = m /\ ~snap.half /\ Finished(e)
    <3>1. ~snap.half /\ Finished(e)
      BY <2>4, <2>5, Zenon
    <3>2. Len(snap.ids) - 1 = m
      BY <2>6
    <3> QED BY <1>1, <3>1, <3>2 DEF Filled
  <2>8. e = Entered(snap.row)
    BY <1>1, <1>2, <1>3, <2>7 DEF HistoryInv, EntryInv, Entry
  <2>9. /\ c = Category[Points[snap.row]] /\ e.slot[c] = SlotOf(snap.row)
        /\ snap.cats[m + 1] = c /\ snap.ids[m + 1] = Points[snap.row]
    <3>1. c = Category[Points[snap.row]] /\ e.slot[c] = SlotOf(snap.row)
      BY <1>4, <2>8 DEF Entered
    <3> QED BY <1>1, <2>6, <2>7, <3>1 DEF SnapInv
  <2>10. OwnOrNone(Points[snap.row], x)
    <3>1. h.map[c] \in Runs
      BY <1>1, HistoryAssumption, TableFacts, Zenon DEF TypeOK, ClientsOK, ClientOK, h
    <3>2. SlotOf(snap.row) \in Rows
      <4>1. e.slot[c] \in 1 .. Invalid
        BY <1>1, <1>3, EntryHasType
      <4> QED BY <1>6, <2>9, <4>1, RowFacts DEF Rows, Invalid
    <3>3. OwnedBy(c, SlotOf(snap.row), x)
      BY <2>1, <2>9, <3>1, <3>2 DEF HistoryInv, ValueInv
    <3>4. ASSUME NEW i \in Rows, Category[Points[i]] = c, SlotOf(i) = SlotOf(snap.row)
          PROVE  i = snap.row
      BY <1>1, <2>9, <3>4, SlotsDiffer
    <3> QED BY <3>3, <3>4 DEF OwnedBy, OwnOrNone
  <2>11. /\ \A d \in Cats : Len(snap.values[d]) = CountOf(snap.cats, m, d)
         /\ \A i \in 1 .. m :
              OwnOrNone(snap.ids[i],
                        snap.values[snap.cats[i]][CountOf(snap.cats, i, snap.cats[i])])
    BY <1>1, <2>7 DEF SnapInv
  <2>12. \A d : /\ CountOf(snap.cats, m + 1, d) =
                     CountOf(snap.cats, m, d) + IF c = d THEN 1 ELSE 0
                /\ CountOf(snap.cats, m, d) \in 0 .. m
    BY <2>9, CountOfFacts
  <2>13. snap.values \in [Cats -> Seq(Slot)] /\ snap.values[c] \in Seq(Slot)
    BY <1>1 DEF Snapshot
  <2>14. x \in Slot
    BY <2>10, <1>1, RowFacts DEF OwnOrNone, Slot
  <2>15. /\ Len(snap'.values[c]) = Len(snap.values[c]) + 1
         /\ snap'.values[c][Len(snap.values[c]) + 1] = x
         /\ \A k \in 1 .. Len(snap.values[c]) : snap'.values[c][k] = snap.values[c][k]
         /\ \A d \in Cats : d # c => snap'.values[d] = snap.values[d]
    BY <2>4, <2>13, <2>14
  <2>16. ASSUME NEW d \in Cats
         PROVE  Len(snap'.values[d]) = CountOf(snap.cats, Len(snap.ids), d)
    <3>1. CASE d = c
      BY <2>6, <2>11, <2>12, <2>15, <3>1
    <3>2. CASE d # c
      BY <2>6, <2>11, <2>12, <2>15, <3>2
    <3> QED BY <3>1, <3>2
  <2>17. ASSUME NEW i \in 1 .. Len(snap.ids), NEW d, d = snap.cats[i]
         PROVE  OwnOrNone(snap.ids[i], snap'.values[d][CountOf(snap.cats, i, d)])
    <3>1. CASE i = m + 1
      BY <2>9, <2>10, <2>11, <2>12, <2>15, <2>17, <3>1, Zenon
    <3>2. CASE i # m + 1
      <4>1. i \in 1 .. m
        BY <2>6, <3>2
      <4>2. OwnOrNone(snap.ids[i], snap.values[d][CountOf(snap.cats, i, d)])
        BY <2>11, <2>17, <4>1
      <4>3. d \in Cats
        BY <1>1, <2>17 DEF Snapshot
      <4>4. CASE d # c
        BY <2>15, <4>2, <4>3, <4>4
      <4>5. CASE d = c
        <5>1. PICK k : k = CountOf(snap.cats, i, d)
          OBVIOUS
        <5>2. i - 1 \in Nat /\ (i - 1) + 1 = i
          BY <4>1
        <5>3. k \in Nat /\ k >= 1
          <6>1. CountOf(snap.cats, (i - 1) + 1, d) =
                  CountOf(snap.cats, i - 1, d) + IF snap.cats[(i - 1) + 1] = d THEN 1 ELSE 0
            BY <5>2, CountOfFacts, Zenon
          <6>2. CountOf(snap.cats, i - 1, d) \in 0 .. (i - 1)
            BY <5>2, CountOfFacts
          <6> QED BY <2>17, <5>1, <5>2, <6>1, <6>2
        <5>4. k <= Len(snap.values[c])
          BY <2>11, <4>1, <4>5, <5>1, CountOfMonotone
        <5>5. k \in 1 .. Len(snap.values[c])
          BY <2>13, <5>3, <5>4
        <5> QED BY <2>15, <4>2, <4>5, <5>1, <5>5
      <4> QED BY <4>4, <4>5
    <3> QED BY <3>1, <3>2
  <2> QED BY <2>16, <2>17
<1> QED BY <1>5, <1>6

LEMMA InsertKeepsSnapInv ==
  ASSUME TypeOK, HistoryInv, Insert
  PROVE  SnapInv'
<1>1. /\ snap \in Snapshot /\ Len(snap.ids) = Len(snap.cats) /\ SnapInv
      /\ h.pc = "insert" /\ UNCHANGED cl /\ snap.row <= Len(snap.ids)
      /\ snap' = [snap EXCEPT !.row = snap.row + 1]
  BY DEF TypeOK, SampleOK, HistoryInv, Insert
<1>2. snap.row \in Nat \ {0} /\ snap.row + 1 \in Nat \ {0} /\ Len(snap.ids) \in Nat
  BY <1>1 DEF Snapshot
<1>3. UNCHANGED <<snap.ids, snap.cats, snap.values, snap.half>>
  BY <1>1, <1>2, SnapshotMovesOn
<1>4. Filled = Len(snap.ids) /\ Filled' = Filled
  BY <1>1, <1>3 DEF Filled, h
<1>5. PICK i \in 1 .. Len(snap.ids) : i = snap.row
  BY <1>1, <1>2
<1>6. PICK x : x = snap.values[snap.cats[i]][Position(i)]
  OBVIOUS
<1>7. tx' = tx \/ tx' = tx \cup {[point |-> snap.ids[i], value |-> x]}
  BY <1>5, <1>6 DEF Insert, ValuesOf
<1>8. ~snap.half => OwnOrNone(snap.ids[i], x)
  BY <1>1, <1>4, <1>6, PositionIsCount DEF SnapInv
<1>9. ~snap.half => \A r \in tx' : OwnOrNone(r.point, r.value)
  BY <1>1, <1>7, <1>8 DEF SnapInv
<1> QED BY <1>1, <1>3, <1>4, <1>9 DEF SnapInv, h

LEMMA SampleKeepsSnapInv ==
  ASSUME TypeOK, HistoryInv, Sample \/ StatementFails
  PROVE  SnapInv'
<1>1. (snap = NoSnapshot /\ tx = {} /\ h.pc # "value" => SnapInv)'
  BY NoSnapshotInv, PTL
<1>2. CASE SnapshotAstray
  <2>1. /\ h.pc = "use" /\ HistoryGoesTo("insert") /\ UNCHANGED <<tx, overlap>>
        /\ snap' = [NoSnapshot EXCEPT !.ids = <<None>>, !.cats = <<"telemetry">>,
                                      !.values["telemetry"] = <<Stray>>, !.half = TRUE]
    BY <1>2 DEF SnapshotAstray
  <2>2. cl'[History].pc = "insert"
    BY <2>1, HistoryGoes DEF HistoryAt
  <2>3. snap'.half
    BY <2>1 DEF NoSnapshot
  <2> QED BY <2>2, <2>3 DEF SnapInv, h
<1>3. CASE Commit
  <2>1. /\ h.pc = "insert" /\ HistoryGoesTo("use") /\ UNCHANGED overlap
        /\ tx' = {} /\ snap' = NoSnapshot
    BY <1>3 DEF Commit
  <2>2. cl'[History].pc = "use"
    BY <2>1, HistoryGoes DEF HistoryAt
  <2> QED BY <1>1, <2>1, <2>2 DEF h
<1>4. CASE StatementFails
  <2>1. cl' = [cl EXCEPT ![History] = Waiting] /\ tx' = {} /\ snap' = NoSnapshot
    BY <1>4 DEF StatementFails
  <2>2. cl'[History].pc = "attach"
    BY <2>1, WaitingType, HistoryAssumption DEF TypeOK, ClientsOK
  <2> QED BY <1>1, <2>1, <2>2 DEF h
<1> QED BY <1>2, <1>3, <1>4, NameKeepsSnapInv, ValueKeepsSnapInv, InsertKeepsSnapInv
        DEF Sample

LEMMA NextKeepsHistoryInv == TypeOK /\ HistoryInv /\ [Next]_vars => HistoryInv'
<1> SUFFICES ASSUME TypeOK, HistoryInv, [Next]_vars PROVE HistoryInv'
  OBVIOUS
<1>1. EntryInv /\ ValueInv /\ SnapInv
  BY DEF HistoryInv
<1>2. ASSUME UNCHANGED <<cl, snap, tx>>
      PROVE  SnapInv'
  BY <1>1, <1>2 DEF SnapInv, Filled, h
<1>3. ASSUME UNCHANGED <<mem, srv>>
      PROVE  EntryInv' /\ ValueInv'
  BY <1>1, <1>3 DEF EntryInv, ValueInv, Index
<1>4. CASE Serve \/ CreateFails \/ Stop \/ Crash
  <2>1. UNCHANGED <<cl, snap, tx>>
    BY <1>4, Zenon DEF Serve, Start, CreateFails, Create, InitHeader, List, Name, Categorise,
       Invalidate, Assign, SetEntry, Stop, Unlink, Crash, history
  <2>2. EntryInv' /\ ValueInv'
    BY <1>1, <1>4, HousekeepingKeepsEntries, RegistrationKeepsEntries, AssignKeepsEntries
       DEF Serve, Housekeeping
  <2> QED BY <1>2, <2>1, <2>2 DEF HistoryInv
<1>5. ASSUME NEW c \in Clients, Attach(c)
      PROVE  HistoryInv'
  <2>1. UNCHANGED <<mem, srv, snap, tx>>
    BY <1>5 DEF Attach, Open, OpenFails, Attached, memory, history
  <2>2. CASE cl'[History] = cl[History]
    BY <1>1, <1>3, <2>1, <2>2 DEF HistoryInv, SnapInv, Filled, h
  <2>3. CASE cl'[History] # cl[History]
    <3>1. c = History
      BY <1>5, <2>3, HistoryAssumption
         DEF Attach, Open, OpenFails, Attached, TypeOK, ClientsOK
    <3>2. h.pc = "attach"
      BY <1>5, <3>1 DEF Attach, Open, OpenFails, Attached, Attaching, h
    <3>3. snap = NoSnapshot /\ tx = {}
      BY <1>1, <3>2 DEF SnapInv
    <3>4. (snap = NoSnapshot /\ tx = {} /\ h.pc # "value" => SnapInv)'
      BY NoSnapshotInv, PTL
    <3>5. cl'[History].pc # "value"
      BY <1>5, <2>3, AttachKeepsTypes
    <3> QED BY <1>3, <2>1, <3>3, <3>4, <3>5 DEF HistoryInv, h
  <2> QED BY <2>2, <2>3
<1>6. ASSUME NEW c \in Clients, WriteAstray(c) \/ \E p \in PointSet : Write(c, p)
      PROVE  HistoryInv'
  <2>1. UNCHANGED <<cl, snap, tx>>
    BY <1>6, Zenon DEF WriteAstray, Write, history
  <2> QED BY <1>1, <1>2, <1>6, <2>1, WritesKeepEntries DEF HistoryInv
<1>7. CASE Sample \/ StatementFails
  <2>1. UNCHANGED <<mem, srv>>
    BY <1>7, SampleKeepsTypes DEF memory
  <2> QED BY <1>3, <1>7, <2>1, SampleKeepsSnapInv DEF HistoryInv
<1>8. CASE UNCHANGED vars
  BY <1>2, <1>3, <1>8 DEF vars, HistoryInv
<1> QED BY <1>4, <1>5, <1>6, <1>7, <1>8 DEF Next

LEMMA InitHistoryInv == Init => HistoryInv
<1> SUFFICES ASSUME Init PROVE HistoryInv
  OBVIOUS
<1>1. \A t \in Names, n \in Runs : mem[t][n] = Zeroed(t)
  BY DEF Init
<1>2. EntryInv
  <2>1. \A n \in Runs, i \in Rows : mem["point_index"][n].entry[i] = FreeEntry
    BY <1>1, ZeroedIndex, TableFacts
  <2>2. Rows # {} => ~Finished(FreeEntry)
    BY FreeEntryFacts, Unfinished
  <2>3. srv.pc = "down"
    BY DEF Init
  <2> QED BY <2>1, <2>2, <2>3 DEF EntryInv
<1>3. ValueInv
  <2>1. \A c \in Cats, n \in Runs, s \in Rows : mem[c][n].value[s] = Zero
    BY <1>1, TableFacts DEF Zeroed
  <2> QED BY <2>1 DEF ValueInv, OwnedBy
<1>4. SnapInv
  <2>1. h.pc # "value"
    BY WaitingType, HistoryAssumption DEF Init, h
  <2> QED BY <2>1, NoSnapshotInv DEF Init
<1> QED BY <1>2, <1>3, <1>4 DEF HistoryInv

(* A row of the history carries the value of its own point                 *)
(* (HistoryRowsAreOwn), for any points and any number of processes and     *)
(* runs, once the snapshot read no entry in the making.                    *)
THEOREM HistoryPairsNamesAndValues == Spec => []HistoryRowsAreOwn
<1>1. HistoryInv => HistoryRowsAreOwn
  BY DEF HistoryInv, SnapInv, OwnOrNone, HistoryRowsAreOwn
<1>2. TypeOK /\ HistoryInv /\ [Next]_vars => (TypeOK /\ HistoryInv)'
  BY NextKeepsTypes, NextKeepsHistoryInv
<1>3. Init => TypeOK /\ HistoryInv
  BY InitTypes, InitHistoryInv
<1> QED BY <1>1, <1>2, <1>3, PTL DEF Spec

=============================================================================
