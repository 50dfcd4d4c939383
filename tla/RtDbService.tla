---------------------------- MODULE RtDbService ----------------------------
(***************************************************************************)
(* The life of the shared tables: rtdb_service creates them, registers the *)
(* configured points and unlinks them when it stops (RtDb::create,         *)
(* register_point, ~RtDb); the other processes attach to them              *)
(* (RtDb::attach) and never again; the history service samples them        *)
(* (RtDb::snapshot) into PostgreSQL (HistoryWriter), and a collector writes *)
(* to them.                                                                *)
(*                                                                         *)
(* A table is a shared memory object with a name.  The object made by the  *)
(* n-th run of rtdb_service under a name is <<name, n>>: it outlives its   *)
(* name as long as a process maps it, and a run that finds the name of a   *)
(* crashed one takes its object and zeroes it.  Stores of rtdb_service are *)
(* seen by the others in program order.  The configuration does not change *)
(* between runs, so capacities suffice (count_rtdb_capacity) and a point   *)
(* keeps its row.  A slot's value is the point it was written for.         *)
(***************************************************************************)
EXTENDS Integers, Sequences, FiniteSets

CONSTANTS
  Tables,      (* the tables' names in the order of their creation          *)
  Points,      (* the configured points in their order                      *)
  Category,    (* the table of each point's value                           *)
  Clients,     (* the processes that attach                                 *)
  History,     (* the one that samples; the others write                    *)
  None,        (* no point                                                  *)
  Zero, Stray, (* a value never written; one written through a half-made entry *)
  MaxRuns      (* bound: runs of rtdb_service                               *)

Cats == {"telemetry", "teleindication"}
Runs == 1 .. MaxRuns
Rows == 1 .. Len(Points)
Invalid == Len(Points) + 1    \* kInvalidSlotIndex

Names == {Tables[k] : k \in 1 .. Len(Tables)}
PointSet == {Points[i] : i \in Rows}

ASSUME TablesAssumption ==
  /\ Tables \in Seq(STRING)
  /\ \A j, k \in 1 .. Len(Tables) : Tables[j] = Tables[k] => j = k
  /\ Tables[1] = "catalog"
  /\ Cats \cup {"point_index"} \subseteq {Tables[k] : k \in 2 .. Len(Tables)}
ASSUME PointsAssumption ==
  /\ Points \in Seq(PointSet)
  /\ Category \in [PointSet -> Cats]
ASSUME HistoryAssumption == History \in Clients
ASSUME RunsAssumption == MaxRuns \in Nat

VARIABLES
  link,     (* the run whose object a name leads to; 0: no such name        *)
  mem,      (* the objects                                                  *)
  srv,      (* rtdb_service                                                 *)
  cl,       (* the attached processes                                       *)
  overlap,  (* auxiliary: a name was taken away or an object zeroed while   *)
            (* the process was attaching                                    *)
  snap,     (* the history service's snapshot                               *)
  tx        (* the rows of its transaction                                  *)

vars == <<link, mem, srv, cl, overlap, snap, tx>>
memory == <<link, mem>>
history == <<snap, tx>>

FreeEntry ==
  [point |-> None, category |-> "telemetry", slot |-> [c \in Cats |-> 1]]

(* A zeroed object: no header, and what follows it.  Rows are counted from *)
(* 1, so the zero of a fresh slot index reads as 1.                        *)
Zeroed(t) ==
  IF t = "catalog" THEN [init |-> 0, listed |-> {}]
  ELSE IF t = "point_index"
  THEN [init |-> 0, entry |-> [i \in Rows |-> FreeEntry],
        used |-> [c \in Cats |-> 0]]
  ELSE [init |-> 0, rows |-> 0, value |-> [i \in Rows |-> Zero]]

NoMap == [t \in Names |-> 0]
(* A process that has been started and tries to attach.                    *)
Waiting == [pc |-> "attach", k |-> 1, map |-> NoMap, skew |-> FALSE]
NoSnapshot ==
  [ids |-> <<>>, cats |-> <<>>, values |-> [c \in Cats |-> <<>>],
   half |-> FALSE, row |-> 1]

Init ==
  /\ link = NoMap
  /\ mem = [t \in Names |-> [n \in Runs |-> Zeroed(t)]]
  /\ srv = [pc |-> "down", k |-> 1, run |-> 0, map |-> NoMap]
  /\ cl = [c \in Clients |-> Waiting]
  /\ overlap = [c \in Clients |-> FALSE]
  /\ snap = NoSnapshot
  /\ tx = {}

-----------------------------------------------------------------------------
(* rtdb_service                                                            *)

Start ==
  /\ srv.pc = "down"
  /\ srv.run < MaxRuns
  /\ srv' = [pc |-> "create", k |-> 1, run |-> srv.run + 1, map |-> NoMap]
  /\ UNCHANGED <<memory, cl, overlap, history>>

(* The service goes through the tables, then on to pc.                     *)
NextTable(pc) ==
  IF srv.k < Len(Tables) THEN [srv EXCEPT !.k = @ + 1]
                         ELSE [srv EXCEPT !.k = 1, !.pc = pc]

Disturbed ==
  overlap' = [c \in Clients |->
                overlap[c] \/ (cl[c].pc = "attach" /\ cl[c].k > 1)]

(* A slip: an object that is there is taken as it is.                      *)
CreateWithoutMemset ==
  /\ srv.pc = "create"
  /\ LET t == Tables[srv.k]
         n == IF link[t] = 0 THEN srv.run ELSE link[t]
     IN /\ link' = [link EXCEPT ![t] = n]
        /\ srv' = [NextTable("header") EXCEPT !.map[t] = n]
        /\ IF link[t] = 0 THEN UNCHANGED overlap ELSE Disturbed
  /\ UNCHANGED <<mem, cl, history>>

(* create_segment: shm_open with O_CREAT and without O_EXCL, then memset.  *)
Create ==
  /\ srv.pc = "create"
  /\ LET t == Tables[srv.k]
         n == IF link[t] = 0 THEN srv.run ELSE link[t]
     IN /\ link' = [link EXCEPT ![t] = n]
        /\ mem' = [mem EXCEPT ![t][n] = Zeroed(t)]
        /\ srv' = [NextTable("header") EXCEPT !.map[t] = n]
        /\ IF link[t] = 0 THEN UNCHANGED overlap ELSE Disturbed
  /\ UNCHANGED <<cl, history>>

CreateFails ==
  /\ srv.pc = "create"
  /\ srv' = [srv EXCEPT !.pc = "unlink", !.k = Len(Tables)]
  /\ UNCHANGED <<memory, cl, overlap, history>>

InitHeader ==
  /\ srv.pc = "header"
  /\ LET t == Tables[srv.k]
     IN mem' = [mem EXCEPT ![t][srv.map[t]].init = srv.run]
  /\ srv' = NextTable("list")
  /\ UNCHANGED <<link, cl, overlap, history>>

(* populate_catalog_entry, after every header is in place.                 *)
List ==
  /\ srv.pc = "list"
  /\ mem' = [mem EXCEPT !["catalog"][srv.map["catalog"]].listed =
                          @ \cup {Tables[srv.k]}]
  /\ srv' = NextTable(IF Points = <<>> THEN "run" ELSE "name")
  /\ UNCHANGED <<link, cl, overlap, history>>

(* register_point writes an entry field by field: the name, the category,  *)
(* no slot, and then the slot.                                             *)
SetEntry(pc, next, e) ==
  /\ srv.pc = pc
  /\ mem' = [mem EXCEPT !["point_index"][srv.map["point_index"]].entry[srv.k] = e]
  /\ srv' = [srv EXCEPT !.pc = next]
  /\ UNCHANGED <<link, cl, overlap, history>>

Index == mem["point_index"][srv.map["point_index"]]

Name == SetEntry("name", "category", [FreeEntry EXCEPT !.point = Points[srv.k]])

Categorise ==
  SetEntry("category", "invalidate",
           [Index.entry[srv.k] EXCEPT !.category = Category[Points[srv.k]]])

Invalidate ==
  SetEntry("invalidate", "assign",
           [Index.entry[srv.k] EXCEPT !.slot = [c \in Cats |-> Invalid]])

Assign ==
  /\ srv.pc = "assign"
  /\ LET c == Category[Points[srv.k]]
         i == srv.map["point_index"]
         slot == Index.used[c] + 1
     IN mem' = [mem EXCEPT
                  !["point_index"][i] = [@ EXCEPT !.entry[srv.k].slot[c] = slot,
                                                  !.used[c] = slot],
                  ![c][srv.map[c]] = [@ EXCEPT !.value[slot] = Zero,
                                               !.rows = slot]]
  /\ srv' = IF srv.k < Len(Points) THEN [srv EXCEPT !.k = @ + 1, !.pc = "name"]
                                   ELSE [srv EXCEPT !.k = 1, !.pc = "run"]
  /\ UNCHANGED <<link, cl, overlap, history>>

Stop ==
  /\ srv.pc = "run"
  /\ srv' = [srv EXCEPT !.pc = "unlink", !.k = Len(Tables)]
  /\ UNCHANGED <<memory, cl, overlap, history>>

(* ~RtDb unlinks the names from the last to the catalog's.                 *)
Unlink ==
  /\ srv.pc = "unlink"
  /\ link' = [link EXCEPT ![Tables[srv.k]] = 0]
  /\ srv' = IF srv.k > 1 THEN [srv EXCEPT !.k = @ - 1]
            ELSE [srv EXCEPT !.pc = "down", !.k = 1, !.map = NoMap]
  /\ Disturbed
  /\ UNCHANGED <<mem, cl, history>>

Crash ==
  /\ srv.pc # "down"
  /\ srv' = [srv EXCEPT !.pc = "down", !.k = 1, !.map = NoMap]
  /\ UNCHANGED <<memory, cl, overlap, history>>

-----------------------------------------------------------------------------
(* RtDb::attach                                                            *)

Attaching(c, k) == cl[c].pc = "attach" /\ cl[c].k = k

(* shm_attach_region: a name that leads to an object with a header.        *)
Openable(t) == link[t] # 0 /\ mem[t][link[t]].init # 0

(* A slip of find_catalog_entry: the last entry is never looked at.        *)
ListedBeforeLast(c, t) ==
  /\ t # Tables[Len(Tables)]
  /\ t # "catalog" => t \in mem["catalog"][cl[c].map["catalog"]].listed

Listed(c, t) ==
  t # "catalog" => t \in mem["catalog"][cl[c].map["catalog"]].listed

Open(c) ==
  /\ cl[c].pc = "attach"
  /\ cl[c].k <= Len(Tables)
  /\ LET t == Tables[cl[c].k]
     IN /\ Listed(c, t)
        /\ Openable(t)
        /\ cl' = [cl EXCEPT ![c].map[t] = link[t], ![c].k = @ + 1]
  /\ UNCHANGED <<memory, srv, overlap, history>>

(* The attempt is given up, what it mapped is released, and it is made     *)
(* again 2 s later.                                                        *)
OpenFails(c) ==
  /\ cl[c].pc = "attach"
  /\ cl[c].k <= Len(Tables)
  /\ LET t == Tables[cl[c].k] IN ~(Listed(c, t) /\ Openable(t))
  /\ cl' = [cl EXCEPT ![c] = Waiting]
  /\ overlap' = [overlap EXCEPT ![c] = FALSE]
  /\ UNCHANGED <<memory, srv, history>>

(* The addresses of the rows are computed from the headers' header_size.   *)
Attached(c) ==
  /\ Attaching(c, Len(Tables) + 1)
  /\ cl' = [cl EXCEPT ![c].pc = "use", ![c].k = 1,
              ![c].skew = \E t \in Names \ {"catalog"} :
                             mem[t][cl[c].map[t]].init = 0]
  /\ overlap' = [overlap EXCEPT ![c] = FALSE]
  /\ UNCHANGED <<memory, srv, history>>

-----------------------------------------------------------------------------
(* A collector: write_telemetry and write_teleindication                   *)

Finished(e) ==
  \A c \in Cats : (e.slot[c] # Invalid) <=> (c = e.category)

(* The value goes where the entry says, also while the entry is being made.*)
Write(c, p) ==
  /\ c # History
  /\ cl[c].pc = "use"
  /\ ~cl[c].skew
  /\ \E i \in Rows :
       LET e == mem["point_index"][cl[c].map["point_index"]].entry[i]
           t == Category[p]
           n == cl[c].map[t]
       IN /\ e.point = p
          /\ e.slot[t] # Invalid
          /\ e.slot[t] <= mem[t][n].rows
          /\ mem' = [mem EXCEPT ![t][n].value[e.slot[t]] =
                                  IF Finished(e) THEN p ELSE Stray]
  /\ UNCHANGED <<link, srv, cl, overlap, history>>

(* Rows taken for where they are not: the write lands in some slot.        *)
WriteAstray(c) ==
  /\ c # History
  /\ cl[c].pc = "use"
  /\ cl[c].skew
  /\ \E t \in Cats, i \in Rows :
       mem' = [mem EXCEPT ![t][cl[c].map[t]].value[i] = Stray]
  /\ UNCHANGED <<link, srv, cl, overlap, history>>

-----------------------------------------------------------------------------
(* The history service: RtDb::snapshot, HistoryWriter::write_to_db          *)

h == cl[History]
HistoryGoesTo(pc) == cl' = [cl EXCEPT ![History].pc = pc]
Entry == mem["point_index"][h.map["point_index"]].entry[snap.row]

(* The next entry: its name and category.                                  *)
SnapshotName ==
  /\ h.pc = "use"
  /\ ~h.skew
  /\ IF snap.row > Len(Points)
     THEN HistoryGoesTo("insert") /\ snap' = [snap EXCEPT !.row = 1]
     ELSE IF Entry.point = None
     THEN snap' = [snap EXCEPT !.row = @ + 1] /\ UNCHANGED cl
     ELSE /\ snap' = [snap EXCEPT !.ids = Append(@, Entry.point),
                                  !.cats = Append(@, Entry.category),
                                  !.half = @ \/ ~Finished(Entry)]
          /\ HistoryGoesTo("value")
  /\ UNCHANGED <<memory, srv, overlap, tx>>

(* Its value, from the slot and table the entry then names: nothing checks *)
(* the slot, and kInvalidSlotIndex is far beyond the mapping.              *)
SnapshotValue ==
  /\ h.pc = "value"
  /\ LET c == Entry.category
         slot == Entry.slot[c]
     IN IF slot = Invalid
        THEN /\ cl' = [cl EXCEPT ![History] = Waiting]
             /\ snap' = NoSnapshot
        ELSE /\ HistoryGoesTo("use")
             /\ snap' = [snap EXCEPT
                           !.values[c] = Append(@, mem[c][h.map[c]].value[slot]),
                           !.half = @ \/ ~Finished(Entry),
                           !.row = @ + 1]
  /\ UNCHANGED <<memory, srv, overlap, tx>>

(* Entries or slots taken for where they are not: whatever is there.       *)
SnapshotAstray ==
  /\ h.pc = "use"
  /\ h.skew
  /\ snap' = [NoSnapshot EXCEPT !.ids = <<None>>, !.cats = <<"telemetry">>,
                                !.values["telemetry"] = <<Stray>>, !.half = TRUE]
  /\ HistoryGoesTo("insert")
  /\ UNCHANGED <<memory, srv, overlap, tx>>

(* A slip: both categories are served from one list.                       *)
ValuesOfOne(c) == snap.values["telemetry"]

ValuesOf(c) == snap.values[c]

(* telemetry_idx and teleindication_idx: how many rows of its category the *)
(* snapshot has up to the i-th.                                            *)
Position(i) == Cardinality({j \in 1 .. i : snap.cats[j] = snap.cats[i]})

(* A row without a value is left out.                                      *)
Insert ==
  /\ h.pc = "insert"
  /\ snap.row <= Len(snap.ids)
  /\ LET values == ValuesOf(snap.cats[snap.row])
     IN tx' = IF Position(snap.row) > Len(values) THEN tx
              ELSE tx \cup {[point |-> snap.ids[snap.row],
                             value |-> values[Position(snap.row)]]}
  /\ snap' = [snap EXCEPT !.row = @ + 1]
  /\ UNCHANGED <<memory, srv, cl, overlap>>

Commit ==
  /\ h.pc = "insert"
  /\ snap.row > Len(snap.ids)
  /\ tx' = {}
  /\ snap' = NoSnapshot
  /\ HistoryGoesTo("use")
  /\ UNCHANGED <<memory, srv, overlap>>

(* A statement fails: the transaction is rolled back and the service ends. *)
StatementFails ==
  /\ h.pc = "insert"
  /\ cl' = [cl EXCEPT ![History] = Waiting]
  /\ tx' = {}
  /\ snap' = NoSnapshot
  /\ UNCHANGED <<memory, srv, overlap>>

-----------------------------------------------------------------------------
Serve ==
  \/ Start \/ Create \/ InitHeader \/ List
  \/ Name \/ Categorise \/ Invalidate \/ Assign \/ Unlink

Attach(c) == Open(c) \/ OpenFails(c) \/ Attached(c)

Sample ==
  SnapshotName \/ SnapshotValue \/ SnapshotAstray \/ Insert \/ Commit

Next ==
  \/ Serve \/ CreateFails \/ Stop \/ Crash
  \/ \E c \in Clients : Attach(c) \/ WriteAstray(c)
  \/ \E c \in Clients, p \in PointSet : Write(c, p)
  \/ Sample \/ StatementFails

Spec == Init /\ [][Next]_vars

(* rtdb_service, once started, goes on until it runs, and an attempt to    *)
(* attach is always made again.                                            *)
FairSpec ==
  /\ Spec
  /\ WF_vars(Serve)
  /\ \A c \in Clients : WF_vars(Attach(c))

-----------------------------------------------------------------------------
(* A process attaches to a finished set of tables: unless rtdb_service took *)
(* away a name or zeroed an object meanwhile, every table it maps has its   *)
(* header and all come from one run.  What a crashed run left is zeroed     *)
(* before the first new header, so that old and new tables cannot be taken  *)
(* for one set.                                                             *)
AttachIsWhole ==
  [][\A c \in Clients :
       (Attaching(c, Len(Tables) + 1) /\ cl'[c].pc = "use" /\ ~overlap[c])
       => /\ ~cl'[c].skew
          /\ \E n \in Runs : \A t \in Names : mem[t][cl[c].map[t]].init = n]_vars

(* A history row carries the value of its own point, though the values are  *)
(* kept in two lists beside the names and indexed apart, as long as the     *)
(* snapshot read no entry in the making and no collector wrote through one. *)
HistoryRowsAreOwn ==
  ~snap.half => \A r \in tx : r.value \in {r.point, Zero, Stray}

(* While rtdb_service runs, a process that wants to attach does.            *)
WaitersAttach ==
  \A c \in Clients :
    (cl[c].pc = "attach") ~> (cl[c].pc # "attach" \/ srv.pc # "run")
=============================================================================
