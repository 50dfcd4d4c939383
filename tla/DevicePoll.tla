------------------------------- MODULE DevicePoll -------------------------------
(***************************************************************************)
(* What one Modbus device's threads do with its registers: the poll thread *)
(* groups the device's points into block reads, splits the answers into    *)
(* points, decodes them and writes the point tables; the control thread    *)
(* encodes a commanded value, writes it and reads it back.                 *)
(*                                                                         *)
(* A register is a word of Word values (65536 in the code) and a 32 or 64  *)
(* bit value is 2 or 4 words; the model keeps the widths in words.  A      *)
(* floating-point value is represented by its bit pattern, which is what   *)
(* the conversions copy.                                                   *)
(***************************************************************************)
EXTENDS Integers, Sequences, FiniteSets, SequencesExt

CONSTANTS
    Points,      \* the points of the device
    Layouts,     \* register mappings of the points that are tried
    Targets,     \* values commanded
    Word,        \* values of a register
    AddressMod,  \* size of an address space of the device
    MaxCount     \* the longest block the device answers (125 registers)

\* The two sides' reading of the data types: registers used, and whether signed.
Width(type) ==
    CASE type \in {"Int32", "Uint32", "Float32"} -> 2
      [] type \in {"Int64", "Uint64", "Double"} -> 4
      [] OTHER -> 1
Signed(type) == type \in {"Int16", "Int32", "Int64"}

ASSUME NumbersAssumption ==
    /\ Word \in Nat \ {0} /\ Word % 2 = 0
    /\ AddressMod \in Nat
    /\ MaxCount \in Nat
    /\ Targets \subseteq Int

\* The portal stores a mapping only with a register count that fits its type; it
\* bounds the address from below, and the loader puts it in 16 bits, so that a
\* mapping may reach the last address and go past it.
Mappings == [fc : Nat, addr : Nat, cnt : Nat, type : STRING, swap : BOOLEAN,
             scale : Int, offset : Int, category : STRING]
ASSUME LayoutsAssumption ==
    \A layout \in Layouts :
        /\ IsFiniteSet(DOMAIN layout)
        /\ \A p \in DOMAIN layout :
               /\ layout[p] \in Mappings
               /\ layout[p].cnt = Width(layout[p].type)
               /\ layout[p].addr < AddressMod

VARIABLES
    map,        \* the layout in use: point -> register mapping
    memory,     \* the device: read function -> address -> word
    todo,       \* the groups of this poll still to be read
    allOk,      \* all_ok of this poll
    status,     \* the device's status
    table,      \* the point's row: value and quality
    refreshed,  \* points written in this poll
    control     \* the control thread: its step and the command in hand

dpVars == <<map, memory, todo, allOk, status, table, refreshed, control>>

\* The function that reads what a mapping's function code names.
ReadCode(fc) ==
    CASE fc = 5 -> 1
      [] fc \in {6, 16} -> 3
      [] OTHER -> fc

Writable(p) == map[p].fc \in {5, 6, 16}

-----------------------------------------------------------------------------
(***************************************************************************)
(* Grouping.                                                               *)
(***************************************************************************)
\* The mapped points of one read function in the order of their addresses; in which
\* order points of one address come is left to the sort.
PointsOf(fc) == {p \in DOMAIN map : ReadCode(map[p].fc) = fc}
SortedPoints(fc) ==
    CHOOSE pts \in SetToSeqs(PointsOf(fc)) :
        \A i, j \in DOMAIN pts : i <= j => map[pts[i]].addr <= map[pts[j]].addr

\* cur_end and pt_end are 16 bits wide.
EndOf(p) == (map[p].addr + map[p].cnt) % AddressMod

\* A slip: a point inside the current group may shorten it.
AddPointWithoutMax(groups, p) ==
    IF groups # <<>> /\ map[p].addr <= Last(groups).end + 5
    THEN Append(Front(groups),
                [Last(groups) EXCEPT !.end = EndOf(p), !.points = @ \cup {p}])
    ELSE Append(groups, [fc |-> ReadCode(map[p].fc), start |-> map[p].addr,
                         end |-> EndOf(p), points |-> {p}])

\* One round of the loop: p joins the current group when it starts at most five
\* registers behind its end, else it starts the next one.
AddPoint(groups, p) ==
    IF groups # <<>> /\ map[p].addr <= Last(groups).end + 5
    THEN Append(Front(groups),
                [Last(groups) EXCEPT !.end = IF @ > EndOf(p) THEN @ ELSE EndOf(p),
                                     !.points = @ \cup {p}])
    ELSE Append(groups, [fc |-> ReadCode(map[p].fc), start |-> map[p].addr,
                         end |-> EndOf(p), points |-> {p}])

\* The groups after the loop over pts.
GroupsOf(pts) ==
    LET groups[k \in 0..Len(pts)] ==
            IF k = 0 THEN <<>> ELSE AddPoint(groups[k - 1], pts[k])
    IN  groups[Len(pts)]

BuildGroups ==
    UNION {Range(GroupsOf(SortedPoints(fc))) :
               fc \in {ReadCode(map[p].fc) : p \in DOMAIN map}}

Count(g) == (g.end - g.start) % AddressMod

-----------------------------------------------------------------------------
(***************************************************************************)
(* Decoding and encoding.                                                  *)
(***************************************************************************)
\* A slip: word_swap is not looked at.
OrderedUnswapped(words, swap) == words

\* Words, most significant first; with word_swap the last one is.
Ordered(words, swap) == IF swap THEN Reverse(words) ELSE words

\* What a bit shifted left by no, one, two and three words counts.
Place == <<1, Word, Word * Word, Word * Word * Word>>

Size(type) == Word * Place[Width(type)]

\* The shifts and ors of parse_register.
Join(words) ==
    CASE Len(words) = 1 -> words[1]
      [] Len(words) = 2 -> words[1] * Place[2] + words[2]
      [] OTHER -> words[1] * Place[4] + words[2] * Place[3] + words[3] * Place[2] + words[4]

\* parse_register: a conversion to a signed type keeps the bits.
Parse(words, m) ==
    LET raw == Join(Ordered(words, m.swap))
    IN  CASE m.type = "Bool" -> IF words[1] # 0 THEN 1 ELSE 0
          [] Signed(m.type) -> IF 2 * raw >= Size(m.type) THEN raw - Size(m.type) ELSE raw
          [] OTHER -> raw

Scaled(raw, m) == raw * m.scale + m.offset

Magnitude(n) == IF n < 0 THEN -n ELSE n

\* std::round(n / d): halves go away from zero.
Rounded(n, d) ==
    LET whole == (2 * Magnitude(n) + Magnitude(d)) \div (2 * Magnitude(d))
    IN  IF (n < 0) = (d < 0) THEN whole ELSE -whole

\* The raw values encode_register converts without loss; a Bool is sent as a whole
\* register.
Representable(type) ==
    IF Signed(type)
    THEN -(Size(type) \div 2) .. (Size(type) \div 2 - 1)
    ELSE 0 .. (Size(type) - 1)

\* A slip of the shifts: the least significant word comes first.
WordsReversed(raw, type) ==
    [i \in 1..Width(type) |-> (raw \div Place[i]) % Word]

\* The words of a value below Size(type), most significant first.
Words(raw, type) ==
    [i \in 1..Width(type) |-> (raw \div Place[Width(type) - i + 1]) % Word]

\* encode_register: what a double outside the target type converts to is left open
\* by the language, and so is a division by a scale of zero.
Encodings(value, m) ==
    LET raw == Rounded(value - m.offset, m.scale)
    IN  IF m.scale # 0 /\ raw \in Representable(m.type)
        THEN {Ordered(Words(raw % Size(m.type), m.type), m.swap)}
        ELSE [1..Width(m.type) -> {0, Word - 1}]

-----------------------------------------------------------------------------
Block(fc, start, n) == [i \in 1..n |-> memory[fc][start + i - 1]]

\* The part of a group's answer that is copied for p.  Where the group was made too
\* short for p the copy goes past the end of the answer, into whatever lies there.
SubRegisters(g, p) ==
    LET block == Block(g.fc, g.start, Count(g))
        word(i, beyond) ==
            LET at == map[p].addr - g.start + i
            IN  IF at <= Count(g) THEN block[at] ELSE beyond[i]
    IN  {[i \in 1..map[p].cnt |-> word(i, beyond)] :
             beyond \in [1..map[p].cnt -> {0, Word - 1}]}

Bad == [value |-> 0, quality |-> "Bad"]
Good(v) == [value |-> v, quality |-> "Good"]

\* The rows p may get from a group's answer.  Coils and discrete inputs have one
\* address per bit, only a Bool is read from them, and a bit that is not in the
\* answer is an error; a teleindication is stored as a 16 bit code.
Decoded(g, p) ==
    LET m == map[p]
        stored(words) ==
            LET eng == Scaled(Parse(words, m), m)
            IN  IF m.category = "Teleindication" THEN eng % Word ELSE eng
    IN  IF g.fc <= 2 /\ (m.type # "Bool" \/ m.addr - g.start >= Count(g)) THEN {Bad}
        ELSE {Good(stored(words)) : words \in SubRegisters(g, p)}

\* A device that holds a different word at each address, so that a value read from
\* the wrong place is a wrong value.
DPInit ==
    /\ map \in Layouts
    /\ memory = [fc \in 1..4 |-> [a \in 0..(AddressMod - 1) |->
                    IF fc <= 2 THEN (a + fc) % 2 ELSE (a + 5 * fc) % Word]]
    /\ todo = {}
    /\ allOk = TRUE
    /\ status = "Unknown"
    /\ table = [p \in DOMAIN map |-> Bad]
    /\ refreshed = {}
    /\ control = [step |-> "idle", point |-> CHOOSE p \in DOMAIN map : TRUE,
                  desired |-> 0, result |-> 0]

\* poll_once() builds the groups anew for each poll.
StartPoll ==
    /\ todo = {}
    /\ todo' = BuildGroups
    /\ allOk' = TRUE
    /\ refreshed' = {}
    /\ UNCHANGED <<map, memory, status, table, control>>

\* A slip: only the last group decides.
GroupDoneForgetful(g, ok) ==
    /\ todo' = todo \ {g}
    /\ allOk' = ok
    /\ status' = IF todo' # {} THEN status ELSE IF allOk' THEN "Online" ELSE "Offline"
    /\ refreshed' = refreshed \cup g.points
    /\ UNCHANGED <<map, memory, control>>

\* poll_once() sets the status when the last group is done.
GroupDone(g, ok) ==
    /\ todo' = todo \ {g}
    /\ allOk' = (allOk /\ ok)
    /\ status' = IF todo' # {} THEN status ELSE IF allOk' THEN "Online" ELSE "Offline"
    /\ refreshed' = refreshed \cup g.points
    /\ UNCHANGED <<map, memory, control>>

\* Groups of different functions come in the order of a hash table.  A device
\* answers with registers it has.
ReadGroup(g) ==
    /\ g.fc \in 1..4
    /\ Count(g) \in 1..MaxCount
    /\ g.start + Count(g) <= AddressMod
    /\ \E rows \in [g.points -> UNION {Decoded(g, p) : p \in g.points}] :
           /\ \A p \in g.points : rows[p] \in Decoded(g, p)
           /\ table' = [p \in DOMAIN table |-> IF p \in g.points THEN rows[p] ELSE table[p]]
    /\ GroupDone(g, TRUE)

\* A slip: the poll ends with the first group that fails.
GroupFailsAndReturns(g) ==
    /\ table' = [p \in DOMAIN table |-> IF p \in g.points THEN Bad ELSE table[p]]
    /\ todo' = {}
    /\ allOk' = FALSE
    /\ status' = "Offline"
    /\ refreshed' = refreshed \cup g.points
    /\ UNCHANGED <<map, memory, control>>

\* No answer, an exception answer, or a function code that reads nothing.
GroupFails(g) ==
    /\ table' = [p \in DOMAIN table |-> IF p \in g.points THEN Bad ELSE table[p]]
    /\ GroupDone(g, FALSE)

PollStep == StartPoll \/ \E g \in todo : ReadGroup(g) \/ GroupFails(g)

\* execute_write(): a coil takes the truth of the value, registers its encoding.  A
\* device refuses a write past its last register, and nothing changes.
Write(p, value) ==
    /\ control.step = "idle"
    /\ Writable(p)
    /\ map[p].fc # 5 => map[p].addr + map[p].cnt <= AddressMod
    /\ LET m == map[p] IN
       IF m.fc = 5
       THEN memory' = [memory EXCEPT ![1][m.addr] = IF value # 0 THEN 1 ELSE 0]
       ELSE \E words \in Encodings(value, m) :
                memory' = [memory EXCEPT ![3] = [a \in DOMAIN @ |->
                    IF a \in m.addr .. (m.addr + m.cnt - 1)
                    THEN words[a - m.addr + 1] ELSE @[a]]]
    /\ control' = [step |-> "readBack", point |-> p, desired |-> value, result |-> 0]
    /\ UNCHANGED <<map, todo, allOk, status, table, refreshed>>

\* The read-back reads the point alone; a coil's value is not scaled, and when
\* nothing can be read the value asked for is reported.
ReadBack ==
    /\ control.step = "readBack"
    /\ LET m == map[control.point]
           words == Block(ReadCode(m.fc), m.addr, IF m.fc = 5 THEN 1 ELSE m.cnt)
       IN  \E result \in {control.desired,
                          IF m.fc = 5 THEN words[1] ELSE Scaled(Parse(words, m), m)} :
               control' = [control EXCEPT !.step = "complete", !.result = result]
    /\ UNCHANGED <<map, memory, todo, allOk, status, table, refreshed>>

Complete ==
    /\ control.step = "complete"
    /\ control' = [step |-> "idle", point |-> control.point, desired |-> 0, result |-> 0]
    /\ UNCHANGED <<map, memory, todo, allOk, status, table, refreshed>>

ControlStep == ReadBack \/ Complete \/ \E p \in DOMAIN map, v \in Targets : Write(p, v)

DPNext == PollStep \/ ControlStep

DPSpec == DPInit /\ [][DPNext]_dpVars

\* The poll thread goes on: each read ends, at the latest with the timeout.
DPFairSpec == DPSpec /\ WF_dpVars(PollStep)

-----------------------------------------------------------------------------
(***************************************************************************)
(* Properties.                                                             *)
(***************************************************************************)

\* What words say, read one by one as the device's manual would: each word times
\* the weight of its place, and negative when the highest one is in its upper half.
Weight(m, i) == Place[IF m.swap THEN i ELSE m.cnt - i + 1]
Weighed(words, m) ==
    LET part(i) == IF i > m.cnt THEN 0 ELSE words[i] * Weight(m, i)
        sum == part(1) + part(2) + part(3) + part(4)
        top == words[IF m.swap THEN m.cnt ELSE 1]
    IN  CASE m.type = "Bool" -> IF sum = 0 THEN 0 ELSE 1
          [] Signed(m.type) /\ top >= Word \div 2 -> sum - Size(m.type)
          [] OTHER -> sum

\* What the registers of p say.
Measured(p) ==
    LET m == map[p]
        eng == Weighed(Block(ReadCode(m.fc), m.addr, m.cnt), m) * m.scale + m.offset
    IN  IF m.category = "Teleindication" THEN eng % Word ELSE eng

\* What a value of the type can be when it is read.
Readable(type) == IF type = "Bool" THEN {0, 1} ELSE Representable(type)

\* A command the point's registers can represent is read back as it was asked for.
ReadBackIsDesired ==
    LET m == map[control.point] IN
        /\ control.step = "complete"
        /\ \E raw \in Readable(m.type) : control.desired = raw * m.scale + m.offset
        /\ m.fc = 5 => control.desired \in {0, 1}
        => control.result = control.desired

\* The end of p's registers fits 16 bits.  When it does not it counts as 0, or a
\* little more: alone in its group p is still read, but a group that p joins is
\* not made longer for it.
EndFits(p) == map[p].addr + map[p].cnt < AddressMod

\* However points are merged into block reads, with gaps, overlaps and word order,
\* also with a point that reaches the last address: any other point that a step
\* marks good holds what its own registers say.
GoodIsMeasured ==
    [][\A p \in DOMAIN table :
          EndFits(p) /\ table'[p] # table[p] /\ table'[p].quality = "Good" =>
              table'[p].value = Measured(p)]_dpVars

\* Every group that is to be read spans the registers of all of its points, but for
\* those that reach the last address, and between them the groups of a poll leave
\* no point out.
GroupsCoverThePoints ==
    /\ \A g \in todo : \A p \in g.points :
           /\ g.fc = ReadCode(map[p].fc)
           /\ g.start <= map[p].addr
           /\ EndFits(p) => map[p].addr + map[p].cnt <= g.start + Count(g)
    /\ todo # {} => refreshed \cup UNION {g.points : g \in todo} = DOMAIN map

\* Online is said of a device only when its last poll read every point, but for
\* bits that are mapped to a type that cannot be read from a bit, or that the
\* block of their group does not reach.
OnlineMeansRead ==
    todo = {} /\ status = "Online" =>
        \A p \in DOMAIN map :
            \/ table[p].quality = "Good"
            \/ ReadCode(map[p].fc) <= 2 /\ (map[p].type # "Bool" \/ ~ EndFits(p))

\* A group that fails keeps no other group from being read: every point is written
\* in every poll, also when another group never succeeds.
EveryPointIsRefreshed ==
    \A p \in Points : []<>(p \in DOMAIN map => p \in refreshed)

=============================================================================
