-------------------------- MODULE Iec104ClientProofs --------------------------
(***************************************************************************)
(* Proofs about Iec104Client for any points, values, window and queue: the *)
(* types of its state, what a frame does to the rows, the numbers of the   *)
(* acknowledgements, and what is left when the client has given up.        *)
(***************************************************************************)
EXTENDS Iec104Client, FiniteSetTheorems, WellFoundedInduction, TLAPS

-----------------------------------------------------------------------------
(* What the station sends.                                                 *)

Types == KnownTypes \cup {45}

\* One address per value, no address twice, each that of a point with the type and common
\* address, and a sequence only of a type that can be one, with consecutive addresses.
WellFormed(asdu) ==
  /\ asdu.type \in Types
  /\ \A i \in DOMAIN asdu.ioas :
        \E p \in Points : Key(p) = <<asdu.type, asdu.ioas[i]>> /\ CaOf[p] = asdu.ca
  /\ asdu.sq \in BOOLEAN
  /\ \E n \in Nat : asdu.ioas \in [1..n -> Nat] /\ asdu.values \in [1..n -> Values]
  /\ \A i, j \in DOMAIN asdu.ioas : i # j => asdu.ioas[i] # asdu.ioas[j]
  /\ asdu.sq =>
       /\ asdu.type \in SequenceTypes
       /\ \A i \in DOMAIN asdu.ioas : asdu.ioas[i] = asdu.ioas[1] + i - 1

Asdu ==
  {a \in [type : Types, ca : Nat, sq : BOOLEAN, ioas : Seq(Nat), values : Seq(Values)] :
      WellFormed(a)}

LEMMA SentAreWellFormed ==
  ASSUME NEW S \in SUBSET Points, actual \in [Points -> Values],
         NEW asdu \in Asdus(S)
  PROVE  asdu \in Asdu
<1> USE Iec104Assumption
<1>1. PICK s \in S : asdu \in AsdusWith(S, s)
  BY DEF Asdus
<1> DEFINE t == TypeOf[s]
           Own == {p \in S : TypeOf[p] = t /\ CaOf[p] = CaOf[s]}
           n == Cardinality(Own)
<1>2. n \in Nat
  <2>1. Own \subseteq Points
    OBVIOUS
  <2> HIDE DEF Own
  <2>2. IsFiniteSet(Own)
    BY <2>1, FS_Subset, Iec104Assumption
  <2>3. Cardinality(Own) \in Nat
    BY <2>2, FS_CardinalityType
  <2> QED BY <2>3
<1>3. PICK order \in SetToSeqs(Own), q \in BOOLEAN :
        /\ asdu = AsduOf(s, order, q)
        /\ q => t \in SequenceTypes /\ Sequential(order)
  <2> DEFINE orders == SetToSeqs(Own)
  <2>1. \/ \E order \in orders : asdu = AsduOf(s, order, FALSE)
        \/ \E order \in {o \in orders : t \in SequenceTypes /\ Sequential(o)} :
              asdu = AsduOf(s, order, TRUE)
    BY <1>1 DEF AsdusWith
  <2> HIDE DEF orders, Own, t
  <2> QED BY <2>1 DEF orders
<1>4. /\ order \in [1..n -> Own]
      /\ \A i, j \in 1..n : i # j => order[i] # order[j]
  BY <1>3 DEF SetToSeqs
<1>5. /\ asdu.type = t /\ asdu.sq = q /\ asdu.ca = CaOf[s]
      /\ asdu.ioas = [i \in 1..n |-> IoaOf[order[i]]]
      /\ asdu.values = [i \in 1..n |-> actual[order[i]]]
  BY <1>3, <1>4 DEF AsduOf
<1>6. \A i \in 1..n : /\ order[i] \in Points /\ TypeOf[order[i]] = t
                       /\ CaOf[order[i]] = CaOf[s]
  BY <1>4
<1> HIDE DEF n, Own, t
<1>7. t \in Types
  BY <1>1 DEF t, Types
<1>8. asdu.ioas \in [1..n -> Nat] /\ asdu.values \in [1..n -> Values]
  BY <1>5, <1>6
<1>9. \A i, j \in 1..n : i # j => asdu.ioas[i] # asdu.ioas[j]
  BY <1>4, <1>5, <1>6 DEF Key
<1>14. \A i \in 1..n : /\ order[i] \in Points
                        /\ Key(order[i]) = <<t, asdu.ioas[i]>> /\ CaOf[order[i]] = asdu.ca
  BY <1>5, <1>6 DEF Key
<1>15. asdu.ca \in Nat
  BY <1>5
<1>10. ASSUME q
       PROVE  /\ asdu.type \in SequenceTypes
              /\ \A i \in 1..n : asdu.ioas[i] = asdu.ioas[1] + i - 1
  <2>1. t \in SequenceTypes
    BY <1>3, <1>10
  <2>2. \A i \in 1..n : IoaOf[order[i]] = IoaOf[order[1]] + i - 1
    BY <1>3, <1>4, <1>10 DEF Sequential
  <2>3. ASSUME NEW i \in 1..n PROVE 1 \in 1..n
    BY <1>2, <2>3
  <2>4. \A i \in 1..n : asdu.ioas[i] = IoaOf[order[i]]
    BY <1>5
  <2>5. ASSUME NEW i \in 1..n PROVE asdu.ioas[i] = asdu.ioas[1] + i - 1
    <3>1. asdu.ioas[i] = IoaOf[order[i]] /\ asdu.ioas[1] = IoaOf[order[1]]
      BY <2>3, <2>4
    <3> QED BY <2>2, <3>1
  <2> QED BY <1>5, <2>1, <2>5
<1>11. WellFormed(asdu)
  BY <1>2, <1>5, <1>7, <1>8, <1>9, <1>10, <1>14 DEF WellFormed
<1>12. asdu.ioas \in Seq(Nat) /\ asdu.values \in Seq(Values)
  <2>1. ASSUME NEW V, NEW f \in [1..n -> V] PROVE f \in Seq(V)
    BY ONLY <1>2, <2>1
  <2> QED BY <1>8, <2>1
<1>13. asdu = [type |-> asdu.type, ca |-> asdu.ca, sq |-> asdu.sq, ioas |-> asdu.ioas,
               values |-> asdu.values]
  BY <1>3 DEF AsduOf
<1> QED BY <1>5, <1>7, <1>11, <1>12, <1>13, <1>15 DEF Asdu

\* What is read of an ASDU that is not misread is what it carries, without the values
\* when its type is not known.
LEMMA ReadIsCarried ==
  ASSUME NEW asdu, WellFormed(asdu)
  PROVE  /\ Read(asdu).ioas = asdu.ioas
         /\ Read(asdu).data = IF asdu.type \in KnownTypes THEN asdu.values ELSE <<>>
<1>1. PICK n \in Nat : asdu.ioas \in [1..n -> Nat] /\ asdu.values \in [1..n -> Values]
  BY DEF WellFormed
<1>2. asdu.type \in KnownAs(asdu) <=> asdu.type \in KnownTypes
  BY DEF WellFormed, KnownAs, KnownTypes
<1>3. Read(asdu).ioas =
        [i \in 1..n |-> IF asdu.sq THEN asdu.ioas[1] + i - 1 ELSE asdu.ioas[i]]
  BY <1>1 DEF Read
<1>4. asdu.ioas = [i \in 1..n |-> asdu.ioas[i]]
  BY <1>1
<1>5. Read(asdu).ioas = asdu.ioas
  BY <1>1, <1>3, <1>4 DEF WellFormed
<1> QED BY <1>2, <1>5 DEF Read

\* The places of a frame where a point's value stands.
Hits(p, type, read) == {i \in DOMAIN read.data : Key(p) = <<type, read.ioas[i]>>}

\* parse_asdu() and dispatch_asdu() together, for a point that has its type and address
\* for itself: it is updated by a frame of a known type that carries it and by no other,
\* to the value carried for it.
LEMMA UpdatesAreThoseCarried ==
  ASSUME NEW asdu, WellFormed(asdu), NEW read \in Parsed(asdu),
         NEW p \in Points, Distinct(p)
  PROVE  LET updates == Updates(asdu.type, read) IN
         /\ p \in DOMAIN updates <=> p \in Carried(asdu) /\ asdu.type \in KnownTypes
         /\ p \in DOMAIN updates =>
              updates[p] =
                asdu.values[CHOOSE i \in DOMAIN asdu.values : asdu.ioas[i] = IoaOf[p]]
<1> DEFINE updates == Updates(asdu.type, read)
           H == Hits(p, asdu.type, read)
<1>1. PICK n \in Nat : asdu.ioas \in [1..n -> Nat] /\ asdu.values \in [1..n -> Values]
  BY DEF WellFormed
<1>2. DOMAIN asdu.values = 1..n /\ DOMAIN asdu.ioas = 1..n
  BY <1>1
<1>3. p \in Registered
  BY Iec104Assumption DEF Distinct
<1>4. /\ p \in DOMAIN updates <=> H # {}
      /\ p \in DOMAIN updates =>
           updates[p] = read.data[CHOOSE i \in H : \A j \in H : j <= i]
  BY <1>3 DEF Updates, Hits
<1>5. CASE asdu.type = MisreadType
  <2>1. p \notin Carried(asdu) /\ H = {}
    BY <1>5 DEF Carried, Hits, Distinct, Key
  <2> QED BY <1>4, <2>1
<1>6. CASE asdu.type # MisreadType
  <2>1. read = Read(asdu)
    BY <1>6 DEF Parsed
  <2>2. CASE asdu.type \notin KnownTypes
    <3>1. H = {}
      BY <2>1, <2>2, ReadIsCarried DEF Hits
    <3> QED BY <1>4, <2>2, <3>1
  <2>3. CASE asdu.type \in KnownTypes
    <3>1. H = {i \in 1..n : Key(p) = <<asdu.type, asdu.ioas[i]>>}
      BY <1>2, <2>1, <2>3, ReadIsCarried DEF Hits
    <3>2. \A i \in H : CaOf[p] = asdu.ca
      BY <1>2, <3>1 DEF WellFormed, Distinct
    <3>3. p \in Carried(asdu) <=> H # {}
      BY <1>2, <3>1, <3>2 DEF Carried
    <3>4. ASSUME NEW k \in H
          PROVE  updates[p] = asdu.values[CHOOSE i \in DOMAIN asdu.values :
                                             asdu.ioas[i] = IoaOf[p]]
      <4>1. k \in 1..n /\ TypeOf[p] = asdu.type /\ asdu.ioas[k] = IoaOf[p]
        BY <3>1, <3>4 DEF Key
      <4>2. \A i \in 1..n : asdu.ioas[i] = IoaOf[p] => i = k
        BY <1>2, <4>1 DEF WellFormed
      <4>3. H = {k}
        BY <3>1, <3>4, <4>2 DEF Key
      <4>4. (CHOOSE i \in H : \A j \in H : j <= i) = k
        <5>1. k <= k
          BY <4>1
        <5> HIDE DEF H
        <5> QED BY <4>3, <5>1
      <4>5. (CHOOSE i \in DOMAIN asdu.values : asdu.ioas[i] = IoaOf[p]) = k
        BY <1>2, <4>1, <4>2
      <4>6. updates[p] = read.data[k]
        BY <1>4, <3>4, <4>4
      <4>7. read.data = asdu.values
        BY <2>1, <2>3, ReadIsCarried
      <4> QED BY <4>5, <4>6, <4>7
    <3> QED BY <1>4, <2>3, <3>3, <3>4
  <2> QED BY <2>2, <2>3
<1> QED BY <1>5, <1>6

\* A set of places has a last one.
LEMMA LastPlace ==
  ASSUME NEW n \in Nat, NEW H \in SUBSET (1..n), H # {}
  PROVE  \E k \in H : \A j \in H : j <= k
<1> DEFINE T == {n - k : k \in H}
<1>1. T \subseteq Nat /\ T # {}
  <2>1. \A k \in H : n - k \in Nat
    OBVIOUS
  <2>2. PICK k \in H : TRUE
    OBVIOUS
  <2>3. n - k \in T
    BY <2>2
  <2> QED BY <2>1, <2>3
<1>2. \E x \in T : \A y \in T : ~(<<y, x>> \in OpToRel(<, Nat))
  <2> HIDE DEF T
  <2> QED BY <1>1, WFMin, NatLessThanWellFounded, Zenon
<1>3. PICK x \in T : \A y \in T : ~(<<y, x>> \in OpToRel(<, Nat))
  BY <1>2, Zenon
<1>4. \A y \in T : ~(y < x)
  <2> HIDE DEF T
  <2> QED BY <1>1, <1>3, Zenon DEF OpToRel
<1>5. PICK k \in H : x = n - k
  BY <1>3
<1>6. ASSUME NEW j \in H PROVE j <= k
  <2>1. n - j \in T
    BY <1>6
  <2>2. ~(n - j < n - k)
    BY <1>4, <1>5, <2>1
  <2>3. j \in 1..n /\ k \in 1..n
    BY <1>5, <1>6
  <2> QED BY <2>2, <2>3
<1> QED BY <1>6

\* Whatever is read of a frame, what a point is updated to is a value.
LEMMA UpdatesAreValues ==
  ASSUME NEW asdu, WellFormed(asdu), NEW read \in Parsed(asdu),
         NEW p \in DOMAIN Updates(asdu.type, read)
  PROVE  Updates(asdu.type, read)[p] \in Values
<1> DEFINE H == Hits(p, asdu.type, read)
<1>1. PICK n \in Nat : asdu.ioas \in [1..n -> Nat] /\ asdu.values \in [1..n -> Values]
  BY DEF WellFormed
<1>2. /\ H # {}
      /\ Updates(asdu.type, read)[p] = read.data[CHOOSE i \in H : \A j \in H : j <= i]
  BY DEF Updates, Hits
<1>3. \E m \in Nat : read.data \in [1..m -> Values]
  <2>1. CASE asdu.type = MisreadType
    BY <1>1, <2>1 DEF Parsed, Misread
  <2>2. CASE asdu.type # MisreadType
    <3>1. read.data = asdu.values \/ read.data = <<>>
      BY <2>2, ReadIsCarried DEF Parsed
    <3>2. <<>> \in [1..0 -> Values]
      OBVIOUS
    <3> QED BY <1>1, <3>1, <3>2
  <2> QED BY <2>1, <2>2
<1>4. PICK m \in Nat : read.data \in [1..m -> Values]
  BY <1>3
<1>5. H \in SUBSET (1..m)
  BY <1>4 DEF Hits
<1> HIDE DEF H
<1>6. (CHOOSE i \in H : \A j \in H : j <= i) \in H
  BY <1>2, <1>5, LastPlace
<1> QED BY <1>2, <1>4, <1>5, <1>6

-----------------------------------------------------------------------------
(* Types.                                                                  *)

RxPc == {"loop", "receive", "wait", "count", "acknowledge", "dispatch", "confirm",
         "disconnect", "dial", "announce", "reset", "start", "number",
         "interrogate", "ended"}

Received == [kind : {"I"}, asdu : Asdu] \cup [kind : {"invalid", "testfrAct"}]
Interrogations == [kind : {"interrogation"}, tx : Nat, rx : Nat]
Sent == Interrogations \cup {Confirm, Startdt, Testfr} \cup {Supervisory(n) : n \in Nat}

StationState ==
  [started : BOOLEAN, vr : Nat, vs : Nat, acked : Nat, owes : SUBSET Points]

RxOK ==
  /\ rx \in [pc : RxPc, attempts : Nat, frame : Received \cup Sent]
  /\ rx.pc \in {"count", "acknowledge", "dispatch"} =>
       rx.frame \in [kind : {"I"}, asdu : Asdu]
  /\ rx.pc = "interrogate" => rx.frame \in Interrogations

TickOK ==
  /\ tick \in [pc : {"sleep", "store", "send", "ended"}, frame : Sent]
  /\ tick.pc \in {"store", "send"} => tick.frame \in Interrogations

(* Every variable keeps its type; what is in the threads' hands between    *)
(* two steps is a frame of the kind the next step takes it for.            *)
TypeOK ==
  /\ alive \in BOOLEAN /\ running \in BOOLEAN /\ connected \in BOOLEAN
  /\ sock \in {"none", "open", "closed"}
  /\ mutex \in {"none", "rx"}
  /\ sendSeq \in Nat /\ recvSeq \in Nat
  /\ RxOK /\ TickOK
  /\ beat \in {"sleep", "ended"}
  /\ table \in [Points -> Values \cup {0}]
  /\ queue \in Seq(Received)
  /\ station \in StationState
  /\ actual \in [Points -> Values]
  /\ taken \in Nat /\ faults \in Nat

(* The station's answer to a frame touches its own side of the connection. *)
LEMMA SendKeepsTypes ==
  ASSUME TypeOK, NEW f \in Sent, SendFrame(f)
  PROVE  /\ mutex = "none" /\ queue' = queue
         /\ sock' = sock \/ (sock = "open" /\ sock' = "closed")
         /\ station' \in StationState
         /\ alive' \in BOOLEAN
<1>1. station \in StationState
  BY DEF TypeOK
<1> DEFINE Goal == /\ queue' = queue
                   /\ sock' = sock \/ sock' = "closed"
                   /\ station' \in StationState
<1>2. ASSUME NEW n \in Nat, Acknowledge(n) PROVE Goal
  BY <1>1, <1>2 DEF Acknowledge, Closes, StationState
<1>3. ASSUME Ignores PROVE Goal
  BY <1>1, <1>3 DEF Ignores
<1>4. ASSUME Handles(f) PROVE Goal
  <2>1. CASE f = Startdt
    BY <1>1, <1>4, <2>1 DEF Handles, Startdt, StationState
  <2>2. CASE f \in {Testfr, Confirm}
    BY <1>3, <1>4, <2>2 DEF Handles, Testfr, Confirm
  <2>3. ASSUME NEW n \in Nat, f = Supervisory(n) PROVE Goal
    <3>1. f.kind = "S" /\ f.rx \div 2 \in Nat
      BY <2>3 DEF Supervisory
    <3>2. Acknowledge(f.rx \div 2)
      BY <1>4, <3>1 DEF Handles
    <3> QED BY <1>2, <3>1, <3>2
  <2>4. CASE f \in Interrogations
    <3>1. f.kind = "interrogation" /\ f.rx \div 2 \in Nat
      BY <2>4 DEF Interrogations
    <3>2. \/ Ignores
          \/ Acknowledge(f.rx \div 2)
          \/ Closes
          \/ /\ station' = [station EXCEPT !.vr = @ + 1, !.owes = Interrogated]
             /\ UNCHANGED <<sock, queue>>
      BY <1>4, <3>1 DEF Handles
    <3>3. CASE station' = [station EXCEPT !.vr = @ + 1, !.owes = Interrogated]
               /\ UNCHANGED <<sock, queue>>
      <4>1. station.vr + 1 \in Nat /\ Interrogated \in SUBSET Points
        BY <1>1 DEF StationState, Interrogated
      <4> QED BY <1>1, <3>3, <4>1 DEF StationState
    <3>4. CASE Closes
      BY <1>1, <3>4 DEF Closes
    <3> QED BY <1>2, <1>3, <3>1, <3>2, <3>3, <3>4
  <2> QED BY <2>1, <2>2, <2>3, <2>4 DEF Sent
<1>5. alive' \in BOOLEAN
  BY DEF SendFrame, TypeOK
<1> QED BY <1>3, <1>4, <1>5 DEF SendFrame, Ignores

(* The receive thread goes on with the frame in its hands, or with another.*)
LEMMA GotoKeepsRx ==
  ASSUME RxOK, NEW p \in RxPc, RxGoto(p),
         p \in {"count", "acknowledge", "dispatch"} =>
           rx.pc \in {"count", "acknowledge", "dispatch"},
         p # "interrogate"
  PROVE  RxOK' /\ rx'.pc = p
BY DEF RxOK, RxGoto

LEMMA NextKeepsRx ==
  ASSUME RxOK, RxNext
  PROVE  RxOK' /\ rx'.pc = "loop"
BY DEF RxOK, RxNext, RxPc, Sent

LEMMA ReceiveKeepsTypes == TypeOK /\ Receive => TypeOK'
<1> SUFFICES ASSUME TypeOK, Receive PROVE TypeOK'
  OBVIOUS
<1> USE DEF RxPc
<1>0. RxOK
  BY DEF TypeOK
<1>1. CASE RxLoop
  BY <1>0, <1>1, GotoKeepsRx DEF RxLoop, TypeOK, TickOK
<1>2. CASE RxLock
  BY <1>0, <1>2, GotoKeepsRx DEF RxLock, TypeOK, TickOK
<1>3. CASE RxFrame
  <2>1. Head(queue) \in Received /\ Tail(queue) \in Seq(Received)
    BY <1>3 DEF RxFrame, TypeOK
  <2> DEFINE pc == CASE Head(queue).kind = "I" -> "count"
                     [] Head(queue).kind = "testfrAct" -> "confirm"
                     [] OTHER -> "disconnect"
  <2>2. /\ pc \in {"count", "confirm", "disconnect"}
        /\ pc = "count" => Head(queue) \in [kind : {"I"}, asdu : Asdu]
    BY <2>1 DEF Received
  <2>3. rx' = [rx EXCEPT !.frame = Head(queue), !.pc = pc]
    BY <1>3 DEF RxFrame
  <2> HIDE DEF pc
  <2>4. RxOK'
    BY <1>0, <2>1, <2>2, <2>3 DEF RxOK
  <2> QED BY <1>3, <2>1, <2>4 DEF RxFrame, TypeOK, TickOK
<1>4. CASE RxTimeout
  BY <1>0, <1>4, GotoKeepsRx DEF RxTimeout, TypeOK, TickOK
<1>5. CASE RxClosed
  BY <1>0, <1>5, GotoKeepsRx DEF RxClosed, TypeOK, TickOK
<1>6. CASE RxCount
  BY <1>0, <1>6, GotoKeepsRx DEF RxCount, TypeOK, TickOK
<1>7. CASE RxAcknowledge
  <2>1. Supervisory(recvSeq) \in Sent
    BY DEF Sent, TypeOK
  <2>2. SendFrame(Supervisory(recvSeq)) /\ RxOK'
    BY <1>0, <1>7, GotoKeepsRx DEF RxAcknowledge
  <2> QED BY <1>7, <2>1, <2>2, SendKeepsTypes DEF RxAcknowledge, TypeOK, TickOK
<1>8. CASE RxDispatch
  <2>1. RxOK' /\ rx.frame.asdu \in Asdu
    BY <1>0, <1>8, NextKeepsRx DEF RxDispatch, RxOK
  <2>2. WellFormed(rx.frame.asdu)
    BY <2>1 DEF Asdu
  <2>3. PICK read \in Parsed(rx.frame.asdu) :
          table' = [p \in Points |->
                      IF p \in DOMAIN Updates(rx.frame.asdu.type, read)
                      THEN Updates(rx.frame.asdu.type, read)[p] ELSE table[p]]
    BY <1>8 DEF RxDispatch
  <2>4. \A p \in DOMAIN Updates(rx.frame.asdu.type, read) :
          Updates(rx.frame.asdu.type, read)[p] \in Values
    BY <2>2, UpdatesAreValues
  <2>5. table' \in [Points -> Values \cup {0}]
    BY <2>3, <2>4 DEF TypeOK
  <2> QED BY <1>8, <2>1, <2>5 DEF RxDispatch, TypeOK, TickOK
<1>9. CASE RxConfirm
  <2>1. Confirm \in Sent
    BY DEF Sent
  <2>2. SendFrame(Confirm) /\ RxOK'
    BY <1>0, <1>9, NextKeepsRx DEF RxConfirm
  <2> QED BY <1>9, <2>1, <2>2, SendKeepsTypes DEF RxConfirm, TypeOK, TickOK
<1>10. CASE RxDisconnect
  <2>1. RxOK'
    BY <1>0, <1>10 DEF RxDisconnect, RxOK
  <2>2. queue' \in Seq(Received) /\ sock' = "none" /\ connected' = FALSE
    BY <1>10 DEF RxDisconnect
  <2> QED BY <1>10, <2>1, <2>2 DEF RxDisconnect, TypeOK, TickOK
<1>11. CASE RxDialed
  <2>1. NewStation \in StationState
    BY DEF NewStation, StationState
  <2> QED BY <1>0, <1>11, <2>1, GotoKeepsRx DEF RxDialed, TypeOK, TickOK
<1>12. CASE RxDialFails
  <2>1. rx.attempts + 1 \in Nat
    BY <1>0 DEF RxOK
  <2>2. RxOK'
    BY <1>0, <1>12, <2>1 DEF RxDialFails, RxOK
  <2> QED BY <1>12, <2>2 DEF RxDialFails, Fault, TypeOK, TickOK
<1>13. CASE RxAnnounce
  BY <1>0, <1>13, GotoKeepsRx DEF RxAnnounce, TypeOK, TickOK
<1>14. CASE RxReset
  BY <1>0, <1>14, GotoKeepsRx DEF RxReset, TypeOK, TickOK
<1>15. CASE RxStart
  <2>1. Startdt \in Sent
    BY DEF Sent
  <2>2. SendFrame(Startdt) /\ RxOK'
    BY <1>0, <1>15, GotoKeepsRx DEF RxStart
  <2> QED BY <1>15, <2>1, <2>2, SendKeepsTypes DEF RxStart, TypeOK, TickOK
<1>16. CASE RxNumber
  <2>1. Interrogation(sendSeq, recvSeq) \in Interrogations
    BY DEF Interrogation, Interrogations, TypeOK
  <2>2. RxOK'
    BY <1>0, <1>16, <2>1 DEF RxNumber, RxOK, Sent
  <2> QED BY <1>16, <2>2 DEF RxNumber, TypeOK, TickOK
<1>17. CASE RxInterrogate
  <2>1. rx.frame \in Sent
    BY <1>0, <1>17 DEF RxInterrogate, RxOK, Sent
  <2>2. SendFrame(rx.frame) /\ RxOK'
    BY <1>0, <1>17, NextKeepsRx DEF RxInterrogate
  <2> QED BY <1>17, <2>1, <2>2, SendKeepsTypes DEF RxInterrogate, TypeOK, TickOK
<1> QED BY <1>1, <1>2, <1>3, <1>4, <1>5, <1>6, <1>7, <1>8, <1>9, <1>10, <1>11,
           <1>12, <1>13, <1>14, <1>15, <1>16, <1>17 DEF Receive

LEMMA OthersKeepTypes ==
  TypeOK /\ (Tick \/ Beat \/ Stop \/ Station \/ Environment) => TypeOK'
<1> SUFFICES ASSUME TypeOK, Tick \/ Beat \/ Stop \/ Station \/ Environment
             PROVE  TypeOK'
  OBVIOUS
<1>0. TickOK /\ station \in StationState
  BY DEF TypeOK
<1>1. CASE TickDue
  <2>1. Interrogation(sendSeq, recvSeq) \in Interrogations
    BY DEF Interrogation, Interrogations, TypeOK
  <2>2. TickOK'
    BY <1>1, <2>1 DEF TickDue, TickOK, Sent
  <2> QED BY <1>1, <2>2 DEF TickDue, TypeOK, RxOK
<1>2. CASE TickStores
  <2>1. TickOK' /\ tick.frame.tx + 1 \in Nat
    BY <1>0, <1>2 DEF TickStores, TickOK, Interrogations
  <2> QED BY <1>2, <2>1 DEF TickStores, TypeOK, RxOK
<1>3. CASE TickSends
  <2>1. TickOK' /\ tick.frame \in Sent /\ SendFrame(tick.frame)
    BY <1>0, <1>3 DEF TickSends, TickOK, Sent
  <2> QED BY <1>3, <2>1, SendKeepsTypes DEF TickSends, TypeOK, RxOK
<1>4. CASE TickEnds
  <2>1. TickOK'
    BY <1>0, <1>4 DEF TickEnds, TickOK
  <2> QED BY <1>4, <2>1 DEF TickEnds, TypeOK, RxOK
<1>5. CASE BeatSends
  <2>1. Testfr \in Sent /\ SendFrame(Testfr)
    BY <1>5 DEF BeatSends, Sent
  <2> QED BY <1>5, <2>1, SendKeepsTypes DEF BeatSends, TypeOK, RxOK, TickOK
<1>6. CASE BeatEnds
  BY <1>6 DEF BeatEnds, TypeOK, RxOK, TickOK
<1>7. CASE Stop
  BY <1>7 DEF Stop, TypeOK, RxOK, TickOK
<1>8. CASE StationSends
  <2>1. PICK asdu \in Asdus(station.owes) :
          /\ queue' = Append(queue, [kind |-> "I", asdu |-> asdu])
          /\ station' = [station EXCEPT !.vs = @ + 1, !.owes = @ \ Carried(asdu)]
    BY <1>8 DEF StationSends
  <2>2. asdu \in Asdu
    BY <1>0, <2>1, SentAreWellFormed DEF TypeOK, StationState
  <2>3. queue' \in Seq(Received)
    BY <2>1, <2>2 DEF TypeOK, Received
  <2>4. station.vs + 1 \in Nat /\ station.owes \ Carried(asdu) \in SUBSET Points
    BY <1>0 DEF StationState
  <2>5. station' \in StationState
    BY <1>0, <2>1, <2>4 DEF StationState
  <2> QED BY <1>8, <2>3, <2>5 DEF StationSends, client, TypeOK, RxOK, TickOK
<1>9. CASE StationTimesOut
  BY <1>9 DEF StationTimesOut, TypeOK, RxOK, TickOK
<1>10. CASE ValueChanges
  <2>1. PICK p \in Points, v \in Values :
          /\ actual' = [actual EXCEPT ![p] = v]
          /\ station' = [station EXCEPT
                           !.owes = IF station.started THEN @ \cup {p} ELSE @]
    BY <1>10 DEF ValueChanges
  <2>2. station' \in StationState
    BY <1>0, <2>1 DEF StationState
  <2> QED BY <1>10, <2>1, <2>2 DEF ValueChanges, Fault, client, TypeOK, RxOK, TickOK
<1>11. CASE LinkBreaks
  <2>1. \A kind \in {"invalid", "testfrAct"} : [kind |-> kind] \in Received
    BY DEF Received
  <2>2. queue' \in Seq(Received) /\ sock' \in {"none", "open", "closed"}
    BY <1>11, <2>1 DEF LinkBreaks, TypeOK
  <2> QED BY <1>11, <2>2 DEF LinkBreaks, Fault, TypeOK, RxOK, TickOK
<1> QED BY <1>1, <1>2, <1>3, <1>4, <1>5, <1>6, <1>7, <1>8, <1>9, <1>10, <1>11
        DEF Tick, Beat, Station, Environment

THEOREM TypeCorrect == Spec => []TypeOK
<1>1. Init => TypeOK
  <2> SUFFICES ASSUME Init PROVE TypeOK
    OBVIOUS
  <2>1. RxOK /\ TickOK
    BY DEF Init, RxOK, TickOK, RxPc, Sent, Confirm
  <2>2. station \in StationState
    BY DEF Init, NewStation, StationState, Interrogated
  <2>3. table \in [Points -> Values \cup {0}]
    BY DEF Init
  <2> QED BY <2>1, <2>2, <2>3, Iec104Assumption DEF Init, TypeOK
<1>2. TypeOK /\ [Next]_vars => TypeOK'
  <2>1. TypeOK /\ UNCHANGED vars => TypeOK'
    BY DEF vars, client, TypeOK, RxOK, TickOK
  <2> QED BY <2>1, ReceiveKeepsTypes, OthersKeepTypes DEF Next
<1> QED BY <1>1, <1>2, PTL DEF Spec

-----------------------------------------------------------------------------
(* The receive thread and the connection.                                  *)

(* The steps the receive thread takes on a connection it has announced.    *)
Serving == {"receive", "wait", "count", "acknowledge", "dispatch", "confirm",
            "reset", "start", "number", "interrogate"}

(* Only the receive thread ends a connection, and it always closes the     *)
(* socket with it: connected_ is FALSE at the top of its loop only when    *)
(* there has been no connection since the start.                           *)
ConnectionInv ==
  /\ mutex = "rx" <=> rx.pc = "wait"
  /\ rx.pc \in Serving => connected
  /\ rx.pc = "loop" => connected \/ sock = "none"
  /\ rx.pc = "dial" => ~connected /\ sock = "none"
  /\ rx.pc = "ended" => ~running \/ (~connected /\ sock = "none")

(* recv_seq_ counts the frames of this connection, from its reset on and   *)
(* up to the frame in hand.                                                *)
CountInv ==
  /\ rx.pc \in {"loop", "receive", "wait", "acknowledge", "dispatch", "confirm",
                "start", "number", "interrogate"} => recvSeq = taken
  /\ rx.pc = "count" => recvSeq + 1 = taken
  /\ rx.pc \in {"announce", "reset"} => taken = 0

(* Where the receive thread goes in a step, for any type of its state.     *)
LEMMA GotoPc ==
  ASSUME RxOK, NEW p, RxGoto(p) PROVE rx'.pc = p
BY DEF RxOK, RxGoto

LEMMA ReceiveKeepsConnection ==
  TypeOK /\ ConnectionInv /\ CountInv /\ Receive => ConnectionInv' /\ CountInv'
<1> SUFFICES ASSUME TypeOK, ConnectionInv, CountInv, Receive
             PROVE  ConnectionInv' /\ CountInv'
  OBVIOUS
<1> USE DEF Serving
<1>0. RxOK /\ recvSeq \in Nat /\ taken \in Nat /\ running \in BOOLEAN
  BY DEF TypeOK
<1>1. CASE RxLoop
  <2>1. rx'.pc = IF running /\ connected THEN "receive" ELSE "ended"
    BY <1>0, <1>1, GotoPc DEF RxLoop
  <2> QED BY <1>1, <2>1 DEF RxLoop, ConnectionInv, CountInv
<1>2. CASE RxLock
  BY <1>0, <1>2, GotoPc DEF RxLock, ConnectionInv, CountInv
<1>3. CASE RxFrame
  <2> DEFINE kind == Head(queue).kind
  <2>1. rx'.pc = CASE kind = "I" -> "count"
                   [] kind = "testfrAct" -> "confirm"
                   [] OTHER -> "disconnect"
    BY <1>0, <1>3 DEF RxFrame, RxOK
  <2>2. taken' = IF kind = "I" THEN taken + 1 ELSE taken
    BY <1>3 DEF RxFrame
  <2> HIDE DEF kind
  <2>3. rx.pc = "wait" /\ mutex' = "none" /\ UNCHANGED <<running, connected, sock, recvSeq>>
    BY <1>3 DEF RxFrame
  <2>4. CASE kind = "I"
    <3>1. rx'.pc = "count" /\ taken' = taken + 1
      BY <2>1, <2>2, <2>4
    <3> QED BY <1>0, <2>3, <3>1 DEF ConnectionInv, CountInv
  <2>5. CASE kind # "I"
    <3>1. rx'.pc \in {"confirm", "disconnect"} /\ taken' = taken
      BY <2>1, <2>2, <2>5
    <3> QED BY <1>0, <2>3, <3>1 DEF ConnectionInv, CountInv
  <2> QED BY <2>4, <2>5
<1>4. CASE RxTimeout
  BY <1>0, <1>4, GotoPc DEF RxTimeout, ConnectionInv, CountInv
<1>5. CASE RxClosed
  BY <1>0, <1>5, GotoPc DEF RxClosed, ConnectionInv, CountInv
<1>6. CASE RxCount
  BY <1>0, <1>6, GotoPc DEF RxCount, ConnectionInv, CountInv
<1>7. CASE RxAcknowledge
  <2>1. rx'.pc = "dispatch" /\ rx.pc = "acknowledge"
    BY <1>0, <1>7, GotoPc DEF RxAcknowledge
  <2> QED BY <1>7, <2>1 DEF RxAcknowledge, ConnectionInv, CountInv
<1>8. CASE RxDispatch
  BY <1>0, <1>8, NextKeepsRx DEF RxDispatch, ConnectionInv, CountInv
<1>9. CASE RxConfirm
  <2>1. rx'.pc = "loop" /\ rx.pc = "confirm"
    BY <1>0, <1>9, NextKeepsRx DEF RxConfirm
  <2> QED BY <1>9, <2>1 DEF RxConfirm, ConnectionInv, CountInv
<1>10. CASE RxDisconnect
  <2>1. rx'.pc = "dial" /\ mutex' = "none" /\ ~connected' /\ sock' = "none"
    BY <1>0, <1>10 DEF RxDisconnect, RxOK
  <2> QED BY <2>1 DEF ConnectionInv, CountInv
<1>11. CASE RxDialed
  BY <1>0, <1>11, GotoPc DEF RxDialed, ConnectionInv, CountInv
<1>12. CASE RxDialFails
  <2>1. rx'.pc \in {"dial", "ended"} /\ rx.pc = "dial"
    BY <1>0, <1>12 DEF RxDialFails, RxOK
  <2> QED BY <1>12, <2>1 DEF RxDialFails, ConnectionInv, CountInv
<1>13. CASE RxAnnounce
  BY <1>0, <1>13, GotoPc DEF RxAnnounce, ConnectionInv, CountInv
<1>14. CASE RxReset
  BY <1>0, <1>14, GotoPc DEF RxReset, ConnectionInv, CountInv
<1>15. CASE RxStart
  <2>1. rx'.pc = "number" /\ rx.pc = "start"
    BY <1>0, <1>15, GotoPc DEF RxStart
  <2> QED BY <1>15, <2>1 DEF RxStart, ConnectionInv, CountInv
<1>16. CASE RxNumber
  <2>1. rx'.pc = "interrogate"
    BY <1>0, <1>16 DEF RxNumber, RxOK
  <2> QED BY <1>16, <2>1 DEF RxNumber, ConnectionInv, CountInv
<1>17. CASE RxInterrogate
  <2>1. rx'.pc = "loop" /\ rx.pc = "interrogate"
    BY <1>0, <1>17, NextKeepsRx DEF RxInterrogate
  <2> QED BY <1>17, <2>1 DEF RxInterrogate, ConnectionInv, CountInv
<1> QED BY <1>1, <1>2, <1>3, <1>4, <1>5, <1>6, <1>7, <1>8, <1>9, <1>10, <1>11,
           <1>12, <1>13, <1>14, <1>15, <1>16, <1>17 DEF Receive

(* Whatever the other threads and the station do, they close a connection  *)
(* but never open one, and leave connected_ and recv_seq_ alone.           *)
LEMMA OthersKeepConnection ==
  TypeOK /\ ConnectionInv /\ CountInv
    /\ (Tick \/ Beat \/ Stop \/ Station \/ Environment)
  => ConnectionInv' /\ CountInv' /\ UNCHANGED <<rx, table>>
<1> SUFFICES ASSUME TypeOK, ConnectionInv, CountInv,
                    Tick \/ Beat \/ Stop \/ Station \/ Environment
             PROVE  ConnectionInv' /\ CountInv' /\ UNCHANGED <<rx, table>>
  OBVIOUS
<1>1. UNCHANGED <<rx, table, mutex, connected, recvSeq, taken>>
  BY DEF Tick, TickDue, TickStores, TickSends, TickEnds, Beat, BeatSends, BeatEnds,
         Stop, Station, StationSends, StationTimesOut, Environment, ValueChanges,
         LinkBreaks, client
<1>2. running' => running
  BY DEF Tick, TickDue, TickStores, TickSends, TickEnds, Beat, BeatSends, BeatEnds,
         Stop, Station, StationSends, StationTimesOut, Environment, ValueChanges,
         LinkBreaks, client
<1>3. sock = "none" => sock' = "none"
  <2>1. CASE TickSends
    <3>1. tick.frame \in Sent /\ SendFrame(tick.frame)
      BY <2>1 DEF TickSends, TypeOK, TickOK
    <3> QED BY <3>1, SendKeepsTypes
  <2>2. CASE BeatSends
    <3>1. Testfr \in Sent /\ SendFrame(Testfr)
      BY <2>2 DEF BeatSends, Sent
    <3> QED BY <3>1, SendKeepsTypes
  <2>3. CASE TickDue \/ TickStores \/ TickEnds \/ BeatEnds \/ Stop
    BY <2>3 DEF TickDue, TickStores, TickEnds, BeatEnds, Stop
  <2>4. CASE StationSends \/ ValueChanges
    BY <2>4 DEF StationSends, ValueChanges, client
  <2>5. CASE StationTimesOut \/ LinkBreaks
    BY <2>5 DEF StationTimesOut, LinkBreaks
  <2> QED BY <2>1, <2>2, <2>3, <2>4, <2>5 DEF Tick, Beat, Station, Environment
<1> QED BY <1>1, <1>2, <1>3 DEF ConnectionInv, CountInv

LEMMA ConnectionInductive == Spec => [](ConnectionInv /\ CountInv)
<1>1. Init => ConnectionInv /\ CountInv
  BY DEF Init, ConnectionInv, CountInv, Serving
<1>2. TypeOK /\ ConnectionInv /\ CountInv /\ [Next]_vars
        => ConnectionInv' /\ CountInv'
  <2>1. ConnectionInv /\ CountInv /\ UNCHANGED vars => ConnectionInv' /\ CountInv'
    BY DEF vars, client, ConnectionInv, CountInv
  <2> QED BY <2>1, ReceiveKeepsConnection, OthersKeepConnection DEF Next
<1> QED BY <1>1, <1>2, TypeCorrect, PTL DEF Spec

(* socket_mutex_ is held between two steps exactly by a receive thread     *)
(* that waits in recv(), and a thread between two frames has a connection. *)
THEOREM ReceiveHoldsTheMutex == Spec => []ConnectionInv
<1> QED BY ConnectionInductive, PTL

(* The number of an S frame is that of the I frames received on this very  *)
(* connection, whatever the other threads do and wherever the last         *)
(* connection was cut.                                                     *)
THEOREM AcknowledgementsAreExact == Spec => []AckIsExact
<1>1. CountInv => AckIsExact
  BY DEF CountInv, AckIsExact
<1> QED BY <1>1, ConnectionInductive, PTL

(* A receive thread that has given up leaves a closed socket, and a client *)
(* the other threads see disconnected.                                     *)
THEOREM GivenUpMeansClosed == Spec => []GivenUpIsClosed
<1>1. ConnectionInv => GivenUpIsClosed
  BY DEF ConnectionInv, GivenUpIsClosed
<1> QED BY <1>1, ConnectionInductive, PTL

(* A frame changes the row of a point that has its type and address for    *)
(* itself, and is not misread, to the value it carries for it if it        *)
(* carries one, and leaves the row alone otherwise: whatever the station   *)
(* puts in the frame, single objects in any order or a sequence, of a type *)
(* that is known or not, or misread.                                       *)
THEOREM EveryDispatchIsExact == Spec => DispatchIsExact
<1> DEFINE asdu == rx.frame.asdu
           Exact == \A p \in Points :
              Distinct(p) =>
                table'[p] = IF p \in Carried(asdu) /\ asdu.type \in KnownTypes
                            THEN asdu.values[CHOOSE i \in DOMAIN asdu.values :
                                                asdu.ioas[i] = IoaOf[p]]
                            ELSE table[p]
           A == rx.pc = "dispatch" /\ rx'.pc = "loop" => Exact
<1>1. TypeOK /\ ConnectionInv /\ CountInv /\ [Next]_vars => [A]_vars
  <2> SUFFICES ASSUME TypeOK, ConnectionInv, CountInv, Next,
                      rx.pc = "dispatch", rx'.pc = "loop"
               PROVE  Exact
    OBVIOUS
  <2>1. Receive
    BY OthersKeepConnection DEF Next
  <2>2. RxDispatch
    BY <2>1
    DEF Receive, RxLoop, RxLock, RxFrame, RxTimeout, RxClosed, RxCount,
        RxAcknowledge, RxConfirm, RxDisconnect, RxDialed, RxDialFails, RxAnnounce,
        RxReset, RxStart, RxNumber, RxInterrogate
  <2>3. WellFormed(asdu)
    BY DEF TypeOK, RxOK, Asdu
  <2>4. PICK read \in Parsed(asdu) :
          \A p \in Points :
            table'[p] = IF p \in DOMAIN Updates(asdu.type, read)
                        THEN Updates(asdu.type, read)[p] ELSE table[p]
    BY <2>2 DEF RxDispatch
  <2> HIDE DEF asdu
  <2> QED BY <2>3, <2>4, UpdatesAreThoseCarried
<1>2. Spec => [][A]_vars
  BY <1>1, TypeCorrect, ConnectionInductive, PTL DEF Spec
<1> QED BY <1>2, PTL DEF DispatchIsExact

=============================================================================
