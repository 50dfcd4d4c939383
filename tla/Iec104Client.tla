------------------------------ MODULE Iec104Client ------------------------------
(***************************************************************************)
(* One Iec104Client of the IEC 104 collector after start(): its receive,   *)
(* heartbeat and interrogation threads, and the station it talks to.       *)
(*                                                                         *)
(* connected_ is an atomic; send_seq_ and recv_seq_ are plain counters     *)
(* that two threads use without a lock; socket_mutex_ is held for a whole  *)
(* send and for a whole receive, the waiting included.  Only the receive   *)
(* thread reconnects.                                                      *)
(*                                                                         *)
(* The station follows IEC 60870-5-104: it numbers its I frames, sends at  *)
(* most Window of them unacknowledged, reads the number in a control field *)
(* from its second bit on, and closes a connection whose numbers do not    *)
(* fit.  It handles a frame in the step that sends it; what delay there is *)
(* shows in its answers.                                                   *)
(*                                                                         *)
(* Nothing keeps SIGPIPE from its default: a send on a connection that the *)
(* station has closed may end the whole process.                           *)
(***************************************************************************)
EXTENDS Integers, Sequences, FiniteSets, SequencesExt

CONSTANTS
    Points,       \* points registered with the client
    TypeOf,       \* point -> type id of its mapping
    CaOf,         \* point -> common address of the ASDUs that carry it
    IoaOf,        \* point -> information object address
    Registered,   \* points in point_dispatch_: of those that share type and
                  \* information object address, the one registered last
    Values,       \* values a point may have; 0 is that of a row nobody has written
    Initial,      \* assignments of values to the points the station may start with
    MaxAttempts,  \* max_reconnect_attempts
    Window,       \* I frames the station sends without an acknowledgement (k)
    MaxQueue,     \* bound: frames of the station not yet read
    MaxSeq,       \* bound: interrogations sent on one connection
    MaxFaults     \* bound: changes of value and failures of the connection

\* The element types parse_asdu can read from a sequence (SQ = 1), and all it knows.
SequenceTypes == {1, 3, 9, 11, 13}
KnownTypes == SequenceTypes \cup {30, 31, 34}

\* Normalized values with a time tag, ten bytes each; parse_asdu takes them for short
\* floats and moves on by eight.
MisreadType == 34

\* The common address of every interrogation: the collector sets config_ to it and
\* looks at no mapping's.
CommonAddress == 1

\* The key of point_dispatch_ leaves the common address out.
Key(p) == <<TypeOf[p], IoaOf[p]>>

ASSUME Iec104Assumption ==
    /\ IsFiniteSet(Points)
    /\ TypeOf \in [Points -> KnownTypes \cup {45}]
    /\ CaOf \in [Points -> Nat] /\ IoaOf \in [Points -> Nat]
    /\ \A p, q \in Points : p # q => <<Key(p), CaOf[p]>> # <<Key(q), CaOf[q]>>
    /\ Registered \subseteq Points
    /\ \A p \in Points : \E q \in Registered : Key(q) = Key(p)
    /\ \A p, q \in Registered : p # q => Key(p) # Key(q)
    /\ Initial \subseteq [Points -> Values]
    /\ MaxAttempts \in Nat \ {0}
    /\ Window \in Nat \ {0}
    /\ MaxQueue \in Nat /\ MaxSeq \in Nat /\ MaxFaults \in Nat

VARIABLES
    alive,      \* the process runs
    running,    \* running_
    connected,  \* connected_
    sock,       \* socket_fd_: "none", "open" or "closed" by the station
    mutex,      \* the thread that holds socket_mutex_ between two steps
    sendSeq,    \* send_seq_
    recvSeq,    \* recv_seq_
    rx,         \* receive thread: its step, attempts made, frame in hand
    tick,       \* interrogation thread: its step and the frame it has built
    beat,       \* heartbeat thread: its step
    table,      \* the points' rows, written by the callback
    queue,      \* frames of the station that are on their way
    station,    \* the station's side of the connection
    actual,     \* the points' values in the station
    taken,      \* I frames received on this connection
    faults      \* bound: changes of value, broken connections and failed dials to come

client == <<alive, running, connected, sock, mutex, sendSeq, recvSeq, rx, tick, beat, table>>
vars == <<client, queue, station, actual, taken, faults>>

-----------------------------------------------------------------------------
(***************************************************************************)
(* Frames.                                                                 *)
(***************************************************************************)
\* detect_frame_type() on the first byte of a control field.
FrameType(byte) ==
    CASE byte % 4 = 3 -> "U"
      [] byte % 4 = 1 -> "S"
      [] OTHER -> "I"

Startdt == [kind |-> "startdt"]
Testfr == [kind |-> "testfr"]
Confirm == [kind |-> "confirm"]
Supervisory(r) == [kind |-> "S", rx |-> r]
\* put_uint16_le() stores the numbers as they are, without moving them past the
\* bit that tells the frame types apart.
Interrogation(s, r) == [kind |-> "interrogation", tx |-> s, rx |-> r]

KnownAs(asdu) == IF asdu.sq THEN SequenceTypes ELSE KnownTypes

\* A slip: the addresses of a sequence are counted from one too high.
ReadFromNext(asdu) ==
    [ioas |-> [i \in DOMAIN asdu.ioas |->
                  IF asdu.sq THEN asdu.ioas[1] + i ELSE asdu.ioas[i]],
     data |-> IF asdu.type \in KnownAs(asdu) THEN asdu.values ELSE <<>>]

\* What parse_asdu() makes of an ASDU: addresses and values are two lists, and for
\* a type it does not know only the first one grows.
Read(asdu) ==
    [ioas |-> [i \in DOMAIN asdu.ioas |->
                  IF asdu.sq THEN asdu.ioas[1] + i - 1 ELSE asdu.ioas[i]],
     data |-> IF asdu.type \in KnownAs(asdu) THEN asdu.values ELSE <<>>]

\* Of misread objects there are as many, with the first address: the other addresses,
\* and the values, are made of whatever bytes stand there; -1 is an address of no point.
Misread(asdu) ==
    {[ioas |-> ioas, data |-> data] :
        ioas \in {f \in [DOMAIN asdu.ioas -> {IoaOf[p] : p \in Points} \cup {-1}] :
                    f[1] = asdu.ioas[1]},
        data \in [DOMAIN asdu.values -> Values]}

Parsed(asdu) == IF asdu.type = MisreadType THEN Misread(asdu) ELSE {Read(asdu)}

\* dispatch_asdu(): the values found for registered points, the last one for each; an
\* address without a value is passed over.
Updates(type, read) ==
    LET Hits(p) == {i \in DOMAIN read.data : Key(p) = <<type, read.ioas[i]>>}
    IN  [p \in {q \in Registered : Hits(q) # {}} |->
            read.data[CHOOSE i \in Hits(p) : \A j \in Hits(p) : j <= i]]

-----------------------------------------------------------------------------
(***************************************************************************)
(* The station.                                                            *)
(***************************************************************************)
NewStation == [started |-> FALSE, vr |-> 0, vs |-> 0, acked |-> 0, owes |-> {}]

\* What an interrogation asks for.
Interrogated == {p \in Points : CaOf[p] = CommonAddress}

Closes == sock' = "closed" /\ UNCHANGED <<queue, station>>
Ignores == UNCHANGED <<sock, queue, station>>

\* A number acknowledges the frames before it.
Acknowledge(n) ==
    IF n > station.vs THEN Closes
    ELSE station' = [station EXCEPT !.acked = IF n > @ THEN n ELSE @]
         /\ UNCHANGED <<sock, queue>>

\* What the station makes of a frame the client sends.  Its confirmations are left
\* out: handle_u_frame() does nothing with one, so that receiving it is no
\* different from a receive timeout.
Handles(f) ==
    CASE f.kind = "startdt" ->
            station' = [station EXCEPT !.started = TRUE] /\ UNCHANGED <<sock, queue>>
      [] f.kind \in {"testfr", "confirm"} -> Ignores
      [] f.kind = "S" -> Acknowledge(f.rx \div 2)
      [] OTHER ->
            CASE FrameType(f.tx) = "U" -> Ignores
              [] FrameType(f.tx) = "S" -> Acknowledge(f.rx \div 2)
              [] OTHER ->
                    IF ~station.started \/ f.tx \div 2 # station.vr \/ f.rx \div 2 > station.vs
                    THEN Closes
                    ELSE /\ station' = [station EXCEPT !.vr = @ + 1, !.owes = Interrogated]
                         /\ UNCHANGED <<sock, queue>>

\* send_frame(): nothing happens without a socket.  When the station has closed the
\* connection nobody looks at the error, and the signal may come with it.
SendFrame(f) ==
    /\ mutex = "none"
    /\ IF sock = "open" THEN Handles(f) ELSE Ignores
    /\ \/ UNCHANGED alive
       \/ sock = "closed" /\ alive' = FALSE

\* The ASDUs that carry what the station owes of one type and common address: all of
\* it, in any order, as a sequence only when the type can be sent so and the addresses
\* follow each other.
AsduOf(p, order, q) ==
    [type |-> TypeOf[p], ca |-> CaOf[p], sq |-> q,
     ioas |-> [i \in DOMAIN order |-> IoaOf[order[i]]],
     values |-> [i \in DOMAIN order |-> actual[order[i]]]]
Sequential(order) == \A i \in DOMAIN order : IoaOf[order[i]] = IoaOf[order[1]] + i - 1
AsdusWith(S, p) ==
    LET orders == SetToSeqs({q \in S : TypeOf[q] = TypeOf[p] /\ CaOf[q] = CaOf[p]})
    IN  {AsduOf(p, order, FALSE) : order \in orders} \cup
        {AsduOf(p, order, TRUE) :
            order \in {o \in orders : TypeOf[p] \in SequenceTypes /\ Sequential(o)}}
Asdus(S) == UNION {AsdusWith(S, p) : p \in S}

Carried(asdu) ==
    {p \in Points : /\ CaOf[p] = asdu.ca
                    /\ \E i \in DOMAIN asdu.ioas : Key(p) = <<asdu.type, asdu.ioas[i]>>}

StationSends ==
    /\ sock = "open"
    /\ station.started
    /\ station.vs - station.acked < Window
    /\ Len(queue) < MaxQueue
    /\ \E asdu \in Asdus(station.owes) :
          /\ queue' = Append(queue, [kind |-> "I", asdu |-> asdu])
          /\ station' = [station EXCEPT !.vs = @ + 1, !.owes = @ \ Carried(asdu)]
    /\ UNCHANGED <<client, actual, taken, faults>>

\* t1: frames stay unacknowledged and the window is full.
StationTimesOut ==
    /\ sock = "open"
    /\ station.vs - station.acked >= Window
    /\ queue = <<>>
    /\ sock' = "closed"
    /\ UNCHANGED <<alive, running, connected, mutex, sendSeq, recvSeq, rx, tick, beat, table,
                   queue, station, actual, taken, faults>>

Fault == faults > 0 /\ faults' = faults - 1

\* A change is reported spontaneously on a started connection.
ValueChanges ==
    /\ Fault
    /\ \E p \in Points, v \in Values :
          /\ v # actual[p]
          /\ actual' = [actual EXCEPT ![p] = v]
          /\ station' = [station EXCEPT !.owes = IF station.started THEN @ \cup {p} ELSE @]
    /\ UNCHANGED <<client, queue, taken>>

\* The connection breaks, or the station says something that is no frame.
LinkBreaks ==
    /\ Fault
    /\ sock = "open"
    /\ \/ sock' = "closed" /\ UNCHANGED queue
       \/ /\ Len(queue) < MaxQueue
          /\ \E kind \in {"invalid", "testfrAct"} : queue' = Append(queue, [kind |-> kind])
          /\ UNCHANGED sock
    /\ UNCHANGED <<alive, running, connected, mutex, sendSeq, recvSeq, rx, tick, beat, table,
                   station, actual, taken>>

-----------------------------------------------------------------------------
(***************************************************************************)
(* The receive thread.                                                     *)
(***************************************************************************)
RxGoto(p) == rx' = [rx EXCEPT !.pc = p]
RxNext == rx' = [rx EXCEPT !.pc = "loop", !.frame = Confirm]

\* A slip: running_ is not looked at.
RxLoopWhileConnected ==
    /\ rx.pc = "loop"
    /\ RxGoto(IF connected THEN "receive" ELSE "ended")
    /\ UNCHANGED <<alive, running, connected, sock, mutex, sendSeq, recvSeq, tick, beat, table,
                   queue, station, actual, taken, faults>>

RxLoop ==
    /\ rx.pc = "loop"
    /\ RxGoto(IF running /\ connected THEN "receive" ELSE "ended")
    /\ UNCHANGED <<alive, running, connected, sock, mutex, sendSeq, recvSeq, tick, beat, table,
                   queue, station, actual, taken, faults>>

\* receive_apdu() waits in recv() with the mutex held.
RxLock ==
    /\ rx.pc = "receive"
    /\ mutex = "none"
    /\ mutex' = "rx"
    /\ RxGoto("wait")
    /\ UNCHANGED <<alive, running, connected, sock, sendSeq, recvSeq, tick, beat, table,
                   queue, station, actual, taken, faults>>

\* A frame, or something that is none and makes the thread reconnect.
RxFrame ==
    /\ rx.pc = "wait"
    /\ queue # <<>>
    /\ mutex' = "none"
    /\ queue' = Tail(queue)
    /\ taken' = IF Head(queue).kind = "I" THEN taken + 1 ELSE taken
    /\ rx' = [rx EXCEPT !.frame = Head(queue),
                        !.pc = CASE Head(queue).kind = "I" -> "count"
                                 [] Head(queue).kind = "testfrAct" -> "confirm"
                                 [] OTHER -> "disconnect"]
    /\ UNCHANGED <<alive, running, connected, sock, sendSeq, recvSeq, tick, beat, table,
                   station, actual, faults>>

\* The receive timeout is no error.
RxTimeout ==
    /\ rx.pc = "wait"
    /\ queue = <<>>
    /\ sock = "open"
    /\ mutex' = "none"
    /\ RxGoto("loop")
    /\ UNCHANGED <<alive, running, connected, sock, sendSeq, recvSeq, tick, beat, table,
                   queue, station, actual, taken, faults>>

RxClosed ==
    /\ rx.pc = "wait"
    /\ queue = <<>>
    /\ sock = "closed"
    /\ mutex' = "none"
    /\ connected' = FALSE
    /\ RxGoto("disconnect")
    /\ UNCHANGED <<alive, running, sock, sendSeq, recvSeq, tick, beat, table,
                   queue, station, actual, taken, faults>>

\* handle_i_frame(): count, acknowledge, then parse and write the values.
RxCount ==
    /\ rx.pc = "count"
    /\ recvSeq' = recvSeq + 1
    /\ RxGoto("acknowledge")
    /\ UNCHANGED <<alive, running, connected, sock, mutex, sendSeq, tick, beat, table,
                   queue, station, actual, taken, faults>>

RxAcknowledge ==
    /\ rx.pc = "acknowledge"
    /\ SendFrame(Supervisory(recvSeq))
    /\ RxGoto("dispatch")
    /\ UNCHANGED <<running, connected, mutex, sendSeq, recvSeq, tick, beat, table,
                   actual, taken, faults>>

RxDispatch ==
    /\ rx.pc = "dispatch"
    /\ \E read \in Parsed(rx.frame.asdu) :
          LET updates == Updates(rx.frame.asdu.type, read)
          IN  table' = [p \in Points |-> IF p \in DOMAIN updates THEN updates[p] ELSE table[p]]
    /\ RxNext
    /\ UNCHANGED <<alive, running, connected, sock, mutex, sendSeq, recvSeq, tick, beat,
                   queue, station, actual, taken, faults>>

\* The station's TESTFR act is answered.
RxConfirm ==
    /\ rx.pc = "confirm"
    /\ SendFrame(Confirm)
    /\ RxNext
    /\ UNCHANGED <<running, connected, mutex, sendSeq, recvSeq, tick, beat, table,
                   actual, taken, faults>>

\* A slip: the socket is closed and connected_ is left as it was.
RxDisconnectQuietly ==
    /\ rx.pc = "disconnect"
    /\ mutex = "none"
    /\ sock' = "none"
    /\ queue' = <<>>
    /\ rx' = [rx EXCEPT !.pc = "dial", !.attempts = 0]
    /\ UNCHANGED <<alive, running, connected, mutex, sendSeq, recvSeq, tick, beat, table,
                   station, actual, taken, faults>>

\* reconnect() begins with disconnect().
RxDisconnect ==
    /\ rx.pc = "disconnect"
    /\ mutex = "none"
    /\ sock' = "none"
    /\ queue' = <<>>
    /\ connected' = FALSE
    /\ rx' = [rx EXCEPT !.pc = "dial", !.attempts = 0]
    /\ UNCHANGED <<alive, running, mutex, sendSeq, recvSeq, tick, beat, table,
                   station, actual, taken, faults>>

\* do_connect() up to the store of the socket.
RxDialed ==
    /\ rx.pc = "dial"
    /\ mutex = "none"
    /\ sock' = "open"
    /\ queue' = <<>>
    /\ station' = NewStation
    /\ taken' = 0
    /\ RxGoto("announce")
    /\ UNCHANGED <<alive, running, connected, mutex, sendSeq, recvSeq, tick, beat, table,
                   actual, faults>>

\* After the last attempt the thread ends.
RxDialFails ==
    /\ rx.pc = "dial"
    /\ Fault
    /\ rx' = [rx EXCEPT !.attempts = @ + 1,
                        !.pc = IF rx.attempts + 1 < MaxAttempts THEN "dial" ELSE "ended"]
    /\ UNCHANGED <<alive, running, connected, sock, mutex, sendSeq, recvSeq, tick, beat, table,
                   queue, station, actual, taken>>

RxAnnounce ==
    /\ rx.pc = "announce"
    /\ connected' = TRUE
    /\ RxGoto("reset")
    /\ UNCHANGED <<alive, running, sock, mutex, sendSeq, recvSeq, tick, beat, table,
                   queue, station, actual, taken, faults>>

\* A slip: the receive counter is not reset.
RxResetSendOnly ==
    /\ rx.pc = "reset"
    /\ sendSeq' = 0
    /\ RxGoto("start")
    /\ UNCHANGED <<alive, running, connected, sock, mutex, recvSeq, tick, beat, table,
                   queue, station, actual, taken, faults>>

RxReset ==
    /\ rx.pc = "reset"
    /\ sendSeq' = 0
    /\ recvSeq' = 0
    /\ RxGoto("start")
    /\ UNCHANGED <<alive, running, connected, sock, mutex, tick, beat, table,
                   queue, station, actual, taken, faults>>

\* A slip: a reconnection does not interrogate.
RxStartOnly ==
    /\ rx.pc = "start"
    /\ SendFrame(Startdt)
    /\ RxGoto("loop")
    /\ UNCHANGED <<running, connected, mutex, sendSeq, recvSeq, tick, beat, table,
                   actual, taken, faults>>

\* do_connect() sends STARTDT; reconnect() sends it once more, which changes nothing.
RxStart ==
    /\ rx.pc = "start"
    /\ SendFrame(Startdt)
    /\ RxGoto("number")
    /\ UNCHANGED <<running, connected, mutex, sendSeq, recvSeq, tick, beat, table,
                   actual, taken, faults>>

RxNumber ==
    /\ rx.pc = "number"
    /\ rx' = [rx EXCEPT !.pc = "interrogate", !.frame = Interrogation(sendSeq, recvSeq)]
    /\ sendSeq' = IF sendSeq < MaxSeq THEN sendSeq + 1 ELSE sendSeq
    /\ UNCHANGED <<alive, running, connected, sock, mutex, recvSeq, tick, beat, table,
                   queue, station, actual, taken, faults>>

RxInterrogate ==
    /\ rx.pc = "interrogate"
    /\ SendFrame(rx.frame)
    /\ RxNext
    /\ UNCHANGED <<running, connected, mutex, sendSeq, recvSeq, tick, beat, table,
                   actual, taken, faults>>

Receive ==
    /\ alive
    /\ \/ RxLoop \/ RxLock \/ RxFrame \/ RxTimeout \/ RxClosed \/ RxCount
       \/ RxAcknowledge \/ RxDispatch \/ RxConfirm \/ RxDisconnect \/ RxDialed
       \/ RxDialFails \/ RxAnnounce \/ RxReset \/ RxStart \/ RxNumber \/ RxInterrogate

-----------------------------------------------------------------------------
(***************************************************************************)
(* The interrogation and heartbeat threads, and stop().                    *)
(***************************************************************************)
\* Every interrogation_interval_ms; send_seq_++ is a load and a store.
TickDue ==
    /\ tick.pc = "sleep"
    /\ running
    /\ connected
    /\ sendSeq < MaxSeq
    /\ tick' = [pc |-> "store", frame |-> Interrogation(sendSeq, recvSeq)]
    /\ UNCHANGED <<alive, running, connected, sock, mutex, sendSeq, recvSeq, rx, beat, table,
                   queue, station, actual, taken, faults>>

TickStores ==
    /\ tick.pc = "store"
    /\ sendSeq' = tick.frame.tx + 1
    /\ tick' = [tick EXCEPT !.pc = "send"]
    /\ UNCHANGED <<alive, running, connected, sock, mutex, recvSeq, rx, beat, table,
                   queue, station, actual, taken, faults>>

TickSends ==
    /\ tick.pc = "send"
    /\ SendFrame(tick.frame)
    /\ tick' = [pc |-> "sleep", frame |-> Confirm]
    /\ UNCHANGED <<running, connected, mutex, sendSeq, recvSeq, rx, beat, table,
                   actual, taken, faults>>

TickEnds ==
    /\ tick.pc = "sleep"
    /\ ~running
    /\ tick' = [tick EXCEPT !.pc = "ended"]
    /\ UNCHANGED <<alive, running, connected, sock, mutex, sendSeq, recvSeq, rx, beat, table,
                   queue, station, actual, taken, faults>>

BeatSends ==
    /\ beat = "sleep"
    /\ running
    /\ connected
    /\ SendFrame(Testfr)
    /\ UNCHANGED <<running, connected, mutex, sendSeq, recvSeq, rx, tick, beat, table,
                   actual, taken, faults>>

BeatEnds ==
    /\ beat = "sleep"
    /\ ~running
    /\ beat' = "ended"
    /\ UNCHANGED <<alive, running, connected, sock, mutex, sendSeq, recvSeq, rx, tick, table,
                   queue, station, actual, taken, faults>>

Tick == alive /\ (TickDue \/ TickStores \/ TickSends \/ TickEnds)
Beat == alive /\ (BeatSends \/ BeatEnds)

Stop ==
    /\ alive
    /\ running
    /\ running' = FALSE
    /\ UNCHANGED <<alive, connected, sock, mutex, sendSeq, recvSeq, rx, tick, beat, table,
                   queue, station, actual, taken, faults>>

\* main() goes on to start() whether or not the first connect() worked; it has
\* sent STARTDT and one interrogation before the threads run.
Init ==
    /\ alive = TRUE
    /\ running = TRUE
    /\ connected \in BOOLEAN
    /\ sock = IF connected THEN "open" ELSE "none"
    /\ mutex = "none"
    /\ sendSeq = 1
    /\ recvSeq = 0
    /\ rx = [pc |-> "loop", attempts |-> 0, frame |-> Confirm]
    /\ tick = [pc |-> "sleep", frame |-> Confirm]
    /\ beat = "sleep"
    /\ actual \in Initial
    /\ table = [p \in Points |-> 0]
    /\ queue = <<>>
    /\ station = IF connected
                 THEN [NewStation EXCEPT !.started = TRUE, !.vr = 1, !.owes = Interrogated]
                 ELSE NewStation
    /\ taken = 0
    /\ faults = MaxFaults

Station == StationSends \/ StationTimesOut
Environment == ValueChanges \/ LinkBreaks

Next == Receive \/ Tick \/ Beat \/ Stop \/ Station \/ Environment

Spec == Init /\ [][Next]_vars

\* Threads go on when they can: recv() and connect() have timeouts.  The station is
\* alive, and calm in the end.
FairSpec ==
    /\ Spec
    /\ WF_vars(Receive)
    /\ WF_vars(alive /\ (TickStores \/ TickSends \/ TickEnds))
    /\ WF_vars(Beat)
    /\ WF_vars(Station)

-----------------------------------------------------------------------------
(***************************************************************************)
(* Properties.                                                             *)
(***************************************************************************)

\* The number an S frame carries is that of the I frames received on this very
\* connection, also when earlier ones were cut off between count and dispatch.
AckIsExact == rx.pc \in {"acknowledge", "dispatch"} => recvSeq = taken

\* When the receive thread has given up, nothing is left that looks alive: the
\* socket is closed and the other threads see the client disconnected.
GivenUpIsClosed ==
    rx.pc = "ended" /\ running => ~connected /\ sock = "none"

\* A point that has its type and address for itself, of a type that is read right.
Distinct(p) ==
    /\ TypeOf[p] # MisreadType
    /\ \A q \in Points : Key(q) = Key(p) => q = p

\* A frame changes the row of such a point to the value it carries for it, if it carries
\* one and the parser knows the type, and leaves it alone otherwise: whatever else is in
\* the frame, in whatever order, and for single objects as for sequences.  The other
\* points are not promised that: of those that share type and address the rows may take
\* each other's values, and frames of the misread type set any of its points to anything.
DispatchIsExact ==
    [][rx.pc = "dispatch" /\ rx'.pc = "loop" =>
          LET asdu == rx.frame.asdu IN
          \A p \in Points :
              Distinct(p) =>
                  table'[p] = IF p \in Carried(asdu) /\ asdu.type \in KnownTypes
                              THEN asdu.values[CHOOSE i \in DOMAIN asdu.values :
                                                  asdu.ioas[i] = IoaOf[p]]
                              ELSE table[p]]_vars

\* What changed while the connection was down is learnt after it is up again, for the
\* points an interrogation asks for: the reconnection's is answered.  It is not when the
\* process was killed by a send, when the receive thread has given up, when every
\* reconnection meets an interrogation of the timer's, whose number is then taken twice
\* or belongs to the connection before, or when the timer's interrogation is the one
\* with number 0 and never gets socket_mutex_.
TimerMeetsReconnection ==
    tick.pc # "sleep" /\ rx.pc \in {"announce", "reset", "start", "number", "interrogate"}

CatchesUp ==
    [](running) =>
        <>(~alive)
        \/ <>[](rx.pc = "ended")
        \/ []<>TimerMeetsReconnection
        \/ <>[](tick.pc = "send")
        \/ <>[](\A p \in Interrogated :
                   Distinct(p) /\ TypeOf[p] \in KnownTypes => table[p] = actual[p])

\* stop() returns, unless a send kills the process meanwhile: whatever the threads are
\* doing, all three end.
StopEnds == ~running ~> (rx.pc = "ended" /\ tick.pc = "ended" /\ beat = "ended") \/ ~alive

=============================================================================
