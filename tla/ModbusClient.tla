------------------------------ MODULE ModbusClient ------------------------------
(***************************************************************************)
(* One ModbusTcpClient of the collector and the threads that share it: the *)
(* device's poll thread and, when the device has writable points, its      *)
(* control thread.  connected_ is an atomic that is read and written       *)
(* outside socket_mutex_; the descriptor is replaced under the mutex, and  *)
(* a request holds the mutex from send() to the end of recv().             *)
(*                                                                         *)
(* A request carries a transaction id, but the id of the answer is not     *)
(* compared with it: an answer is whatever comes next on the connection.   *)
(* The device answers the requests of one connection in their order, so a  *)
(* connection is modelled as the queue of the answers still to be read.    *)
(***************************************************************************)
EXTENDS Naturals, Sequences, FiniteSets

CONSTANTS
    Poll,         \* the poll thread of the device
    Control,      \* its control thread
    Sockets,      \* descriptors the process can hold at a time
    None,         \* socket_fd_ = -1, and a mutex nobody holds
    Late,         \* an answer to a request that nobody waits for any more
    MaxAttempts,  \* max_reconnect_attempts
    MaxPending    \* bound: answers still to be read from one connection

Threads == {Poll, Control}

ASSUME ClientAssumption ==
    /\ Poll # Control
    /\ None \notin Threads \cup Sockets
    /\ Late \notin Threads
    /\ MaxAttempts \in Nat \ {0}
    /\ MaxPending \in Nat \ {0}

VARIABLES
    alive,      \* the process runs
    users,      \* the threads that have this client
    connected,  \* connected_
    fd,         \* socket_fd_
    mutex,      \* the thread that holds socket_mutex_ between two steps
    sock,       \* per descriptor: "free", "open" or "dead" (closed by the peer)
    pending,    \* per descriptor: for whom the answers still to be read are
    pc,         \* where each thread is
    attempt,    \* reconnection attempts made by the request in hand
    fresh,      \* a connection made by do_connect and not yet in socket_fd_
    heard,      \* how the last request of each thread ended
    link        \* the device: "ok", "slow" (may miss the timeout) or "down"

vars == <<alive, users, connected, fd, mutex, sock, pending, pc, attempt, fresh, heard, link>>

Pcs == {"idle", "disconnect", "connect", "adopt", "announce", "send", "recv", "clear"}
Outcomes == {"none", "own", "other", "error"}

TypeOK ==
    /\ alive \in BOOLEAN
    /\ users \in {{Poll}, Threads}
    /\ connected \in BOOLEAN
    /\ fd \in Sockets \cup {None}
    /\ mutex \in Threads \cup {None}
    /\ sock \in [Sockets -> {"free", "open", "dead"}]
    /\ pending \in [Sockets -> Seq(Threads \cup {Late})]
    /\ pc \in [Threads -> Pcs]
    /\ attempt \in [Threads -> 0..MaxAttempts]
    /\ fresh \in [Threads -> Sockets \cup {None}]
    /\ heard \in [Threads -> Outcomes]
    /\ link \in {"ok", "slow", "down"}

\* main() connects each client once before the threads start, and goes on
\* whether or not that worked.
Init ==
    /\ alive = TRUE
    /\ users \in {{Poll}, Threads}
    /\ link \in {"ok", "slow", "down"}
    /\ pending = [s \in Sockets |-> <<>>]
    /\ \/ /\ fd = None
          /\ connected = FALSE
          /\ sock = [s \in Sockets |-> "free"]
       \/ /\ fd \in Sockets
          /\ link # "down"
          /\ connected = TRUE
          /\ sock = [s \in Sockets |-> IF s = fd THEN "open" ELSE "free"]
    /\ mutex = None
    /\ pc = [t \in Threads |-> "idle"]
    /\ attempt = [t \in Threads |-> 0]
    /\ fresh = [t \in Threads |-> None]
    /\ heard = [t \in Threads |-> "none"]

Goto(t, p) == pc' = [pc EXCEPT ![t] = p]
Finish(t, outcome) == heard' = [heard EXCEPT ![t] = outcome]

\* The answers of q when nobody waits for any of them.
AllLate(q) == [i \in 1..Len(q) |-> Late]

\* A slip: a request that finds the client disconnected only reports it.
BeginRequestGivesUp(t) ==
    /\ t \in users
    /\ pc[t] = "idle"
    /\ IF connected THEN Goto(t, "send") /\ Finish(t, "none")
       ELSE UNCHANGED pc /\ Finish(t, "error")
    /\ UNCHANGED <<alive, users, connected, fd, mutex, sock, pending, attempt, fresh, link>>

\* Every read and write begins with a look at connected_.
BeginRequest(t) ==
    /\ t \in users
    /\ pc[t] = "idle"
    /\ Goto(t, IF connected THEN "send" ELSE "disconnect")
    /\ Finish(t, "none")
    /\ UNCHANGED <<alive, users, connected, fd, mutex, sock, pending, attempt, fresh, link>>

\* A slip: the descriptor is forgotten and not closed.
DisconnectWithoutClose(t) ==
    /\ pc[t] = "disconnect"
    /\ mutex = None
    /\ fd' = None
    /\ connected' = FALSE
    /\ attempt' = [attempt EXCEPT ![t] = 0]
    /\ Goto(t, "connect")
    /\ UNCHANGED <<alive, users, mutex, sock, pending, fresh, heard, link>>

\* disconnect(): all of it happens under the mutex.
Disconnect(t) ==
    /\ pc[t] = "disconnect"
    /\ mutex = None
    /\ sock' = [s \in Sockets |-> IF s = fd THEN "free" ELSE sock[s]]
    /\ pending' = [s \in Sockets |-> IF s = fd THEN <<>> ELSE pending[s]]
    /\ fd' = None
    /\ connected' = FALSE
    /\ attempt' = [attempt EXCEPT ![t] = 0]
    /\ Goto(t, "connect")
    /\ UNCHANGED <<alive, users, mutex, fresh, heard, link>>

\* do_connect() up to the point where it has a connected socket.
ConnectSucceeds(t) ==
    /\ pc[t] = "connect"
    /\ link # "down"
    /\ \E s \in Sockets :
          /\ sock[s] = "free"
          /\ sock' = [sock EXCEPT ![s] = "open"]
          /\ fresh' = [fresh EXCEPT ![t] = s]
    /\ Goto(t, "adopt")
    /\ UNCHANGED <<alive, users, connected, fd, mutex, pending, attempt, heard, link>>

\* An attempt fails when the device does not accept within the timeout or no
\* descriptor is left; the last one ends the request with an error.
ConnectFails(t) ==
    /\ pc[t] = "connect"
    /\ \/ link # "ok"
       \/ \A s \in Sockets : sock[s] # "free"
    /\ attempt' = [attempt EXCEPT ![t] = @ + 1]
    /\ IF attempt[t] + 1 < MaxAttempts
          THEN UNCHANGED <<pc, heard>>
          ELSE Goto(t, "idle") /\ Finish(t, "error")
    /\ UNCHANGED <<alive, users, connected, fd, mutex, sock, pending, fresh, link>>

\* socket_fd_ takes the new descriptor, whatever it held before.
Adopt(t) ==
    /\ pc[t] = "adopt"
    /\ mutex = None
    /\ fd' = fresh[t]
    /\ fresh' = [fresh EXCEPT ![t] = None]
    /\ Goto(t, "announce")
    /\ UNCHANGED <<alive, users, connected, mutex, sock, pending, attempt, heard, link>>

\* connected_ is stored after the mutex was released.
Announce(t) ==
    /\ pc[t] = "announce"
    /\ connected' = TRUE
    /\ Goto(t, "send")
    /\ UNCHANGED <<alive, users, fd, mutex, sock, pending, attempt, fresh, heard, link>>

\* A slip: the request is sent before the mutex is taken.
SendUnlocked(t) ==
    /\ pc[t] = "send"
    /\ fd # None
    /\ Len(pending[fd]) < MaxPending
    /\ pending' = [pending EXCEPT ![fd] = Append(@, t)]
    /\ mutex' = t
    /\ Goto(t, "recv")
    /\ UNCHANGED <<alive, users, connected, fd, sock, attempt, fresh, heard, link>>

\* send_and_receive() takes the mutex and sends; a peer that is gone does not
\* answer, and the first send() to it may still succeed.
Send(t) ==
    /\ pc[t] = "send"
    /\ mutex = None
    /\ fd # None
    /\ pending' = IF sock[fd] = "open" /\ Len(pending[fd]) < MaxPending
                  THEN [pending EXCEPT ![fd] = Append(@, t)]
                  ELSE pending
    /\ mutex' = t
    /\ Goto(t, "recv")
    /\ UNCHANGED <<alive, users, connected, fd, sock, attempt, fresh, heard, link>>

\* Nothing keeps SIGPIPE from its default: the signal comes with the error of a send()
\* that follows another one on a connection the peer has closed.  That other one is a
\* second thread's, for after an error of its own a thread makes a new connection.
SendFails(t) ==
    /\ pc[t] = "send"
    /\ mutex = None
    /\ IF fd = None THEN TRUE ELSE sock[fd] = "dead"
    /\ \/ UNCHANGED alive
       \/ fd # None /\ users = Threads /\ alive' = FALSE
    /\ Goto(t, "clear")
    /\ UNCHANGED <<users, connected, fd, mutex, sock, pending, attempt, fresh, heard, link>>

\* The next answer of the connection is taken for the answer to this request;
\* an exception code in it makes the request fail.
Receive(t) ==
    /\ pc[t] = "recv"
    /\ pending[fd] # <<>>
    /\ pending' = [pending EXCEPT ![fd] = AllLate(Tail(@))]
    /\ mutex' = None
    /\ \/ /\ Finish(t, IF Head(pending[fd]) = t THEN "own" ELSE "other")
          /\ Goto(t, "idle")
       \/ /\ link # "ok"
          /\ Goto(t, "clear")
          /\ UNCHANGED heard
    /\ UNCHANGED <<alive, users, connected, fd, sock, attempt, fresh, link>>

\* recv() gives up after timeout_ms, or at once when the peer is gone.  The
\* device may still answer, or never.
TimeOut(t) ==
    /\ pc[t] = "recv"
    /\ link # "ok" \/ sock[fd] = "dead"
    /\ \/ pending' = [pending EXCEPT ![fd] = AllLate(@)]
       \/ /\ pending[fd] # <<>>
          /\ pending' = [pending EXCEPT ![fd] = AllLate(Tail(@))]
    /\ mutex' = None
    /\ Goto(t, "clear")
    /\ UNCHANGED <<alive, users, connected, fd, sock, attempt, fresh, heard, link>>

\* A slip: the error is returned and connected_ left alone.
ClearConnectedForgotten(t) ==
    /\ pc[t] = "clear"
    /\ Finish(t, "error")
    /\ Goto(t, "idle")
    /\ UNCHANGED <<alive, users, connected, fd, mutex, sock, pending, attempt, fresh, link>>

\* The caller of send_and_receive() stores connected_ = false on an error, after
\* the mutex was released.
ClearConnected(t) ==
    /\ pc[t] = "clear"
    /\ connected' = FALSE
    /\ Finish(t, "error")
    /\ Goto(t, "idle")
    /\ UNCHANGED <<alive, users, fd, mutex, sock, pending, attempt, fresh, link>>

\* The device gets slow, fast again, or restarts and loses every connection.
LinkChanges ==
    /\ link' \in {"ok", "slow", "down"} \ {link}
    /\ sock' = IF link' = "down"
               THEN [s \in Sockets |-> IF sock[s] = "open" THEN "dead" ELSE sock[s]]
               ELSE sock
    /\ UNCHANGED <<alive, users, connected, fd, mutex, pending, pc, attempt, fresh, heard>>

Thread(t) ==
    /\ alive
    /\ \/ BeginRequest(t) \/ Disconnect(t) \/ ConnectSucceeds(t) \/ ConnectFails(t)
       \/ Adopt(t) \/ Announce(t) \/ Send(t) \/ SendFails(t)
       \/ Receive(t) \/ TimeOut(t) \/ ClearConnected(t)

Next == LinkChanges \/ \E t \in Threads : Thread(t)

Spec == Init /\ [][Next]_vars

\* A thread that can go on does: its waits are bounded by timeout_ms, by the
\* sleep between attempts and by the poll interval.
FairSpec == Spec /\ WF_vars(Thread(Poll))

-----------------------------------------------------------------------------
(***************************************************************************)
(* Properties.                                                             *)
(***************************************************************************)

\* A poll thread that has the client for itself is never given the answer of an
\* earlier request, although transaction ids are not compared: every error leads
\* to a new connection before the next request.
AloneGetsItsOwnAnswer ==
    users = {Poll} => heard[Poll] # "other"

\* Answers can only be mixed up after a request was given up: while no answer is
\* late on the connection in use, neither thread can be handed the other's.
WrongAnswerIsALateOne ==
    \A t \in Threads : pc[t] = "recv" /\ pending[fd] # <<>> =>
        Head(pending[fd]) \in {t, Late}

\* The descriptors in nobody's hands: never closed until the process ends.
Leaked == {s \in Sockets : sock[s] # "free" /\ s # fd /\ \A t \in Threads : fresh[t] # s}

\* Connections are lost track of only when two threads reconnect at once: alone, a
\* thread has at most one descriptor open, however often the device fails it.
AloneLeaksNothing ==
    users = {Poll} =>
        /\ Leaked = {}
        /\ Cardinality({s \in Sockets : sock[s] # "free"}) <= 1

\* A device that stays reachable is read again, whatever happened before: the
\* client of a poll thread never stays in a state from which it cannot recover.
AloneRecovers ==
    users = {Poll} /\ <>[](link = "ok") => []<>(heard[Poll] = "own")

=============================================================================
