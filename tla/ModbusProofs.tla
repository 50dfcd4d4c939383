------------------------------ MODULE ModbusProofs ------------------------------
(***************************************************************************)
(* Proofs about the Modbus side of the collector.                          *)
(*                                                                         *)
(* ModbusClient, for any number of descriptors, attempts and outstanding   *)
(* answers: answers are mixed up only when a request was given up before,  *)
(* and a poll thread that has its client for itself always reads its own   *)
(* answer and loses no descriptor.                                         *)
(*                                                                         *)
(* DevicePoll, for any layout, word size and commands: the block reads     *)
(* cover the points, a device is online only when every point was read,    *)
(* what is stored is what the point's registers say, and a command that    *)
(* the point's type can represent is read back as it was asked for.        *)
(***************************************************************************)
EXTENDS ModbusClient, DevicePoll, FiniteSetTheorems, SequenceTheorems,
        WellFoundedInduction, TLAPS

-----------------------------------------------------------------------------
(***************************************************************************)
(* ModbusClient.                                                           *)
(***************************************************************************)
(* The mutex is held exactly while a thread waits in recv().               *)
Held ==
    /\ \A t \in Threads : mutex = t <=> pc[t] = "recv"
    /\ mutex # None => fd \in Sockets

(* Only the thread in recv() is owed an answer, on the connection in use.  *)
Owed ==
    \A s \in Sockets : \A i \in 1..Len(pending[s]) :
        pending[s][i] # Late => s = fd /\ mutex = pending[s][i]

(* A thread that is still connecting has an attempt left.                  *)
Counted == \A t \in Threads : pc[t] = "connect" => attempt[t] < MaxAttempts

SharedInv == TypeOK /\ Counted /\ Held /\ Owed

(* A poll thread alone: the connection in use is the only one, and nothing *)
(* is left to be read from it when the next request is sent.               *)
Tidy ==
    /\ pc[Control] = "idle"
    /\ \A s \in Sockets : sock[s] = "free" => pending[s] = <<>>
    /\ \A s \in Sockets : s # fd /\ s # fresh[Poll] => sock[s] = "free"
    /\ fresh[Control] = None
    /\ fresh[Poll] # None <=> pc[Poll] = "adopt"
    /\ pc[Poll] \in {"connect", "adopt"} => fd = None
    /\ pc[Poll] = "adopt" => pending[fresh[Poll]] = <<>>
    /\ pc[Poll] \in {"announce", "send"} \/ (pc[Poll] = "idle" /\ connected) =>
          fd = None \/ pending[fd] = <<>>
    /\ pc[Poll] = "recv" => pending[fd] \in {<<>>, <<Poll>>}
    /\ heard[Poll] # "other"

Alone == users = {Poll} => Tidy

-----------------------------------------------------------------------------
(* What is given up stays as long as it was, and belongs to nobody.        *)
LEMMA AllLateFacts ==
  ASSUME NEW S, NEW q \in Seq(S)
  PROVE  /\ AllLate(q) \in Seq(Threads \cup {Late})
         /\ Len(AllLate(q)) = Len(q)
         /\ \A i \in 1..Len(AllLate(q)) : AllLate(q)[i] = Late
BY DEF AllLate

LEMMA InitTypeOK == Init => TypeOK
<1> SUFFICES ASSUME Init PROVE TypeOK
  OBVIOUS
<1>1. sock \in [Sockets -> {"free", "open", "dead"}] /\ connected \in BOOLEAN
      /\ fd \in Sockets \cup {None}
  BY DEF Init
<1>2. pending \in [Sockets -> Seq(Threads \cup {Late})]
  BY DEF Init
<1>3. attempt \in [Threads -> 0..MaxAttempts]
  BY ClientAssumption DEF Init
<1> QED BY <1>1, <1>2, <1>3 DEF Init, TypeOK, Pcs, Outcomes

LEMMA NextTypeOK == TypeOK /\ Counted /\ [Next]_vars => TypeOK'
<1> SUFFICES ASSUME TypeOK, Counted, [Next]_vars PROVE TypeOK'
  OBVIOUS
<1> USE DEF TypeOK, Pcs, Outcomes, Goto, Finish
<1>1. CASE LinkChanges
  BY <1>1 DEF LinkChanges
<1>2. ASSUME NEW t \in Threads, Thread(t) PROVE TypeOK'
  <2>1. CASE BeginRequest(t)
    BY <2>1 DEF BeginRequest
  <2>9. CASE Announce(t) \/ SendFails(t)
    BY <2>9 DEF Announce, SendFails
  <2>10. CASE ClearConnected(t)
    BY <2>10 DEF ClearConnected
  <2>2. CASE Disconnect(t)
    <3>1. /\ sock' \in [Sockets -> {"free", "open", "dead"}]
          /\ pending' \in [Sockets -> Seq(Threads \cup {Late})]
      BY <2>2 DEF Disconnect
    <3>2. attempt' \in [Threads -> 0..MaxAttempts]
      BY <2>2, ClientAssumption DEF Disconnect
    <3> QED BY <3>1, <3>2, <2>2 DEF Disconnect
  <2>3. CASE ConnectSucceeds(t)
    BY <2>3 DEF ConnectSucceeds
  <2>4. CASE ConnectFails(t)
    <3>1. attempt' \in [Threads -> 0..MaxAttempts]
      BY <2>4, ClientAssumption DEF ConnectFails, Counted
    <3>2. pc' \in [Threads -> Pcs] /\ heard' \in [Threads -> Outcomes]
      BY <2>4 DEF ConnectFails
    <3> QED BY <3>1, <3>2, <2>4 DEF ConnectFails
  <2>5. CASE Adopt(t)
    BY <2>5 DEF Adopt
  <2>6. CASE Send(t)
    BY <2>6 DEF Send
  <2>7. CASE Receive(t)
    <3>1. CASE fd \in Sockets
      <4>1. Tail(pending[fd]) \in Seq(Threads \cup {Late})
        BY <2>7, <3>1 DEF Receive
      <4>2. pending' \in [Sockets -> Seq(Threads \cup {Late})]
        BY <4>1, <2>7, <3>1, AllLateFacts DEF Receive
      <4> QED BY <4>2, <2>7 DEF Receive
    <3>2. CASE fd \notin Sockets
      BY <3>2, <2>7 DEF Receive
    <3> QED BY <3>1, <3>2
  <2>8. CASE TimeOut(t)
    <3>1. \A q \in Seq(Threads \cup {Late}) : AllLate(q) \in Seq(Threads \cup {Late})
      BY AllLateFacts
    <3>2. pending' \in [Sockets -> Seq(Threads \cup {Late})]
      <4>1. CASE pending' = [pending EXCEPT ![fd] = AllLate(@)]
        BY <4>1, <3>1
      <4>2. CASE pending[fd] # <<>> /\ pending' = [pending EXCEPT ![fd] = AllLate(Tail(@))]
        <5>1. fd \in Sockets => Tail(pending[fd]) \in Seq(Threads \cup {Late})
          BY <4>2
        <5> QED BY <4>2, <5>1, <3>1
      <4> QED BY <2>8, <4>1, <4>2 DEF TimeOut
    <3> QED BY <3>2, <2>8 DEF TimeOut
  <2> QED BY <1>2, <2>1, <2>2, <2>3, <2>4, <2>5, <2>6, <2>7, <2>8,
                <2>9, <2>10 DEF Thread
<1>3. CASE UNCHANGED vars
  BY <1>3 DEF vars
<1> QED BY <1>1, <1>2, <1>3 DEF Next

(* An attempt that was the last one ends the request.                      *)
LEMMA NextCounted == TypeOK /\ Counted /\ [Next]_vars => Counted'
<1> SUFFICES ASSUME TypeOK, Counted, [Next]_vars, NEW u \in Threads, pc'[u] = "connect"
             PROVE  attempt'[u] < MaxAttempts
  BY DEF Counted
<1> USE ClientAssumption DEF TypeOK, Counted, Goto, Finish
<1>1. ASSUME NEW t \in Threads, Thread(t) PROVE attempt'[u] < MaxAttempts
  <2>1. CASE Disconnect(t)
    BY <2>1 DEF Disconnect
  <2>2. CASE ConnectFails(t)
    BY <2>2 DEF ConnectFails
  <2>3. CASE BeginRequest(t)
    BY <2>3 DEF BeginRequest
  <2>4. CASE ConnectSucceeds(t) \/ Adopt(t) \/ Announce(t)
    BY <2>4 DEF ConnectSucceeds, Adopt, Announce
  <2>5. CASE Send(t) \/ SendFails(t) \/ TimeOut(t) \/ ClearConnected(t)
    BY <2>5 DEF Send, SendFails, TimeOut, ClearConnected
  <2>6. CASE Receive(t)
    BY <2>6 DEF Receive
  <2> QED BY <1>1, <2>1, <2>2, <2>3, <2>4, <2>5, <2>6 DEF Thread
<1>2. CASE LinkChanges
  BY <1>2 DEF LinkChanges
<1>3. CASE UNCHANGED vars
  BY <1>3 DEF vars
<1> QED BY <1>1, <1>2, <1>3 DEF Next

-----------------------------------------------------------------------------
(* The mutex and what is owed on the connections.                          *)
LEMMA LinkKeepsShared ==
  ASSUME SharedInv, LinkChanges \/ UNCHANGED vars PROVE (Held /\ Owed)'
BY DEF SharedInv, Held, Owed, LinkChanges, vars

LEMMA SmallStepsKeepShared ==
  ASSUME SharedInv, NEW t \in Threads,
         \/ BeginRequest(t) \/ ConnectSucceeds(t) \/ ConnectFails(t) \/ Announce(t)
         \/ SendFails(t) \/ ClearConnected(t)
  PROVE  (Held /\ Owed)'
<1>1. TypeOK /\ Held /\ Owed
  BY DEF SharedInv
<1>2. UNCHANGED <<fd, mutex, pending>>
  BY DEF BeginRequest, ConnectSucceeds, ConnectFails, Announce, SendFails, ClearConnected
<1>3. /\ pc[t] # "recv" /\ pc'[t] # "recv"
      /\ \A u \in Threads \ {t} : pc'[u] = pc[u]
  <2> USE DEF TypeOK, Goto
  <2>1. CASE BeginRequest(t)
    BY <1>1, <2>1 DEF BeginRequest
  <2>2. CASE ConnectSucceeds(t)
    BY <1>1, <2>2 DEF ConnectSucceeds
  <2>3. CASE ConnectFails(t)
    BY <1>1, <2>3 DEF ConnectFails
  <2>4. CASE Announce(t)
    BY <1>1, <2>4 DEF Announce
  <2>5. CASE SendFails(t)
    BY <1>1, <2>5 DEF SendFails
  <2>6. CASE ClearConnected(t)
    BY <1>1, <2>6 DEF ClearConnected
  <2> QED BY <2>1, <2>2, <2>3, <2>4, <2>5, <2>6
<1> QED BY <1>1, <1>2, <1>3 DEF Held, Owed

(* Nobody is owed anything while nobody holds the mutex.                   *)
LEMMA FreeMutexOwesNothing ==
  ASSUME SharedInv, mutex = None, NEW s \in Sockets, NEW i \in 1..Len(pending[s])
  PROVE  pending[s][i] = Late
BY ClientAssumption DEF SharedInv, TypeOK, Owed

LEMMA ReplacementsKeepShared ==
  ASSUME SharedInv, NEW t \in Threads, Disconnect(t) \/ Adopt(t)
  PROVE  (Held /\ Owed)'
<1>1. TypeOK /\ Held
  BY DEF SharedInv
<1>2. mutex = None /\ mutex' = None
  BY DEF Disconnect, Adopt
<1>3. \A s \in Sockets : pending'[s] = <<>> \/ pending'[s] = pending[s]
  BY <1>1 DEF TypeOK, Disconnect, Adopt
<1>4. Owed'
  <2> SUFFICES ASSUME NEW s \in Sockets, NEW i \in 1..Len(pending'[s])
               PROVE  pending'[s][i] = Late
    BY DEF Owed
  <2> QED BY <1>2, <1>3, FreeMutexOwesNothing
<1>5. Held'
  <2>1. pc[t] # "recv" /\ pc'[t] # "recv" /\ \A u \in Threads \ {t} : pc'[u] = pc[u]
    BY <1>1 DEF TypeOK, Disconnect, Adopt, Goto
  <2> QED BY <1>1, <1>2, <2>1 DEF Held
<1> QED BY <1>4, <1>5

LEMMA SendKeepsShared ==
  ASSUME SharedInv, NEW t \in Threads, Send(t) PROVE (Held /\ Owed)'
<1>1. TypeOK /\ Held /\ Owed
  BY DEF SharedInv
<1>2. /\ mutex = None /\ mutex' = t /\ fd \in Sockets /\ fd' = fd
      /\ pc' = [pc EXCEPT ![t] = "recv"]
      /\ pending' = [pending EXCEPT ![fd] = Append(@, t)] \/ pending' = pending
  BY <1>1 DEF Send, TypeOK, Goto
<1>3. Held'
  <2>1. \A u \in Threads : pc[u] # "recv" /\ None # u
    BY <1>1, <1>2, ClientAssumption DEF Held
  <2> QED BY <2>1, <1>1, <1>2 DEF Held, TypeOK
<1>4. Owed'
  <2> SUFFICES ASSUME NEW s \in Sockets, NEW i \in 1..Len(pending'[s]), pending'[s][i] # Late
               PROVE  s = fd /\ pending'[s][i] = t
    BY <1>2 DEF Owed
  <2>1. pending[s] \in Seq(Threads \cup {Late})
    BY <1>1 DEF TypeOK
  <2>2. \A k \in 1..Len(pending[s]) : pending[s][k] = Late
    BY <1>2, FreeMutexOwesNothing
  <2>3. pending'[s] # pending[s]
    BY <2>2
  <2>4. s = fd /\ pending'[s] = Append(pending[s], t)
    BY <2>3, <1>1, <1>2 DEF TypeOK
  <2> QED BY <2>1, <2>2, <2>4
<1> QED BY <1>3, <1>4

LEMMA AnswersKeepShared ==
  ASSUME SharedInv, NEW t \in Threads, Receive(t) \/ TimeOut(t)
  PROVE  (Held /\ Owed)'
<1>1. TypeOK /\ Held /\ Owed
  BY DEF SharedInv
<1>2. pc[t] = "recv" /\ mutex = t /\ mutex' = None /\ fd \in Sockets /\ fd' = fd
  BY <1>1, ClientAssumption DEF Receive, TimeOut, Held
<1>3. pc'[t] # "recv" /\ \A u \in Threads \ {t} : pc'[u] = pc[u]
  BY <1>1 DEF TypeOK, Receive, TimeOut, Goto
<1>4. Held'
  BY <1>1, <1>2, <1>3, ClientAssumption DEF Held
<1>5. pending[fd] \in Seq(Threads \cup {Late})
  BY <1>1, <1>2 DEF TypeOK
<1>6. Owed'
  <2> SUFFICES ASSUME NEW s \in Sockets, NEW i \in 1..Len(pending'[s])
               PROVE  pending'[s][i] = Late
    BY DEF Owed
  <2>1. CASE s # fd
    <3>1. pending'[s] = pending[s]
      BY <2>1, <1>1 DEF Receive, TimeOut, TypeOK
    <3> QED BY <2>1, <3>1, <1>1 DEF Owed
  <2>2. CASE s = fd
    <3>1. \/ pending'[fd] = AllLate(pending[fd])
          \/ pending[fd] # <<>> /\ pending'[fd] = AllLate(Tail(pending[fd]))
      BY <1>1, <1>2 DEF Receive, TimeOut, TypeOK
    <3>2. CASE pending'[fd] = AllLate(pending[fd])
      BY <2>2, <3>2, <1>5, AllLateFacts
    <3>3. CASE pending[fd] # <<>> /\ pending'[fd] = AllLate(Tail(pending[fd]))
      <4>1. Tail(pending[fd]) \in Seq(Threads \cup {Late})
        BY <3>3, <1>5
      <4> QED BY <2>2, <3>3, <4>1, AllLateFacts
    <3> QED BY <3>1, <3>2, <3>3
  <2> QED BY <2>1, <2>2
<1> QED BY <1>4, <1>6

LEMMA InitShared == Init => SharedInv
<1> SUFFICES ASSUME Init PROVE SharedInv
  OBVIOUS
<1>1. TypeOK
  BY InitTypeOK
<1>2. Counted /\ Held /\ Owed
  BY ClientAssumption DEF Init, Counted, Held, Owed
<1> QED BY <1>1, <1>2 DEF SharedInv

LEMMA NextKeepsShared == SharedInv /\ [Next]_vars => SharedInv'
<1> SUFFICES ASSUME SharedInv, [Next]_vars PROVE SharedInv'
  OBVIOUS
<1>1. TypeOK' /\ Counted'
  BY NextTypeOK, NextCounted DEF SharedInv
<1>2. CASE LinkChanges \/ UNCHANGED vars
  BY <1>1, <1>2, LinkKeepsShared DEF SharedInv
<1>3. ASSUME NEW t \in Threads, Thread(t) PROVE SharedInv'
  <2>1. (Held /\ Owed)'
    BY <1>3, SmallStepsKeepShared, ReplacementsKeepShared, SendKeepsShared, AnswersKeepShared
       DEF Thread
  <2> QED BY <1>1, <2>1 DEF SharedInv
<1> QED BY <1>2, <1>3 DEF Next

THEOREM SharedInvariant == Spec => []SharedInv
<1>1. Init => SharedInv
  BY InitShared
<1>2. SharedInv /\ [Next]_vars => SharedInv'
  BY NextKeepsShared
<1> QED BY <1>1, <1>2, PTL DEF Spec

(* The variables of a client and its threads keep their types.             *)
THEOREM TypeCorrect == Spec => []TypeOK
<1>1. SharedInv => TypeOK
  BY DEF SharedInv
<1> QED BY <1>1, SharedInvariant, PTL

(* Transaction ids are not compared, and still the answer taken by recv()  *)
(* is the thread's own or one to a request that was given up before        *)
(* (send_and_receive holds socket_mutex_ from send to recv).               *)
THEOREM OnlyLateAnswersAreWrong == Spec => []WrongAnswerIsALateOne
<1>1. SharedInv => WrongAnswerIsALateOne
  <2> SUFFICES ASSUME SharedInv, NEW t \in Threads, pc[t] = "recv", pending[fd] # <<>>
               PROVE  Head(pending[fd]) \in {t, Late}
    BY DEF WrongAnswerIsALateOne
  <2>1. mutex = t /\ fd \in Sockets
    BY ClientAssumption DEF SharedInv, Held
  <2>2. pending[fd] \in Seq(Threads \cup {Late}) /\ 1 \in 1..Len(pending[fd])
    BY <2>1 DEF SharedInv, TypeOK
  <2>3. Head(pending[fd]) = pending[fd][1]
    BY <2>2
  <2> QED BY <2>1, <2>2, <2>3 DEF SharedInv, Owed
<1> QED BY <1>1, SharedInvariant, PTL

-----------------------------------------------------------------------------
(***************************************************************************)
(* A poll thread that has its client for itself.                           *)
(***************************************************************************)
LEMMA AloneMeansPoll ==
  ASSUME SharedInv, Tidy, users = {Poll}, NEW t \in Threads, Thread(t)
  PROVE  t = Poll
<1>1. pc[Control] = "idle" /\ Control \notin users
  BY ClientAssumption DEF Tidy
<1>2. ~Thread(Control)
  BY <1>1 DEF Thread, BeginRequest, Disconnect, ConnectSucceeds, ConnectFails, Adopt, Announce,
              Send, SendFails, Receive, TimeOut, ClearConnected
<1> QED BY <1>2 DEF Threads

(* The other thread of the device, if it had one, does not move.           *)
LEMMA ControlRests ==
  ASSUME TypeOK, Thread(Poll)
  PROVE  pc'[Control] = pc[Control] /\ fresh'[Control] = fresh[Control]
<1> USE ClientAssumption DEF TypeOK, Goto, Threads
<1>1. CASE BeginRequest(Poll)
  BY <1>1 DEF BeginRequest
<1>2. CASE Disconnect(Poll)
  BY <1>2 DEF Disconnect
<1>3. CASE ConnectSucceeds(Poll)
  BY <1>3 DEF ConnectSucceeds
<1>4. CASE ConnectFails(Poll)
  BY <1>4 DEF ConnectFails
<1>5. CASE Adopt(Poll) \/ Announce(Poll)
  BY <1>5 DEF Adopt, Announce
<1>6. CASE Send(Poll) \/ SendFails(Poll)
  BY <1>6 DEF Send, SendFails
<1>7. CASE Receive(Poll)
  BY <1>7 DEF Receive
<1>8. CASE TimeOut(Poll) \/ ClearConnected(Poll)
  BY <1>8 DEF TimeOut, ClearConnected
<1> QED BY <1>1, <1>2, <1>3, <1>4, <1>5, <1>6, <1>7, <1>8 DEF Thread

LEMMA RestKeepsTidy ==
  ASSUME SharedInv, Tidy, LinkChanges \/ UNCHANGED vars PROVE Tidy'
BY DEF SharedInv, TypeOK, Tidy, LinkChanges, vars

LEMMA PollKeepsTidy ==
  ASSUME SharedInv, Tidy, Thread(Poll) PROVE Tidy'
<1>1. TypeOK /\ Held /\ Owed
  BY DEF SharedInv
<1>2. pc'[Control] = "idle" /\ fresh'[Control] = None
  BY <1>1, ControlRests DEF Tidy
<1>3. Poll \in Threads
  BY DEF Threads
<1> USE <1>1, <1>2, <1>3, ClientAssumption DEF TypeOK, Tidy, Goto, Finish
<1>4. CASE BeginRequest(Poll)
  BY <1>4 DEF BeginRequest
<1>5. CASE Disconnect(Poll)
  BY <1>5 DEF Disconnect
<1>6. CASE ConnectSucceeds(Poll)
  BY <1>6 DEF ConnectSucceeds
<1>7. CASE ConnectFails(Poll)
  BY <1>7 DEF ConnectFails
<1>8. CASE Adopt(Poll)
  BY <1>8 DEF Adopt
<1>9. CASE Announce(Poll)
  BY <1>9 DEF Announce
<1>10. CASE Send(Poll)
  <2>1. /\ fd \in Sockets /\ pending[fd] = <<>>
        /\ UNCHANGED <<connected, fd, sock, fresh, heard>>
        /\ pc'[Poll] = "recv" /\ pc[Poll] = "send"
        /\ \/ pending' = [pending EXCEPT ![fd] = Append(@, Poll)] /\ sock[fd] = "open"
           \/ pending' = pending
    BY <1>10 DEF Send
  <2>2. pending'[fd] \in {<<>>, <<Poll>>} /\ \A s \in Sockets \ {fd} : pending'[s] = pending[s]
    BY <2>1
  <2>3. \A s \in Sockets : sock'[s] = "free" => pending'[s] = <<>>
    BY <2>1, <2>2
  <2> QED BY <2>1, <2>2, <2>3
<1>11. CASE SendFails(Poll)
  BY <1>11 DEF SendFails
<1>12. CASE Receive(Poll)
  <2>1. /\ fd \in Sockets /\ pending[fd] = <<Poll>> /\ pc[Poll] = "recv"
        /\ pending' = [pending EXCEPT ![fd] = AllLate(Tail(<<Poll>>))]
        /\ UNCHANGED <<connected, fd, sock, fresh>>
        /\ pc'[Poll] \in {"idle", "clear"}
    BY <1>12 DEF Receive, Held
  <2>2. AllLate(Tail(<<Poll>>)) = <<>>
    BY DEF AllLate
  <2>3. heard'[Poll] # "other"
    BY <1>12, <2>1 DEF Receive
  <2>4. pending'[fd] = <<>> /\ \A s \in Sockets \ {fd} : pending'[s] = pending[s]
    BY <2>1, <2>2
  <2> QED BY <2>1, <2>3, <2>4
<1>13. CASE TimeOut(Poll)
  <2>1. /\ fd \in Sockets /\ pending[fd] \in {<<>>, <<Poll>>} /\ pc[Poll] = "recv"
        /\ UNCHANGED <<connected, fd, sock, fresh, heard>>
        /\ pc'[Poll] = "clear"
    BY <1>13 DEF TimeOut, Held
  <2>2. AllLate(<<>>) = <<>>
    BY DEF AllLate
  <2>3. /\ \A s \in Sockets \ {fd} : pending'[s] = pending[s]
        /\ pending[fd] = <<>> => pending'[fd] = <<>>
    BY <1>13, <2>1, <2>2 DEF TimeOut
  <2> QED BY <2>1, <2>3
<1>14. CASE ClearConnected(Poll)
  BY <1>14 DEF ClearConnected
<1> QED BY <1>4, <1>5, <1>6, <1>7, <1>8, <1>9, <1>10, <1>11, <1>12, <1>13, <1>14 DEF Thread

LEMMA InitAlone == Init => Alone
<1> SUFFICES ASSUME Init PROVE Tidy
  BY DEF Alone
<1>1. Poll \in Threads /\ Control \in Threads
  BY DEF Threads
<1>2. \A s \in Sockets : s # fd => sock[s] = "free"
  BY DEF Init
<1>3. \A s \in Sockets : pending[s] = <<>>
  BY DEF Init
<1>4. fd = None \/ fd \in Sockets
  BY DEF Init
<1> QED BY <1>1, <1>2, <1>3, <1>4 DEF Init, Tidy

LEMMA NextKeepsAlone ==
  ASSUME SharedInv, Alone, [Next]_vars PROVE Alone'
<1>1. users' = users
  BY DEF Next, Thread, LinkChanges, BeginRequest, Disconnect, ConnectSucceeds, ConnectFails,
         Adopt, Announce, Send, SendFails, Receive, TimeOut, ClearConnected, vars
<1> SUFFICES ASSUME users = {Poll} PROVE Tidy'
  BY <1>1 DEF Alone
<1>2. Tidy
  BY DEF Alone
<1>3. CASE LinkChanges \/ UNCHANGED vars
  BY <1>2, <1>3, RestKeepsTidy
<1>4. ASSUME NEW t \in Threads, Thread(t) PROVE Tidy'
  <2>1. t = Poll
    BY <1>2, <1>4, AloneMeansPoll
  <2> QED BY <2>1, <1>2, <1>4, PollKeepsTidy
<1> QED BY <1>3, <1>4 DEF Next

THEOREM AloneInvariant == Spec => []Alone
<1>1. Init => Alone
  BY InitAlone
<1>2. SharedInv /\ Alone /\ [Next]_vars => Alone'
  BY NextKeepsAlone
<1> QED BY <1>1, <1>2, SharedInvariant, PTL DEF Spec

(* A poll thread without a control thread beside it never takes a late     *)
(* answer for its own: every error ends the connection before the next     *)
(* request (connected_ = false, and do_connect after disconnect).          *)
THEOREM AloneIsNeverMisled == Spec => []AloneGetsItsOwnAnswer
<1>1. Alone => AloneGetsItsOwnAnswer
  BY DEF Alone, Tidy, AloneGetsItsOwnAnswer
<1> QED BY <1>1, AloneInvariant, PTL

(* Nor does it ever lose a descriptor or hold more than one.               *)
THEOREM AloneKeepsOneDescriptor == Spec => []AloneLeaksNothing
<1>1. SharedInv /\ Alone => AloneLeaksNothing
  <2> SUFFICES ASSUME SharedInv, Tidy
               PROVE  /\ Leaked = {}
                      /\ Cardinality({s \in Sockets : sock[s] # "free"}) <= 1
    BY DEF Alone, AloneLeaksNothing
  <2> DEFINE used == {s \in Sockets : sock[s] # "free"}
  <2>1. Leaked = {}
    BY DEF Leaked, Tidy, Threads
  <2>2. PICK d : used \subseteq {d}
    <3>1. CASE fresh[Poll] = None
      BY <3>1, ClientAssumption DEF Tidy
    <3>2. CASE fresh[Poll] # None
      BY <3>2, ClientAssumption DEF Tidy
    <3> QED BY <3>1, <3>2
  <2>3. IsFiniteSet({d}) /\ Cardinality({d}) = 1
    BY FS_Singleton
  <2>4. Cardinality(used) <= 1
    BY <2>2, <2>3, FS_Subset
  <2> QED BY <2>1, <2>4
<1> QED BY <1>1, SharedInvariant, AloneInvariant, PTL

-----------------------------------------------------------------------------
(***************************************************************************)
(* DevicePoll: the loop that groups the points.                            *)
(***************************************************************************)
LEMMA LeastNatural ==
  ASSUME NEW T \in SUBSET Nat, T # {}
  PROVE  \E n \in T : \A k \in T : n <= k
<1>1. PICK n \in T : \A k \in T : ~ (<<k, n>> \in OpToRel(<, Nat))
  BY NatLessThanWellFounded, WFMin
<1>2. ASSUME NEW k \in T PROVE n <= k
  <2>1. ~ (<<k, n>> \in OpToRel(<, Nat))
    BY <1>1
  <2>2. ~ (k < n)
    BY <2>1 DEF OpToRel
  <2> QED BY <2>2
<1> QED BY <1>2

(* The groups after each of the first n rounds of the loop over pts.       *)
LoopTo(pts, n, f) ==
    f = [k \in 0..n |-> IF k = 0 THEN <<>> ELSE AddPoint(f[k - 1], pts[k])]

LEMMA LoopsExist ==
  ASSUME NEW pts, NEW n \in Nat
  PROVE  \E f : LoopTo(pts, n, f)
<1> DEFINE W == {m \in Nat : ~ \E f : LoopTo(pts, m, f)}
<1>1. SUFFICES ASSUME W # {} PROVE FALSE
  OBVIOUS
<1>2. PICK m \in W : \A k \in W : m <= k
  <2>1. W \in SUBSET Nat
    OBVIOUS
  <2> HIDE DEF W
  <2> QED BY <1>1, <2>1, LeastNatural
<1>3. m \in Nat /\ ~ \E f : LoopTo(pts, m, f)
  OBVIOUS
<1>4. CASE m = 0
  <2> DEFINE f == [k \in 0..m |-> <<>>]
  <2>1. LoopTo(pts, m, f)
    BY <1>4 DEF LoopTo
  <2> QED BY <1>3, <2>1
<1>5. CASE m # 0
  <2>1. m - 1 \in Nat /\ ~ (m <= m - 1)
    BY <1>3, <1>5
  <2>2. PICK g : LoopTo(pts, m - 1, g)
    BY <1>2, <2>1
  <2> DEFINE f == [k \in 0..m |-> IF k = m THEN AddPoint(g[m - 1], pts[m]) ELSE g[k]]
  <2>3. \A k \in 0..(m - 1) :
            g[k] = IF k = 0 THEN <<>> ELSE AddPoint(g[k - 1], pts[k])
    BY <2>2 DEF LoopTo
  <2>4. ASSUME NEW k \in 0..m
        PROVE  f[k] = IF k = 0 THEN <<>> ELSE AddPoint(f[k - 1], pts[k])
    <3>1. CASE k = m
      <4>1. k # 0 /\ k - 1 \in 0..m /\ k - 1 # m
        BY <1>3, <1>5, <3>1
      <4>2. f[k - 1] = g[m - 1]
        BY <3>1, <4>1
      <4> QED BY <3>1, <4>1, <4>2
    <3>2. CASE k # m
      <4>1. k \in 0..(m - 1)
        BY <1>3, <3>2
      <4>2. k # 0 => k - 1 \in 0..m /\ k - 1 # m
        BY <1>3, <4>1
      <4>3. f[k] = g[k] /\ (k # 0 => f[k - 1] = g[k - 1])
        BY <3>2, <4>2
      <4> QED BY <2>3, <4>1, <4>3
    <3> QED BY <3>1, <3>2
  <2>5. LoopTo(pts, m, f)
    <3>1. f = [k \in 0..m |-> f[k]]
      OBVIOUS
    <3> HIDE DEF f
    <3> QED BY <2>4, <3>1 DEF LoopTo
  <2> QED BY <1>3, <2>5
<1> QED BY <1>4, <1>5

LEMMA LoopsAgree ==
  ASSUME NEW pts, NEW n \in Nat, NEW f, NEW g, LoopTo(pts, n, f), LoopTo(pts, n, g)
  PROVE  f = g
<1> DEFINE W == {k \in 0..n : f[k] # g[k]}
<1>1. /\ \A k \in 0..n : f[k] = IF k = 0 THEN <<>> ELSE AddPoint(f[k - 1], pts[k])
      /\ \A k \in 0..n : g[k] = IF k = 0 THEN <<>> ELSE AddPoint(g[k - 1], pts[k])
      /\ f = [k \in 0..n |-> f[k]]
      /\ g = [k \in 0..n |-> g[k]]
  BY DEF LoopTo
<1>2. W = {}
  <2>1. SUFFICES ASSUME W # {} PROVE FALSE
    OBVIOUS
  <2>2. PICK k \in W : \A j \in W : k <= j
    <3>1. W \in SUBSET Nat
      OBVIOUS
    <3> HIDE DEF W
    <3> QED BY <2>1, <3>1, LeastNatural
  <2>3. k \in 0..n /\ f[k] # g[k]
    OBVIOUS
  <2>4. k # 0
    BY <1>1, <2>3
  <2>5. k - 1 \in 0..n /\ ~ (k <= k - 1)
    BY <2>3, <2>4
  <2>6. f[k - 1] = g[k - 1]
    BY <2>2, <2>5
  <2> QED BY <1>1, <2>3, <2>4, <2>6
<1> QED BY <1>1, <1>2

(* GroupsOf is what the loop computes, round by round.                     *)
LEMMA GroupsOfRounds ==
  ASSUME NEW pts, Len(pts) \in Nat
  PROVE  \E f : /\ f[0] = <<>>
                /\ \A k \in 1..Len(pts) : f[k] = AddPoint(f[k - 1], pts[k])
                /\ GroupsOf(pts) = f[Len(pts)]
<1>1. PICK f : LoopTo(pts, Len(pts), f)
  BY LoopsExist
<1>2. (CHOOSE g : LoopTo(pts, Len(pts), g)) = f
  BY <1>1, LoopsAgree
<1>3. GroupsOf(pts) = f[Len(pts)]
  BY <1>2 DEF GroupsOf, LoopTo
<1>4. f[0] = <<>> /\ \A k \in 1..Len(pts) : f[k] = AddPoint(f[k - 1], pts[k])
  BY <1>1 DEF LoopTo
<1> QED BY <1>3, <1>4

-----------------------------------------------------------------------------
LEMMA ReplaceLast ==
  ASSUME NEW S, NEW s \in Seq(S), s # <<>>, NEW x \in S
  PROVE  LET r == Append(Front(s), x) IN
         /\ r \in Seq(S)
         /\ Len(r) = Len(s)
         /\ \A i \in 1..(Len(s) - 1) : r[i] = s[i]
         /\ r[Len(s)] = x
<1>1. Len(s) \in Nat \ {0}
  OBVIOUS
<1>2. /\ Front(s) \in Seq(S)
      /\ Len(Front(s)) = Len(s) - 1
      /\ \A i \in 1..(Len(s) - 1) : Front(s)[i] = s[i]
  <2>1. \A i \in 1..(Len(s) - 1) : s[i] \in S
    OBVIOUS
  <2>2. 1 \in Int /\ Len(s) - 1 \in Int
    BY <1>1
  <2> DEFINE f == SubSeq(s, 1, Len(s) - 1)
  <2>3. /\ f \in Seq(S)
        /\ Len(f) = IF 1 <= Len(s) - 1 THEN (Len(s) - 1) - 1 + 1 ELSE 0
        /\ \A i \in 1..((Len(s) - 1) - 1 + 1) : f[i] = s[1 + i - 1]
    BY <2>1, <2>2, SubSeqProperties
  <2>4. Front(s) = f
    BY DEF Front
  <2> HIDE DEF f
  <2> QED BY <1>1, <2>3, <2>4
<1> QED BY <1>1, <1>2

Groups == [fc : Nat, start : Nat, end : Nat, points : SUBSET DOMAIN map]

(* A group's registers hold those of its points whose end fits 16 bits.    *)
Spans(g) ==
    /\ g.end < AddressMod
    /\ \A p \in g.points :
           /\ g.fc = ReadCode(map[p].fc)
           /\ g.start <= map[p].addr
           /\ EndFits(p) => map[p].addr + map[p].cnt <= g.end

(* The groups of the first k of the points pts, all of the function fc.    *)
Grouped(groups, fc, pts, k) ==
    /\ groups \in Seq(Groups)
    /\ \A i \in 1..Len(groups) : groups[i].fc = fc /\ Spans(groups[i])
    /\ IF k = 0 THEN groups = <<>>
       ELSE groups # <<>> /\ Last(groups).start <= map[pts[k]].addr
    /\ \A j \in 1..k : \E i \in 1..Len(groups) : pts[j] \in groups[i].points

LEMMA WidthFacts == \A type : Width(type) \in {1, 2, 4}
  BY DEF Width

LEMMA MappingFacts ==
  ASSUME map \in Layouts, NEW p \in DOMAIN map
  PROVE  /\ map[p] \in Mappings
         /\ map[p].cnt = Width(map[p].type)
         /\ map[p].addr < AddressMod
         /\ map[p].addr \in Nat
         /\ map[p].cnt \in {1, 2, 4}
         /\ ReadCode(map[p].fc) \in Nat
         /\ EndOf(p) \in 0..(AddressMod - 1)
         /\ EndFits(p) => EndOf(p) = map[p].addr + map[p].cnt
<1>1. /\ map[p] \in Mappings
      /\ map[p].cnt = Width(map[p].type)
      /\ map[p].addr < AddressMod
  BY LayoutsAssumption
<1>2. map[p].addr \in Nat /\ map[p].cnt \in {1, 2, 4} /\ map[p].fc \in Nat
  BY <1>1, WidthFacts DEF Mappings
<1>3. ReadCode(map[p].fc) \in Nat
  BY <1>2 DEF ReadCode
<1>4. /\ EndOf(p) \in 0..(AddressMod - 1)
      /\ EndFits(p) => EndOf(p) = map[p].addr + map[p].cnt
  BY <1>1, <1>2, NumbersAssumption DEF EndOf, EndFits
<1> QED BY <1>1, <1>2, <1>3, <1>4

LEMMA RoundKeepsGrouped ==
  ASSUME map \in Layouts, NEW fc, NEW pts \in Seq(PointsOf(fc)), NEW k \in 1..Len(pts),
         k > 1 => map[pts[k - 1]].addr <= map[pts[k]].addr,
         NEW groups, Grouped(groups, fc, pts, k - 1)
  PROVE  Grouped(AddPoint(groups, pts[k]), fc, pts, k)
<1> DEFINE p == pts[k]
           next == AddPoint(groups, p)
           one == [fc |-> ReadCode(map[p].fc), start |-> map[p].addr,
                   end |-> EndOf(p), points |-> {p}]
           last == Last(groups)
           more == [last EXCEPT !.end = IF @ > EndOf(p) THEN @ ELSE EndOf(p),
                                !.points = @ \cup {p}]
<1>1. p \in DOMAIN map /\ ReadCode(map[p].fc) = fc
  BY DEF PointsOf
<1>2. /\ map[p].addr \in Nat
      /\ map[p].cnt \in {1, 2, 4}
      /\ fc \in Nat
      /\ EndOf(p) \in Nat /\ EndOf(p) < AddressMod
      /\ EndFits(p) => EndOf(p) = map[p].addr + map[p].cnt
  <2>1. EndOf(p) \in Nat /\ EndOf(p) < AddressMod
    BY <1>1, MappingFacts, NumbersAssumption
  <2> QED BY <1>1, <2>1, MappingFacts
<1>3. groups \in Seq(Groups) /\ Len(groups) \in Nat
  BY DEF Grouped
<1>4. CASE groups # <<>> /\ map[p].addr <= last.end + 5
  <2>1. next = Append(Front(groups), more)
    BY <1>4 DEF AddPoint
  <2>2. Len(groups) \in 1..Len(groups) /\ last = groups[Len(groups)]
    BY <1>3, <1>4 DEF Last
  <2>3. last \in Groups /\ last.fc = fc /\ Spans(last)
    BY <1>3, <2>2 DEF Grouped
  <2>4. last.start <= map[p].addr
    <3>1. k > 1
      BY <1>4 DEF Grouped
    <3>2. last.start <= map[pts[k - 1]].addr
      BY <3>1 DEF Grouped
    <3>3. map[pts[k - 1]].addr \in Nat
      <4>1. pts[k - 1] \in DOMAIN map
        BY <3>1 DEF PointsOf
      <4> QED BY <4>1, MappingFacts
    <3>4. last.start \in Nat
      BY <2>3 DEF Groups
    <3> QED BY <1>2, <3>1, <3>2, <3>3, <3>4
  <2>5. /\ more \in Groups
        /\ more.fc = fc /\ more.start = last.start
        /\ more.points = last.points \cup {p}
        /\ more.end >= last.end /\ more.end >= EndOf(p)
        /\ more.end \in {last.end, EndOf(p)}
        /\ more.end \in Nat /\ last.end \in Nat /\ last.start \in Nat
    <3>1. /\ last.end \in Nat /\ last.start \in Nat /\ last.fc \in Nat
          /\ last.points \subseteq DOMAIN map
      BY <2>3 DEF Groups
    <3>2. EndOf(p) \in Nat
      BY <1>2
    <3> DEFINE limit == IF last.end > EndOf(p) THEN last.end ELSE EndOf(p)
    <3>3. /\ limit \in Nat /\ limit >= last.end /\ limit >= EndOf(p)
          /\ limit \in {last.end, EndOf(p)}
      <4> HIDE DEF last, p, one, more
      <4>1. CASE last.end > EndOf(p)
        BY <3>1, <3>2, <4>1
      <4>2. CASE ~ (last.end > EndOf(p))
        BY <3>1, <3>2, <4>2
      <4> QED BY <4>1, <4>2
    <3>4. more = [last EXCEPT !.end = limit, !.points = last.points \cup {p}]
      OBVIOUS
    <3> HIDE DEF limit, more, last
    <3>5. last.points \cup {p} \in SUBSET DOMAIN map
      BY <1>1, <3>1
    <3> HIDE DEF p
    <3>6. /\ more \in Groups
          /\ more.fc = last.fc /\ more.start = last.start
          /\ more.end = limit /\ more.points = last.points \cup {p}
      <4> DEFINE h == [last EXCEPT !.end = limit, !.points = last.points \cup {p}]
      <4>1. /\ h \in Groups
            /\ h.fc = last.fc /\ h.start = last.start
            /\ h.end = limit /\ h.points = last.points \cup {p}
        BY <2>3, <3>3, <3>5 DEF Groups
      <4> QED BY <3>4, <4>1
    <3> QED BY <2>3, <3>1, <3>3, <3>6
  <2>6. Spans(more)
    <3>1. more.end < AddressMod
      BY <1>2, <2>3, <2>5, NumbersAssumption DEF Spans, Groups
    <3>2. ASSUME NEW q \in more.points
          PROVE  /\ more.fc = ReadCode(map[q].fc)
                 /\ more.start <= map[q].addr
                 /\ EndFits(q) => map[q].addr + map[q].cnt <= more.end
      <4>1. CASE q = p
        <5> HIDE DEF more, last, p
        <5> QED BY <1>1, <1>2, <2>4, <2>5, <4>1
      <4>2. CASE q \in last.points
        <5>1. q \in DOMAIN map /\ last.end \in Nat
          BY <2>3, <4>2 DEF Groups
        <5>2. map[q].addr \in Nat /\ map[q].cnt \in {1, 2, 4}
          BY <5>1, MappingFacts
        <5>3. /\ last.fc = ReadCode(map[q].fc)
              /\ last.start <= map[q].addr
              /\ EndFits(q) => map[q].addr + map[q].cnt <= last.end
          BY <2>3, <4>2 DEF Spans
        <5> HIDE DEF more, last, p
        <5>4. ASSUME EndFits(q) PROVE map[q].addr + map[q].cnt <= more.end
          <6>1. map[q].addr + map[q].cnt <= last.end
            BY <5>3, <5>4
          <6> QED BY <2>5, <5>2, <6>1
        <5> QED BY <2>3, <2>5, <5>3, <5>4
      <4> QED BY <2>5, <3>2, <4>1, <4>2
    <3> HIDE DEF more
    <3> QED BY <3>1, <3>2 DEF Spans
  <2> HIDE DEF more, last, p
  <2>7. /\ next \in Seq(Groups)
        /\ Len(next) = Len(groups)
        /\ \A i \in 1..(Len(groups) - 1) : next[i] = groups[i]
        /\ next[Len(groups)] = more
    BY <1>3, <1>4, <2>1, <2>5, ReplaceLast
  <2> HIDE DEF next
  <2>8. \A i \in 1..Len(next) : next[i].fc = fc /\ Spans(next[i])
    <3>1. \A i \in 1..(Len(groups) - 1) : groups[i].fc = fc /\ Spans(groups[i])
      BY <1>3 DEF Grouped
    <3> QED BY <1>3, <2>5, <2>6, <2>7, <3>1
  <2>9. next # <<>> /\ Last(next).start <= map[p].addr
    BY <2>2, <2>4, <2>5, <2>7 DEF Last
  <2>10. ASSUME NEW j \in 1..k
         PROVE  \E i \in 1..Len(next) : pts[j] \in next[i].points
    <3>1. CASE j = k
      BY <2>2, <2>5, <2>7, <3>1 DEF p
    <3>2. CASE j # k
      <4>1. PICK i \in 1..Len(groups) : pts[j] \in groups[i].points
        BY <3>2 DEF Grouped
      <4>2. CASE i = Len(groups)
        BY <2>2, <2>5, <2>7, <4>1, <4>2
      <4>3. CASE i # Len(groups)
        BY <1>3, <2>7, <4>1, <4>3
      <4> QED BY <4>2, <4>3
    <3> QED BY <3>1, <3>2
  <2> QED BY <2>7, <2>8, <2>9, <2>10 DEF Grouped, p, next
<1>5. CASE ~ (groups # <<>> /\ map[p].addr <= last.end + 5)
  <2>1. next = Append(groups, one)
    BY <1>5 DEF AddPoint
  <2>2. one \in Groups /\ Spans(one) /\ one.fc = fc
    BY <1>1, <1>2 DEF Groups, Spans
  <2> HIDE DEF p, one, last
  <2>3. /\ next \in Seq(Groups)
        /\ Len(next) = Len(groups) + 1
        /\ \A i \in 1..Len(groups) : next[i] = groups[i]
        /\ next[Len(next)] = one
    BY <1>3, <2>1, <2>2
  <2>4. one.start = map[p].addr /\ p \in one.points
    BY DEF one
  <2> HIDE DEF next
  <2>5. \A i \in 1..Len(next) : next[i].fc = fc /\ Spans(next[i])
    <3>1. \A i \in 1..Len(groups) : groups[i].fc = fc /\ Spans(groups[i])
      BY <1>3 DEF Grouped
    <3> QED BY <1>3, <2>2, <2>3, <3>1
  <2>6. next # <<>> /\ Last(next).start <= map[p].addr
    BY <1>2, <1>3, <2>3, <2>4 DEF Last
  <2>7. ASSUME NEW j \in 1..k
        PROVE  \E i \in 1..Len(next) : pts[j] \in next[i].points
    <3>1. CASE j = k
      BY <1>3, <2>3, <2>4, <3>1 DEF p
    <3>2. CASE j # k
      <4>1. PICK i \in 1..Len(groups) : pts[j] \in groups[i].points
        BY <3>2 DEF Grouped
      <4> QED BY <1>3, <2>3, <4>1
    <3> QED BY <3>1, <3>2
  <2> QED BY <2>3, <2>5, <2>6, <2>7 DEF Grouped, p, next
<1> QED BY <1>4, <1>5

-----------------------------------------------------------------------------
(* Any finite set of points has an order by addresses, which is what       *)
(* SortedPoints takes.                                                     *)
SortedSeq(S, pts) ==
    /\ pts \in SetToSeqs(S)
    /\ \A i, j \in DOMAIN pts : i <= j => map[pts[i]].addr <= map[pts[j]].addr

LEMMA HighestPoint ==
  ASSUME map \in Layouts, NEW S \in SUBSET DOMAIN map, S # {}
  PROVE  \E p \in S : \A q \in S : map[q].addr <= map[p].addr
<1> DEFINE T == {AddressMod - map[p].addr : p \in S}
<1>1. \A p \in S : map[p].addr \in Nat /\ AddressMod - map[p].addr \in Nat
  <2>1. ASSUME NEW p \in S PROVE map[p].addr \in Nat /\ AddressMod - map[p].addr \in Nat
    BY MappingFacts, NumbersAssumption
  <2> QED BY <2>1
<1>2. T \in SUBSET Nat /\ T # {}
  BY <1>1
<1>3. PICK n \in T : \A k \in T : n <= k
  <2> HIDE DEF T
  <2> QED BY <1>2, LeastNatural
<1>4. PICK p \in S : n = AddressMod - map[p].addr
  OBVIOUS
<1>5. ASSUME NEW q \in S PROVE map[q].addr <= map[p].addr
  <2>1. n <= AddressMod - map[q].addr
    BY <1>3
  <2> QED BY <1>1, <1>4, <2>1, NumbersAssumption
<1> QED BY <1>5

LEMMA SortingExists ==
  ASSUME map \in Layouts, NEW S \in SUBSET DOMAIN map
  PROVE  \E pts : SortedSeq(S, pts)
<1> DEFINE Sizes == {n \in Nat : \E T \in SUBSET DOMAIN map :
                        Cardinality(T) = n /\ ~ \E pts : SortedSeq(T, pts)}
<1>1. \A T \in SUBSET DOMAIN map : IsFiniteSet(T) /\ Cardinality(T) \in Nat
  <2>1. IsFiniteSet(DOMAIN map)
    BY LayoutsAssumption
  <2> QED BY <2>1, FS_Subset, FS_CardinalityType
<1>2. SUFFICES ASSUME Sizes # {} PROVE FALSE
  BY <1>1
<1>3. PICK n \in Sizes : \A m \in Sizes : n <= m
  <2>1. Sizes \in SUBSET Nat
    OBVIOUS
  <2> HIDE DEF Sizes
  <2> QED BY <1>2, <2>1, LeastNatural
<1>4. PICK T \in SUBSET DOMAIN map : Cardinality(T) = n /\ ~ \E pts : SortedSeq(T, pts)
  OBVIOUS
<1>5. n \in Nat /\ IsFiniteSet(T)
  BY <1>1
<1>6. CASE T = {}
  <2> DEFINE none == [i \in 1..0 |-> 0]
  <2>1. Cardinality(T) = 0
    BY <1>6, FS_EmptySet
  <2>2. SortedSeq(T, none)
    BY <1>6, <2>1 DEF SortedSeq, SetToSeqs
  <2> QED BY <1>4, <2>2
<1>7. CASE T # {}
  <2>1. PICK p \in T : \A q \in T : map[q].addr <= map[p].addr
    BY <1>7, HighestPoint
  <2> DEFINE U == T \ {p}
  <2>2. Cardinality(U) = n - 1 /\ n - 1 \in Nat
    <3>1. Cardinality(U) = Cardinality(T) - 1
      BY <1>5, FS_RemoveElement
    <3>2. Cardinality(U) \in Nat
      BY <1>1
    <3> QED BY <1>4, <1>5, <3>1, <3>2
  <2>3. PICK pts : SortedSeq(U, pts)
    <3>1. n - 1 \notin Sizes
      BY <1>3, <1>5, <2>2
    <3> QED BY <2>2, <3>1
  <2> DEFINE all == [i \in 1..n |-> IF i = n THEN p ELSE pts[i]]
  <2>4. /\ pts \in [1..(n - 1) -> U]
        /\ \A i, j \in 1..(n - 1) : i # j => pts[i] # pts[j]
        /\ \A i, j \in 1..(n - 1) : i <= j => map[pts[i]].addr <= map[pts[j]].addr
    <3>1. pts \in [1..(n - 1) -> U]
      BY <2>2, <2>3 DEF SortedSeq, SetToSeqs
    <3>2. DOMAIN pts = 1..(n - 1)
      BY <3>1
    <3> QED BY <2>2, <2>3, <3>1, <3>2 DEF SortedSeq, SetToSeqs
  <2>5. \A i \in 1..n : i # n => i \in 1..(n - 1) /\ all[i] = pts[i]
    BY <1>5
  <2>6. all[n] = p
    BY <2>2
  <2>7. all \in [1..n -> T]
    BY <2>4, <2>5
  <2>8. DOMAIN all = 1..n
    OBVIOUS
  <2> HIDE DEF all
  <2>9. ASSUME NEW i \in 1..n, NEW j \in 1..n, i # j PROVE all[i] # all[j]
    <3>1. \A h \in 1..(n - 1) : pts[h] # p
      BY <2>4
    <3> QED BY <2>4, <2>5, <2>6, <2>9, <3>1
  <2>10. ASSUME NEW i \in 1..n, NEW j \in 1..n, i <= j
         PROVE  map[all[i]].addr <= map[all[j]].addr
    <3>1. CASE j = n
      BY <2>1, <2>6, <2>7, <3>1
    <3>2. CASE j # n
      <4>1. i # n
        BY <1>5, <2>10, <3>2
      <4> QED BY <2>4, <2>5, <2>10, <3>2, <4>1
    <3> QED BY <3>1, <3>2
  <2>11. SortedSeq(T, all)
    BY <1>4, <2>7, <2>8, <2>9, <2>10 DEF SortedSeq, SetToSeqs
  <2> QED BY <1>4, <2>11
<1> QED BY <1>6, <1>7

LEMMA SortedFacts ==
  ASSUME map \in Layouts, NEW fc
  PROVE  LET pts == SortedPoints(fc) IN
         /\ pts \in Seq(PointsOf(fc))
         /\ Len(pts) \in Nat
         /\ \A i, j \in 1..Len(pts) : i <= j => map[pts[i]].addr <= map[pts[j]].addr
         /\ \A p \in PointsOf(fc) : \E i \in 1..Len(pts) : pts[i] = p
<1> DEFINE S == PointsOf(fc)
           pts == SortedPoints(fc)
           n == Cardinality(S)
<1>1. S \in SUBSET DOMAIN map
  BY DEF PointsOf
<1>2. IsFiniteSet(S) /\ n \in Nat
  <2>1. IsFiniteSet(DOMAIN map)
    BY LayoutsAssumption
  <2> QED BY <1>1, <2>1, FS_Subset, FS_CardinalityType
<1>3. SortedSeq(S, pts)
  <2>1. \E seq \in SetToSeqs(S) :
            \A i, j \in DOMAIN seq : i <= j => map[seq[i]].addr <= map[seq[j]].addr
    BY <1>1, SortingExists DEF SortedSeq
  <2> QED BY <2>1 DEF SortedPoints, SortedSeq
<1> HIDE DEF S, pts
<1>4. /\ pts \in [1..n -> S]
      /\ \A i, j \in 1..n : i # j => pts[i] # pts[j]
  BY <1>3 DEF SortedSeq, SetToSeqs
<1>5. DOMAIN pts = 1..n
  BY <1>4
<1>6. \A i, j \in 1..n : i <= j => map[pts[i]].addr <= map[pts[j]].addr
  BY <1>3, <1>5 DEF SortedSeq
<1>7. pts \in Seq(S) /\ Len(pts) = n
  BY <1>2, <1>4
<1>8. \A p \in S : \E i \in 1..n : pts[i] = p
  <2>1. IsFiniteSet(1..n) /\ Cardinality(1..n) = n
    BY <1>2, FS_Interval
  <2>2. pts \in Injection(1..n, S)
    BY <1>4 DEF Injection, IsInjective
  <2>3. pts \in Surjection(1..n, S)
    BY <1>2, <2>1, <2>2, FS_Injection
  <2> QED BY <2>3 DEF Surjection
<1> QED BY <1>2, <1>6, <1>7, <1>8 DEF S, pts


-----------------------------------------------------------------------------
(* The groups of a poll span their points and leave none out.              *)
LEMMA GroupsOfOneFunction ==
  ASSUME map \in Layouts, NEW fc
  PROVE  LET groups == GroupsOf(SortedPoints(fc)) IN
         /\ groups \in Seq(Groups)
         /\ \A i \in 1..Len(groups) : Spans(groups[i])
         /\ \A p \in PointsOf(fc) : \E i \in 1..Len(groups) : p \in groups[i].points
<1> DEFINE pts == SortedPoints(fc)
<1>1. /\ pts \in Seq(PointsOf(fc))
      /\ Len(pts) \in Nat
      /\ \A i, j \in 1..Len(pts) : i <= j => map[pts[i]].addr <= map[pts[j]].addr
      /\ \A p \in PointsOf(fc) : \E i \in 1..Len(pts) : pts[i] = p
  BY SortedFacts
<1> HIDE DEF pts
<1>2. PICK f : /\ f[0] = <<>>
               /\ \A k \in 1..Len(pts) : f[k] = AddPoint(f[k - 1], pts[k])
               /\ GroupsOf(pts) = f[Len(pts)]
  BY <1>1, GroupsOfRounds
<1> DEFINE W == {k \in 0..Len(pts) : ~ Grouped(f[k], fc, pts, k)}
<1>3. W = {}
  <2>1. SUFFICES ASSUME W # {} PROVE FALSE
    OBVIOUS
  <2>2. PICK k \in W : \A j \in W : k <= j
    <3>1. W \in SUBSET Nat
      OBVIOUS
    <3> HIDE DEF W
    <3> QED BY <2>1, <3>1, LeastNatural
  <2>3. k \in 0..Len(pts) /\ ~ Grouped(f[k], fc, pts, k)
    OBVIOUS
  <2>4. k # 0
    <3>1. Grouped(<<>>, fc, pts, 0)
      BY DEF Grouped
    <3> QED BY <1>2, <2>3, <3>1
  <2>5. k \in 1..Len(pts) /\ k - 1 \in 0..Len(pts) /\ ~ (k <= k - 1)
    BY <1>1, <2>3, <2>4
  <2>6. Grouped(f[k - 1], fc, pts, k - 1)
    BY <2>2, <2>5
  <2>7. ASSUME k > 1 PROVE map[pts[k - 1]].addr <= map[pts[k]].addr
    <3>1. k - 1 \in 1..Len(pts) /\ k - 1 <= k
      BY <1>1, <2>5, <2>7
    <3> QED BY <1>1, <2>5, <3>1
  <2> HIDE DEF W
  <2>8. Grouped(AddPoint(f[k - 1], pts[k]), fc, pts, k)
    BY <1>1, <2>5, <2>6, <2>7, RoundKeepsGrouped
  <2> QED BY <1>2, <2>3, <2>5, <2>8
<1>4. Grouped(GroupsOf(pts), fc, pts, Len(pts))
  BY <1>1, <1>2, <1>3
<1>5. ASSUME NEW p \in PointsOf(fc)
      PROVE  \E i \in 1..Len(GroupsOf(pts)) : p \in GroupsOf(pts)[i].points
  <2>1. PICK j \in 1..Len(pts) : pts[j] = p
    BY <1>1
  <2>2. \A h \in 1..Len(pts) :
            \E i \in 1..Len(GroupsOf(pts)) : pts[h] \in GroupsOf(pts)[i].points
    BY <1>4 DEF Grouped
  <2> QED BY <2>1, <2>2
<1> QED BY <1>4, <1>5 DEF Grouped, pts

LEMMA GroupsOfAPoll ==
  ASSUME map \in Layouts
  PROVE  /\ BuildGroups \subseteq Groups
         /\ \A g \in BuildGroups : Spans(g)
         /\ UNION {g.points : g \in BuildGroups} = DOMAIN map
<1> DEFINE codes == {ReadCode(map[p].fc) : p \in DOMAIN map}
<1>1. ASSUME NEW g \in BuildGroups PROVE g \in Groups /\ Spans(g)
  <2>1. PICK fc \in codes : g \in Range(GroupsOf(SortedPoints(fc)))
    BY DEF BuildGroups
  <2> DEFINE groups == GroupsOf(SortedPoints(fc))
  <2>2. groups \in Seq(Groups) /\ \A i \in 1..Len(groups) : Spans(groups[i])
    BY GroupsOfOneFunction
  <2> HIDE DEF groups
  <2>3. PICK i \in 1..Len(groups) : g = groups[i]
    BY <2>1, <2>2 DEF Range, groups
  <2> QED BY <2>2, <2>3
<1>2. ASSUME NEW p \in DOMAIN map PROVE \E g \in BuildGroups : p \in g.points
  <2> DEFINE fc == ReadCode(map[p].fc)
             groups == GroupsOf(SortedPoints(fc))
  <2>1. fc \in codes /\ p \in PointsOf(fc)
    BY DEF PointsOf
  <2>2. groups \in Seq(Groups) /\ \E i \in 1..Len(groups) : p \in groups[i].points
    BY <2>1, GroupsOfOneFunction
  <2> HIDE DEF groups, fc
  <2>3. PICK i \in 1..Len(groups) : p \in groups[i].points
    BY <2>2
  <2>4. groups[i] \in Range(groups)
    BY <2>2, <2>3 DEF Range
  <2>5. groups[i] \in BuildGroups
    BY <2>1, <2>4 DEF BuildGroups, groups
  <2> QED BY <2>3, <2>5
<1>3. \A g \in BuildGroups : g.points \subseteq DOMAIN map
  BY <1>1 DEF Groups
<1> QED BY <1>1, <1>2, <1>3

-----------------------------------------------------------------------------
(***************************************************************************)
(* Words and numbers.                                                      *)
(***************************************************************************)
LEMMA WordFacts ==
  /\ Word \in Nat /\ Word >= 2 /\ Word = 2 * (Word \div 2) /\ Word \div 2 \in Nat \ {0}
  /\ Place[1] = 1 /\ Place[2] = Word
  /\ Place[3] = Word * Word /\ Place[4] = Word * Word * Word
<1>1. Word \in Nat \ {0} /\ Word % 2 = 0
  BY NumbersAssumption
<1>2. /\ Word \in Nat /\ Word >= 2 /\ Word = 2 * (Word \div 2)
      /\ Word \div 2 \in Nat \ {0}
  BY <1>1
<1> QED BY <1>2 DEF Place

LEMMA Product ==
  ASSUME NEW a \in Nat, NEW b \in Nat, NEW c \in Nat, a <= b
  PROVE  a * c \in Nat /\ b * c \in Nat /\ a * c <= b * c
<1>1. b - a \in Nat /\ b = a + (b - a)
  OBVIOUS
<1>2. b * c = a * c + (b - a) * c
  BY <1>1
<1>3. (b - a) * c \in Nat /\ a * c \in Nat /\ b * c \in Nat
  BY <1>1
<1> QED BY <1>2, <1>3

LEMMA Quotient ==
  ASSUME NEW n \in Nat, NEW d \in Nat \ {0}, NEW q \in Nat, NEW r \in 0..(d - 1),
         n = q * d + r
  PROVE  n \div d = q /\ n % d = r
  OBVIOUS

(* A highest word before a number below p.                                 *)
LEMMA TopWord ==
  ASSUME NEW p \in Nat \ {0}, NEW top \in 0..(Word - 1), NEW rest \in 0..(p - 1)
  PROVE  /\ top * p + rest \in 0..(Word * p - 1)
         /\ 2 * (top * p + rest) >= Word * p <=> top >= Word \div 2
<1> DEFINE h == Word \div 2
<1>1. h \in Nat /\ Word = 2 * h /\ Word \in Nat /\ top \in Nat /\ Word * p = 2 * (h * p)
  BY WordFacts
<1> HIDE DEF h
<1>2. h * p \in Nat /\ top * p \in Nat /\ Word * p \in Nat
  BY <1>1
<1>3. top * p + p <= Word * p
  <2>1. (top + 1) * p <= Word * p
    BY <1>1, Product
  <2>2. (top + 1) * p = top * p + p
    BY <1>1
  <2> QED BY <2>1, <2>2
<1>4. top * p + rest \in 0..(Word * p - 1)
  BY <1>2, <1>3
<1>5. CASE top >= h
  <2>1. h * p <= top * p
    BY <1>1, <1>5, Product
  <2> QED BY <1>1, <1>2, <1>4, <1>5, <2>1 DEF h
<1>6. CASE ~ (top >= h)
  <2>1. (top + 1) * p <= h * p
    BY <1>1, <1>6, Product
  <2>2. (top + 1) * p = top * p + p
    BY <1>1
  <2>3. top * p + rest < h * p
    BY <1>2, <2>1, <2>2
  <2> QED BY <1>1, <1>2, <1>4, <1>6, <2>3 DEF h
<1> QED BY <1>5, <1>6

LEMMA ReverseFacts ==
  ASSUME NEW n \in Nat, NEW S, NEW words \in [1..n -> S]
  PROVE  /\ Len(words) = n
         /\ Reverse(words) \in [1..n -> S]
         /\ \A i \in 1..n : Reverse(words)[i] = words[n - i + 1]
         /\ Reverse(Reverse(words)) = words
<1> DEFINE o == Reverse(words)
<1>1. ASSUME NEW s \in [1..n -> S]
      PROVE  /\ Len(s) = n
             /\ Reverse(s) \in [1..n -> S]
             /\ \A i \in 1..n : Reverse(s)[i] = s[n - i + 1]
  <2>1. Len(s) = n
    OBVIOUS
  <2> QED BY <2>1 DEF Reverse
<1>2. o \in [1..n -> S] /\ \A i \in 1..n : o[i] = words[n - i + 1]
  BY <1>1
<1> HIDE DEF o
<1>3. Reverse(o) \in [1..n -> S] /\ \A i \in 1..n : Reverse(o)[i] = o[n - i + 1]
  BY <1>1, <1>2
<1>4. ASSUME NEW i \in 1..n PROVE Reverse(o)[i] = words[i]
  <2>1. n - i + 1 \in 1..n /\ n - (n - i + 1) + 1 = i
    OBVIOUS
  <2> QED BY <1>2, <1>3, <2>1
<1>5. Reverse(o) = words
  BY <1>3, <1>4
<1> QED BY <1>1, <1>5 DEF o

LEMMA JoinFacts ==
  ASSUME NEW n \in {1, 2, 4}, NEW o \in [1..n -> 0..(Word - 1)]
  PROVE  /\ Join(o) \in 0..(Word * Place[n] - 1)
         /\ 2 * Join(o) >= Word * Place[n] <=> o[1] >= Word \div 2
         /\ n = 1 => Join(o) = o[1]
         /\ n = 2 => Join(o) = o[1] * Word + o[2]
         /\ n = 4 => Join(o) = o[1] * Place[4] + o[2] * Place[3] + o[3] * Place[2] + o[4]
<1>1. Len(o) = n /\ o[1] \in 0..(Word - 1)
  OBVIOUS
<1>2. CASE n = 1
  <2>1. Join(o) = o[1] /\ Place[n] = 1
    BY <1>1, <1>2, WordFacts DEF Join
  <2>2. /\ o[1] * 1 + 0 \in 0..(Word * 1 - 1)
        /\ 2 * (o[1] * 1 + 0) >= Word * 1 <=> o[1] >= Word \div 2
    <3>1. 1 \in Nat \ {0} /\ 0 \in 0..(1 - 1)
      OBVIOUS
    <3> QED BY <1>1, <3>1, TopWord
  <2> QED BY <1>1, <1>2, <2>1, <2>2, WordFacts
<1>3. CASE n = 2
  <2>1. Join(o) = o[1] * Word + o[2] /\ Place[n] = Word
    BY <1>1, <1>3, WordFacts DEF Join
  <2>2. o[2] \in 0..(Word - 1) /\ Word \in Nat \ {0}
    BY <1>3, WordFacts
  <2>3. /\ o[1] * Word + o[2] \in 0..(Word * Word - 1)
        /\ 2 * (o[1] * Word + o[2]) >= Word * Word <=> o[1] >= Word \div 2
    BY <1>1, <2>2, TopWord
  <2> QED BY <1>3, <2>1, <2>3
<1>4. CASE n = 4
  <2> DEFINE p2 == Place[2]
             p3 == Place[3]
             p4 == Place[4]
             low == o[3] * p2 + o[4]
             rest == o[2] * p3 + low
  <2>1. Join(o) = o[1] * p4 + o[2] * p3 + o[3] * p2 + o[4]
    BY <1>1, <1>4 DEF Join
  <2>2. /\ o[2] \in 0..(Word - 1) /\ o[3] \in 0..(Word - 1) /\ o[4] \in 0..(Word - 1)
        /\ Word \in Nat \ {0}
    BY <1>4, WordFacts
  <2>3. /\ p2 \in Nat \ {0} /\ p3 \in Nat \ {0} /\ p4 \in Nat \ {0}
        /\ Word = p2 /\ Word * p2 = p3 /\ Word * p3 = p4
    BY WordFacts
  <2> HIDE DEF p2, p3, p4
  <2>4. low \in 0..(p3 - 1)
    BY <2>2, <2>3, TopWord
  <2> HIDE DEF low
  <2>5. rest \in 0..(p4 - 1)
    BY <2>2, <2>3, <2>4, TopWord
  <2> HIDE DEF rest
  <2>6. /\ o[1] * p4 + rest \in 0..(Word * p4 - 1)
        /\ 2 * (o[1] * p4 + rest) >= Word * p4 <=> o[1] >= Word \div 2
    BY <1>1, <2>3, <2>5, TopWord
  <2>7. Join(o) = o[1] * p4 + rest
    <3> DEFINE x1 == o[1] * p4
               x2 == o[2] * p3
               x3 == o[3] * p2
    <3>1. x1 \in Int /\ x2 \in Int /\ x3 \in Int /\ o[4] \in Int
      BY <1>1, <2>2, <2>3
    <3>2. Join(o) = x1 + x2 + x3 + o[4]
      BY <2>1
    <3>3. o[1] * p4 + rest = x1 + (x2 + (x3 + o[4]))
      BY DEF rest, low
    <3> HIDE DEF x1, x2, x3
    <3> QED BY <3>1, <3>2, <3>3
  <2>8. Join(o) \in 0..(Word * p4 - 1) /\ (2 * Join(o) >= Word * p4 <=> o[1] >= Word \div 2)
    BY <2>6, <2>7
  <2> QED BY <1>4, <2>1, <2>8 DEF p2, p3, p4
<1> QED BY <1>2, <1>3, <1>4

(* parse_register and the manual agree about what words say.               *)
LEMMA ParseIsWeighed ==
  ASSUME NEW m \in Mappings, m.cnt = Width(m.type),
         NEW words \in [1..m.cnt -> 0..(Word - 1)]
  PROVE  Parse(words, m) = Weighed(words, m) /\ Parse(words, m) \in Int
<1> DEFINE n == m.cnt
           o == Ordered(words, m.swap)
           part(i) == IF i > n THEN 0 ELSE words[i] * Weight(m, i)
           sum == part(1) + part(2) + part(3) + part(4)
           top == words[IF m.swap THEN n ELSE 1]
<1>1. n \in {1, 2, 4} /\ m.swap \in BOOLEAN
  BY WidthFacts DEF Mappings
<1>2. /\ o \in [1..n -> 0..(Word - 1)]
      /\ \A i \in 1..n : o[i] = IF m.swap THEN words[n - i + 1] ELSE words[i]
  <2>1. n \in Nat
    BY <1>1
  <2>2. CASE m.swap
    <3>1. o = Reverse(words)
      BY <2>2 DEF Ordered
    <3>2. /\ Reverse(words) \in [1..n -> 0..(Word - 1)]
          /\ \A i \in 1..n : Reverse(words)[i] = words[n - i + 1]
      <4>1. words \in [1..n -> 0..(Word - 1)]
        OBVIOUS
      <4> HIDE DEF n
      <4>2. Reverse(words) \in [1..n -> 0..(Word - 1)]
        BY <2>1, <4>1, ReverseFacts, Zenon
      <4>3. \A i \in 1..n : Reverse(words)[i] = words[n - i + 1]
        <5>1. Len(words) = n
          BY <2>1, <4>1
        <5> QED BY <5>1 DEF Reverse
      <4> QED BY <4>2, <4>3
    <3> QED BY <2>2, <3>1, <3>2
  <2>3. CASE ~ m.swap
    BY <2>3 DEF Ordered
  <2> QED BY <2>2, <2>3
<1> HIDE DEF o
<1>3. top = o[1] /\ o[1] \in 0..(Word - 1)
  BY <1>1, <1>2
<1>4. sum = Join(o)
  <2>1. CASE n = 1
    <3>1. Weight(m, 1) = 1
      BY <1>1, <2>1, WordFacts DEF Weight
    <3>2. part(1) = o[1] /\ part(2) = 0 /\ part(3) = 0 /\ part(4) = 0
      BY <1>1, <1>2, <2>1, <3>1
    <3>3. Join(o) = o[1] /\ o[1] \in Nat
      BY <1>1, <1>2, <1>3, <2>1, JoinFacts
    <3> HIDE DEF part
    <3> QED BY <3>2, <3>3
  <2>2. CASE n = 2
    <3>1. /\ m.swap => Weight(m, 1) = 1 /\ Weight(m, 2) = Word
          /\ ~ m.swap => Weight(m, 1) = Word /\ Weight(m, 2) = 1
      BY <1>1, <2>2, WordFacts DEF Weight
    <3>2. /\ m.swap => o[1] = words[2] /\ o[2] = words[1]
          /\ ~ m.swap => o[1] = words[1] /\ o[2] = words[2]
      BY <1>1, <1>2, <2>2
    <3>3. /\ words[1] \in Nat /\ words[2] \in Nat
          /\ part(1) = words[1] * Weight(m, 1) /\ part(2) = words[2] * Weight(m, 2)
          /\ part(3) = 0 /\ part(4) = 0
      BY <1>1, <2>2
    <3>4. Join(o) = o[1] * Word + o[2]
      BY <1>1, <1>2, <2>2, JoinFacts
    <3> HIDE DEF part
    <3> QED BY <1>1, <3>1, <3>2, <3>3, <3>4, WordFacts
  <2>3. CASE n = 4
    <3> DEFINE p2 == Place[2]
               p3 == Place[3]
               p4 == Place[4]
    <3>1. /\ m.swap => /\ Weight(m, 1) = 1 /\ Weight(m, 2) = p2
                       /\ Weight(m, 3) = p3 /\ Weight(m, 4) = p4
          /\ ~ m.swap => /\ Weight(m, 1) = p4 /\ Weight(m, 2) = p3
                         /\ Weight(m, 3) = p2 /\ Weight(m, 4) = 1
      BY <1>1, <2>3, WordFacts DEF Weight
    <3>2. /\ m.swap => /\ o[1] = words[4] /\ o[2] = words[3]
                       /\ o[3] = words[2] /\ o[4] = words[1]
          /\ ~ m.swap => /\ o[1] = words[1] /\ o[2] = words[2]
                         /\ o[3] = words[3] /\ o[4] = words[4]
      BY <1>1, <1>2, <2>3
    <3>3. /\ words[1] \in Nat /\ words[2] \in Nat /\ words[3] \in Nat /\ words[4] \in Nat
          /\ part(1) = words[1] * Weight(m, 1) /\ part(2) = words[2] * Weight(m, 2)
          /\ part(3) = words[3] * Weight(m, 3) /\ part(4) = words[4] * Weight(m, 4)
      BY <1>1, <2>3
    <3>4. Join(o) = o[1] * p4 + o[2] * p3 + o[3] * p2 + o[4]
      BY <1>1, <1>2, <2>3, JoinFacts
    <3>5. p2 \in Nat /\ p3 \in Nat /\ p4 \in Nat
      BY WordFacts
    <3> HIDE DEF part, p2, p3, p4
    <3>6. CASE m.swap
      <4>1. /\ part(1) = o[4] * 1 /\ part(2) = o[3] * p2
            /\ part(3) = o[2] * p3 /\ part(4) = o[1] * p4
        BY <3>1, <3>2, <3>3, <3>6
      <4>2. o[4] \in Nat /\ o[3] * p2 \in Nat /\ o[2] * p3 \in Nat /\ o[1] * p4 \in Nat
        BY <3>2, <3>3, <3>5, <3>6
      <4> QED BY <3>4, <4>1, <4>2
    <3>7. CASE ~ m.swap
      <4>1. /\ part(1) = o[1] * p4 /\ part(2) = o[2] * p3
            /\ part(3) = o[3] * p2 /\ part(4) = o[4] * 1
        BY <3>1, <3>2, <3>3, <3>7
      <4>2. o[4] \in Nat /\ o[3] * p2 \in Nat /\ o[2] * p3 \in Nat /\ o[1] * p4 \in Nat
        <5>1. o[1] = words[1] /\ o[2] = words[2] /\ o[3] = words[3] /\ o[4] = words[4]
          BY <3>2, <3>7
        <5>2. o[1] \in Nat /\ o[2] \in Nat /\ o[3] \in Nat /\ o[4] \in Nat
          BY <3>3, <5>1
        <5> QED BY <3>5, <5>2
      <4> QED BY <3>4, <4>1, <4>2
    <3> QED BY <1>1, <3>6, <3>7
  <2> QED BY <1>1, <2>1, <2>2, <2>3
<1>5. /\ Join(o) \in Nat
      /\ 2 * Join(o) >= Size(m.type) <=> top >= Word \div 2
      /\ Size(m.type) \in Nat
  <2>1. Size(m.type) = Word * Place[n]
    BY DEF Size
  <2>2. Word * Place[n] \in Nat
    BY <1>1, WordFacts
  <2>3. /\ Join(o) \in 0..(Word * Place[n] - 1)
        /\ 2 * Join(o) >= Word * Place[n] <=> o[1] >= Word \div 2
    BY <1>1, <1>2, JoinFacts
  <2> HIDE DEF top, n
  <2> QED BY <1>3, <2>1, <2>2, <2>3
<1>6. Weighed(words, m) =
          CASE m.type = "Bool" -> IF sum = 0 THEN 0 ELSE 1
            [] Signed(m.type) /\ top >= Word \div 2 -> sum - Size(m.type)
            [] OTHER -> sum
  BY DEF Weighed
<1>7. Parse(words, m) =
          CASE m.type = "Bool" -> IF words[1] # 0 THEN 1 ELSE 0
            [] Signed(m.type) -> IF 2 * Join(o) >= Size(m.type)
                                 THEN Join(o) - Size(m.type) ELSE Join(o)
            [] OTHER -> Join(o)
  BY DEF Parse, o
<1>8. CASE m.type = "Bool"
  <2>1. n = 1
    BY <1>8 DEF Width
  <2>2. Join(o) = words[1]
    BY <1>1, <1>2, <2>1, JoinFacts
  <2> HIDE DEF sum, top
  <2>3. ~ Signed(m.type)
    BY <1>8 DEF Signed
  <2> QED BY <1>4, <1>6, <1>7, <1>8, <2>2, <2>3
<1>9. CASE m.type # "Bool" /\ Signed(m.type)
  <2> HIDE DEF sum, top
  <2> QED BY <1>4, <1>5, <1>6, <1>7, <1>9
<1>10. CASE m.type # "Bool" /\ ~ Signed(m.type)
  <2> HIDE DEF sum, top
  <2> QED BY <1>4, <1>5, <1>6, <1>7, <1>10
<1> QED BY <1>8, <1>9, <1>10

-----------------------------------------------------------------------------
(* What Words takes apart, Join puts together.                             *)
LEMMA Division ==
  ASSUME NEW n \in Nat, NEW d \in Nat \ {0}
  PROVE  n \div d \in Nat /\ n % d \in 0..(d - 1) /\ n = (n \div d) * d + (n % d)
<1>1. n \div d \in Nat
  OBVIOUS
<1>2. n % d \in 0..(d - 1)
  OBVIOUS
<1>3. n = (n \div d) * d + (n % d)
  OBVIOUS
<1> QED BY <1>1, <1>2, <1>3, Zenon

LEMMA Horner ==
  ASSUME NEW a \in Nat, NEW b \in Nat, NEW c \in Nat, NEW d \in Nat, NEW w \in Nat
  PROVE  /\ (c * w + b) * w + a = c * (w * w) + (b * w + a)
         /\ ((d * w + c) * w + b) * w + a = d * (w * (w * w)) + (c * (w * w) + (b * w + a))
<1>1. \A x, y \in Nat : x * w \in Nat /\ (x + y) * w = x * w + y * w
  OBVIOUS
<1>2. ASSUME NEW x \in Nat
      PROVE  /\ (x * w) * w = x * (w * w)
             /\ (x * (w * w)) * w = x * (w * (w * w))
             /\ x * (w * w) \in Nat /\ x * (w * (w * w)) \in Nat
  <2>1. (x * w) * w = x * (w * w)
    OBVIOUS
  <2>2. (x * (w * w)) * w = x * (w * (w * w))
    OBVIOUS
  <2>3. w * w \in Nat /\ w * (w * w) \in Nat
    OBVIOUS
  <2>4. x * (w * w) \in Nat
    BY <2>3
  <2>5. x * (w * (w * w)) \in Nat
    BY <2>3
  <2> QED BY <2>1, <2>2, <2>4, <2>5
<1>3. ASSUME NEW x \in Nat, NEW y \in Nat
      PROVE  (x * w + y) * w = x * (w * w) + y * w
  BY <1>1, <1>2
<1>4. (c * w + b) * w + a = c * (w * w) + (b * w + a)
  <2>1. (c * w + b) * w = c * (w * w) + b * w
    BY <1>3
  <2> QED BY <1>1, <1>2, <2>1
<1>5. ((d * w + c) * w + b) * w = d * (w * (w * w)) + c * (w * w) + b * w
  <2>1. (d * w + c) * w = d * (w * w) + c * w
    BY <1>3
  <2>2. (d * (w * w) + c * w + b) * w = (d * (w * w)) * w + (c * w) * w + b * w
    BY <1>1, <1>2
  <2> QED BY <1>1, <1>2, <2>1, <2>2
<1> QED BY <1>1, <1>2, <1>4, <1>5

LEMMA Halving ==
  ASSUME NEW n \in Nat, NEW b \in Nat \ {0}, n < Word * b
  PROVE  /\ n \div Word \in Nat /\ n % Word \in 0..(Word - 1)
         /\ n = (n \div Word) * Word + (n % Word)
         /\ n \div Word < b
<1>1. Word \in Nat \ {0}
  BY WordFacts
<1>2. n \div Word \in Nat /\ n % Word \in 0..(Word - 1) /\ n = (n \div Word) * Word + (n % Word)
  BY <1>1, Division
<1>3. ASSUME n \div Word >= b PROVE FALSE
  <2>1. b * Word <= (n \div Word) * Word
    BY <1>1, <1>2, <1>3, Product
  <2> QED BY <1>1, <1>2, <2>1
<1> QED BY <1>2, <1>3

LEMMA JoinOfWords ==
  ASSUME NEW type, NEW v \in 0..(Size(type) - 1)
  PROVE  /\ Words(v, type) \in [1..Width(type) -> 0..(Word - 1)]
         /\ Join(Words(v, type)) = v
<1> DEFINE n == Width(type)
           w == Words(v, type)
<1>1. n \in {1, 2, 4} /\ Size(type) = Word * Place[n] /\ v \in Nat /\ v < Word * Place[n]
  <2>1. Word * Place[n] \in Nat
    BY WidthFacts, WordFacts
  <2> QED BY <2>1, WidthFacts DEF Size
<1>2. w = [i \in 1..n |-> (v \div Place[n - i + 1]) % Word]
  BY DEF Words
<1> HIDE DEF n, w
<1>3. \A i \in 1..n : w[i] = (v \div Place[n - i + 1]) % Word
  BY <1>2
<1>4. w \in [1..n -> 0..(Word - 1)]
  <2>1. ASSUME NEW i \in 1..n PROVE (v \div Place[n - i + 1]) % Word \in 0..(Word - 1)
    <3>1. n - i + 1 \in {1, 2, 3, 4}
      BY <1>1
    <3>2. Place[n - i + 1] \in Nat \ {0} /\ Word \in Nat \ {0}
      BY <3>1, WordFacts
    <3>3. v \div Place[n - i + 1] \in Nat
      BY <1>1, <3>2
    <3> QED BY <3>2, <3>3
  <2> QED BY <1>2, <2>1
<1>5. CASE n = 1
  <2>1. w[1] = (v \div 1) % Word
    BY <1>3, <1>5, WordFacts
  <2>2. (v \div 1) % Word = v
    BY <1>1, <1>5, WordFacts
  <2> QED BY <1>4, <1>5, <2>1, <2>2, JoinFacts DEF n, w
<1>6. CASE n = 2
  <2>1. v < Word * Word /\ Word \in Nat \ {0}
    BY <1>1, <1>6, WordFacts
  <2>2. w[1] = (v \div Word) % Word /\ w[2] = (v \div 1) % Word
    BY <1>3, <1>6, WordFacts
  <2>3. /\ v \div Word \in 0..(Word - 1) /\ v = (v \div Word) * Word + (v % Word)
    BY <1>1, <2>1, Halving
  <2>4. (v \div Word) % Word = v \div Word /\ v \div 1 = v
    BY <1>1, <2>1, <2>3
  <2>5. Join(w) = w[1] * Word + w[2]
    BY <1>4, <1>6, JoinFacts
  <2> DEFINE q == v \div Word
             r == v % Word
  <2>6. w[1] = q /\ w[2] = r /\ v = q * Word + r
    <3>1. w[1] = q
      BY <2>2, <2>4
    <3>2. w[2] = r
      BY <2>2, <2>4
    <3>3. v = q * Word + r
      BY <2>3, Zenon
    <3> QED BY <3>1, <3>2, <3>3
  <2> HIDE DEF q, r
  <2>7. Join(w) = v
    BY <2>5, <2>6
  <2> QED BY <1>4, <2>7 DEF n, w
<1>7. CASE n = 4
  <2> DEFINE p2 == Place[2]
             p3 == Place[3]
             p4 == Place[4]
             q1 == v \div Word
             q2 == q1 \div Word
             q3 == q2 \div Word
  <2>1. /\ Word \in Nat \ {0} /\ p2 = Word
        /\ p2 \in Nat \ {0} /\ p3 \in Nat \ {0} /\ p4 \in Nat \ {0}
        /\ p3 = Word * p2 /\ p4 = Word * p3
    BY WordFacts
  <2> HIDE DEF p2, p3, p4
  <2>2. q1 \in Nat /\ v % Word \in 0..(Word - 1) /\ v = q1 * Word + (v % Word) /\ q1 < p4
    BY <1>1, <1>7, <2>1, Halving DEF p4
  <2> HIDE DEF q1
  <2>3. q2 \in Nat /\ q1 % Word \in 0..(Word - 1) /\ q1 = q2 * Word + (q1 % Word) /\ q2 < p3
    BY <2>1, <2>2, Halving
  <2> HIDE DEF q2
  <2>4. q3 \in Nat /\ q2 % Word \in 0..(Word - 1) /\ q2 = q3 * Word + (q2 % Word) /\ q3 < p2
    BY <2>1, <2>3, Halving
  <2> HIDE DEF q3
  <2> DEFINE a == v % Word
             b == q1 % Word
             c == q2 % Word
  <2>12. /\ a \in 0..(Word - 1) /\ b \in 0..(Word - 1) /\ c \in 0..(Word - 1)
        /\ v = q1 * Word + a /\ q1 = q2 * Word + b /\ q2 = q3 * Word + c
        /\ q1 \in Nat /\ q2 \in Nat /\ q3 \in Nat
    <3>1. a \in 0..(Word - 1) /\ v = q1 * Word + a /\ q1 \in Nat
      BY <2>2, Zenon
    <3>2. b \in 0..(Word - 1) /\ q1 = q2 * Word + b /\ q2 \in Nat
      BY <2>3, Zenon
    <3>3. c \in 0..(Word - 1) /\ q2 = q3 * Word + c /\ q3 \in Nat
      BY <2>4, Zenon
    <3> HIDE DEF a, b, c
    <3> QED BY <3>1, <3>2, <3>3
  <2> HIDE DEF a, b, c
  <2>5. v \div p3 = q2
    <3> DEFINE r == b * p2 + a
    <3>1. r \in 0..(p3 - 1)
      BY <2>1, <2>12, TopWord
    <3>2. v = q2 * p3 + r
      <4>1. /\ v = (q2 * Word + b) * Word + a
            /\ a \in Nat /\ b \in Nat /\ q2 \in Nat /\ Word \in Nat
        BY <2>1, <2>12
      <4>2. (q2 * Word + b) * Word + a = q2 * (Word * Word) + (b * Word + a)
        BY <4>1, Horner
      <4> QED BY <2>1, <4>1, <4>2, Zenon
    <3> HIDE DEF r
    <3> QED BY <1>1, <2>1, <2>3, <3>1, <3>2, Quotient
  <2>6. v \div p4 = q3
    <3> DEFINE l == b * p2 + a
               r == c * p3 + l
    <3>1. l \in 0..(p3 - 1)
      BY <2>1, <2>12, TopWord
    <3> HIDE DEF l
    <3>2. r \in 0..(p4 - 1)
      BY <2>1, <2>12, <3>1, TopWord
    <3>3. v = q3 * p4 + r
      <4>1. /\ v = ((q3 * Word + c) * Word + b) * Word + a
            /\ a \in Nat /\ b \in Nat /\ c \in Nat /\ q3 \in Nat /\ Word \in Nat
        BY <2>1, <2>12
      <4>2. ((q3 * Word + c) * Word + b) * Word + a
                = q3 * (Word * (Word * Word)) + (c * (Word * Word) + (b * Word + a))
        BY <4>1, Horner
      <4> QED BY <2>1, <4>1, <4>2, Zenon DEF l
    <3> HIDE DEF r
    <3>4. v \in Nat /\ p4 \in Nat \ {0} /\ q3 \in Nat
      BY <1>1, <2>1, <2>4
    <3> QED BY <3>2, <3>3, <3>4, Quotient, Zenon
  <2>7. /\ w[1] = (v \div p4) % Word /\ w[2] = (v \div p3) % Word
        /\ w[3] = (v \div p2) % Word /\ w[4] = (v \div 1) % Word
    BY <1>3, <1>7, WordFacts DEF p2, p3, p4
  <2>8. q3 % Word = q3 /\ v \div 1 = v
    BY <1>1, <2>1, <2>4
  <2>9. w[1] = q3 /\ w[2] = c /\ w[3] = b /\ w[4] = a
    BY <2>1, <2>5, <2>6, <2>7, <2>8 DEF q1, a, b, c
  <2>10. Join(w) = w[1] * p4 + w[2] * p3 + w[3] * p2 + w[4]
    BY <1>4, <1>7, JoinFacts DEF p2, p3, p4
  <2>11. v = q3 * p4 + c * p3 + b * p2 + a
    <3>1. /\ v = ((q3 * Word + c) * Word + b) * Word + a
          /\ a \in Nat /\ b \in Nat /\ c \in Nat
      BY <2>1, <2>12
    <3>2. v = q3 * (Word * (Word * Word)) + (c * (Word * Word) + (b * Word + a))
      BY <2>1, <2>4, <3>1, Horner
    <3>3. v = q3 * p4 + (c * p3 + (b * p2 + a))
      BY <2>1, <3>2, Zenon
    <3>4. q3 * p4 \in Nat /\ c * p3 \in Nat /\ b * p2 \in Nat
      BY <2>1, <2>4, <3>1
    <3> QED BY <3>1, <3>3, <3>4
  <2>13. Join(w) = v
    BY <2>9, <2>10, <2>11, Zenon
  <2> QED BY <1>4, <2>13 DEF n, w
<1> QED BY <1>1, <1>5, <1>6, <1>7

LEMMA MagnitudeOfProduct ==
  ASSUME NEW a \in Int, NEW d \in Int \ {0}
  PROVE  /\ Magnitude(a) \in Nat /\ Magnitude(d) \in Nat \ {0}
         /\ Magnitude(a * d) = Magnitude(a) * Magnitude(d)
         /\ (a * d < 0) = (d < 0) => Magnitude(a) = a
         /\ (a * d < 0) # (d < 0) => -Magnitude(a) = a
<1>1. CASE a >= 0 /\ d > 0
  <2>1. a * d >= 0
    BY <1>1
  <2> QED BY <1>1, <2>1 DEF Magnitude
<1>2. CASE a < 0 /\ d > 0
  <2>1. a * d < 0 /\ -(a * d) = (-a) * d
    BY <1>2
  <2> QED BY <1>2, <2>1 DEF Magnitude
<1>3. CASE a > 0 /\ d < 0
  <2>1. a * d < 0 /\ -(a * d) = a * (-d)
    BY <1>3
  <2> QED BY <1>3, <2>1 DEF Magnitude
<1>4. CASE a = 0
  <2>1. a * d = 0 /\ Magnitude(d) \in Nat \ {0}
    BY <1>4 DEF Magnitude
  <2>2. Magnitude(a) = 0 /\ Magnitude(a * d) = 0
    BY <1>4, <2>1 DEF Magnitude
  <2>3. 0 * Magnitude(d) = 0
    BY <2>1
  <2> QED BY <1>4, <2>1, <2>2, <2>3
<1>5. CASE a < 0 /\ d < 0
  <2>1. a * d > 0 /\ a * d = (-a) * (-d)
    BY <1>5
  <2> QED BY <1>5, <2>1 DEF Magnitude
<1> QED BY <1>1, <1>2, <1>3, <1>4, <1>5

(* Scaling a whole number and rounding the quotient gives it back.         *)
LEMMA RoundedIsExact ==
  ASSUME NEW a \in Int, NEW d \in Int \ {0}
  PROVE  Rounded(a * d, d) = a
<1> DEFINE k == Magnitude(a)
           b == Magnitude(d)
           whole == (2 * Magnitude(a * d) + b) \div (2 * b)
<1>1. /\ k \in Nat /\ b \in Nat \ {0} /\ Magnitude(a * d) = k * b
      /\ (a * d < 0) = (d < 0) => k = a
      /\ (a * d < 0) # (d < 0) => -k = a
  BY MagnitudeOfProduct
<1> HIDE DEF k, b
<1>2. whole = k
  <2>1. 2 * (k * b) + b = k * (2 * b) + b /\ b \in 0..(2 * b - 1) /\ 2 * b \in Nat \ {0}
    BY <1>1
  <2>2. 2 * (k * b) + b \in Nat
    BY <1>1
  <2> QED BY <1>1, <2>1, <2>2, Quotient
<1> HIDE DEF whole
<1>3. Rounded(a * d, d) = IF (a * d < 0) = (d < 0) THEN whole ELSE -whole
  BY DEF Rounded, whole, b
<1> QED BY <1>1, <1>2, <1>3

LEMMA ParseAnswer ==
  ASSUME NEW type, NEW raw \in Representable(type)
  PROVE  /\ raw \in Int
         /\ raw % Size(type) \in 0..(Size(type) - 1)
         /\ IF Signed(type)
            THEN raw = IF 2 * (raw % Size(type)) >= Size(type)
                       THEN (raw % Size(type)) - Size(type) ELSE raw % Size(type)
            ELSE raw = raw % Size(type)
<1> DEFINE size == Size(type)
           half == size \div 2
<1>1. half \in Nat \ {0} /\ size = 2 * half
  <2> DEFINE k == Place[Width(type)]
             h == Word \div 2
  <2>1. k \in Nat \ {0} /\ size = Word * k
    BY WidthFacts, WordFacts DEF Size
  <2>2. h \in Nat \ {0} /\ Word = 2 * h
    BY WordFacts
  <2> HIDE DEF k, h
  <2>3. h * k \in Nat \ {0} /\ size = 2 * (h * k)
    BY <2>1, <2>2
  <2> DEFINE hk == h * k
  <2> HIDE DEF hk
  <2>4. hk \in Nat \ {0} /\ size = 2 * hk
    BY <2>3 DEF hk
  <2> QED BY <2>4
<1> HIDE DEF half, size
<1>2. CASE Signed(type)
  <2>1. raw \in (-half)..(half - 1)
    BY <1>2 DEF Representable, half, size
  <2>2. CASE raw >= 0
    <3>1. raw % size = raw
      BY <1>1, <2>1, <2>2
    <3> QED BY <1>1, <1>2, <2>1, <2>2, <3>1 DEF size
  <2>3. CASE raw < 0
    <3>1. raw % size = raw + size
      BY <1>1, <2>1, <2>3
    <3> QED BY <1>1, <1>2, <2>1, <2>3, <3>1 DEF size
  <2> QED BY <2>1, <2>2, <2>3
<1>3. CASE ~ Signed(type)
  <2>1. raw \in 0..(size - 1)
    BY <1>3 DEF Representable, size
  <2>2. raw % size = raw
    BY <1>1, <2>1
  <2> QED BY <1>3, <2>1, <2>2 DEF size
<1> QED BY <1>2, <1>3

(* Whatever is written, it is a word for each of the point's registers.    *)
LEMMA EncodingsAreWords ==
  ASSUME NEW m \in Mappings, m.cnt = Width(m.type), NEW value,
         NEW words \in Encodings(value, m)
  PROVE  words \in [1..m.cnt -> 0..(Word - 1)]
<1> DEFINE raw == Rounded(value - m.offset, m.scale)
           n == m.cnt
           plain == Words(raw % Size(m.type), m.type)
<1>1. n \in Nat /\ n = Width(m.type) /\ {0, Word - 1} \subseteq 0..(Word - 1)
  BY WidthFacts, WordFacts DEF Mappings
<1>2. CASE m.scale # 0 /\ raw \in Representable(m.type)
  <2>1. words = Ordered(plain, m.swap)
    BY <1>2 DEF Encodings
  <2> HIDE DEF raw
  <2>2. plain \in [1..n -> 0..(Word - 1)]
    BY <1>1, <1>2, ParseAnswer, JoinOfWords
  <2> HIDE DEF plain
  <2>3. Reverse(plain) \in [1..n -> 0..(Word - 1)]
    BY <1>1, <2>2, ReverseFacts
  <2> QED BY <2>1, <2>2, <2>3 DEF Ordered
<1>3. CASE ~ (m.scale # 0 /\ raw \in Representable(m.type))
  <2>1. words \in [1..n -> {0, Word - 1}]
    BY <1>1, <1>3 DEF Encodings
  <2> QED BY <1>1, <2>1
<1> QED BY <1>2, <1>3

(* encode_register and parse_register undo one another on the values the   *)
(* point's type can have, whatever the scale.                              *)
LEMMA EncodedIsParsed ==
  ASSUME NEW m \in Mappings, m.cnt = Width(m.type),
         NEW raw \in Readable(m.type),
         NEW words \in Encodings(raw * m.scale + m.offset, m)
  PROVE  /\ words \in [1..m.cnt -> 0..(Word - 1)]
         /\ Scaled(Parse(words, m), m) = raw * m.scale + m.offset
<1> DEFINE n == m.cnt
           bits == raw % Size(m.type)
           plain == Words(bits, m.type)
           value == raw * m.scale + m.offset
<1>1. n \in {1, 2, 4} /\ n \in Nat /\ m.scale \in Int /\ m.offset \in Int
      /\ n = Width(m.type)
  BY WidthFacts DEF Mappings
<1>2. raw \in Representable(m.type)
  <2>1. CASE m.type = "Bool"
    <3>1. Size(m.type) = Word /\ ~ Signed(m.type)
      BY <2>1, WordFacts DEF Size, Width, Signed
    <3> QED BY <2>1, <3>1, WordFacts DEF Readable, Representable
  <2> QED BY <2>1 DEF Readable
<1>3. raw \in Int /\ bits \in 0..(Size(m.type) - 1)
  BY <1>2, ParseAnswer
<1>4. CASE m.scale = 0
  <2>1. words \in [1..n -> {0, Word - 1}]
    BY <1>1, <1>4 DEF Encodings
  <2>2. words \in [1..n -> 0..(Word - 1)]
    BY <2>1, WordFacts
  <2>3. Parse(words, m) \in Int
    BY <2>2, ParseIsWeighed
  <2>4. Parse(words, m) * 0 = 0 /\ raw * 0 = 0
    BY <1>3, <2>3
  <2> QED BY <1>4, <2>2, <2>4 DEF Scaled
<1>5. CASE m.scale # 0
  <2>1. Rounded(value - m.offset, m.scale) = raw
    <3>1. raw * m.scale \in Int /\ value - m.offset = raw * m.scale
      BY <1>1, <1>3
    <3> QED BY <1>1, <1>3, <1>5, <3>1, RoundedIsExact
  <2>2. words = Ordered(plain, m.swap)
    BY <1>2, <1>5, <2>1 DEF Encodings
  <2> HIDE DEF bits
  <2>3. plain \in [1..n -> 0..(Word - 1)] /\ Join(plain) = bits
    BY <1>1, <1>3, JoinOfWords
  <2> HIDE DEF plain
  <2>4. words \in [1..n -> 0..(Word - 1)] /\ Ordered(words, m.swap) = plain
    <3>1. /\ Reverse(plain) \in [1..n -> 0..(Word - 1)]
          /\ Reverse(Reverse(plain)) = plain
      BY <1>1, <2>3, ReverseFacts
    <3> QED BY <2>2, <2>3, <3>1 DEF Ordered
  <2>5. Parse(words, m) = raw
    <3>1. CASE m.type = "Bool"
      <4>1. n = 1 /\ Size(m.type) = Word /\ raw \in {0, 1}
        BY <1>1, <3>1, WordFacts DEF Size, Width, Readable
      <4>2. bits = raw
        BY <4>1, WordFacts DEF bits
      <4>3. plain[1] = raw
        BY <2>3, <4>1, <4>2, JoinFacts
      <4>4. words[1] = plain[1]
        <5>1. Len(plain) = 1
          BY <2>3, <4>1
        <5> QED BY <2>2, <5>1 DEF Ordered, Reverse
      <4>5. Parse(words, m) = IF words[1] # 0 THEN 1 ELSE 0
        BY <3>1 DEF Parse, Signed
      <4> QED BY <4>1, <4>3, <4>4, <4>5
    <3>2. CASE m.type # "Bool"
      <4>1. Parse(words, m) =
                IF Signed(m.type)
                THEN IF 2 * bits >= Size(m.type) THEN bits - Size(m.type) ELSE bits
                ELSE bits
        BY <2>3, <2>4, <3>2 DEF Parse
      <4> QED BY <1>2, <4>1, ParseAnswer DEF bits
    <3> QED BY <3>1, <3>2
  <2> QED BY <2>4, <2>5 DEF Scaled
<1> QED BY <1>4, <1>5

-----------------------------------------------------------------------------
(***************************************************************************)
(* The threads.                                                            *)
(***************************************************************************)
Row == [value : Int, quality : {"Good", "Bad"}]

(* The device takes a write of the point.                                  *)
Accepts(p) ==
    /\ Writable(p)
    /\ map[p].fc # 5 => map[p].addr + map[p].cnt <= AddressMod

DPTypeOK ==
    /\ map \in Layouts
    /\ memory \in [1..4 -> [0..(AddressMod - 1) -> 0..(Word - 1)]]
    /\ todo \subseteq Groups
    /\ allOk \in BOOLEAN
    /\ status \in {"Unknown", "Online", "Offline"}
    /\ table \in [DOMAIN map -> Row]
    /\ refreshed \subseteq DOMAIN map
    /\ control \in [step : {"idle", "readBack", "complete"}, point : {control.point},
                    desired : Int, result : Int]
    /\ control.step # "idle" => control.point \in DOMAIN map /\ Accepts(control.point)

(* The groups still to be read span their points.                          *)
Spanning == \A g \in todo : Spans(g)

(* While a poll goes on, every point was written or is still to be read.   *)
NoneLeftOut == todo # {} => refreshed \cup UNION {g.points : g \in todo} = DOMAIN map

PollInv == DPTypeOK /\ Spanning /\ NoneLeftOut

(* What the registers of a layout's point hold.                            *)
LEMMA BlockFacts ==
  ASSUME DPTypeOK, NEW fc \in 1..4, NEW a \in Nat, NEW n \in Nat, a + n <= AddressMod
  PROVE  Block(fc, a, n) \in [1..n -> 0..(Word - 1)]
<1>1. AddressMod \in Nat
  BY NumbersAssumption
<1>2. memory[fc] \in [0..(AddressMod - 1) -> 0..(Word - 1)]
  BY DEF DPTypeOK
<1>3. \A i \in 1..n : a + i - 1 \in 0..(AddressMod - 1)
  BY <1>1
<1>4. \A i \in 1..n : memory[fc][a + i - 1] \in 0..(Word - 1)
  BY <1>2, <1>3
<1> QED BY <1>4 DEF Block

(* Whatever is copied for a point, it is words.                            *)
LEMMA SubRegistersAreWords ==
  ASSUME DPTypeOK, NEW g \in Groups, g.fc \in 1..4, g.start + Count(g) <= AddressMod,
         Spans(g), NEW p \in g.points, NEW words \in SubRegisters(g, p)
  PROVE  words \in [1..map[p].cnt -> 0..(Word - 1)]
<1> DEFINE block == Block(g.fc, g.start, Count(g))
           n == map[p].cnt
           off == map[p].addr - g.start
<1>1. /\ g.start \in Nat /\ g.end \in Nat /\ g.end < AddressMod
      /\ n \in Nat /\ off \in Nat
  <2>1. p \in DOMAIN map
    BY DEF Groups
  <2>2. map \in Layouts
    BY DEF DPTypeOK
  <2>3. map[p].addr \in Nat /\ map[p].cnt \in {1, 2, 4}
    BY <2>1, <2>2, MappingFacts
  <2> QED BY <2>3 DEF Groups, Spans
<1>2. Count(g) \in Nat
  BY <1>1, NumbersAssumption DEF Count
<1>3. block \in [1..Count(g) -> 0..(Word - 1)]
  BY <1>1, <1>2, BlockFacts
<1>4. PICK beyond \in [1..n -> {0, Word - 1}] :
          words = [i \in 1..n |-> IF off + i <= Count(g) THEN block[off + i] ELSE beyond[i]]
  BY DEF SubRegisters
<1> HIDE DEF block, n, off
<1>5. ASSUME NEW i \in 1..n
      PROVE  (IF off + i <= Count(g) THEN block[off + i] ELSE beyond[i]) \in 0..(Word - 1)
  <2>1. CASE off + i <= Count(g)
    <3>1. off + i \in 1..Count(g)
      BY <1>1, <1>2, <2>1
    <3> QED BY <1>3, <2>1, <3>1
  <2>2. CASE ~ (off + i <= Count(g))
    BY <1>4, <2>2, WordFacts
  <2> QED BY <2>1, <2>2
<1> QED BY <1>4, <1>5 DEF n

(* What is copied for a point whose end fits is what its own registers     *)
(* hold, and nothing else.                                                 *)
LEMMA SubRegistersAreOwn ==
  ASSUME DPTypeOK, NEW g \in Groups, Spans(g), NEW p \in g.points, EndFits(p)
  PROVE  /\ Count(g) = g.end - g.start
         /\ map[p].addr + map[p].cnt <= g.start + Count(g)
         /\ SubRegisters(g, p) = {Block(ReadCode(map[p].fc), map[p].addr, map[p].cnt)}
<1> DEFINE a == map[p].addr
           n == map[p].cnt
           c == g.end - g.start
           block == Block(g.fc, g.start, c)
           own == Block(ReadCode(map[p].fc), a, n)
<1>1. /\ a \in Nat /\ n \in {1, 2, 4} /\ g.start \in Nat /\ g.end \in Nat
      /\ g.start <= a /\ a + n <= g.end /\ g.end < AddressMod
      /\ g.fc = ReadCode(map[p].fc)
  <2>1. p \in DOMAIN map
    BY DEF Groups
  <2>2. map \in Layouts
    BY DEF DPTypeOK
  <2>3. /\ map[p].addr \in Nat /\ map[p].cnt \in {1, 2, 4}
        /\ EndFits(p) => EndOf(p) = map[p].addr + map[p].cnt
    BY <2>1, <2>2, MappingFacts
  <2> QED BY <2>3 DEF Groups, Spans
<1>2. Count(g) = c /\ c \in Nat
  BY <1>1, NumbersAssumption DEF Count
<1>3. /\ \A i \in 1..c : block[i] = memory[g.fc][g.start + i - 1]
      /\ own = [i \in 1..n |-> memory[g.fc][a + i - 1]]
  BY <1>1 DEF Block
<1>4. SubRegisters(g, p) =
          {[i \in 1..n |-> IF a - g.start + i <= c THEN block[a - g.start + i] ELSE beyond[i]] :
               beyond \in [1..n -> {0, Word - 1}]}
  BY <1>2 DEF SubRegisters
<1> HIDE DEF a, n, c, block, own
<1>5. ASSUME NEW i \in 1..n
      PROVE  /\ a - g.start + i <= c
             /\ block[a - g.start + i] = memory[g.fc][a + i - 1]
  <2>1. /\ a - g.start + i \in 1..c
        /\ g.start + (a - g.start + i) - 1 = a + i - 1
    BY <1>1, <1>2 DEF c
  <2> QED BY <1>2, <1>3, <2>1
<1>6. ASSUME NEW beyond
      PROVE  [i \in 1..n |-> IF a - g.start + i <= c
                             THEN block[a - g.start + i] ELSE beyond[i]] = own
  BY <1>3, <1>5
<1>7. [i \in 1..n |-> 0] \in [1..n -> {0, Word - 1}]
  OBVIOUS
<1>8. SubRegisters(g, p) = {own}
  BY <1>4, <1>6, <1>7
<1>9. a + n <= g.start + c
  BY <1>1 DEF c
<1> QED BY <1>2, <1>8, <1>9 DEF own, a, n, c

(* What a group's answer makes of its points.                              *)
LEMMA DecodedFacts ==
  ASSUME DPTypeOK, NEW g \in Groups, Spans(g), g.fc \in 1..4,
         g.start + Count(g) <= AddressMod, NEW p \in g.points, NEW row \in Decoded(g, p)
  PROVE  /\ row \in Row
         /\ EndFits(p) /\ row.quality = "Good" => row.value = Measured(p)
         /\ \/ row.quality = "Good"
            \/ ReadCode(map[p].fc) <= 2 /\ (map[p].type # "Bool" \/ ~ EndFits(p))
<1> DEFINE m == map[p]
           own == Block(ReadCode(m.fc), m.addr, m.cnt)
           eng(words) == Scaled(Parse(words, m), m)
           stored(words) == IF m.category = "Teleindication" THEN eng(words) % Word
                                                             ELSE eng(words)
<1>1. /\ p \in DOMAIN map /\ m \in Mappings /\ m.cnt = Width(m.type)
      /\ m.addr \in Nat /\ m.cnt \in {1, 2, 4} /\ g.fc = ReadCode(m.fc)
  <2>1. p \in DOMAIN map
    BY DEF Groups
  <2> QED BY <2>1, MappingFacts DEF DPTypeOK, Spans
<1>2. CASE g.fc <= 2 /\ (m.type # "Bool" \/ m.addr - g.start >= Count(g))
  <2>1. row = Bad
    BY <1>2 DEF Decoded
  <2>2. m.addr - g.start >= Count(g) => ~ EndFits(p)
    <3>1. SUFFICES ASSUME EndFits(p) PROVE ~ (m.addr - g.start >= Count(g))
      OBVIOUS
    <3>2. m.addr + m.cnt <= g.start + Count(g) /\ Count(g) = g.end - g.start
      BY <3>1, SubRegistersAreOwn
    <3>3. g.start \in Nat /\ g.end \in Nat
      BY DEF Groups
    <3> HIDE DEF m
    <3> QED BY <1>1, <3>2, <3>3
  <2> HIDE DEF m
  <2> QED BY <1>1, <1>2, <2>1, <2>2 DEF Bad, Row, m
<1>3. CASE ~ (g.fc <= 2 /\ (m.type # "Bool" \/ m.addr - g.start >= Count(g)))
  <2>1. PICK words \in SubRegisters(g, p) : row = Good(stored(words))
    BY <1>3 DEF Decoded
  <2>2. words \in [1..m.cnt -> 0..(Word - 1)]
    BY SubRegistersAreWords
  <2>3. Parse(words, m) = Weighed(words, m) /\ Parse(words, m) \in Int
    BY <1>1, <2>2, ParseIsWeighed
  <2>4. eng(words) = Weighed(words, m) * m.scale + m.offset /\ eng(words) \in Int
    BY <1>1, <2>3 DEF Scaled, Mappings
  <2>5. EndFits(p) => stored(words) = Measured(p)
    <3>1. SUFFICES ASSUME EndFits(p) PROVE stored(words) = Measured(p)
      OBVIOUS
    <3>2. words = own
      BY <3>1, SubRegistersAreOwn
    <3> QED BY <2>4, <3>2 DEF Measured
  <2>6. stored(words) \in Int
    <3> HIDE DEF eng
    <3> QED BY <2>4, WordFacts
  <2> HIDE DEF stored
  <2> QED BY <2>1, <2>5, <2>6 DEF Good, Row
<1> QED BY <1>2, <1>3

-----------------------------------------------------------------------------
LEMMA InitPoll == DPInit => PollInv
<1> SUFFICES ASSUME DPInit PROVE PollInv
  OBVIOUS
<1> USE DEF DPInit
<1>1. memory \in [1..4 -> [0..(AddressMod - 1) -> 0..(Word - 1)]]
  <2>1. ASSUME NEW fc \in 1..4, NEW a \in 0..(AddressMod - 1)
        PROVE  (IF fc <= 2 THEN (a + fc) % 2 ELSE (a + 5 * fc) % Word) \in 0..(Word - 1)
    <3>1. a + fc \in Nat /\ a + 5 * fc \in Nat
      BY NumbersAssumption
    <3>2. (a + fc) % 2 \in 0..1
      BY <3>1
    <3>3. (a + 5 * fc) % Word \in 0..(Word - 1)
      BY <3>1, WordFacts
    <3> QED BY <3>2, <3>3, WordFacts
  <2> QED BY <2>1
<1>2. table \in [DOMAIN map -> Row]
  BY DEF Bad, Row
<1> QED BY <1>1, <1>2 DEF PollInv, DPTypeOK, Spanning, NoneLeftOut

(* A group that is answered: each of its points takes one of its rows.     *)
LEMMA ReadFacts ==
  ASSUME DPTypeOK, Spanning, NEW g \in todo, ReadGroup(g)
  PROVE  /\ g \in Groups /\ Spans(g) /\ g.fc \in 1..4 /\ g.start + Count(g) <= AddressMod
         /\ map' = map
         /\ \A p \in DOMAIN map :
                IF p \in g.points THEN table'[p] \in Decoded(g, p) ELSE table'[p] = table[p]
         /\ table' \in [DOMAIN map -> Row]
<1>1. /\ g \in Groups /\ Spans(g) /\ g.fc \in 1..4 /\ g.start + Count(g) <= AddressMod
      /\ map' = map
  BY DEF DPTypeOK, Spanning, ReadGroup, GroupDone
<1>2. PICK rows \in [g.points -> UNION {Decoded(g, p) : p \in g.points}] :
          /\ \A p \in g.points : rows[p] \in Decoded(g, p)
          /\ table' = [p \in DOMAIN table |-> IF p \in g.points THEN rows[p] ELSE table[p]]
  BY DEF ReadGroup
<1>3. DOMAIN table = DOMAIN map /\ \A p \in DOMAIN map : table[p] \in Row
  BY DEF DPTypeOK
<1>4. \A p \in g.points : rows[p] \in Row
  BY <1>1, <1>2, DecodedFacts
<1> QED BY <1>1, <1>2, <1>3, <1>4

(* A group is done: its points are written, the others are still to come.  *)
LEMMA DoneKeepsPoll ==
  ASSUME PollInv, NEW g \in todo, NEW ok \in BOOLEAN, GroupDone(g, ok),
         table' \in [DOMAIN map -> Row]
  PROVE  PollInv'
<1> USE DEF GroupDone
<1>1. g \in Groups /\ g.points \subseteq DOMAIN map
  BY DEF PollInv, DPTypeOK, Groups
<1>2. map' = map /\ Groups' = Groups
  BY DEF Groups
<1>3. DPTypeOK'
  BY <1>1, <1>2 DEF PollInv, DPTypeOK, Accepts, Writable
<1>4. Spanning'
  BY <1>2 DEF PollInv, Spanning, Spans, EndFits
<1>5. NoneLeftOut'
  BY <1>1, <1>2 DEF PollInv, NoneLeftOut
<1> QED BY <1>3, <1>4, <1>5 DEF PollInv

LEMMA PollStepKeepsPoll ==
  ASSUME PollInv, PollStep
  PROVE  PollInv'
<1>1. CASE StartPoll
  <2>1. map' = map /\ Groups' = Groups
    BY <1>1 DEF StartPoll, Groups
  <2>2. map \in Layouts
    BY DEF PollInv, DPTypeOK
  <2>3. DPTypeOK'
    BY <1>1, <2>1, <2>2, GroupsOfAPoll DEF StartPoll, PollInv, DPTypeOK, Accepts, Writable
  <2>4. Spanning'
    BY <1>1, <2>1, <2>2, GroupsOfAPoll DEF StartPoll, Spanning, Spans, EndFits
  <2>5. NoneLeftOut'
    BY <1>1, <2>1, <2>2, GroupsOfAPoll DEF StartPoll, NoneLeftOut
  <2> QED BY <2>3, <2>4, <2>5 DEF PollInv
<1>2. ASSUME NEW g \in todo, ReadGroup(g) PROVE PollInv'
  <2>1. table' \in [DOMAIN map -> Row]
    BY <1>2, ReadFacts DEF PollInv
  <2> QED BY <1>2, <2>1, DoneKeepsPoll DEF ReadGroup
<1>3. ASSUME NEW g \in todo, GroupFails(g) PROVE PollInv'
  <2>1. table' \in [DOMAIN map -> Row]
    BY <1>3 DEF GroupFails, PollInv, DPTypeOK, Bad, Row
  <2> QED BY <1>3, <2>1, DoneKeepsPoll DEF GroupFails
<1> QED BY <1>1, <1>2, <1>3 DEF PollStep

(* A write puts the value's words into the point's registers, and nothing  *)
(* else of the device changes.                                             *)
LEMMA WriteFacts ==
  ASSUME DPTypeOK, NEW p \in DOMAIN map, NEW value \in Int, Write(p, value)
  PROVE  /\ memory' \in [1..4 -> [0..(AddressMod - 1) -> 0..(Word - 1)]]
         /\ map[p].fc = 5 => memory'[1][map[p].addr] = IF value # 0 THEN 1 ELSE 0
         /\ map[p].fc # 5 => \E words \in Encodings(value, map[p]) :
                Block(3, map[p].addr, map[p].cnt)' = words
<1> DEFINE m == map[p]
           addresses == 0..(AddressMod - 1)
<1>1. /\ m \in Mappings /\ m.addr \in Nat /\ m.cnt \in {1, 2, 4}
      /\ m.cnt = Width(m.type) /\ m.addr < AddressMod
      /\ m.fc # 5 => m.addr + m.cnt <= AddressMod
      /\ AddressMod \in Nat /\ map' = map
  BY MappingFacts, NumbersAssumption DEF DPTypeOK, Write
<1>2. memory \in [1..4 -> [addresses -> 0..(Word - 1)]]
  BY DEF DPTypeOK
<1>3. CASE m.fc = 5
  <2>1. memory' = [memory EXCEPT ![1][m.addr] = IF value # 0 THEN 1 ELSE 0]
    BY <1>3 DEF Write
  <2>2. m.addr \in addresses /\ {0, 1} \subseteq 0..(Word - 1)
    BY <1>1, WordFacts
  <2> DEFINE bit == IF value # 0 THEN 1 ELSE 0
             coils == [memory[1] EXCEPT ![m.addr] = bit]
  <2>3. memory' = [memory EXCEPT ![1] = coils]
    BY <2>1
  <2>4. bit \in 0..(Word - 1)
    BY <2>2
  <2> HIDE DEF m, addresses, bit
  <2>5. coils \in [addresses -> 0..(Word - 1)] /\ coils[m.addr] = bit
    BY <1>2, <2>2, <2>4
  <2> HIDE DEF coils
  <2>6. memory' \in [1..4 -> [addresses -> 0..(Word - 1)]] /\ memory'[1] = coils
    BY <1>2, <2>3, <2>5
  <2> QED BY <1>3, <2>5, <2>6 DEF m, addresses, bit
<1>4. CASE m.fc # 5
  <2>1. PICK words \in Encodings(value, m) :
            memory' = [memory EXCEPT ![3] = [a \in DOMAIN @ |->
                IF a \in m.addr .. (m.addr + m.cnt - 1)
                THEN words[a - m.addr + 1] ELSE @[a]]]
    BY <1>4 DEF Write
  <2>2. words \in [1..m.cnt -> 0..(Word - 1)]
    BY <1>1, EncodingsAreWords
  <2>3. memory'[3] = [a \in addresses |->
                IF a \in m.addr .. (m.addr + m.cnt - 1)
                THEN words[a - m.addr + 1] ELSE memory[3][a]]
    <3> DEFINE registers(row) == [a \in DOMAIN row |->
                   IF a \in m.addr .. (m.addr + m.cnt - 1)
                   THEN words[a - m.addr + 1] ELSE row[a]]
    <3>1. memory' = [memory EXCEPT ![3] = registers(memory[3])]
      BY <2>1
    <3>2. DOMAIN memory = 1..4 /\ DOMAIN memory[3] = addresses
      BY <1>2
    <3>3. registers(memory[3]) = [a \in addresses |->
                   IF a \in m.addr .. (m.addr + m.cnt - 1)
                   THEN words[a - m.addr + 1] ELSE memory[3][a]]
      BY <3>2
    <3> HIDE DEF registers
    <3>4. memory'[3] = registers(memory[3])
      BY <3>1, <3>2
    <3> QED BY <3>3, <3>4
  <2>4. memory'[3] \in [addresses -> 0..(Word - 1)]
    <3>1. ASSUME NEW a \in addresses
          PROVE  (IF a \in m.addr .. (m.addr + m.cnt - 1)
                  THEN words[a - m.addr + 1] ELSE memory[3][a]) \in 0..(Word - 1)
      <4>1. CASE a \in m.addr .. (m.addr + m.cnt - 1)
        <5>1. a - m.addr + 1 \in 1..m.cnt
          BY <1>1, <4>1
        <5> QED BY <2>2, <4>1, <5>1
      <4>2. CASE a \notin m.addr .. (m.addr + m.cnt - 1)
        <5>1. memory[3] \in [addresses -> 0..(Word - 1)]
          BY <1>2
        <5>2. memory[3][a] \in 0..(Word - 1)
          BY <5>1
        <5> QED BY <4>2, <5>2
      <4> QED BY <4>1, <4>2
    <3> QED BY <2>3, <3>1
  <2>5. memory' \in [1..4 -> [addresses -> 0..(Word - 1)]]
    BY <1>2, <2>1, <2>4
  <2>6. Block(3, m.addr, m.cnt)' = [i \in 1..m.cnt |-> memory'[3][m.addr + i - 1]]
    BY <1>1 DEF Block
  <2>7. ASSUME NEW i \in 1..m.cnt PROVE memory'[3][m.addr + i - 1] = words[i]
    <3>1. /\ m.addr + i - 1 \in addresses
          /\ m.addr + i - 1 \in m.addr .. (m.addr + m.cnt - 1)
          /\ (m.addr + i - 1) - m.addr + 1 = i
      BY <1>1, <1>4
    <3> QED BY <2>3, <3>1
  <2>8. Block(3, m.addr, m.cnt)' = words
    BY <2>2, <2>6, <2>7
  <2> QED BY <1>4, <2>5, <2>8
<1> QED BY <1>3, <1>4

(* What the control thread reads back.                                     *)
ReadValue ==
    LET m == map[control.point]
        words == Block(ReadCode(m.fc), m.addr, IF m.fc = 5 THEN 1 ELSE m.cnt)
    IN  IF m.fc = 5 THEN words[1] ELSE Scaled(Parse(words, m), m)

LEMMA ReadValueFacts ==
  ASSUME DPTypeOK, control.point \in DOMAIN map, Accepts(control.point)
  PROVE  LET m == map[control.point] IN
         /\ ReadValue \in Int
         /\ m.fc = 5 => ReadValue = memory[1][m.addr]
         /\ m.fc # 5 =>
               ReadValue = Scaled(Parse(Block(3, m.addr, m.cnt), m), m)
<1> DEFINE p == control.point
           m == map[p]
<1>1. /\ m \in Mappings /\ m.cnt = Width(m.type) /\ m.cnt \in {1, 2, 4}
      /\ m.addr \in Nat /\ m.scale \in Int /\ m.offset \in Int
      /\ m.addr + 1 <= AddressMod
      /\ m.fc # 5 => m.addr + m.cnt <= AddressMod
  <2>1. /\ m \in Mappings /\ m.cnt = Width(m.type) /\ m.cnt \in {1, 2, 4}
        /\ m.addr \in Nat /\ m.addr < AddressMod
    BY MappingFacts DEF DPTypeOK
  <2>2. m.fc # 5 => m.addr + m.cnt <= AddressMod
    BY DEF Accepts
  <2> HIDE DEF m
  <2>3. m.scale \in Int /\ m.offset \in Int
    BY <2>1 DEF Mappings
  <2> QED BY <2>1, <2>2, <2>3, NumbersAssumption
<1>2. CASE m.fc = 5
  <2>1. ReadValue = Block(1, m.addr, 1)[1]
    BY <1>2 DEF ReadValue, ReadCode
  <2>2. Block(1, m.addr, 1)[1] = memory[1][m.addr]
    BY <1>1 DEF Block
  <2>3. Block(1, m.addr, 1) \in [1..1 -> 0..(Word - 1)]
    <3>1. 1 \in Nat /\ 1 \in 1..4
      OBVIOUS
    <3> QED BY <1>1, <3>1, BlockFacts
  <2> QED BY <1>2, <2>1, <2>2, <2>3
<1>3. CASE m.fc # 5
  <2> DEFINE words == Block(3, m.addr, m.cnt)
  <2>1. ReadValue = Scaled(Parse(words, m), m)
    <3>1. ReadCode(m.fc) = 3
      BY <1>3 DEF ReadCode, Writable, Accepts
    <3> QED BY <1>3, <3>1 DEF ReadValue
  <2>2. words \in [1..m.cnt -> 0..(Word - 1)]
    <3>1. m.cnt \in Nat /\ 3 \in 1..4
      BY <1>1
    <3> QED BY <1>1, <1>3, <3>1, BlockFacts
  <2> HIDE DEF words
  <2>3. Parse(words, m) \in Int
    BY <1>1, <2>2, ParseIsWeighed
  <2> QED BY <1>1, <1>3, <2>1, <2>3 DEF Scaled, words
<1> QED BY <1>2, <1>3

LEMMA ControlStepKeepsPoll ==
  ASSUME PollInv, ControlStep
  PROVE  PollInv'
<1> USE DEF PollInv
<1>1. ASSUME UNCHANGED <<map, todo, allOk, status, table, refreshed>>,
             memory' \in [1..4 -> [0..(AddressMod - 1) -> 0..(Word - 1)]],
             control' \in [step : {"idle", "readBack", "complete"},
                           point : {control'.point}, desired : Int, result : Int],
             control'.step # "idle" =>
                 control'.point \in DOMAIN map /\ Accepts(control'.point)
      PROVE  PollInv'
  <2>1. Groups' = Groups
    BY <1>1 DEF Groups
  <2>2. DPTypeOK'
    BY <1>1, <2>1 DEF DPTypeOK, Accepts, Writable
  <2>3. Spanning' /\ NoneLeftOut'
    BY <1>1 DEF Spanning, Spans, EndFits, NoneLeftOut
  <2> QED BY <2>2, <2>3
<1>2. ASSUME NEW p \in DOMAIN map, NEW v \in Targets, Write(p, v) PROVE PollInv'
  <2>1. v \in Int
    BY NumbersAssumption
  <2>2. memory' \in [1..4 -> [0..(AddressMod - 1) -> 0..(Word - 1)]]
    BY <1>2, <2>1, WriteFacts
  <2> QED BY <1>1, <1>2, <2>1, <2>2 DEF Write, Accepts
<1>3. CASE ReadBack
  <2>1. PICK result \in {control.desired, ReadValue} :
            control' = [control EXCEPT !.step = "complete", !.result = result]
    BY <1>3 DEF ReadBack, ReadValue
  <2>2. control.point \in DOMAIN map /\ Accepts(control.point)
    BY <1>3 DEF ReadBack, DPTypeOK
  <2>3. result \in Int
    BY <2>2, ReadValueFacts DEF DPTypeOK
  <2>4. /\ control' \in [step : {"idle", "readBack", "complete"},
                          point : {control'.point}, desired : Int, result : Int]
        /\ control'.point = control.point
    BY <2>1, <2>3 DEF DPTypeOK
  <2> QED BY <1>1, <1>3, <2>2, <2>4 DEF ReadBack, DPTypeOK
<1>4. CASE Complete
  <2>1. control' \in [step : {"idle", "readBack", "complete"},
                      point : {control'.point}, desired : Int, result : Int]
        /\ control'.step = "idle"
    BY <1>4 DEF Complete
  <2> QED BY <1>1, <1>4, <2>1 DEF Complete, DPTypeOK
<1> QED BY <1>2, <1>3, <1>4 DEF ControlStep

LEMMA NextKeepsPoll == PollInv /\ [DPNext]_dpVars => PollInv'
<1> SUFFICES ASSUME PollInv, [DPNext]_dpVars PROVE PollInv'
  OBVIOUS
<1>1. CASE UNCHANGED dpVars
  BY <1>1 DEF PollInv, DPTypeOK, Spanning, NoneLeftOut, Spans, EndFits, Groups,
               Accepts, Writable, dpVars
<1> QED BY <1>1, PollStepKeepsPoll, ControlStepKeepsPoll DEF DPNext

(* The types hold, and the groups that are still to be read cover those of *)
(* their points whose registers end before the last address and, with the  *)
(* points already written, name the whole device: build_register_groups()  *)
(* and poll_once().                                                        *)
THEOREM PollInvariant == DPSpec => []PollInv
<1> QED BY InitPoll, NextKeepsPoll, PTL DEF DPSpec

(* Every block read of a poll spans the registers of its points, whatever  *)
(* gaps, overlaps and widths the layout has, but for a point that reaches  *)
(* the last address, and no point is left out: build_register_groups() and *)
(* its 16 bit ends.                                                        *)
THEOREM BlocksCoverPoints == DPSpec => []GroupsCoverThePoints
<1>1. PollInv => GroupsCoverThePoints
  <2> SUFFICES ASSUME PollInv PROVE GroupsCoverThePoints
    OBVIOUS
  <2>1. ASSUME NEW g \in todo, NEW p \in g.points
        PROVE  /\ g.fc = ReadCode(map[p].fc)
               /\ g.start <= map[p].addr
               /\ EndFits(p) => map[p].addr + map[p].cnt <= g.start + Count(g)
    <3>1. g \in Groups /\ Spans(g)
      BY DEF PollInv, DPTypeOK, Spanning
    <3> QED BY <3>1, SubRegistersAreOwn DEF PollInv, Spans
  <2> QED BY <2>1 DEF GroupsCoverThePoints, PollInv, NoneLeftOut
<1> QED BY <1>1, PollInvariant, PTL

(* However points are merged into block reads, and although a block may be *)
(* too short for a point that reaches the last address: what a poll stores *)
(* as good for any other point is what its own registers say, for every    *)
(* width, sign and word order: poll_register_group(), parse_register().    *)
THEOREM GoodValuesAreMeasured == DPSpec => GoodIsMeasured
<1> DEFINE Measures ==
      \A p \in DOMAIN table :
          EndFits(p) /\ table'[p] # table[p] /\ table'[p].quality = "Good" =>
              table'[p].value = Measured(p)
<1>1. PollInv /\ [DPNext]_dpVars => [Measures]_dpVars
  <2> SUFFICES ASSUME PollInv, DPNext, NEW p \in DOMAIN table, EndFits(p),
                      table'[p] # table[p], table'[p].quality = "Good"
               PROVE  table'[p].value = Measured(p)
    OBVIOUS
  <2>1. CASE ControlStep
    BY <2>1 DEF ControlStep, Write, ReadBack, Complete
  <2>2. CASE StartPoll
    BY <2>2 DEF StartPoll
  <2>3. ASSUME NEW g \in todo, ReadGroup(g)
        PROVE  table'[p].value = Measured(p)
    <3>1. p \in DOMAIN map
      BY DEF PollInv, DPTypeOK
    <3>2. p \in g.points /\ table'[p] \in Decoded(g, p)
      BY <2>3, <3>1, ReadFacts DEF PollInv
    <3> QED BY <2>3, <3>2, ReadFacts, DecodedFacts DEF PollInv
  <2>4. ASSUME NEW g \in todo, GroupFails(g)
        PROVE  table'[p].value = Measured(p)
    <3>1. table'[p] = IF p \in g.points THEN Bad ELSE table[p]
      BY <2>4 DEF GroupFails
    <3> QED BY <3>1 DEF Bad
  <2> QED BY <2>1, <2>2, <2>3, <2>4 DEF DPNext, PollStep
<1>2. GoodIsMeasured <=> [][Measures]_dpVars
  BY DEF GoodIsMeasured
<1> HIDE DEF Measures
<1> QED BY <1>1, <1>2, PollInvariant, PTL DEF DPSpec

-----------------------------------------------------------------------------
(* The point was read, but for a bit of another type than Bool and one     *)
(* that its group's block may not reach.                                   *)
WasRead(p) ==
    \/ table[p].quality = "Good"
    \/ ReadCode(map[p].fc) <= 2 /\ (map[p].type # "Bool" \/ ~ EndFits(p))

(* As long as no group failed, every point written so far was read.        *)
OnlineInv ==
    /\ allOk => \A p \in refreshed : WasRead(p)
    /\ OnlineMeansRead

LEMMA DoneKeepsOnline ==
  ASSUME PollInv, PollInv', OnlineInv, NEW g \in todo, NEW ok \in BOOLEAN, GroupDone(g, ok),
         \A p \in DOMAIN map : p \notin g.points => table'[p] = table[p],
         ok => \A p \in g.points : WasRead(p)'
  PROVE  OnlineInv'
<1> USE DEF GroupDone
<1>1. /\ map' = map /\ refreshed' = refreshed \cup g.points
      /\ refreshed \subseteq DOMAIN map
  BY DEF PollInv, DPTypeOK
<1>2. ASSUME allOk', NEW p \in refreshed' PROVE WasRead(p)'
  <2>1. allOk /\ ok
    BY <1>2 DEF PollInv, DPTypeOK
  <2>2. CASE p \in g.points
    BY <2>1, <2>2
  <2>3. CASE p \notin g.points
    <3>1. p \in refreshed /\ WasRead(p) /\ table'[p] = table[p]
      BY <1>1, <1>2, <2>1, <2>3 DEF OnlineInv
    <3> QED BY <1>1, <3>1 DEF WasRead, EndFits
  <2> QED BY <2>2, <2>3
<1>3. ASSUME todo' = {}, status' = "Online" PROVE \A p \in DOMAIN map' : WasRead(p)'
  <2>1. allOk'
    BY <1>3
  <2>2. refreshed' = DOMAIN map
    <3>1. todo = {g}
      BY <1>3
    <3> QED BY <1>1, <3>1 DEF PollInv, NoneLeftOut
  <2> QED BY <1>1, <1>2, <2>1, <2>2
<1> QED BY <1>2, <1>3 DEF OnlineInv, OnlineMeansRead, WasRead, EndFits

LEMMA NextKeepsOnline ==
  PollInv /\ PollInv' /\ OnlineInv /\ [DPNext]_dpVars => OnlineInv'
<1> SUFFICES ASSUME PollInv, PollInv', OnlineInv, [DPNext]_dpVars PROVE OnlineInv'
  OBVIOUS
<1>1. CASE UNCHANGED <<map, todo, allOk, status, table, refreshed>>
  BY <1>1 DEF OnlineInv, OnlineMeansRead, WasRead, EndFits
<1>2. CASE StartPoll
  <2>1. \A p \in refreshed' : WasRead(p)'
    BY <1>2 DEF StartPoll
  <2>2. OnlineMeansRead'
    BY <1>2 DEF StartPoll, OnlineInv, OnlineMeansRead, EndFits
  <2> QED BY <2>1, <2>2 DEF OnlineInv
<1>3. ASSUME NEW g \in todo, ReadGroup(g) PROVE OnlineInv'
  <2>1. g \in Groups /\ map' = map
    BY <1>3, ReadFacts DEF PollInv
  <2>2. \A p \in DOMAIN map :
            IF p \in g.points THEN table'[p] \in Decoded(g, p) ELSE table'[p] = table[p]
    BY <1>3, ReadFacts DEF PollInv
  <2>3. ASSUME NEW p \in g.points PROVE WasRead(p)'
    <3>1. table'[p] \in Decoded(g, p)
      BY <2>1, <2>2 DEF Groups
    <3>2. \/ table'[p].quality = "Good"
          \/ ReadCode(map[p].fc) <= 2 /\ (map[p].type # "Bool" \/ ~ EndFits(p))
      BY <1>3, <3>1, ReadFacts, DecodedFacts DEF PollInv
    <3> QED BY <2>1, <3>2 DEF WasRead, EndFits
  <2>4. GroupDone(g, TRUE)
    BY <1>3 DEF ReadGroup
  <2> QED BY <2>2, <2>3, <2>4, DoneKeepsOnline
<1>4. ASSUME NEW g \in todo, GroupFails(g) PROVE OnlineInv'
  <2>1. \A p \in DOMAIN map : p \notin g.points => table'[p] = table[p]
    BY <1>4 DEF GroupFails, PollInv, DPTypeOK
  <2>2. GroupDone(g, FALSE)
    BY <1>4 DEF GroupFails
  <2> QED BY <2>1, <2>2, DoneKeepsOnline
<1>5. CASE ControlStep
  BY <1>1, <1>5 DEF ControlStep, Write, ReadBack, Complete
<1> QED BY <1>1, <1>2, <1>3, <1>4, <1>5 DEF DPNext, PollStep, dpVars

(* A device that is said to be online was read completely in its last      *)
(* poll: the all_ok and set_status() of poll_once().                       *)
THEOREM OnlineIsEarned == DPSpec => []OnlineMeansRead
<1>1. DPInit => OnlineInv
  BY DEF DPInit, OnlineInv, OnlineMeansRead
<1>2. OnlineInv => OnlineMeansRead
  BY DEF OnlineInv
<1> QED BY <1>1, <1>2, NextKeepsOnline, PollInvariant, PTL DEF DPSpec

-----------------------------------------------------------------------------
(* The command in hand is one the point's registers can represent.         *)
Fits ==
    LET m == map[control.point] IN
        /\ \E raw \in Readable(m.type) : control.desired = raw * m.scale + m.offset
        /\ m.fc = 5 => control.desired \in {0, 1}

(* Between the write and the read-back the registers hold the command.     *)
CommandInv ==
    /\ control.step = "readBack" /\ Fits => ReadValue = control.desired
    /\ ReadBackIsDesired

LEMMA WriteLands ==
  ASSUME PollInv, PollInv', NEW p \in DOMAIN map, NEW v \in Targets, Write(p, v), Fits'
  PROVE  ReadValue' = control'.desired
<1> DEFINE m == map[p]
<1>1. /\ map' = map /\ control'.point = p /\ control'.desired = v /\ v \in Int
      /\ Writable(p) /\ control'.step = "readBack"
  BY NumbersAssumption DEF Write
<1>2. /\ m \in Mappings /\ m.cnt = Width(m.type)
  BY MappingFacts DEF PollInv, DPTypeOK
<1>3. /\ m.fc = 5 => memory'[1][m.addr] = IF v # 0 THEN 1 ELSE 0
      /\ m.fc # 5 => \E words \in Encodings(v, m) : Block(3, m.addr, m.cnt)' = words
  BY <1>1, WriteFacts DEF PollInv
<1>4. /\ \E raw \in Readable(m.type) : v = raw * m.scale + m.offset
      /\ m.fc = 5 => v \in {0, 1}
  BY <1>1 DEF Fits
<1>5. /\ m.fc = 5 => ReadValue' = memory'[1][m.addr]
      /\ m.fc # 5 => ReadValue' = Scaled(Parse(Block(3, m.addr, m.cnt)', m), m)
  <2>1. CASE m.fc = 5
    <3>1. ReadValue' = Block(1, m.addr, 1)'[1]
      BY <1>1, <2>1 DEF ReadValue, ReadCode
    <3>2. Block(1, m.addr, 1)' = [i \in 1..1 |-> memory'[1][m.addr + i - 1]]
      BY <1>1 DEF Block
    <3>3. m.addr \in Nat
      BY <1>2 DEF Mappings
    <3> HIDE DEF m
    <3> QED BY <2>1, <3>1, <3>2, <3>3
  <2>2. CASE m.fc # 5
    <3>1. ReadCode(m.fc) = 3
      BY <1>1, <2>2 DEF ReadCode, Writable
    <3> QED BY <1>1, <2>2, <3>1 DEF ReadValue
  <2> QED BY <2>1, <2>2
<1>6. CASE m.fc = 5
  BY <1>1, <1>3, <1>4, <1>5, <1>6
<1>7. CASE m.fc # 5
  <2>1. PICK words \in Encodings(v, m) : Block(3, m.addr, m.cnt)' = words
    BY <1>3, <1>7
  <2>2. PICK raw \in Readable(m.type) : v = raw * m.scale + m.offset
    BY <1>4
  <2>3. Scaled(Parse(words, m), m) = v
    BY <1>2, <2>1, <2>2, EncodedIsParsed
  <2> QED BY <1>1, <1>5, <1>7, <2>1, <2>3
<1> QED BY <1>6, <1>7

LEMMA NextKeepsCommand ==
  PollInv /\ PollInv' /\ CommandInv /\ [DPNext]_dpVars => CommandInv'
<1> SUFFICES ASSUME PollInv, PollInv', CommandInv, [DPNext]_dpVars PROVE CommandInv'
  OBVIOUS
<1>1. CASE UNCHANGED <<map, memory, control>>
  BY <1>1 DEF CommandInv, Fits, ReadValue, Block, ReadBackIsDesired
<1>2. ASSUME NEW p \in DOMAIN map, NEW v \in Targets, Write(p, v) PROVE CommandInv'
  <2>1. control'.step = "readBack"
    BY <1>2 DEF Write
  <2>2. Fits' => ReadValue' = control'.desired
    BY <1>2, WriteLands
  <2> QED BY <2>1, <2>2 DEF CommandInv, ReadBackIsDesired
<1>3. CASE ReadBack
  <2>1. PICK result \in {control.desired, ReadValue} :
            control' = [control EXCEPT !.step = "complete", !.result = result]
    BY <1>3 DEF ReadBack, ReadValue
  <2>2. /\ control'.step = "complete" /\ control'.result = result
        /\ control'.point = control.point /\ control'.desired = control.desired
    BY <2>1 DEF PollInv, DPTypeOK
  <2>3. Fits' => result = control.desired
    <3>1. map' = map /\ control.step = "readBack"
      BY <1>3 DEF ReadBack
    <3>2. Fits' <=> Fits
      BY <2>2, <3>1 DEF Fits
    <3> QED BY <2>1, <3>1, <3>2 DEF CommandInv
  <2> QED BY <2>2, <2>3 DEF CommandInv, ReadBackIsDesired, Fits
<1>4. CASE Complete
  <2>1. control'.step = "idle"
    BY <1>4 DEF Complete
  <2> QED BY <2>1 DEF CommandInv, ReadBackIsDesired
<1>5. CASE PollStep
  BY <1>1, <1>5 DEF PollStep, StartPoll, ReadGroup, GroupFails, GroupDone
<1> QED BY <1>1, <1>2, <1>3, <1>4, <1>5 DEF DPNext, ControlStep, dpVars

(* A command the point's type can represent is read back as it was asked   *)
(* for, also with a negative scale and either word order: encode_register, *)
(* execute_write() and the read-back of execute_pending_commands().        *)
THEOREM CommandsReadBack == DPSpec => []ReadBackIsDesired
<1>1. DPInit => CommandInv
  BY DEF DPInit, CommandInv, ReadBackIsDesired
<1>2. CommandInv => ReadBackIsDesired
  BY DEF CommandInv
<1> QED BY <1>1, <1>2, NextKeepsCommand, PollInvariant, PTL DEF DPSpec

=============================================================================
