-------------------------- MODULE MasterConnection --------------------------
(***************************************************************************)
(* The connection of a client with the master: the QueuedSocket of the     *)
(* client, used by its main thread and by the threads of its collective    *)
(* operations, and the ServerSocket of the master.                         *)
(*                                                                         *)
(* A thread makes the calls of its script: it sends a packet, waits for a  *)
(* packet of a kind (an id, or an id and a tag), or looks whether there is *)
(* one.  The master answers a packet with Replies.  What one thread does   *)
(* with internal_state->mutex held is one step; running and socket_fd are  *)
(* also read without it, in steps of their own.                            *)
(***************************************************************************)
EXTENDS ServerSocket

CONSTANTS
    Threads,    \* threads of the client
    Script,     \* Script[t]: the calls of t, as [do |-> "send", "poll" or "peek", what]
    Kind,       \* Kind[p]: what polls tell the packet p by
    Replies     \* Replies[p]: the packets the master sends when it has handled p

VARIABLES
    \* The client
    fd,         \* socket_fd is not 0
    running,
    queue,      \* recv_queue: the data of packets
    receiver,   \* the receive thread: pc, the units it has and the length it expects
    caller,     \* the threads: pc, calls made, units still to be sent
    mutex,      \* the threads that hold send_mutex: at most one
    stopper,    \* the thread that calls interrupt(): "idle", "closing" or "done"
    \* The wire
    up, down,   \* units under way to the master and to the client
    \* The master
    conn,       \* the stream of the client: "open", "closing" or "closed"
    recvbuf,    \* its entry in current_recv_buffers
    \* History
    sent, handled,      \* packets sent to the master, data the read callbacks got
    replied, taken      \* packets sent to the client, data its polls returned

clientVars  == <<fd, running, queue>>
masterVars  == <<conn, recvbuf>>
historyVars == <<sent, handled, replied, taken>>
vars == <<clientVars, receiver, caller, mutex, stopper, up, down, masterVars, historyVars>>

Idle == [pc |-> "idle", calls |-> 0, rest |-> <<>>]

Init ==
    /\ fd = TRUE /\ running = TRUE /\ queue = <<>>
    /\ receiver = [pc |-> "loop", got |-> <<>>, length |-> 0]
    /\ caller = [t \in Threads |-> Idle]
    /\ mutex = {} /\ stopper = "idle"
    /\ up = <<>> /\ down = <<>>
    /\ conn = "open" /\ recvbuf = EmptyBuffer
    /\ sent = <<>> /\ handled = <<>> /\ replied = <<>> /\ taken = <<>>

-----------------------------------------------------------------------------
(* Calls *)

Done(t) == caller[t].calls = Len(Script[t])
Call(t) == Script[t][caller[t].calls + 1]
Calling(t, do) == caller[t].pc = "idle" /\ ~Done(t) /\ Call(t).do \in do

Returned(t) == [Idle EXCEPT !.calls = caller[t].calls + 1]

\* cond_var.notify_all()
Notified(callers) ==
    [t \in Threads |-> IF callers[t].pc = "waiting" THEN [callers[t] EXCEPT !.pc = "scan"]
                       ELSE callers[t]]

\* Mutant: send_mutex is not taken.
SendPacketUnlocked(t) ==
    /\ Calling(t, {"send"})
    /\ caller' = [caller EXCEPT ![t].pc = "send", ![t].rest = Wire(Call(t).what)]
    /\ sent' = Append(sent, Call(t).what)
    /\ UNCHANGED <<clientVars, receiver, mutex, stopper, up, down, masterVars, handled, replied, taken>>

SendPacket(t) ==
    /\ Calling(t, {"send"}) /\ mutex = {}
    /\ mutex' = {t}
    /\ caller' = [caller EXCEPT ![t].pc = "send", ![t].rest = Wire(Call(t).what)]
    /\ sent' = Append(sent, Call(t).what)
    /\ UNCHANGED <<clientVars, receiver, stopper, up, down, masterVars, handled, replied, taken>>

\* The loop of sendLtvPacket: send() takes some of what is left.
SendUnits(t) ==
    /\ caller[t].pc = "send" /\ fd /\ conn = "open"
    /\ \E n \in 1..Len(caller[t].rest) :
          LET rest == SubSeq(caller[t].rest, n + 1, Len(caller[t].rest))
          IN  /\ up' = up \o SubSeq(caller[t].rest, 1, n)
              /\ caller' = [caller EXCEPT ![t] = IF rest = <<>> THEN Returned(t)
                                                 ELSE [@ EXCEPT !.rest = rest]]
              /\ mutex' = IF rest = <<>> THEN mutex \ {t} ELSE mutex
    /\ UNCHANGED <<clientVars, receiver, stopper, down, masterVars, historyVars>>

SendFails(t) ==
    /\ caller[t].pc = "send" /\ (~fd \/ conn # "open")
    /\ caller' = [caller EXCEPT ![t] = Returned(t)]
    /\ mutex' = mutex \ {t}
    /\ UNCHANGED <<clientVars, receiver, stopper, up, down, masterVars, historyVars>>

\* pollNextPacketBuffer and pollNextMatchingPacketBuffer up to the lock.
Poll(t) ==
    /\ Calling(t, {"poll", "peek"})
    /\ caller' = [caller EXCEPT ![t] = IF running THEN [@ EXCEPT !.pc = "scan"] ELSE Returned(t)]
    /\ UNCHANGED <<clientVars, receiver, mutex, stopper, up, down, masterVars, historyVars>>

\* A packet read from the wrong descriptor is of no kind.
KindOf(data) == IF data[1][1] \in Packets THEN Kind[data[1][1]] ELSE "none"

Matches(k) == {i \in DOMAIN queue : KindOf(queue[i]) = k}

\* Mutant: the packet looked at last is taken.
ScanLast(t) ==
    LET found == Matches(Call(t).what)
    IN  /\ caller[t].pc = "scan"
        /\ IF found # {}
           THEN /\ \E i \in found : /\ \A j \in found : i >= j
                                    /\ queue' = RemoveAt(queue, i)
                                    /\ taken' = Append(taken, queue[i])
                /\ caller' = [caller EXCEPT ![t] = Returned(t)]
           ELSE /\ caller' = [caller EXCEPT ![t] = IF Call(t).do = "peek" \/ ~running THEN Returned(t)
                                                   ELSE [@ EXCEPT !.pc = "waiting"]]
                /\ UNCHANGED <<queue, taken>>
        /\ UNCHANGED <<fd, running, receiver, mutex, stopper, up, down, masterVars, sent, handled, replied>>

\* The rest, up to a result or cond_var.wait(), which releases the lock; a waiting thread
\* starts over when it is notified.
Scan(t) ==
    LET found == Matches(Call(t).what)
    IN  /\ caller[t].pc = "scan"
        /\ IF found # {}
           THEN /\ \E i \in found : /\ \A j \in found : i <= j
                                    /\ queue' = RemoveAt(queue, i)
                                    /\ taken' = Append(taken, queue[i])
                /\ caller' = [caller EXCEPT ![t] = Returned(t)]
           ELSE /\ caller' = [caller EXCEPT ![t] = IF Call(t).do = "peek" \/ ~running THEN Returned(t)
                                                   ELSE [@ EXCEPT !.pc = "waiting"]]
                /\ UNCHANGED <<queue, taken>>
        /\ UNCHANGED <<fd, running, receiver, mutex, stopper, up, down, masterVars, sent, handled, replied>>

-----------------------------------------------------------------------------
(* interrupt() *)

\* Mutant: nobody is notified.
CloseSocketQuietly ==
    /\ running' = FALSE /\ fd' = FALSE
    /\ UNCHANGED <<caller, queue>>

\* interrupt() from the lock on.
CloseSocket ==
    /\ running' = FALSE /\ fd' = FALSE
    /\ caller' = Notified(caller)
    /\ UNCHANGED queue

\* Another thread asks running before it takes the lock.
Interrupt ==
    /\ stopper = "idle"
    /\ stopper' = IF running THEN "closing" ELSE "done"
    /\ UNCHANGED <<clientVars, receiver, caller, mutex, up, down, masterVars, historyVars>>

InterruptCloses ==
    /\ stopper = "closing" /\ stopper' = "done"
    /\ CloseSocket
    /\ UNCHANGED <<receiver, mutex, up, down, masterVars, historyVars>>

-----------------------------------------------------------------------------
(* The receive thread *)

At(pc) == receiver.pc = pc
Goto(pc) == receiver' = [receiver EXCEPT !.pc = pc]
Unchanged == UNCHANGED <<mutex, stopper, up, masterVars, historyVars>>

ReceiveNext ==
    /\ At("loop")
    /\ receiver' = [pc |-> IF running /\ fd THEN "length" ELSE "ending", got |-> <<>>, length |-> 0]
    /\ UNCHANGED <<clientVars, caller, down>> /\ Unchanged

\* recv() for the n units that are missing takes some of those that have arrived.
Received(missing) ==
    /\ fd
    /\ \E n \in 1..Min({missing, Len(down)}) :
          /\ down' = SubSeq(down, n + 1, Len(down))
          /\ receiver' = [receiver EXCEPT !.got = @ \o SubSeq(down, 1, n),
                                          !.pc = IF At("data") THEN "received" ELSE @]

\* receivePacketLength; a result that comes after an interrupt is ignored.
ReceiveLength ==
    /\ At("length") /\ running /\ Len(receiver.got) < Header
    /\ Received(Header - Len(receiver.got))
    /\ UNCHANGED <<clientVars, caller>> /\ Unchanged

LengthReceived ==
    /\ At("length") /\ Len(receiver.got) = Header
    /\ receiver' = [pc |-> "data", got |-> <<>>, length |-> Length(receiver.got)]
    /\ UNCHANGED <<clientVars, caller, down>> /\ Unchanged

\* recv() in the loop of receivePacketData.
ReceiveData ==
    /\ At("data") /\ Received(receiver.length - Len(receiver.got))
    /\ UNCHANGED <<clientVars, caller>> /\ Unchanged

\* The condition of that loop.  An interrupt ends it, and the packet counts as received.
DataReceived ==
    /\ At("received")
    /\ Goto(IF Len(receiver.got) < receiver.length /\ running /\ fd THEN "data" ELSE "push")
    /\ UNCHANGED <<clientVars, caller, down>> /\ Unchanged

\* Mutant: the packet is pushed without a notification.
PushPacketQuietly ==
    /\ At("push")
    /\ queue' = Append(queue, receiver.got)
    /\ Goto("loop")
    /\ UNCHANGED <<fd, running, caller, down>> /\ Unchanged

PushPacket ==
    /\ At("push")
    /\ queue' = Append(queue, receiver.got)
    /\ caller' = Notified(caller)
    /\ Goto("loop")
    /\ UNCHANGED <<fd, running, down>> /\ Unchanged

\* recv() fails once the master has closed the connection, and may lose what has arrived.
ReceiveFails ==
    /\ At("length") \/ At("data")
    /\ fd /\ conn # "open"
    /\ Goto(IF At("length") THEN "length failed" ELSE "data failed")
    /\ UNCHANGED <<clientVars, caller, down>> /\ Unchanged

\* The socket is closed under the receive thread: recv() fails, or was called with the
\* descriptor 0 and returns data that is none of the master's.
ReceiveFromClosed ==
    /\ At("length") \/ At("data")
    /\ ~fd
    /\ \/ Goto(IF At("length") THEN "length failed" ELSE "data failed")
       \/ At("data") /\ receiver' = [receiver EXCEPT !.pc = "received", !.got = Append(@, <<"none", "data", 1>>)]
    /\ UNCHANGED <<clientVars, caller, down>> /\ Unchanged

\* The receive thread calls interrupt(), which asks running first.  Only a failure to
\* receive a length is followed by another notification.
ReceiveFailed ==
    /\ At("length failed") \/ At("data failed")
    /\ Goto(CASE running -> IF At("length failed") THEN "closing, ending" ELSE "closing"
              [] ~running -> IF At("length failed") THEN "ending" ELSE "ended")
    /\ UNCHANGED <<clientVars, caller, down>> /\ Unchanged

ReceiverCloses ==
    /\ At("closing") \/ At("closing, ending")
    /\ CloseSocket
    /\ Goto(IF At("closing") THEN "ended" ELSE "ending")
    /\ UNCHANGED down /\ Unchanged

ReceiverEnds ==
    /\ At("ending")
    /\ caller' = Notified(caller)
    /\ Goto("ended")
    /\ UNCHANGED <<clientVars, down>> /\ Unchanged

-----------------------------------------------------------------------------
(* The master *)

\* What the client will still receive when the stream is closed: pending writes are
\* dropped, wherever they are.
Cut(units) == {SubSeq(units, 1, n) : n \in 0..Len(units)}

\* libuv hands onClientRead what has arrived, and the handlers answer.
ClientRead ==
    \E n \in 1..Len(up) :
        LET r == OnClientRead(recvbuf, SubSeq(up, 1, n))
            answers == FlattenSeq([i \in 1..r.answered |-> Replies[r.packets[i][1][1]]])
            wire == FlattenSeq([i \in DOMAIN answers |-> Wire(answers[i])])
        IN  /\ conn = "open"
            /\ up' = SubSeq(up, n + 1, Len(up))
            /\ recvbuf' = [expected |-> r.expected, buffer |-> r.buffer]
            /\ handled' = handled \o r.packets
            /\ replied' = replied \o answers
            /\ conn' = IF r.closing THEN "closing" ELSE "open"
            /\ down' \in IF r.closing THEN Cut(down \o wire) ELSE {down \o wire}
            /\ UNCHANGED <<clientVars, receiver, caller, mutex, stopper, sent, taken>>

\* The end of the stream, an error, or a kick for another client's sake.
CloseClient ==
    /\ conn = "open" /\ conn' = "closing"
    /\ down' \in Cut(down)
    /\ UNCHANGED <<clientVars, receiver, caller, mutex, stopper, up, recvbuf, historyVars>>

\* onClientClose; the RecvBuffer stays.
ClientClose ==
    /\ conn = "closing" /\ conn' = "closed"
    /\ UNCHANGED <<clientVars, receiver, caller, mutex, stopper, up, down, recvbuf, historyVars>>

-----------------------------------------------------------------------------

CallerStep(t) == SendPacket(t) \/ SendUnits(t) \/ SendFails(t) \/ Poll(t) \/ Scan(t)

ReceiverStep ==
    \/ ReceiveNext \/ ReceiveLength \/ LengthReceived \/ ReceiveData \/ DataReceived
    \/ PushPacket \/ ReceiveFails \/ ReceiveFailed \/ ReceiverCloses \/ ReceiverEnds

Next ==
    \/ \E t \in Threads : CallerStep(t)
    \/ ReceiverStep \/ ReceiveFromClosed
    \/ Interrupt \/ InterruptCloses
    \/ ClientRead \/ CloseClient \/ ClientClose

\* Some thread can go on, or libuv has something to read.
CallerCanStep(t) ==
    \/ caller[t].pc \in {"send", "scan"}
    \/ Calling(t, {"poll", "peek"})
    \/ Calling(t, {"send"}) /\ mutex = {}

ReceiverCanStep ==
    \/ receiver.pc \notin {"length", "data", "ended"}
    \/ At("length") /\ Len(receiver.got) = Header
    \/ fd /\ (conn # "open" \/ down # <<>>)

FairStep ==
    \/ \E t \in Threads : CallerStep(t)
    \/ ReceiverStep \/ InterruptCloses \/ ClientRead

\* Threads run, and the network delivers what has been sent: as long as there is a step to
\* take, steps are taken.  A read from the wrong descriptor may block forever.
Fairness ==
    \/ []<>~(\/ \E t \in Threads : CallerCanStep(t)
             \/ ReceiverCanStep \/ stopper = "closing"
             \/ conn = "open" /\ up # <<>>)
    \/ []<><<FairStep>>_vars

Spec == Init /\ [][Next]_vars /\ Fairness

-----------------------------------------------------------------------------
(* Properties *)

\* A thread that waits in cond_var.wait() has something to wait for: the socket is running
\* and no packet of its kind is in recv_queue.  running is changed, and packets are
\* pushed, with the lock held, so that no notification comes before the wait.
NoLostWakeup ==
    \A t \in Threads : caller[t].pc = "waiting" => running /\ Matches(Call(t).what) = {}

\* onClientRead hands the master the packets of a client in the order in which its threads
\* took send_mutex, each of them once and in one piece, however the stream is cut.
HandledInOrder == IsPrefix(handled, [i \in DOMAIN sent |-> Data(sent[i])])

OfKind(packets, k) == SelectSeq(packets, LAMBDA p : Kind[p] = k)

\* Polls return the packets of a kind in the order in which the master has sent them, none
\* lost, none twice, and complete unless the client has been interrupted.  Cluster's inbox,
\* one queue per kind, rests on this.
TakenInOrder ==
    /\ stopper # "done" => \A i \in DOMAIN taken : taken[i] = Data(taken[i][1][1])
    /\ LET packets == [i \in DOMAIN taken |-> taken[i][1][1]]
       IN  \A k \in {Kind[p] : p \in Packets} : IsPrefix(OfKind(packets, k), OfKind(replied, k))

\* Every call returns, whether the answer comes or the connection is closed or interrupted
\* at any moment.
EveryCallReturns == <>(\A t \in Threads : Done(t))

=============================================================================
