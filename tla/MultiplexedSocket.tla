-------------------------- MODULE MultiplexedSocket --------------------------
(***************************************************************************)
(* One connection between neighbours of the ring, with a                   *)
(* MultiplexedIOSocket on either end                                       *)
(* (src/tinysockets/src/multiplexed_socket.cpp). Operations that run at    *)
(* the same time share it, each under its own tag: their threads put       *)
(* references to what they send into a queue and sleep, the send thread    *)
(* writes it and wakes them, and sleeps itself when the queue is empty.    *)
(* The receive thread of the other end sorts what comes in into one queue  *)
(* per tag, from which the threads of the operations take it. Either side  *)
(* may close the connection at any time.                                   *)
(*                                                                         *)
(* An entry is its tag and its number among what was sent under the tag.   *)
(* A thread that parks sleeps until it is woken; a wake before that is     *)
(* not remembered.                                                         *)
(***************************************************************************)
EXTENDS MPSCQueue, Integers, Sequences, FiniteSets

CONSTANTS
    Tags,
    Sends,      \* bound on the entries sent under a tag
    Depth,      \* TXRX_QUEUE_DEPTH, of a receive queue
    MaxCloses   \* bound on interrupts and connection losses

VARIABLES
    queue,     \* send_queue
    sender,    \* the threads of the operations
    thread,    \* the send thread, and the entry it holds
    parked,    \* tx_park_handle
    tx,        \* running
    owner,     \* how far interrupt and join are
    conn,      \* the TCP connection: "open" or "closed"
    wire,      \* what was written and not read
    rx,        \* running, of the receiving socket
    rings,     \* receive_queues
    reader,    \* where the receive thread is
    receiver,  \* the threads of the operations on the receiving side
    closes

rxVars == <<rx, rings, reader, receiver>>
vars == <<queue, sender, thread, parked, tx, owner, conn, wire, rxVars, closes>>

Entry(t, n) == [tag |-> t, nr |-> n]

ASSUME SendsAssumption ==
    /\ Sends \in Nat /\ IsFiniteSet(Tags)
    /\ \A t \in Tags, n \in 1..Sends : Entry(t, n) # NoEntry

\* The metadata goes ahead in a copy; what follows refers to the memory of the sender, which
\* waits for it to be written.
Cloned(n) == n = 1

------------------------------------------------------------------------------
(* sendBytes, called by the thread of an operation for one part after the other. *)

Become(t, pc) == sender' = [sender EXCEPT ![t].pc = pc]

\* handle is the done handle: "none", "parked" or "woken".
NewSender == [pc |-> "call", nr |-> 0, idx |-> 0, handle |-> "none"]

\* The socket must be running; an entry is made and a slot reserved.
Call(t) ==
    LET nr == sender[t].nr + 1
    IN  /\ sender[t].pc = "call" /\ sender[t].nr < Sends
        /\ IF tx THEN /\ queue' = Reserve(queue)
                      /\ sender' = [sender EXCEPT ![t].nr = nr,
                            ![t].pc = IF Full(queue) THEN "roll back" ELSE "claim",
                            ![t].handle = IF Cloned(nr) THEN "none" ELSE "parked"]
           ELSE UNCHANGED queue /\ Become(t, "failed")
        /\ UNCHANGED <<thread, parked, tx, owner>>

\* The queue is full: sendBytes wakes the handle itself and fails.
RollBackSlot(t) ==
    /\ sender[t].pc = "roll back"
    /\ queue' = RollBack(queue)
    /\ sender' = [sender EXCEPT ![t].pc = "failed", ![t].nr = @ - 1, ![t].handle = "none"]
    /\ UNCHANGED <<thread, parked, tx, owner>>

ClaimSlot(t) ==
    /\ sender[t].pc = "claim"
    /\ sender' = [sender EXCEPT ![t].pc = "put", ![t].idx = queue.head]
    /\ queue' = Claim(queue)
    /\ UNCHANGED <<thread, parked, tx, owner>>

PutEntry(t) ==
    /\ sender[t].pc = "put"
    /\ queue' = Put(queue, sender[t].idx, Entry(t, sender[t].nr))
    /\ Become(t, "wake")
    /\ UNCHANGED <<thread, parked, tx, owner>>

WakeThread(t) ==
    /\ sender[t].pc = "wake"
    /\ parked' = FALSE
    /\ Become(t, IF Cloned(sender[t].nr) THEN "call" ELSE "wait")
    /\ UNCHANGED <<queue, thread, tx, owner>>

\* tparkWait, after which the caller destroys the handle and uses the memory again.
WaitDone(t) ==
    /\ sender[t].pc = "wait" /\ sender[t].handle = "woken"
    /\ sender' = [sender EXCEPT ![t].pc = "call", ![t].handle = "none"]
    /\ UNCHANGED <<queue, thread, parked, tx, owner>>

SenderStep(t) ==
    /\ \/ Call(t) \/ RollBackSlot(t) \/ ClaimSlot(t) \/ PutEntry(t)
       \/ WakeThread(t) \/ WaitDone(t)
    /\ UNCHANGED <<conn, wire, rxVars, closes>>

------------------------------------------------------------------------------
(* The send thread. *)

Goto(pc) == thread' = [thread EXCEPT !.pc = pc]

\* tparkWake of the done handle, if the entry has one.
Wake(entry) ==
    sender' = IF Cloned(entry.nr) THEN sender ELSE [sender EXCEPT ![entry.tag].handle = "woken"]

CheckRunning ==
    /\ thread.pc = "check"
    /\ Goto(IF tx THEN "park" ELSE "drain")
    /\ UNCHANGED <<queue, sender, parked, tx, owner, conn, wire>>

BeginPark ==
    /\ thread.pc = "park"
    /\ parked' = TRUE
    /\ Goto("poll")
    /\ UNCHANGED <<queue, sender, tx, owner, conn, wire>>

Dequeue ==
    /\ thread' = [pc |-> "took", entry |-> Front(queue)]
    /\ queue' = Take(queue)

Poll ==
    /\ thread.pc = "poll"
    /\ IF Front(queue) = NoEntry THEN Goto("parked") /\ UNCHANGED queue ELSE Dequeue
    /\ UNCHANGED <<sender, parked, tx, owner, conn, wire>>

\* Mutant of WaitPark: tparkWait parks once more before it sleeps.
WaitParkAgain ==
    /\ \/ thread.pc = "parked" /\ parked' = TRUE /\ Goto("asleep")
       \/ thread.pc = "asleep" /\ ~parked /\ Goto("spin") /\ UNCHANGED parked
    /\ UNCHANGED <<queue, sender, tx, owner, conn, wire>>

WaitPark ==
    /\ thread.pc = "parked" /\ ~parked
    /\ Goto("spin")
    /\ UNCHANGED <<queue, sender, parked, tx, owner, conn, wire>>

\* After a wake the slot may still be empty: a producer has claimed it and not filled it.
Spin ==
    /\ thread.pc = "spin" /\ (Front(queue) # NoEntry \/ ~tx)
    /\ IF Front(queue) = NoEntry THEN Goto("drain") /\ UNCHANGED queue ELSE Dequeue
    /\ UNCHANGED <<sender, parked, tx, owner, conn, wire>>

\* The end of dequeue, and tparkEndPark.
EndPark ==
    /\ thread.pc = "took"
    /\ queue' = Release(queue)
    /\ parked' = FALSE
    /\ Goto("write")
    /\ UNCHANGED <<sender, tx, owner, conn, wire>>

\* What is written to a connection that the peer has closed may be lost without an error.
Write ==
    /\ thread.pc = "write" /\ (conn = "open" \/ tx)
    /\ wire' = IF conn = "open" THEN Append(wire, thread.entry) ELSE wire
    /\ Goto("done")
    /\ UNCHANGED <<queue, sender, parked, tx, owner, conn>>

\* Mutant of WriteFails: the sender is woken here, and once more at the end.
WriteFailsWakes ==
    /\ thread.pc = "write" /\ conn = "closed"
    /\ tx' = FALSE
    /\ parked' = FALSE
    /\ Wake(thread.entry)
    /\ Goto("done")
    /\ UNCHANGED <<queue, owner, conn, wire>>

\* An error: the thread interrupts its own socket and wakes the sender all the same.
WriteFails ==
    /\ thread.pc = "write" /\ conn = "closed"
    /\ tx' = FALSE
    /\ parked' = FALSE
    /\ Goto("done")
    /\ UNCHANGED <<queue, sender, owner, conn, wire>>

WakeDone ==
    /\ thread.pc = "done"
    /\ Wake(thread.entry)
    /\ thread' = [pc |-> "check", entry |-> NoEntry]
    /\ UNCHANGED <<queue, parked, tx, owner, conn, wire>>

\* The send queue is drained and those who wait are woken.
Drain ==
    /\ thread.pc = "drain"
    /\ IF Front(queue) = NoEntry THEN Goto("exited") /\ UNCHANGED <<queue, sender>>
       ELSE queue' = Release(Take(queue)) /\ Wake(Front(queue)) /\ UNCHANGED thread
    /\ UNCHANGED <<parked, tx, owner, conn, wire>>

SendThread ==
    /\ \/ CheckRunning \/ BeginPark \/ Poll \/ WaitPark \/ Spin \/ EndPark
       \/ Write \/ WriteFails \/ WakeDone \/ Drain
    /\ UNCHANGED <<rxVars, closes>>

------------------------------------------------------------------------------
(* interrupt and join of the sending socket. *)

Interrupt ==
    /\ owner = "open" /\ closes < MaxCloses
    /\ tx' = FALSE
    /\ owner' = IF tx THEN "waking" ELSE "joining"
    /\ closes' = closes + 1
    /\ UNCHANGED <<queue, sender, thread, parked, conn, wire, rxVars>>

Shutdown ==
    /\ owner = "waking"
    /\ parked' = FALSE
    /\ conn' = "closed"
    /\ owner' = "joining"
    /\ UNCHANGED <<queue, sender, thread, tx, wire, rxVars, closes>>

Join ==
    /\ owner = "joining" /\ thread.pc = "exited"
    /\ owner' = "joined"
    /\ UNCHANGED <<queue, sender, thread, parked, tx, conn, wire, rxVars, closes>>

\* The other side is gone, or the network fails.
PeerCloses ==
    /\ conn = "open" /\ closes < MaxCloses
    /\ conn' = "closed"
    /\ closes' = closes + 1
    /\ UNCHANGED <<queue, sender, thread, parked, tx, owner, wire, rxVars>>

------------------------------------------------------------------------------
(* The receiving side. *)

\* got is what was taken while the socket was running.
NewReceiver == [failed |-> FALSE, got |-> <<>>]

\* The preamble of the first entry on the wire.
ReadPreamble ==
    /\ reader = "read" /\ rx /\ wire # <<>>
    /\ reader' = "data"
    /\ UNCHANGED <<wire, rx, rings, receiver>>

\* Mutant of Push: it does not wait, and a full queue loses its first entry.
PushOverwrites(e) ==
    /\ reader = "data"
    /\ rings' = [rings EXCEPT ![e.tag] = Append(IF Len(@) < Depth THEN @ ELSE Tail(@), e)]
    /\ wire' = Tail(wire)
    /\ reader' = IF rx THEN "read" ELSE "drain"
    /\ UNCHANGED <<rx, receiver>>

\* push waits while the queue is full; a loop that is no longer running is left after it.
Push(e) ==
    /\ reader = "data" /\ Len(rings[e.tag]) < Depth
    /\ rings' = [rings EXCEPT ![e.tag] = Append(@, e)]
    /\ wire' = Tail(wire)
    /\ reader' = IF rx THEN "read" ELSE "drain"
    /\ UNCHANGED <<rx, receiver>>

\* The entry goes to the queue of its tag.
Read == Push(Head(wire))

\* The end of the connection may be noticed with data unread, and interrupts the socket. Before
\* an entry the thread just ends; in the middle of one, and when it is about to read the next
\* and finds the socket interrupted, it drains the queues.
ReadEnd ==
    /\ \/ reader = "read" /\ rx /\ conn = "closed" /\ reader' = "exited"
       \/ reader = "read" /\ ~rx /\ reader' \in {"exited", "drain"}
       \/ reader = "data" /\ conn = "closed" /\ reader' = "drain"
    /\ rx' = FALSE
    /\ UNCHANGED <<wire, rings, receiver>>

DrainRings ==
    /\ reader = "drain"
    /\ \E t \in Tags : rings[t] # <<>> /\ rings' = [rings EXCEPT ![t] = Tail(@)]
    /\ UNCHANGED <<wire, rx, reader, receiver>>

ReceiveThread ==
    /\ ReadPreamble \/ Read \/ ReadEnd \/ DrainRings
    /\ UNCHANGED <<queue, sender, thread, parked, tx, owner, conn, closes>>

\* interrupt of the receiving socket. No entry is begun between its two assignments, and what is
\* written between them is as good as lost: they are one step.
InterruptReceiver ==
    /\ rx /\ closes < MaxCloses
    /\ rx' = FALSE
    /\ conn' = "closed"
    /\ closes' = closes + 1
    /\ UNCHANGED <<queue, sender, thread, parked, tx, owner, wire, rings, reader, receiver>>

\* The operation has not failed, and has not received everything.
Receiving(t) == ~receiver[t].failed /\ Len(receiver[t].got) < Sends

\* receiveBytesInplace, called until the operation has everything.
Receive(t) ==
    /\ Receiving(t) /\ rx /\ rings[t] # <<>>
    /\ receiver' = [receiver EXCEPT ![t].got = Append(@, Head(rings[t]))]
    /\ rings' = [rings EXCEPT ![t] = Tail(@)]
    /\ UNCHANGED <<queue, sender, thread, parked, tx, owner, conn, wire, rx, reader, closes>>

\* The socket has ended. A call finds that it is not running; one that was past its look at
\* running may still take an entry, and the next call fails. Such an entry is not recorded: it
\* may be cut short, as receivePacketData stops in the middle of one and has it pushed all the
\* same, and once the receive thread drains it is a second consumer of a queue made for one, so
\* that the call may take any entry that ever was in the queue and any number may be gone.
ReceiveFails(t) ==
    /\ Receiving(t) /\ ~rx
    /\ receiver' = [receiver EXCEPT ![t].failed = TRUE]
    /\ \E k \in 0..Len(rings[t]) :
           /\ reader = "drain" \/ k <= 1
           /\ rings' = [rings EXCEPT ![t] = SubSeq(@, k + 1, Len(@))]
    /\ UNCHANGED <<queue, sender, thread, parked, tx, owner, conn, wire, rx, reader, closes>>

------------------------------------------------------------------------------

Init ==
    /\ queue = EmptyQueue
    /\ sender = [t \in Tags |-> NewSender]
    /\ thread = [pc |-> "check", entry |-> NoEntry]
    /\ parked = FALSE
    /\ tx = TRUE
    /\ owner = "open"
    /\ conn = "open"
    /\ wire = <<>>
    /\ rx = TRUE
    /\ rings = [t \in Tags |-> <<>>]
    /\ reader = "read"
    /\ receiver = [t \in Tags |-> NewReceiver]
    /\ closes = 0

Next ==
    \/ \E t \in Tags : SenderStep(t) \/ Receive(t) \/ ReceiveFails(t)
    \/ SendThread \/ ReceiveThread
    \/ Interrupt \/ Shutdown \/ Join \/ InterruptReceiver \/ PeerCloses

\* Every thread that can go on does.
Fairness ==
    /\ \A t \in Tags : WF_vars(SenderStep(t)) /\ WF_vars(Receive(t) \/ ReceiveFails(t))
    /\ WF_vars(SendThread) /\ WF_vars(ReceiveThread)
    /\ WF_vars(Shutdown) /\ WF_vars(Join)

Spec == Init /\ [][Next]_vars /\ Fairness

------------------------------------------------------------------------------
(* Properties *)

\* A producer only ever fills an empty slot, as enqueue asserts: a slot is not given to the next
\* producer before the consumer has emptied it, however reservations, claims and roll-backs of
\* several producers overlap.
NoOverwrite ==
    \A t \in Tags : sender[t].pc = "put" => queue.slots[sender[t].idx] = NoEntry

\* The entries the send thread may still read, or wake somebody for.
Pending == {queue.slots[i] : i \in DOMAIN queue.slots} \cup {thread.entry}

\* As long as an entry refers to the memory of a sender, and to its handle, that sender waits:
\* the memory is not used again before it was written, and no handle is woken that the sender
\* has destroyed, also when the connection breaks and the queue is drained.
MemoryHeld ==
    \A e \in Pending \ {NoEntry} :
        ~Cloned(e.nr) => /\ sender[e.tag].nr = e.nr
                         /\ sender[e.tag].handle = "parked"
                         /\ sender[e.tag].pc \in {"wake", "wait"}

\* What comes out under a tag while the receiving socket is running is what was sent under it, in
\* order and without a gap, although the tags share the send queue, its slots are filled in any
\* order, and the connection may end at any point. It says nothing of the one entry that a call
\* may still take after that: it can be cut short, or torn by the thread that drains the queues.
DeliveredInOrder ==
    \A t \in Tags :
        LET got == receiver[t].got
        IN  got = [i \in 1..Len(got) |-> Entry(t, i)]

\* sendBytes has returned for the last time, and all it accepted has arrived.
AtRest(t) ==
    /\ sender[t].pc = "failed" \/ (sender[t].pc = "call" /\ sender[t].nr = Sends)
    /\ Len(receiver[t].got) = sender[t].nr

\* Unless a side closes the connection, everything that was queued arrives and everybody who
\* waits is woken: no wake of the send thread is lost between its last look at the queue and its
\* sleep, and a slot that was claimed and not yet filled holds it up only for a while.
EverythingDelivered == <>(closes > 0 \/ \A t \in Tags : AtRest(t))

=============================================================================
