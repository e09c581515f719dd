----------------------- MODULE MultiplexedSocketProofs -----------------------
(***************************************************************************)
(* Proofs about MultiplexedSocket, for any number of operations that share *)
(* a socket and any capacity of its send queue.                            *)
(*                                                                         *)
(* The slots in use are those from tail on, as far as head: every one of   *)
(* them is filled, or claimed by a producer that is about to fill it.      *)
(* count counts them, those who have reserved one and not claimed it, or   *)
(* have to give it back, and the one that was emptied and not released.    *)
(* The theorems are about the assertion in enqueue, the memory that the    *)
(* queue refers to, and the order in which entries are received.           *)
(***************************************************************************)
EXTENDS MultiplexedSocket, TLAPS

\* The provers get more time than by default.
USE SMTT(20)

Slots   == 0..Capacity - 1
Entries == [tag : Tags, nr : 1..Sends]

SenderPcs == {"call", "roll back", "claim", "put", "wake", "wait", "failed"}
ThreadPcs == {"check", "park", "poll", "parked", "spin", "took", "write", "done",
              "drain", "exited"}

\* Where the send thread has an entry in its hands.
Holding == {"took", "write", "done"}

Queues == [count : Int, head : Slots, tail : Slots, slots : [Slots -> Entries \cup {NoEntry}]]

QueueOK == queue \in Queues

Senders == [pc : SenderPcs, nr : 0..Sends, idx : Slots, handle : {"none", "parked", "woken"}]

SenderOK ==
    /\ sender \in [Tags -> Senders]
    /\ \A t \in Tags : sender[t].pc \notin {"call", "failed"} => sender[t].nr > 0

ThreadOK ==
    /\ thread \in [pc : ThreadPcs, entry : Entries \cup {NoEntry}]
    /\ thread.entry # NoEntry <=> thread.pc \in Holding

Types == QueueOK /\ SenderOK /\ ThreadOK

------------------------------------------------------------------------------
(* The steps, by what they do to the queue, the senders and the send thread. *)

Elsewhere == UNCHANGED <<queue, sender, thread>>

\* The send thread moves on and keeps what it holds.
Moves ==
    /\ UNCHANGED <<queue, sender>>
    /\ thread'.entry = thread.entry
    /\ thread' \in [pc : ThreadPcs, entry : Entries \cup {NoEntry}]
    /\ thread.pc # "took" /\ thread'.pc # "took"
    /\ thread.pc \in Holding <=> thread'.pc \in Holding

Takes ==
    /\ thread.pc \notin Holding /\ Front(queue) # NoEntry
    /\ Dequeue
    /\ UNCHANGED sender

Releases ==
    /\ thread.pc = "took" /\ thread' = [thread EXCEPT !.pc = "write"]
    /\ queue' = Release(queue)
    /\ UNCHANGED sender

Wakes ==
    /\ thread.pc = "done" /\ thread' = [pc |-> "check", entry |-> NoEntry]
    /\ Wake(thread.entry)
    /\ UNCHANGED queue

Drains ==
    /\ thread.pc = "drain" /\ Front(queue) # NoEntry
    /\ queue' = Release(Take(queue))
    /\ Wake(Front(queue))
    /\ UNCHANGED thread

\* Every step of the specification is one of these.
LEMMA StepCases ==
    ASSUME Types, [Next]_vars
    PROVE  \/ Elsewhere \/ Moves \/ Takes \/ Releases \/ Wakes \/ Drains
           \/ \E t \in Tags : \/ Call(t) \/ RollBackSlot(t) \/ ClaimSlot(t) \/ PutEntry(t)
                              \/ WakeThread(t) \/ WaitDone(t)
<1> USE DEF Types, ThreadOK
<1>1. CASE UNCHANGED vars
  BY <1>1 DEF vars, Elsewhere
<1>2. CASE \E t \in Tags : SenderStep(t)
  BY <1>2 DEF SenderStep
<1>3. CASE \E t \in Tags : Receive(t) \/ ReceiveFails(t)
  BY <1>3 DEF Receive, ReceiveFails, Elsewhere
<1>4. CASE SendThread
  <2>1. CASE CheckRunning
    BY <2>1 DEF CheckRunning, Goto, Moves, ThreadPcs, Holding
  <2>2. CASE BeginPark
    BY <2>2 DEF BeginPark, Goto, Moves, ThreadPcs, Holding
  <2>3. CASE Poll
    <3>1. CASE Front(queue) = NoEntry
      BY <2>3, <3>1 DEF Poll, Goto, Moves, ThreadPcs, Holding
    <3>2. CASE Front(queue) # NoEntry
      BY <2>3, <3>2 DEF Poll, Takes, Holding
    <3> QED  BY <3>1, <3>2
  <2>4. CASE WaitPark
    BY <2>4 DEF WaitPark, Goto, Moves, ThreadPcs, Holding
  <2>5. CASE Spin
    <3>1. CASE Front(queue) = NoEntry
      BY <2>5, <3>1 DEF Spin, Goto, Moves, ThreadPcs, Holding
    <3>2. CASE Front(queue) # NoEntry
      BY <2>5, <3>2 DEF Spin, Takes, Holding
    <3> QED  BY <3>1, <3>2
  <2>6. CASE EndPark
    BY <2>6 DEF EndPark, Goto, Releases
  <2>7. CASE Write \/ WriteFails
    BY <2>7 DEF Write, WriteFails, Goto, Moves, ThreadPcs, Holding
  <2>8. CASE WakeDone
    BY <2>8 DEF WakeDone, Wakes
  <2>9. CASE Drain
    <3>1. CASE Front(queue) = NoEntry
      BY <2>9, <3>1 DEF Drain, Goto, Moves, ThreadPcs, Holding
    <3>2. CASE Front(queue) # NoEntry
      BY <2>9, <3>2 DEF Drain, Drains
    <3> QED  BY <3>1, <3>2
  <2> QED
    BY <1>4, <2>1, <2>2, <2>3, <2>4, <2>5, <2>6, <2>7, <2>8, <2>9 DEF SendThread
<1>5. CASE ReceiveThread \/ Interrupt \/ Shutdown \/ Join \/ InterruptReceiver \/ PeerCloses
  BY <1>5 DEF ReceiveThread, Interrupt, Shutdown, Join, InterruptReceiver, PeerCloses, Elsewhere
<1> QED
  BY <1>1, <1>2, <1>3, <1>4, <1>5 DEF Next

------------------------------------------------------------------------------
(* Types *)

\* An entry is never mistaken for an empty slot.
LEMMA EntryIsSomething ==
    /\ \A e \in Entries : e # NoEntry
    /\ \A t \in Tags, n \in 1..Sends : Entry(t, n) \in Entries
<1>1. ASSUME NEW e \in Entries
      PROVE  e # NoEntry
  <2>1. e = Entry(e.tag, e.nr) /\ e.tag \in Tags /\ e.nr \in 1..Sends
    BY DEF Entries, Entry
  <2> QED  BY <2>1, SendsAssumption
<1>2. \A t \in Tags, n \in 1..Sends : Entry(t, n) \in Entries
  BY DEF Entries, Entry
<1> QED  BY <1>1, <1>2

\* The index behind a slot, as head and tail are moved.
LEMMA NextSlot ==
    ASSUME NEW i \in Slots
    PROVE  /\ (i + 1) % Capacity \in Slots
           /\ (i + 1) % Capacity = IF i + 1 = Capacity THEN 0 ELSE i + 1
<1> USE CapacityAssumption DEF Slots
<1>1. CASE i + 1 = Capacity
  <2>1. Capacity % Capacity = 0
    OBVIOUS
  <2> QED  BY <1>1, <2>1
<1>2. CASE i + 1 < Capacity
  <2>1. (i + 1) % Capacity = i + 1
    BY <1>2
  <2> QED  BY <1>2, <2>1
<1> QED  BY <1>1, <1>2

\* What the accesses to the queue change.
LEMMA QueueAccess ==
    ASSUME NEW q \in Queues
    PROVE  /\ Reserve(q) = [count |-> q.count + 1, head |-> q.head, tail |-> q.tail,
                            slots |-> q.slots]
           /\ RollBack(q) = [count |-> q.count - 1, head |-> q.head, tail |-> q.tail,
                             slots |-> q.slots]
           /\ Release(q) = [count |-> q.count - 1, head |-> q.head, tail |-> q.tail,
                            slots |-> q.slots]
           /\ Claim(q) = [count |-> q.count, head |-> (q.head + 1) % Capacity,
                          tail |-> q.tail, slots |-> q.slots]
           /\ Take(q).count = q.count /\ Take(q).head = q.head
           /\ Take(q).tail = (q.tail + 1) % Capacity
           /\ Take(q).slots = [q.slots EXCEPT ![q.tail] = NoEntry]
           /\ Reserve(q) \in Queues /\ RollBack(q) \in Queues /\ Release(q) \in Queues
           /\ Claim(q) \in Queues /\ Take(q) \in Queues
<1>1. /\ Reserve(q) = [count |-> q.count + 1, head |-> q.head, tail |-> q.tail,
                       slots |-> q.slots]
      /\ Reserve(q) \in Queues
  BY DEF Queues, Reserve
<1>2. /\ RollBack(q) = [count |-> q.count - 1, head |-> q.head, tail |-> q.tail,
                        slots |-> q.slots]
      /\ RollBack(q) \in Queues
  BY DEF Queues, RollBack
<1>3. /\ Release(q) = [count |-> q.count - 1, head |-> q.head, tail |-> q.tail,
                       slots |-> q.slots]
      /\ Release(q) \in Queues
  BY DEF Queues, Release
<1>4. /\ Claim(q) = [count |-> q.count, head |-> (q.head + 1) % Capacity,
                     tail |-> q.tail, slots |-> q.slots]
      /\ Claim(q) \in Queues
  <2>1. (q.head + 1) % Capacity \in Slots
    BY NextSlot DEF Queues
  <2> QED  BY <2>1 DEF Queues, Claim
<1>5. /\ Take(q).count = q.count /\ Take(q).head = q.head
      /\ Take(q).tail = (q.tail + 1) % Capacity
  BY DEF Queues, Take
<1>6. Take(q).slots = [q.slots EXCEPT ![q.tail] = NoEntry]
  BY DEF Queues, Take
<1>7. Take(q) \in Queues
  <2>1. (q.tail + 1) % Capacity \in Slots
    BY NextSlot DEF Queues
  <2> QED  BY ZenonT(30), <2>1 DEF Queues, Take
<1> QED  BY <1>1, <1>2, <1>3, <1>4, <1>5, <1>6, <1>7

\* What the calls of the operations change.
LEMMA CallAccess ==
    ASSUME SenderOK, NEW t \in Tags, Call(t) \/ RollBackSlot(t) \/ ClaimSlot(t)
                                     \/ PutEntry(t) \/ WakeThread(t) \/ WaitDone(t)
    PROVE  /\ sender' = [sender EXCEPT ![t] = sender'[t]]
           /\ thread' = thread
  BY ZenonT(30) DEF SenderOK, Senders, Call, RollBackSlot, ClaimSlot, PutEntry, WakeThread, WaitDone,
         Become

\* Waking up the thread changes nothing of it but where it is and whether it is parked.
LEMMA WakeKeeps ==
    ASSUME SenderOK, NEW e \in Entries, Wake(e)
    PROVE  /\ SenderOK'
           /\ \A t \in Tags : /\ sender'[t].pc = sender[t].pc
                              /\ sender'[t].nr = sender[t].nr
                              /\ sender'[t].idx = sender[t].idx
                              /\ t # e.tag => sender'[t].handle = sender[t].handle
  BY DEF SenderOK, Senders, Wake, Entries

\* The first state is of the right type.
LEMMA TypesInit ==
    ASSUME Init
    PROVE  Types
<1>1. QueueOK
  BY CapacityAssumption DEF Init, QueueOK, Queues, EmptyQueue, Slots
<1>2. SenderOK
  BY CapacityAssumption, SendsAssumption DEF Init, SenderOK, Senders, NewSender, SenderPcs, Slots
<1>3. ThreadOK
  BY DEF Init, ThreadOK, ThreadPcs, Holding
<1> QED  BY <1>1, <1>2, <1>3 DEF Types

\* So is what every step leads to.
LEMMA TypesStep ==
    ASSUME Types, [Next]_vars
    PROVE  Types'
<1> USE DEF Types
<1>1. CASE Elsewhere
  BY <1>1 DEF Elsewhere, QueueOK, SenderOK, ThreadOK
<1>2. CASE Moves
  BY <1>2 DEF Moves, QueueOK, SenderOK, ThreadOK
<1>3. CASE Takes
  <2>1. Front(queue) \in Entries
    BY <1>3 DEF Takes, Front, QueueOK, Queues
  <2>2. QueueOK'
    BY ZenonT(30), <1>3, QueueAccess DEF Takes, Dequeue, QueueOK
  <2>3. ThreadOK'
    BY <1>3, <2>1 DEF Takes, Dequeue, ThreadOK, ThreadPcs, Holding
  <2> QED  BY <1>3, <2>2, <2>3 DEF Takes, SenderOK
<1>4. CASE Releases
  <2>1. QueueOK'
    BY ZenonT(30), <1>4, QueueAccess DEF Releases, QueueOK
  <2>2. ThreadOK'
    BY <1>4 DEF Releases, ThreadOK, ThreadPcs, Holding
  <2> QED  BY <1>4, <2>1, <2>2 DEF Releases, SenderOK
<1>5. CASE Wakes
  <2>1. thread.entry \in Entries
    BY <1>5 DEF Wakes, ThreadOK, Holding
  <2>2. ThreadOK'
    BY ZenonT(30), <1>5 DEF Wakes, ThreadOK, ThreadPcs, Holding
  <2> QED  BY <1>5, <2>1, <2>2, WakeKeeps DEF Wakes, QueueOK
<1>6. CASE Drains
  <2>1. Front(queue) \in Entries
    BY <1>6 DEF Drains, Front, QueueOK, Queues
  <2>2. QueueOK'
    BY ZenonT(30), <1>6, QueueAccess DEF Drains, QueueOK
  <2> QED  BY <1>6, <2>1, <2>2, WakeKeeps DEF Drains, ThreadOK
<1>7. ASSUME NEW t \in Tags, Call(t)
      PROVE  Types'
  <2>1. QueueOK'
    BY ZenonT(30), <1>7, QueueAccess DEF Call, QueueOK
  <2>2. SenderOK'
    <3>1. sender'[t] \in Senders /\ (sender'[t].pc \notin {"call", "failed"} => sender'[t].nr > 0)
      <4>1. CASE tx
        <5>1. sender[t].nr \in 0..Sends /\ sender[t].nr < Sends
          BY ZenonT(30), <1>7 DEF Call, SenderOK, Senders
        <5>2. sender[t].nr + 1 \in 0..Sends /\ sender[t].nr + 1 > 0
          BY <5>1, SendsAssumption
        <5>3. PICK pc \in {"roll back", "claim"}, h \in {"none", "parked"} :
                sender' = [sender EXCEPT ![t].nr = sender[t].nr + 1, ![t].pc = pc,
                                         ![t].handle = h]
          BY <1>7, <4>1, Zenon DEF Call
        <5>4. sender'[t].nr = sender[t].nr + 1
          BY ZenonT(30), <5>3 DEF SenderOK, Senders
        <5>5. sender'[t] \in Senders
          BY ZenonT(30), <5>2, <5>3 DEF SenderOK, Senders, SenderPcs
        <5> QED  BY ZenonT(30), <5>2, <5>4, <5>5
      <4>2. CASE ~tx
        BY ZenonT(30), <1>7, <4>2 DEF Call, Become, SenderOK, Senders, SenderPcs
      <4> QED  BY <4>1, <4>2
    <3> QED  BY <1>7, <3>1, CallAccess DEF SenderOK
  <2> QED  BY ZenonT(30), <1>7, <2>1, <2>2 DEF Call, ThreadOK
<1>8. ASSUME NEW t \in Tags, RollBackSlot(t)
      PROVE  Types'
  <2>1. QueueOK'
    BY ZenonT(30), <1>8, QueueAccess DEF RollBackSlot, QueueOK
  <2>2. SenderOK'
    <3>1. sender'[t] \in Senders /\ sender'[t].pc = "failed"
      <4>1. sender[t].nr \in 0..Sends /\ sender[t].nr > 0
        BY ZenonT(30), <1>8 DEF RollBackSlot, SenderOK, Senders
      <4>2. sender[t].nr - 1 \in 0..Sends
        BY <4>1, SendsAssumption
      <4> QED  BY ZenonT(30), <1>8, <4>2 DEF RollBackSlot, SenderOK, Senders, SenderPcs
    <3> QED  BY <1>8, <3>1, CallAccess DEF SenderOK
  <2> QED  BY ZenonT(30), <1>8, <2>1, <2>2 DEF RollBackSlot, ThreadOK
<1>9. ASSUME NEW t \in Tags, ClaimSlot(t)
      PROVE  Types'
  <2>1. QueueOK'
    BY ZenonT(30), <1>9, QueueAccess DEF ClaimSlot, QueueOK
  <2>2. SenderOK'
    <3>1. sender'[t] \in Senders /\ sender'[t].nr > 0
      BY ZenonT(30), <1>9 DEF ClaimSlot, SenderOK, Senders, SenderPcs, QueueOK, Queues
    <3> QED  BY <1>9, <3>1, CallAccess DEF SenderOK
  <2> QED  BY <1>9, <2>1, <2>2 DEF ClaimSlot, ThreadOK
<1>10. ASSUME NEW t \in Tags, PutEntry(t)
       PROVE  Types'
  <2>1. Entry(t, sender[t].nr) \in Entries
    BY <1>10, SendsAssumption, EntryIsSomething DEF PutEntry, SenderOK, Senders
  <2>2. QueueOK'
    BY <1>10, <2>1 DEF PutEntry, Put, QueueOK, Queues, SenderOK, Senders
  <2>3. SenderOK'
    <3>1. sender'[t] \in Senders /\ sender'[t].nr > 0
      BY ZenonT(30), <1>10 DEF PutEntry, Become, SenderOK, Senders, SenderPcs
    <3> QED  BY <1>10, <3>1, CallAccess DEF SenderOK
  <2> QED  BY <1>10, <2>2, <2>3 DEF PutEntry, ThreadOK
<1>11. ASSUME NEW t \in Tags, WakeThread(t) \/ WaitDone(t)
       PROVE  Types'
  <2>1. SenderOK'
    <3>1. sender'[t] \in Senders /\ sender'[t].nr > 0
      BY ZenonT(30), <1>11 DEF WakeThread, WaitDone, Become, SenderOK, Senders, SenderPcs
    <3> QED  BY <1>11, <3>1, CallAccess DEF SenderOK
  <2> QED  BY <1>11, <2>1 DEF WakeThread, WaitDone, QueueOK, ThreadOK
<1> QED
  BY StepCases, <1>1, <1>2, <1>3, <1>4, <1>5, <1>6, <1>7, <1>8, <1>9, <1>10, <1>11

------------------------------------------------------------------------------
(* The slots in use are a segment of the ring. *)

\* The slot k behind slot i.
At(i, k) == IF i + k < Capacity THEN i + k ELSE i + k - Capacity

\* U are the n slots from i on.
Segment(i, n, U) == \A k \in Slots : At(i, k) \in U <=> k < n

\* Enqueuing adds the slot at the head to the segment in use.
LEMMA SegmentGrows ==
    ASSUME NEW i \in Slots, NEW n \in Slots, NEW U \in SUBSET Slots, Segment(i, n, U)
    PROVE  /\ At(i, n) \in Slots /\ At(i, n) \notin U
           /\ (At(i, n) + 1) % Capacity = At(i, n + 1)
           /\ Segment(i, n + 1, U \cup {At(i, n)})
<1>1. At(i, n) \in Slots /\ At(i, n) \notin U
  BY CapacityAssumption DEF At, Segment, Slots
<1>2. (At(i, n) + 1) % Capacity = At(i, n + 1)
  <2>1. (At(i, n) + 1) % Capacity = IF At(i, n) + 1 = Capacity THEN 0 ELSE At(i, n) + 1
    BY <1>1, NextSlot
  <2> QED  BY <2>1, CapacityAssumption DEF At, Slots
<1>3. ASSUME NEW k \in Slots
      PROVE  At(i, k) \in U \cup {At(i, n)} <=> k < n + 1
  <2>1. At(i, k) = At(i, n) <=> k = n
    BY CapacityAssumption DEF At, Slots
  <2>2. At(i, k) \in U <=> k < n
    BY DEF Segment
  <2> QED  BY <2>1, <2>2, CapacityAssumption DEF Slots
<1> QED  BY <1>1, <1>2, <1>3 DEF Segment

\* Dequeuing removes the slot at the tail from it.
LEMMA SegmentShrinks ==
    ASSUME NEW i \in Slots, NEW n \in 0..Capacity, NEW U \in SUBSET Slots, Segment(i, n, U),
           i \in U
    PROVE  /\ n > 0
           /\ At((i + 1) % Capacity, n - 1) = At(i, n)
           /\ Segment((i + 1) % Capacity, n - 1, U \ {i})
<1> DEFINE j == (i + 1) % Capacity
<1>1. j \in Slots /\ j = IF i + 1 = Capacity THEN 0 ELSE i + 1
  BY NextSlot
<1> HIDE DEF j
<1>2. n > 0
  <2>1. At(i, 0) = i /\ 0 \in Slots
    BY CapacityAssumption DEF At, Slots
  <2> QED  BY <2>1 DEF Segment
<1>3. At(j, n - 1) = At(i, n)
  BY <1>1, <1>2, CapacityAssumption DEF At, Slots
<1>4. ASSUME NEW k \in Slots
      PROVE  At(j, k) \in U \ {i} <=> k < n - 1
  <2>1. CASE k + 1 < Capacity
    <3>1. k + 1 \in Slots /\ At(j, k) = At(i, k + 1) /\ At(j, k) # i
      BY <1>1, <2>1, CapacityAssumption DEF At, Slots
    <3>2. At(i, k + 1) \in U <=> k + 1 < n
      BY <3>1 DEF Segment
    <3> QED  BY <3>1, <3>2 DEF Slots
  <2>2. CASE k + 1 = Capacity
    <3>1. At(j, k) = i
      BY <1>1, <2>2, CapacityAssumption DEF At, Slots
    <3> QED  BY <2>2, <3>1, CapacityAssumption DEF Slots
  <2> QED  BY <2>1, <2>2, CapacityAssumption DEF Slots
<1> QED  BY <1>2, <1>3, <1>4 DEF Segment, j

------------------------------------------------------------------------------
(* No entry is overwritten. *)

Claiming == {t \in Tags : sender[t].pc = "claim"}
Refused  == {t \in Tags : sender[t].pc = "roll back"}
Putting  == {t \in Tags : sender[t].pc = "put"}
Taken    == IF thread.pc = "took" THEN 1 ELSE 0

Used == {i \in Slots : queue.slots[i] # NoEntry \/ \E t \in Putting : sender[t].idx = i}

OneEach == \A t, u \in Putting : sender[t].idx = sender[u].idx => t = u

Ring(n) ==
    /\ queue.head = At(queue.tail, n)
    /\ Segment(queue.tail, n, Used)
    /\ n + Cardinality(Claiming) + Cardinality(Refused) + Taken = queue.count
    /\ n + Cardinality(Claiming) + Taken <= Capacity

QueueInv == NoOverwrite /\ OneEach /\ \E n \in 0..Capacity : Ring(n)

\* What the argument needs to know of the number of the producers.  It follows from the theory of
\* finite sets, at the end of this module.
Countable ==
    \A S \in SUBSET Tags :
        /\ Cardinality(S) \in Nat
        /\ S = {} <=> Cardinality(S) = 0
        /\ \A t \in Tags \ S : Cardinality(S \cup {t}) = Cardinality(S) + 1
        /\ \A t \in S : Cardinality(S \ {t}) = Cardinality(S) - 1

\* How many there are.
LEMMA Counting ==
    ASSUME Countable
    PROVE  /\ Cardinality(Claiming) \in Nat /\ Cardinality(Refused) \in Nat
           /\ Taken \in 0..1
<1>1. Claiming \in SUBSET Tags /\ Refused \in SUBSET Tags
  BY ZenonT(30) DEF Claiming, Refused
<1> QED  BY <1>1 DEF Countable, Taken

\* A step of the send thread leaves the producers where they are.
LEMMA ProducersStay ==
    ASSUME \A t \in Tags : sender'[t].pc = sender[t].pc /\ sender'[t].idx = sender[t].idx
    PROVE  /\ Claiming' = Claiming /\ Refused' = Refused /\ Putting' = Putting
           /\ OneEach' <=> OneEach
           /\ queue'.slots = queue.slots => /\ Used' = Used
                                            /\ NoOverwrite' <=> NoOverwrite
<1>1. Claiming' = Claiming /\ Refused' = Refused /\ Putting' = Putting
  BY ZenonT(30) DEF Claiming, Refused, Putting
<1>2. \A t \in Putting : sender'[t].idx = sender[t].idx
  BY DEF Putting
<1>3. OneEach' <=> OneEach
  BY <1>1, <1>2 DEF OneEach
<1>4. ASSUME queue'.slots = queue.slots
      PROVE  Used' = Used /\ (NoOverwrite' <=> NoOverwrite)
  BY <1>1, <1>2, <1>4 DEF Used, NoOverwrite
<1> QED  BY <1>1, <1>3, <1>4

\* An entry is taken from the front of the queue.
LEMMA TakeFront ==
    ASSUME Types, NoOverwrite, NEW n \in 0..Capacity, Segment(queue.tail, n, Used),
           queue.head = At(queue.tail, n), Front(queue) # NoEntry,
           \A t \in Tags : sender'[t].pc = sender[t].pc /\ sender'[t].idx = sender[t].idx,
           queue'.slots = [queue.slots EXCEPT ![queue.tail] = NoEntry],
           queue'.tail = (queue.tail + 1) % Capacity, queue'.head = queue.head
    PROVE  /\ n > 0 /\ NoOverwrite'
           /\ queue'.head = At(queue'.tail, n - 1)
           /\ Segment(queue'.tail, n - 1, Used')
<1> USE DEF Types, QueueOK, Queues
<1>1. queue.tail \in Slots /\ queue.slots \in [Slots -> Entries \cup {NoEntry}]
  OBVIOUS
<1>2. queue.tail \in Used /\ Used \in SUBSET Slots
  BY <1>1 DEF Used, Front
<1>3. /\ Putting' = Putting
      /\ \A t \in Putting : sender'[t].idx = sender[t].idx
  BY ProducersStay DEF Putting
<1>4. \A t \in Putting : sender[t].idx # queue.tail
  BY DEF Putting, NoOverwrite, Front
<1>5. \A i \in Slots : queue'.slots[i] = IF i = queue.tail THEN NoEntry ELSE queue.slots[i]
  BY <1>1
<1>6. Used' = Used \ {queue.tail}
  BY <1>1, <1>3, <1>4, <1>5 DEF Used
<1>7. NoOverwrite'
  <2>1. \A t \in Putting : sender[t].idx \in Slots
    BY DEF Putting, SenderOK, Senders
  <2> QED  BY <1>3, <1>5, <2>1 DEF NoOverwrite, Putting
<1> QED  BY <1>1, <1>2, <1>6, <1>7, SegmentShrinks

\* The empty queue is consistent.
LEMMA QueueInvInit ==
    ASSUME Countable, Init
    PROVE  QueueInv
<1>1. Claiming = {} /\ Refused = {} /\ Putting = {}
  BY ZenonT(30) DEF Init, NewSender, Claiming, Refused, Putting
<1>2. Used = {}
  BY <1>1 DEF Init, EmptyQueue, Used, Slots
<1>3. NoOverwrite /\ OneEach
  BY <1>1 DEF NoOverwrite, OneEach, Putting
<1>4. Ring(0)
  <2>1. Cardinality(Claiming) = 0 /\ Cardinality(Refused) = 0 /\ Taken = 0
    BY ZenonT(30), <1>1 DEF Countable, Init, Taken
  <2>2. queue.head = 0 /\ queue.tail = 0 /\ queue.count = 0
    BY DEF Init, EmptyQueue
  <2>3. Segment(0, 0, Used)
    BY <1>2 DEF Segment, Slots
  <2> QED  BY <2>1, <2>2, <2>3, CapacityAssumption DEF Ring, At
<1> QED  BY <1>3, <1>4, CapacityAssumption DEF QueueInv

\* Every step of a producer and of the consumer keeps it consistent.
LEMMA QueueInvStep ==
    ASSUME Countable, Types, Types', QueueInv, [Next]_vars
    PROVE  QueueInv'
<1> USE DEF Types
<1>n. PICK n \in 0..Capacity : Ring(n)
  BY DEF QueueInv
<1>o. NoOverwrite /\ OneEach
  BY DEF QueueInv
<1>c. /\ Cardinality(Claiming) \in Nat /\ Claiming \in SUBSET Tags
      /\ Cardinality(Refused) \in Nat /\ Refused \in SUBSET Tags
      /\ Taken \in 0..1 /\ queue.count \in Int
  BY ZenonT(30), Counting DEF QueueOK, Queues, Claiming, Refused
<1>1. CASE Elsewhere \/ Moves
  <2>1. sender' = sender /\ queue' = queue /\ Taken' = Taken
    BY ZenonT(30), <1>1 DEF Elsewhere, Moves, Taken
  <2>2. /\ Claiming' = Claiming /\ Refused' = Refused /\ OneEach'
        /\ Used' = Used /\ NoOverwrite'
    BY ZenonT(30), <1>o, <2>1, ProducersStay
  <2>3. Ring(n)'
    BY ZenonT(30), <1>n, <2>1, <2>2 DEF Ring
  <2> QED  BY ZenonT(30), <2>2, <2>3 DEF QueueInv
<1>2. CASE Takes
  <2>1. /\ sender' = sender /\ queue'.count = queue.count /\ queue'.head = queue.head
        /\ queue'.tail = (queue.tail + 1) % Capacity
        /\ queue'.slots = [queue.slots EXCEPT ![queue.tail] = NoEntry]
        /\ Front(queue) # NoEntry
    BY ZenonT(30), <1>2, QueueAccess DEF Takes, Dequeue, QueueOK
  <2>2. Claiming' = Claiming /\ Refused' = Refused /\ OneEach'
    BY ZenonT(30), <1>o, <2>1, ProducersStay
  <2>3. /\ n > 0 /\ NoOverwrite'
        /\ queue'.head = At(queue'.tail, n - 1) /\ Segment(queue'.tail, n - 1, Used')
    BY ZenonT(30), <1>n, <1>o, <2>1, TakeFront DEF Ring
  <2>4. Taken = 0 /\ Taken' = 1
    BY ZenonT(30), <1>2 DEF Takes, Dequeue, Taken, Holding
  <2>5. Ring(n - 1)'
    BY <1>n, <1>c, <2>1, <2>2, <2>3, <2>4, CapacityAssumption DEF Ring
  <2> QED  BY <2>2, <2>3, <2>5, CapacityAssumption DEF QueueInv
<1>3. CASE Releases
  <2>1. /\ sender' = sender /\ queue'.count = queue.count - 1 /\ queue'.head = queue.head
        /\ queue'.tail = queue.tail /\ queue'.slots = queue.slots
    <3>1. sender' = sender /\ queue' = Release(queue) /\ queue \in Queues
      BY <1>3 DEF Releases, QueueOK
    <3>2. queue' = [count |-> queue.count - 1, head |-> queue.head, tail |-> queue.tail,
                    slots |-> queue.slots]
      BY <3>1, QueueAccess, Zenon
    <3> QED  BY <3>1, <3>2
  <2>2. /\ Claiming' = Claiming /\ Refused' = Refused /\ OneEach'
        /\ Used' = Used /\ NoOverwrite'
    BY <1>o, <2>1, ProducersStay
  <2>3. Taken = 1 /\ Taken' = 0
    BY ZenonT(30), <1>3 DEF Releases, Taken, ThreadOK
  <2>4. Ring(n)'
    BY <1>n, <1>c, <2>1, <2>2, <2>3, CapacityAssumption DEF Ring
  <2> QED  BY <2>2, <2>4 DEF QueueInv
<1>4. CASE Wakes
  <2>1. thread.entry \in Entries
    BY <1>4 DEF Wakes, ThreadOK, Holding
  <2>2. \A t \in Tags : sender'[t].pc = sender[t].pc /\ sender'[t].idx = sender[t].idx
    <3>1. SenderOK /\ Wake(thread.entry)
      BY <1>4 DEF Wakes
    <3> HIDE DEF Types
    <3> QED  BY <2>1, <3>1 DEF Wake, SenderOK, Senders, Entries
  <2>3. queue' = queue /\ Taken' = Taken
    BY ZenonT(30), <1>4 DEF Wakes, Taken
  <2>4. /\ Claiming' = Claiming /\ Refused' = Refused /\ OneEach'
        /\ Used' = Used /\ NoOverwrite'
    BY ZenonT(30), <1>o, <2>2, <2>3, ProducersStay
  <2>5. Ring(n)'
    BY ZenonT(30), <1>n, <2>3, <2>4 DEF Ring
  <2> QED  BY <2>4, <2>5 DEF QueueInv
<1>5. CASE Drains
  <2>1. Front(queue) \in Entries
    BY <1>5 DEF Drains, Front, QueueOK, Queues
  <2>2. \A t \in Tags : sender'[t].pc = sender[t].pc /\ sender'[t].idx = sender[t].idx
    <3>1. SenderOK /\ Wake(Front(queue))
      BY ZenonT(30), <1>5 DEF Drains
    <3> HIDE DEF Types
    <3> QED  BY <2>1, <3>1 DEF Wake, SenderOK, Senders, Entries
  <2>3. /\ queue'.count = queue.count - 1 /\ queue'.head = queue.head
        /\ queue'.tail = (queue.tail + 1) % Capacity
        /\ queue'.slots = [queue.slots EXCEPT ![queue.tail] = NoEntry]
        /\ Front(queue) # NoEntry
    <3>1. Take(queue) \in Queues /\ queue' = Release(Take(queue))
      BY ZenonT(30), <1>5, QueueAccess DEF Drains, QueueOK
    <3>2. /\ queue'.count = Take(queue).count - 1 /\ queue'.head = Take(queue).head
          /\ queue'.tail = Take(queue).tail /\ queue'.slots = Take(queue).slots
      <4>1. queue' = [count |-> Take(queue).count - 1, head |-> Take(queue).head,
                      tail |-> Take(queue).tail, slots |-> Take(queue).slots]
        BY <3>1, QueueAccess, Zenon
      <4> QED  BY <4>1
    <3> QED  BY <1>5, <3>2, QueueAccess DEF Drains, QueueOK
  <2>4. Claiming' = Claiming /\ Refused' = Refused /\ OneEach'
    BY ZenonT(30), <1>o, <2>2, ProducersStay
  <2>5. /\ n > 0 /\ NoOverwrite'
        /\ queue'.head = At(queue'.tail, n - 1) /\ Segment(queue'.tail, n - 1, Used')
    BY ZenonT(30), <1>n, <1>o, <2>2, <2>3, TakeFront DEF Ring
  <2>6. Taken' = Taken
    BY ZenonT(30), <1>5 DEF Drains, Taken
  <2>7. Ring(n - 1)'
    BY <1>n, <1>c, <2>3, <2>4, <2>5, <2>6, CapacityAssumption DEF Ring
  <2> QED  BY <2>4, <2>5, <2>7, CapacityAssumption DEF QueueInv
<1>6. ASSUME NEW t \in Tags, Call(t)
      PROVE  QueueInv'
  <2>1. Taken' = Taken /\ sender[t].pc = "call"
    BY ZenonT(30), <1>6 DEF Call, Taken
  <2>2. \A u \in Tags : sender'[u].idx = sender[u].idx /\ (u # t => sender'[u] = sender[u])
    <3>1. CASE ~tx
      BY <1>6, <3>1 DEF Call, Become, SenderOK, Senders
    <3>2. CASE tx
      <4>1. PICK pc, h :
              sender' = [sender EXCEPT ![t].nr = sender[t].nr + 1, ![t].pc = pc,
                                       ![t].handle = h]
        BY <1>6, <3>2, Zenon DEF Call
      <4> QED  BY <4>1 DEF SenderOK, Senders
    <3> QED  BY <3>1, <3>2
  <2>3. CASE ~tx
    <3>1. queue' = queue /\ sender'[t].pc = "failed"
      BY <1>6, <2>3 DEF Call, Become, SenderOK, Senders
    <3>2. Claiming' = Claiming /\ Refused' = Refused /\ Putting' = Putting
      BY ZenonT(30), <2>1, <2>2, <3>1 DEF Claiming, Refused, Putting
    <3>3. Used' = Used /\ NoOverwrite' /\ OneEach'
      BY <1>o, <2>2, <3>1, <3>2 DEF Used, NoOverwrite, OneEach, Putting
    <3>4. Ring(n)'
      BY ZenonT(30), <1>n, <2>1, <3>1, <3>2, <3>3 DEF Ring
    <3> QED  BY <3>3, <3>4 DEF QueueInv
  <2>4. CASE tx
    <3>1. sender'[t].pc = IF Full(queue) THEN "roll back" ELSE "claim"
      <4>1. PICK h \in {"none", "parked"} :
              sender' = [sender EXCEPT ![t].nr = sender[t].nr + 1,
                          ![t].pc = IF Full(queue) THEN "roll back" ELSE "claim",
                          ![t].handle = h]
        BY <1>6, <2>4, Zenon DEF Call
      <4> QED  BY ZenonT(30), <4>1 DEF SenderOK, Senders
    <3>2. /\ queue'.count = queue.count + 1 /\ queue'.head = queue.head
          /\ queue'.tail = queue.tail /\ queue'.slots = queue.slots
      <4>1. queue' = Reserve(queue) /\ queue \in Queues
        BY ZenonT(30), <1>6, <2>4 DEF Call, QueueOK
      <4>2. queue' = [count |-> queue.count + 1, head |-> queue.head, tail |-> queue.tail,
                      slots |-> queue.slots]
        BY <4>1, QueueAccess, Zenon
      <4> QED  BY <4>2
    <3>3. Putting' = Putting
      BY ZenonT(30), <2>1, <2>2, <3>1 DEF Putting
    <3>4. Used' = Used /\ NoOverwrite' /\ OneEach'
      BY <1>o, <2>2, <3>2, <3>3 DEF Used, NoOverwrite, OneEach, Putting
    <3>5. CASE Full(queue)
      <4>1. Claiming' = Claiming /\ Refused' = Refused \cup {t} /\ t \notin Refused
        BY ZenonT(30), <2>1, <2>2, <3>1, <3>5 DEF Claiming, Refused
      <4>2. Cardinality(Refused') = Cardinality(Refused) + 1
        BY ZenonT(30), <1>c, <4>1 DEF Countable
      <4>3. Ring(n)'
        BY <1>n, <1>c, <2>1, <3>2, <3>4, <4>1, <4>2, CapacityAssumption DEF Ring
      <4> QED  BY <3>4, <4>3 DEF QueueInv
    <3>6. CASE ~Full(queue)
      <4>1. Refused' = Refused /\ Claiming' = Claiming \cup {t} /\ t \notin Claiming
        BY ZenonT(30), <2>1, <2>2, <3>1, <3>6 DEF Claiming, Refused
      <4>2. Cardinality(Claiming') = Cardinality(Claiming) + 1
        BY ZenonT(30), <1>c, <4>1 DEF Countable
      <4>3. Ring(n)'
        BY <1>n, <1>c, <2>1, <3>2, <3>4, <3>6, <4>1, <4>2, CapacityAssumption DEF Ring, Full
      <4> QED  BY <3>4, <4>3 DEF QueueInv
    <3> QED  BY <3>5, <3>6
  <2> QED  BY <2>3, <2>4
<1>7. ASSUME NEW t \in Tags, RollBackSlot(t)
      PROVE  QueueInv'
  <2>1. Taken' = Taken /\ sender[t].pc = "roll back"
    BY ZenonT(30), <1>7 DEF RollBackSlot, Taken
  <2>2. /\ \A u \in Tags : sender'[u].idx = sender[u].idx /\ (u # t => sender'[u] = sender[u])
        /\ sender'[t].pc = "failed"
    BY ZenonT(30), <1>7 DEF RollBackSlot, SenderOK, Senders
  <2>3. /\ queue'.count = queue.count - 1 /\ queue'.head = queue.head
        /\ queue'.tail = queue.tail /\ queue'.slots = queue.slots
    <3>1. queue' = RollBack(queue) /\ queue \in Queues
      BY ZenonT(30), <1>7 DEF RollBackSlot, QueueOK
    <3>2. queue' = [count |-> queue.count - 1, head |-> queue.head, tail |-> queue.tail,
                    slots |-> queue.slots]
      BY <3>1, QueueAccess, Zenon
    <3> QED  BY <3>2
  <2>4. /\ Claiming' = Claiming /\ Putting' = Putting
        /\ Refused' = Refused \ {t} /\ t \in Refused
    BY ZenonT(30), <2>1, <2>2 DEF Claiming, Refused, Putting
  <2>5. Used' = Used /\ NoOverwrite' /\ OneEach'
    BY <1>o, <2>2, <2>3, <2>4 DEF Used, NoOverwrite, OneEach, Putting
  <2>6. Cardinality(Refused') = Cardinality(Refused) - 1
    BY <1>c, <2>4 DEF Countable
  <2>7. Ring(n)'
    <3>1. n + Cardinality(Claiming) + Cardinality(Refused') + Taken = queue'.count
      BY <1>n, <1>c, <2>3, <2>6 DEF Ring
    <3> QED  BY ZenonT(30), <1>n, <2>1, <2>3, <2>4, <2>5, <3>1 DEF Ring
  <2> QED  BY <2>5, <2>7 DEF QueueInv
<1>8. ASSUME NEW t \in Tags, ClaimSlot(t)
      PROVE  QueueInv'
  <2>1. Taken' = Taken /\ sender[t].pc = "claim"
    BY <1>8 DEF ClaimSlot, Taken
  <2>2. /\ \A u \in Tags : u # t => sender'[u] = sender[u]
        /\ sender'[t].pc = "put" /\ sender'[t].idx = queue.head
    BY ZenonT(30), <1>8 DEF ClaimSlot, SenderOK, Senders
  <2>3. /\ queue'.count = queue.count /\ queue'.head = (queue.head + 1) % Capacity
        /\ queue'.tail = queue.tail /\ queue'.slots = queue.slots
    <3>1. queue' = Claim(queue) /\ queue \in Queues
      BY <1>8 DEF ClaimSlot, QueueOK
    <3>2. queue' = [count |-> queue.count, head |-> (queue.head + 1) % Capacity,
                    tail |-> queue.tail, slots |-> queue.slots]
      BY <3>1, QueueAccess, Zenon
    <3> QED  BY <3>2
  <2>4. /\ Refused' = Refused /\ Putting' = Putting \cup {t} /\ t \notin Putting
        /\ Claiming' = Claiming \ {t} /\ t \in Claiming
    BY ZenonT(30), <2>1, <2>2 DEF Claiming, Refused, Putting
  <2>5. Cardinality(Claiming') = Cardinality(Claiming) - 1
    BY ZenonT(30), <1>c, <2>4 DEF Countable
  <2>6. Cardinality(Claiming') \in Nat
    BY ZenonT(30), <2>4, <1>c DEF Countable
  <2>7. n \in Slots
    BY <1>n, <1>c, <2>5, <2>6, CapacityAssumption DEF Ring, Slots
  <2>8. queue.tail \in Slots /\ Used \in SUBSET Slots
    BY ZenonT(30) DEF QueueOK, Queues, Used
  <2>9. /\ queue.head \in Slots /\ queue.head \notin Used
        /\ queue'.head = At(queue.tail, n + 1)
        /\ Segment(queue.tail, n + 1, Used \cup {queue.head})
    <3>1. queue.head = At(queue.tail, n) /\ Segment(queue.tail, n, Used)
      BY <1>n DEF Ring
    <3>2. /\ At(queue.tail, n) \in Slots /\ At(queue.tail, n) \notin Used
          /\ (At(queue.tail, n) + 1) % Capacity = At(queue.tail, n + 1)
          /\ Segment(queue.tail, n + 1, Used \cup {At(queue.tail, n)})
      BY <2>7, <2>8, <3>1, SegmentGrows, Zenon
    <3> QED  BY ZenonT(30), <2>3, <3>1, <3>2
  <2>10. Used' = Used \cup {queue.head}
    BY <2>2, <2>3, <2>4, <2>9 DEF Used, Putting
  <2>11. NoOverwrite' /\ OneEach'
    BY <1>o, <2>2, <2>3, <2>4, <2>9 DEF Used, NoOverwrite, OneEach, Putting
  <2>12. Ring(n + 1)'
    BY <1>n, <1>c, <2>1, <2>3, <2>4, <2>5, <2>9, <2>10, CapacityAssumption DEF Ring
  <2> QED  BY <2>7, <2>11, <2>12, CapacityAssumption DEF QueueInv, Slots
<1>9. ASSUME NEW t \in Tags, PutEntry(t)
      PROVE  QueueInv'
  <2> DEFINE e == Entry(t, sender[t].nr)
             i == sender[t].idx
  <2>1. Taken' = Taken /\ sender[t].pc = "put"
    BY <1>9 DEF PutEntry, Taken
  <2>2. /\ \A u \in Tags : sender'[u].idx = sender[u].idx /\ (u # t => sender'[u] = sender[u])
        /\ sender'[t].pc = "wake"
    BY ZenonT(30), <1>9 DEF PutEntry, Become, SenderOK, Senders
  <2>3. e \in Entries /\ e # NoEntry /\ i \in Slots
    <3>1. sender[t].nr \in 0..Sends /\ sender[t].nr > 0 /\ i \in Slots
      BY ZenonT(30), <2>1 DEF SenderOK, Senders
    <3>2. sender[t].nr \in 1..Sends
      BY <3>1, SendsAssumption
    <3>3. e \in Entries
      BY <3>2, EntryIsSomething, Zenon
    <3> QED  BY ZenonT(30), <3>1, <3>3, EntryIsSomething
  <2>4. /\ queue'.count = queue.count /\ queue'.head = queue.head /\ queue'.tail = queue.tail
        /\ queue'.slots = [queue.slots EXCEPT ![i] = e]
    <3>1. queue' = Put(queue, i, e) /\ queue \in Queues
      BY <1>9 DEF PutEntry, QueueOK
    <3> HIDE DEF e, i
    <3> QED  BY ZenonT(30), <2>3, <3>1 DEF Put, Queues
  <2> HIDE DEF e
  <2>5. /\ Claiming' = Claiming /\ Refused' = Refused
        /\ Putting' = Putting \ {t} /\ t \in Putting
    BY ZenonT(30), <2>1, <2>2 DEF Claiming, Refused, Putting
  <2>6. \A j \in Slots : queue'.slots[j] = IF j = i THEN e ELSE queue.slots[j]
    BY ZenonT(30), <2>3, <2>4 DEF QueueOK, Queues
  <2>7. /\ \A u \in Putting : sender[u].idx \in Slots /\ sender'[u].idx = sender[u].idx
        /\ \A u \in Putting' : sender[u].idx # i
    BY ZenonT(30), <1>o, <2>2, <2>5 DEF OneEach, Putting, SenderOK, Senders
  <2>8. Used' = Used
    BY <2>3, <2>5, <2>6, <2>7 DEF Used
  <2>9. NoOverwrite' /\ OneEach'
    <3>1. OneEach'
      BY <1>o, <2>5, <2>7 DEF OneEach
    <3>2. \A u \in Putting' : queue'.slots[sender'[u].idx] = NoEntry
      BY ZenonT(30), <1>o, <2>5, <2>6, <2>7 DEF NoOverwrite, Putting
    <3> QED  BY ZenonT(30), <3>1, <3>2 DEF NoOverwrite, Putting
  <2>10. Ring(n)'
    BY ZenonT(30), <1>n, <2>1, <2>4, <2>5, <2>8 DEF Ring
  <2> QED  BY ZenonT(30), <2>9, <2>10 DEF QueueInv
<1>10. ASSUME NEW t \in Tags, WakeThread(t) \/ WaitDone(t)
       PROVE  QueueInv'
  <2>1. /\ Taken' = Taken /\ queue' = queue /\ sender[t].pc \in {"wake", "wait"}
        /\ sender'[t].pc \in {"call", "wait"}
    <3>1. CASE WaitDone(t)
      BY ZenonT(30), <3>1 DEF WaitDone, Taken, SenderOK, Senders
    <3>2. CASE WakeThread(t)
      <4>1. PICK pc \in {"call", "wait"} : sender' = [sender EXCEPT ![t].pc = pc]
        BY <3>2, Zenon DEF WakeThread, Become
      <4>2. Taken' = Taken /\ queue' = queue /\ sender[t].pc = "wake"
        BY ZenonT(30), <3>2 DEF WakeThread, Taken
      <4> QED  BY <4>1, <4>2 DEF SenderOK, Senders
    <3> QED  BY ZenonT(30), <1>10, <3>1, <3>2
  <2>2. \A u \in Tags : sender'[u].idx = sender[u].idx /\ (u # t => sender'[u] = sender[u])
    <3>1. CASE WaitDone(t)
      BY <3>1 DEF WaitDone, SenderOK, Senders
    <3>2. CASE WakeThread(t)
      <4>1. PICK pc : sender' = [sender EXCEPT ![t].pc = pc]
        BY <3>2, Zenon DEF WakeThread, Become
      <4> QED  BY <4>1 DEF SenderOK, Senders
    <3> QED  BY ZenonT(30), <1>10, <3>1, <3>2
  <2>3. Claiming' = Claiming /\ Refused' = Refused /\ Putting' = Putting
    BY ZenonT(30), <2>1, <2>2 DEF Claiming, Refused, Putting
  <2>4. Used' = Used /\ NoOverwrite' /\ OneEach'
    BY <1>o, <2>1, <2>2, <2>3 DEF Used, NoOverwrite, OneEach, Putting
  <2>5. Ring(n)'
    BY ZenonT(30), <1>n, <2>1, <2>3, <2>4 DEF Ring
  <2> QED  BY <2>4, <2>5 DEF QueueInv
<1> QED  BY ZenonT(30), StepCases, <1>1, <1>2, <1>3, <1>4, <1>5, <1>6, <1>7, <1>8, <1>9, <1>10

------------------------------------------------------------------------------
(* The memory of a sender is not used again while an entry refers to it. *)

\* The entry refers to memory and to a handle of its sender.
Refers(e) == e # NoEntry /\ ~Cloned(e.nr)

Held(e) ==
    /\ sender[e.tag].nr = e.nr
    /\ sender[e.tag].handle = "parked"
    /\ sender[e.tag].pc \in {"wake", "wait"}

SlotsHeld  == \A i \in Slots : Refers(queue.slots[i]) => Held(queue.slots[i])
ThreadHeld == Refers(thread.entry) => Held(thread.entry)

\* No two references to the same memory.
OnlyOnce ==
    /\ \A i, j \in Slots : Refers(queue.slots[i]) /\ queue.slots[i] = queue.slots[j] => i = j
    /\ \A i \in Slots : Refers(queue.slots[i]) => queue.slots[i] # thread.entry

\* Who is about to put an entry into the queue has its handle ready.
HandleReady ==
    \A t \in Tags : sender[t].pc \in {"claim", "put"} /\ ~Cloned(sender[t].nr)
                        => sender[t].handle = "parked"

MemoryInv == SlotsHeld /\ ThreadHeld /\ OnlyOnce /\ HandleReady

\* Whoever is referred to is asleep.
LEMMA MemoryInvSuffices ==
    ASSUME Types, MemoryInv
    PROVE  MemoryHeld
<1>1. DOMAIN queue.slots = Slots
  BY ZenonT(30) DEF Types, QueueOK, Queues
<1> QED  BY <1>1 DEF MemoryInv, MemoryHeld, Pending, SlotsHeld, ThreadHeld, Refers, Held

\* At first nobody is referred to.
LEMMA MemoryInvInit ==
    ASSUME Init
    PROVE  MemoryInv
<1>1. \A i \in Slots : ~Refers(queue.slots[i])
  BY ZenonT(30) DEF Init, EmptyQueue, Refers, Slots
<1>2. ~Refers(thread.entry)
  BY ZenonT(30) DEF Init, Refers
<1>3. HandleReady
  BY ZenonT(30) DEF Init, NewSender, HandleReady
<1> QED  BY ZenonT(30), <1>1, <1>2, <1>3 DEF MemoryInv, SlotsHeld, ThreadHeld, OnlyOnce

\* The sender t moves on while nothing refers to its memory.
LEMMA NothingHeld ==
    ASSUME Types, MemoryInv, NEW t \in Tags,
           \A u \in Tags : u # t => sender'[u] = sender[u],
           queue'.slots = queue.slots, thread' = thread,
           \A e \in Entries : Refers(e) /\ e.tag = t => ~Held(e),
           sender'[t].pc \in {"claim", "put"} /\ ~Cloned(sender'[t].nr)
                => sender'[t].handle = "parked"
    PROVE  MemoryInv'
<1>1. \A e \in Entries : Refers(e) /\ Held(e) => Held(e)'
  BY ZenonT(30) DEF Held, Entries
<1>2. \A i \in Slots : queue.slots[i] \in Entries \cup {NoEntry}
  BY ZenonT(30) DEF Types, QueueOK, Queues
<1>3. SlotsHeld'
  BY ZenonT(30), <1>1, <1>2 DEF MemoryInv, SlotsHeld, Refers
<1>4. ThreadHeld'
  BY ZenonT(30), <1>1 DEF Types, ThreadOK, MemoryInv, ThreadHeld, Refers
<1>5. OnlyOnce'
  BY ZenonT(30) DEF MemoryInv, OnlyOnce
<1>6. HandleReady'
  BY ZenonT(30) DEF MemoryInv, HandleReady
<1> QED  BY ZenonT(30), <1>3, <1>4, <1>5, <1>6 DEF MemoryInv

\* The sender of an entry is woken: nobody else is, and nothing else refers to its memory.
LEMMA WakeHolds ==
    ASSUME SenderOK, NEW e \in Entries, Wake(e), Refers(e) => Held(e)
    PROVE  /\ \A r \in Entries : Refers(r) /\ Held(r) /\ r # e => Held(r)'
           /\ HandleReady => HandleReady'
<1>1. CASE Cloned(e.nr)
  <2>1. sender' = sender
    BY ZenonT(30), <1>1 DEF Wake
  <2> QED  BY <2>1 DEF Held, HandleReady
<1>2. CASE ~Cloned(e.nr)
  <2>1. Held(e) /\ e.tag \in Tags
    BY <1>2, EntryIsSomething DEF Refers, Entries
  <2>2. sender' = [sender EXCEPT ![e.tag].handle = "woken"]
    BY <1>2 DEF Wake
  <2>3. \A u \in Tags : u # e.tag => sender'[u] = sender[u]
    BY <2>2 DEF SenderOK, Senders
  <2>4. sender'[e.tag].pc = sender[e.tag].pc
    BY ZenonT(30), <2>1, <2>2 DEF SenderOK, Senders
  <2>5. ASSUME NEW r \in Entries, Held(r), r # e
        PROVE  Held(r)'
    <3>1. r.tag # e.tag
      BY <2>1, <2>5 DEF Held, Entries
    <3> QED  BY ZenonT(30), <2>3, <2>5, <3>1 DEF Held, Entries
  <2>6. HandleReady => HandleReady'
    BY ZenonT(30), <2>1, <2>3, <2>4 DEF HandleReady, Held
  <2> QED  BY ZenonT(30), <2>5, <2>6
<1> QED  BY ZenonT(30), <1>1, <1>2

\* No step lets a sender return while it is referred to.
LEMMA MemoryInvStep ==
    ASSUME Types, Types', MemoryInv, [Next]_vars
    PROVE  MemoryInv'
<1> USE DEF Types
<1>i. SlotsHeld /\ ThreadHeld /\ OnlyOnce /\ HandleReady
  BY DEF MemoryInv
<1>s. queue.slots \in [Slots -> Entries \cup {NoEntry}] /\ queue.tail \in Slots
  BY ZenonT(30) DEF QueueOK, Queues
<1>1. CASE Elsewhere \/ Moves \/ Releases
  <2>1. /\ sender' = sender /\ queue'.slots = queue.slots /\ thread'.entry = thread.entry
    <3>1. CASE Releases
      <4>1. queue' = Release(queue) /\ queue \in Queues
        BY <3>1 DEF Releases, QueueOK
      <4>2. queue' = [count |-> queue.count - 1, head |-> queue.head, tail |-> queue.tail,
                      slots |-> queue.slots]
        BY <4>1, QueueAccess, Zenon
      <4>3. thread'.entry = thread.entry
        BY ZenonT(30), <3>1 DEF Releases, ThreadOK
      <4> QED  BY <3>1, <4>2, <4>3 DEF Releases
    <3> QED  BY <1>1, <3>1 DEF Elsewhere, Moves
  <2> QED  BY ZenonT(30), <1>i, <2>1 DEF MemoryInv, SlotsHeld, ThreadHeld, OnlyOnce, HandleReady, Held
<1>2. CASE Takes
  <2>1. /\ sender' = sender /\ thread'.entry = queue.slots[queue.tail]
        /\ queue'.slots = [queue.slots EXCEPT ![queue.tail] = NoEntry]
    BY <1>2, QueueAccess DEF Takes, Dequeue, QueueOK, Front
  <2>2. \A i \in Slots : queue'.slots[i] = IF i = queue.tail THEN NoEntry ELSE queue.slots[i]
    BY ZenonT(30), <1>s, <2>1
  <2>3. SlotsHeld' /\ ThreadHeld'
    BY ZenonT(30), <1>i, <1>s, <2>1, <2>2 DEF SlotsHeld, ThreadHeld, Refers, Held
  <2>4. OnlyOnce'
    BY <1>i, <1>s, <2>1, <2>2 DEF OnlyOnce, Refers
  <2>5. HandleReady'
    BY <1>i, <2>1 DEF HandleReady
  <2> QED  BY ZenonT(30), <2>3, <2>4, <2>5 DEF MemoryInv
<1>3. CASE Wakes
  <2>1. /\ thread.entry \in Entries /\ thread'.entry = NoEntry
        /\ queue' = queue /\ Wake(thread.entry)
    BY <1>3 DEF Wakes, ThreadOK, Holding
  <2>2. /\ \A r \in Entries : Refers(r) /\ Held(r) /\ r # thread.entry => Held(r)'
        /\ HandleReady'
    BY <1>i, <2>1, WakeHolds DEF ThreadHeld
  <2>3. SlotsHeld'
    BY <1>i, <1>s, <2>1, <2>2 DEF SlotsHeld, OnlyOnce, Refers
  <2>4. ThreadHeld' /\ OnlyOnce'
    BY ZenonT(30), <1>i, <2>1 DEF ThreadHeld, OnlyOnce, Refers
  <2> QED  BY <2>2, <2>3, <2>4 DEF MemoryInv
<1>4. CASE Drains
  <2> DEFINE e == queue.slots[queue.tail]
  <2>1. e \in Entries /\ Wake(e) /\ thread' = thread
    BY ZenonT(30), <1>4, <1>s DEF Drains, Front
  <2>2. queue'.slots = [queue.slots EXCEPT ![queue.tail] = NoEntry]
    <3>1. Take(queue) \in Queues /\ queue' = Release(Take(queue))
      BY ZenonT(30), <1>4, QueueAccess DEF Drains, QueueOK
    <3>2. queue' = [count |-> Take(queue).count - 1, head |-> Take(queue).head,
                    tail |-> Take(queue).tail, slots |-> Take(queue).slots]
      BY <3>1, QueueAccess, Zenon
    <3> QED  BY <3>2, QueueAccess DEF QueueOK
  <2>3. \A i \in Slots : queue'.slots[i] = IF i = queue.tail THEN NoEntry ELSE queue.slots[i]
    BY ZenonT(30), <1>s, <2>2
  <2>4. Refers(e) => Held(e)
    BY ZenonT(30), <1>i, <1>s DEF SlotsHeld
  <2> HIDE DEF e
  <2>5. /\ \A r \in Entries : Refers(r) /\ Held(r) /\ r # e => Held(r)'
        /\ HandleReady'
    BY ZenonT(30), <1>i, <2>1, <2>4, WakeHolds
  <2>6. SlotsHeld'
    BY ZenonT(30), <1>i, <1>s, <2>3, <2>5 DEF SlotsHeld, OnlyOnce, Refers, e
  <2>7. ThreadHeld'
    BY ZenonT(30), <1>i, <1>s, <2>1, <2>5 DEF ThreadHeld, ThreadOK, OnlyOnce, Refers, e
  <2>8. OnlyOnce'
    BY ZenonT(30), <1>i, <1>s, <2>1, <2>3 DEF OnlyOnce, Refers
  <2> QED  BY ZenonT(30), <2>5, <2>6, <2>7, <2>8 DEF MemoryInv
<1>5. ASSUME NEW t \in Tags, Call(t) \/ RollBackSlot(t) \/ ClaimSlot(t)
      PROVE  MemoryInv'
  <2>1. sender[t].pc \notin {"wake", "wait"}
    BY ZenonT(30), <1>5 DEF Call, RollBackSlot, ClaimSlot
  <2>2. /\ \A u \in Tags : u # t => sender'[u] = sender[u]
        /\ thread' = thread
    BY <1>5, CallAccess DEF SenderOK
  <2>3. queue'.slots = queue.slots
    <3>1. /\ queue \in Queues
          /\ queue' \in {queue, Reserve(queue), RollBack(queue), Claim(queue)}
      BY ZenonT(30), <1>5 DEF Call, RollBackSlot, ClaimSlot, QueueOK
    <3>2. /\ Reserve(queue).slots = queue.slots /\ RollBack(queue).slots = queue.slots
          /\ Claim(queue).slots = queue.slots
      BY ZenonT(30), <3>1 DEF Queues, Reserve, RollBack, Claim
    <3> QED  BY <3>1, <3>2, Zenon
  <2>4. sender'[t].pc \in {"claim", "put"} /\ ~Cloned(sender'[t].nr)
            => sender'[t].handle = "parked"
    <3>1. CASE Call(t)
      <4>1. CASE ~tx
        BY ZenonT(30), <3>1, <4>1 DEF Call, Become, SenderOK, Senders
      <4>2. CASE tx
        <5>1. PICK pc :
                sender' = [sender EXCEPT ![t].nr = sender[t].nr + 1, ![t].pc = pc,
                    ![t].handle = IF Cloned(sender[t].nr + 1) THEN "none" ELSE "parked"]
          BY <3>1, <4>2, Zenon DEF Call
        <5> QED  BY <5>1 DEF SenderOK, Senders
      <4> QED  BY ZenonT(30), <4>1, <4>2
    <3>2. CASE RollBackSlot(t)
      BY ZenonT(30), <3>2 DEF RollBackSlot, SenderOK, Senders
    <3>3. CASE ClaimSlot(t)
      <4>1. /\ sender'[t].nr = sender[t].nr /\ sender'[t].handle = sender[t].handle
            /\ sender[t].pc = "claim"
        BY ZenonT(30), <3>3 DEF ClaimSlot, SenderOK, Senders
      <4> QED  BY ZenonT(30), <1>i, <4>1 DEF HandleReady
    <3> QED  BY ZenonT(30), <1>5, <3>1, <3>2, <3>3
  <2>5. \A e \in Entries : Refers(e) /\ e.tag = t => ~Held(e)
    BY ZenonT(30), <2>1 DEF Held
  <2> QED  BY <2>2, <2>3, <2>4, <2>5, NothingHeld
<1>6. ASSUME NEW t \in Tags, PutEntry(t)
      PROVE  MemoryInv'
  <2>e. PICK e : e = Entry(t, sender[t].nr)
    BY ZenonT(30)
  <2> DEFINE k == sender[t].idx
  <2>1. /\ sender[t].pc = "put" /\ k \in Slots
        /\ thread' = thread /\ queue' = Put(queue, k, e)
    BY <1>6, <2>e DEF PutEntry, SenderOK, Senders
  <2>2. /\ \A u \in Tags : u # t => sender'[u] = sender[u]
        /\ sender'[t].pc = "wake" /\ sender'[t].nr = sender[t].nr
        /\ sender'[t].handle = sender[t].handle
    BY ZenonT(30), <1>6 DEF PutEntry, Become, SenderOK, Senders
  <2>3. e.tag = t /\ e.nr = sender[t].nr
    BY ZenonT(30), <2>e DEF Entry
  <2> HIDE DEF k
  <2>4. \A i \in Slots : queue'.slots[i] = IF i = k THEN e ELSE queue.slots[i]
    <3>1. queue'.slots = [queue.slots EXCEPT ![k] = e]
      BY ZenonT(30), <2>1 DEF Put, QueueOK, Queues
    <3> QED  BY ZenonT(30), <1>s, <2>1, <3>1
  <2>5. \A r \in Entries : Held(r) => r.tag # t
    BY ZenonT(30), <2>1 DEF Held
  <2>6. \A r \in Entries : Held(r) => Held(r)'
    BY ZenonT(30), <2>2, <2>5 DEF Held, Entries
  <2>7. Refers(e) => Held(e)'
    BY ZenonT(30), <1>i, <2>1, <2>2, <2>3 DEF Refers, Held, HandleReady
  <2>8. SlotsHeld'
    BY ZenonT(30), <1>i, <1>s, <2>4, <2>6, <2>7 DEF SlotsHeld, Refers
  <2>9. ThreadHeld'
    BY ZenonT(30), <1>i, <2>1, <2>6 DEF ThreadHeld, ThreadOK, Refers
  <2>10. OnlyOnce'
    <3>1. \A i \in Slots : Refers(queue.slots[i]) => queue.slots[i] # e
      BY ZenonT(30), <1>i, <1>s, <2>3, <2>5 DEF SlotsHeld, Refers
    <3>2. Refers(e) => e # thread.entry
      BY ZenonT(30), <1>i, <2>3, <2>5 DEF ThreadHeld, ThreadOK, Refers
    <3> QED  BY ZenonT(30), <1>i, <2>1, <2>4, <3>1, <3>2 DEF OnlyOnce
  <2>11. HandleReady'
    BY ZenonT(30), <1>i, <2>2 DEF HandleReady
  <2> QED  BY ZenonT(30), <2>8, <2>9, <2>10, <2>11 DEF MemoryInv
<1>7. ASSUME NEW t \in Tags, WaitDone(t)
      PROVE  MemoryInv'
  <2>1. sender[t].handle = "woken" /\ queue' = queue
    BY ZenonT(30), <1>7 DEF WaitDone
  <2>2. /\ \A u \in Tags : u # t => sender'[u] = sender[u]
        /\ thread' = thread
    BY ZenonT(30), <1>7, CallAccess DEF SenderOK
  <2>3. sender'[t].pc = "call"
    BY ZenonT(30), <1>7 DEF WaitDone, SenderOK, Senders
  <2>4. \A e \in Entries : Refers(e) /\ e.tag = t => ~Held(e)
    BY ZenonT(30), <2>1 DEF Held
  <2> QED  BY ZenonT(30), <2>1, <2>2, <2>3, <2>4, NothingHeld
<1>8. ASSUME NEW t \in Tags, WakeThread(t)
      PROVE  MemoryInv'
  <2>1. queue' = queue /\ thread' = thread /\ sender[t].pc = "wake"
    BY <1>8 DEF WakeThread
  <2>2. sender' = [sender EXCEPT ![t].pc = IF Cloned(sender[t].nr) THEN "call" ELSE "wait"]
    BY ZenonT(30), <1>8 DEF WakeThread, Become
  <2>3. \A u \in Tags : u # t => sender'[u] = sender[u]
    BY ZenonT(30), <2>2 DEF SenderOK, Senders
  <2>4. CASE Cloned(sender[t].nr)
    <3>1. sender'[t].pc = "call"
      BY ZenonT(30), <2>2, <2>4 DEF SenderOK, Senders
    <3>2. \A e \in Entries : Refers(e) /\ e.tag = t => ~Held(e)
      BY ZenonT(30), <2>4 DEF Held, Refers
    <3> QED  BY ZenonT(30), <2>1, <2>3, <3>1, <3>2, NothingHeld
  <2>5. CASE ~Cloned(sender[t].nr)
    <3>1. /\ sender'[t].pc = "wait" /\ sender'[t].nr = sender[t].nr
          /\ sender'[t].handle = sender[t].handle
      BY ZenonT(30), <2>2, <2>5 DEF SenderOK, Senders
    <3>2. \A e \in Entries : Held(e) => Held(e)'
      BY ZenonT(30), <2>3, <3>1 DEF Held, Entries
    <3>3. SlotsHeld'
      BY ZenonT(30), <1>i, <1>s, <2>1, <3>2 DEF SlotsHeld, Refers
    <3>4. ThreadHeld'
      BY ZenonT(30), <1>i, <2>1, <3>2 DEF ThreadHeld, ThreadOK, Refers
    <3>5. OnlyOnce' /\ HandleReady'
      BY ZenonT(30), <1>i, <2>1, <2>3, <3>1 DEF OnlyOnce, HandleReady
    <3> QED  BY ZenonT(30), <3>3, <3>4, <3>5 DEF MemoryInv
  <2> QED  BY ZenonT(30), <2>4, <2>5
<1> QED  BY ZenonT(30), <1>8, StepCases, <1>1, <1>2, <1>3, <1>4, <1>5, <1>6, <1>7

\* For any number of operations, entries and slots: as long as the queue or the send thread
\* refers to the memory and the handle of a sender, that sender sleeps in sendBytes.
THEOREM MemoryStaysHeld == Spec => []MemoryHeld
<1>1. Init => Types /\ MemoryInv
  BY ZenonT(30), TypesInit, MemoryInvInit
<1>2. Types /\ MemoryInv /\ [Next]_vars => (Types /\ MemoryInv)'
  BY ZenonT(30), TypesStep, MemoryInvStep
<1>3. Types /\ MemoryInv => MemoryHeld
  BY MemoryInvSuffices
<1> QED  BY <1>1, <1>2, <1>3, PTL DEF Spec

------------------------------------------------------------------------------
(* What is received under a tag is what was sent under it. As long as both sockets are in use, *)
(* every entry that was sent is in exactly one place: promised to a slot of the queue, in the  *)
(* hands of the send thread, on the wire, or with the receiver. The entries of a tag are in the *)
(* order of their numbers across these places and within each.                                 *)

PipeOK ==
    /\ wire \in Seq(Entries)
    /\ rings \in [Tags -> Seq(Entries)]
    /\ receiver \in [Tags -> [failed : BOOLEAN, got : Seq(Entries)]]
    /\ reader = "data" => wire # <<>>
    /\ reader = "drain" => ~rx

\* How many entries were given a slot, under a tag.
Number(t) == IF sender[t].pc \in {"claim", "roll back"} THEN sender[t].nr - 1 ELSE sender[t].nr

\* How many have reached the receiving side.
Arrived(t) == Len(receiver[t].got) + Len(rings[t])

OnWire(e) == \E k \in 1..Len(wire) : wire[k] = e

Written(e) == e.nr <= Arrived(e.tag) \/ OnWire(e)

\* The slot holds the entry, or was claimed for it.
Promised(i, e) ==
    \/ queue.slots[i] = e
    \/ \E t \in Putting : sender[t].idx = i /\ e = Entry(t, sender[t].nr)

\* The send thread has the entry and has not written it.
InHand(e) == thread.pc \in {"took", "write"} /\ thread.entry = e

\* The distance of a slot from the front of the queue.
Place(i) == IF queue.tail <= i THEN i - queue.tail ELSE i - queue.tail + Capacity

\* What is taken from the queue is still written.
Live == conn = "open" /\ thread.pc \notin {"drain", "exited"}

\* Nothing is missing from what was received.
GotOK ==
    \A t \in Tags : \A i \in 1..Len(receiver[t].got) : receiver[t].got[i] = Entry(t, i)

\* The queues continue it.
ReceivedOK ==
    /\ GotOK
    /\ \A t \in Tags : \A i \in 1..Len(rings[t]) : rings[t][i] = Entry(t, Len(receiver[t].got) + i)

\* What is on the wire continues it, tag by tag.
WireOK ==
    /\ \A j, k \in 1..Len(wire) : j < k /\ wire[j].tag = wire[k].tag => wire[j].nr < wire[k].nr
    /\ \A k \in 1..Len(wire) : wire[k].nr > Arrived(wire[k].tag)
    /\ \A k \in 1..Len(wire), e \in Entries :
           /\ e.tag = wire[k].tag /\ e.nr < wire[k].nr /\ e.nr > Arrived(e.tag)
           => \E j \in 1..k - 1 : wire[j] = e

\* What the send thread holds continues what was written, and the queue what it holds.
FlowOK ==
    /\ \A t \in Tags : Arrived(t) <= Number(t)
    /\ \A e \in Entries : OnWire(e) \/ InHand(e) \/ (\E i \in Slots : Promised(i, e))
                              => e.nr <= Number(e.tag)
    /\ \A e \in Entries : e.nr <= Number(e.tag)
                              => Written(e) \/ InHand(e) \/ \E i \in Slots : Promised(i, e)
    /\ \A e \in Entries : InHand(e) =>
           /\ ~Written(e)
           /\ \A f \in Entries : f.tag = e.tag /\ f.nr < e.nr => Written(f)
    /\ \A e \in Entries, i \in Slots : Promised(i, e) => ~Written(e) /\ ~InHand(e)
    /\ \A e, f \in Entries, i, j \in Slots :
           Promised(i, e) /\ Promised(j, f) /\ e.tag = f.tag /\ i # j
               => e.nr # f.nr /\ (e.nr < f.nr => Place(i) < Place(j))

OrderInv ==
    /\ GotOK
    /\ conn = "open" => rx
    /\ rx => ReceivedOK /\ WireOK
    /\ Live => FlowOK

\* The steps by what they do to the entries under way.  These change nothing behind the send
\* thread, except that they may close the connection.
Behind == UNCHANGED <<wire, rx, rings, receiver>> /\ conn' \in {conn, "closed"}

\* The send thread has nothing in hand.
Idles ==
    /\ UNCHANGED <<queue, sender>>
    /\ thread'.pc \notin {"took", "write"} /\ thread.pc # "took"
    /\ conn = "open" => thread.pc # "write"
    /\ thread.pc \in {"drain", "exited"} => thread'.pc \in {"drain", "exited"}

Writes ==
    /\ thread.pc = "write" /\ conn = "open" /\ thread' = [thread EXCEPT !.pc = "done"]
    /\ wire' = Append(wire, thread.entry)
    /\ UNCHANGED <<queue, sender, conn, rxVars>>

Ahead == UNCHANGED <<queue, sender, thread, conn>>

\* The receiving socket is not running, and what was received stays.
Ends ==
    /\ rx' = FALSE
    /\ conn' = "open" => conn = "open" /\ ~rx
    /\ \A t \in Tags : receiver'[t].got = receiver[t].got

\* Every step is one of these.
LEMMA OrderCases ==
    ASSUME Types, PipeOK, [Next]_vars
    PROVE  \/ /\ Behind
              /\ \/ Elsewhere \/ Idles \/ Releases \/ Wakes \/ Drains
                 \/ Takes /\ thread.pc \in {"poll", "spin"}
                 \/ \E t \in Tags : /\ \/ Call(t) \/ RollBackSlot(t) \/ ClaimSlot(t) \/ PutEntry(t)
                                       \/ WakeThread(t) \/ WaitDone(t)
           \/ Writes
           \/ Ahead /\ rx /\ (Read \/ \E t \in Tags : Receive(t))
           \/ Ends
<1> USE DEF Types, ThreadOK
<1>1. CASE UNCHANGED vars
  BY <1>1 DEF vars, rxVars, Elsewhere, Behind
<1>2. CASE \E t \in Tags : SenderStep(t)
  BY ZenonT(30), <1>2 DEF SenderStep, rxVars, Behind
<1>3. CASE \E t \in Tags : Receive(t)
  BY ZenonT(30), <1>3 DEF Receive, Ahead
<1>4. ASSUME NEW t \in Tags, ReceiveFails(t)
      PROVE  Ends
  <2>1. \A u \in Tags : receiver'[u].got = receiver[u].got
    BY <1>4 DEF ReceiveFails, PipeOK
  <2>2. ~rx /\ rx' = rx /\ conn' = conn
    BY <1>4 DEF ReceiveFails
  <2> QED  BY <2>1, <2>2 DEF Ends
<1>5. CASE SendThread
  <2>1. UNCHANGED <<rx, rings, receiver>> /\ UNCHANGED rxVars
    BY <1>5 DEF SendThread, rxVars
  <2>2. CASE CheckRunning \/ BeginPark \/ WaitPark
    BY ZenonT(30), <2>1, <2>2 DEF CheckRunning, BeginPark, WaitPark, Goto, Idles, Behind
  <2>3. CASE Poll
    <3>1. CASE Front(queue) = NoEntry
      BY ZenonT(30), <2>1, <2>3, <3>1 DEF Poll, Goto, Idles, Behind
    <3>2. CASE Front(queue) # NoEntry
      BY ZenonT(30), <2>1, <2>3, <3>2 DEF Poll, Takes, Holding, Behind
    <3> QED  BY <3>1, <3>2
  <2>4. CASE Spin
    <3>1. CASE Front(queue) = NoEntry
      BY ZenonT(30), <2>1, <2>4, <3>1 DEF Spin, Goto, Idles, Behind
    <3>2. CASE Front(queue) # NoEntry
      BY <2>1, <2>4, <3>2 DEF Spin, Takes, Holding, Behind
    <3> QED  BY <3>1, <3>2
  <2>5. CASE EndPark
    BY ZenonT(30), <2>1, <2>5 DEF EndPark, Goto, Releases, Behind
  <2>6. CASE Write
    <3>1. CASE conn = "open"
      BY ZenonT(30), <2>1, <2>6, <3>1 DEF Write, Goto, Writes
    <3>2. CASE conn # "open"
      BY ZenonT(30), <2>1, <2>6, <3>2 DEF Write, Goto, Idles, Behind
    <3> QED  BY ZenonT(30), <3>1, <3>2
  <2>7. CASE WriteFails
    BY <2>1, <2>7 DEF WriteFails, Goto, Idles, Behind
  <2>8. CASE WakeDone
    BY ZenonT(30), <2>1, <2>8 DEF WakeDone, Wakes, Behind
  <2>9. CASE Drain
    <3>1. CASE Front(queue) = NoEntry
      BY ZenonT(30), <2>1, <2>9, <3>1 DEF Drain, Goto, Idles, Behind
    <3>2. CASE Front(queue) # NoEntry
      BY ZenonT(30), <2>1, <2>9, <3>2 DEF Drain, Drains, Behind
    <3> QED  BY <3>1, <3>2
  <2> QED
    BY ZenonT(30), <1>5, <2>2, <2>3, <2>4, <2>5, <2>6, <2>7, <2>8, <2>9 DEF SendThread
<1>6. CASE ReceiveThread
  <2>1. Ahead
    BY ZenonT(30), <1>6 DEF ReceiveThread, Ahead
  <2>2. CASE ReadPreamble
    BY ZenonT(30), <1>6, <2>2 DEF ReceiveThread, ReadPreamble, Elsewhere, Behind
  <2>3. CASE Read
    <3>1. rx' = rx /\ receiver' = receiver
      BY ZenonT(30), <2>3 DEF Read, Push
    <3>2. CASE ~rx
      BY <2>1, <3>1, <3>2 DEF Ahead, Ends
    <3> QED  BY ZenonT(30), <2>1, <2>3, <3>2
  <2>4. CASE ReadEnd
    BY <2>1, <2>4 DEF ReadEnd, Ahead, Ends
  <2>5. CASE DrainRings
    BY <2>1, <2>5 DEF DrainRings, PipeOK, Ahead, Ends
  <2> QED  BY ZenonT(30), <1>6, <2>1, <2>2, <2>3, <2>4, <2>5 DEF ReceiveThread
<1>7. CASE InterruptReceiver
  BY <1>7 DEF InterruptReceiver, Ends
<1>8. CASE Interrupt \/ Shutdown \/ Join \/ PeerCloses
  BY ZenonT(30), <1>8 DEF Interrupt, Shutdown, Join, PeerCloses, rxVars, Elsewhere, Behind
<1> QED
  BY ZenonT(30), <1>1, <1>2, <1>3, <1>4, <1>5, <1>6, <1>7, <1>8 DEF Next

\* What is under way consists of entries.
LEMMA PipeInit ==
    ASSUME Init
    PROVE  PipeOK
  BY DEF Init, PipeOK, NewReceiver

\* And stays so.
LEMMA PipeStep ==
    ASSUME Types, PipeOK, [Next]_vars
    PROVE  PipeOK'
<1>1. CASE UNCHANGED <<wire, rxVars>>
  BY ZenonT(30), <1>1 DEF PipeOK, rxVars
<1>2. CASE Write /\ UNCHANGED rxVars /\ conn = "open"
  <2>1. thread.entry \in Entries
    BY ZenonT(30), <1>2 DEF Write, Types, ThreadOK, Holding
  <2>2. wire' = Append(wire, thread.entry) /\ wire \in Seq(Entries)
    BY ZenonT(30), <1>2 DEF Write, PipeOK
  <2>3. wire' \in Seq(Entries) /\ wire' # <<>>
    BY <2>1, <2>2
  <2> QED  BY ZenonT(30), <1>2, <2>3 DEF PipeOK, rxVars
<1>3. CASE Read
  <2>1. Head(wire) \in Entries /\ Tail(wire) \in Seq(Entries)
    BY <1>3 DEF Read, Push, PipeOK
  <2>2. Head(wire).tag \in Tags
    BY <2>1 DEF Entries
  <2>3. Append(rings[Head(wire).tag], Head(wire)) \in Seq(Entries)
    BY <2>1, <2>2 DEF PipeOK
  <2>4. /\ rings' = [rings EXCEPT ![Head(wire).tag] = Append(rings[Head(wire).tag], Head(wire))]
        /\ wire' = Tail(wire) /\ rx' = rx /\ receiver' = receiver
        /\ reader' = IF rx THEN "read" ELSE "drain"
    BY ZenonT(30), <1>3 DEF Read, Push
  <2>5. rings' \in [Tags -> Seq(Entries)]
    BY ZenonT(30), <2>2, <2>3, <2>4 DEF PipeOK
  <2>6. reader' # "data" /\ (reader' = "drain" => ~rx')
    BY <2>4
  <2> QED  BY ZenonT(30), <2>1, <2>4, <2>5, <2>6 DEF PipeOK
<1>4. CASE ReadPreamble \/ ReadEnd
  BY <1>4 DEF ReadPreamble, ReadEnd, PipeOK
<1>5. CASE DrainRings
  <2>1. PICK t \in Tags : rings[t] # <<>> /\ rings' = [rings EXCEPT ![t] = Tail(rings[t])]
    BY ZenonT(30), <1>5 DEF DrainRings
  <2>2. Tail(rings[t]) \in Seq(Entries)
    BY <2>1 DEF PipeOK
  <2> QED  BY ZenonT(30), <1>5, <2>1, <2>2 DEF DrainRings, PipeOK
<1>6. CASE InterruptReceiver
  BY <1>6 DEF InterruptReceiver, PipeOK
<1>7. ASSUME NEW t \in Tags, Receive(t)
      PROVE  PipeOK'
  <2>1. Head(rings[t]) \in Entries /\ Tail(rings[t]) \in Seq(Entries)
    BY <1>7 DEF Receive, PipeOK
  <2> DEFINE a == Append(receiver[t].got, Head(rings[t]))
  <2>2. a \in Seq(Entries)
    BY <2>1 DEF PipeOK
  <2>3. receiver' = [receiver EXCEPT ![t].got = a] /\ rings' = [rings EXCEPT ![t] = Tail(rings[t])]
        /\ wire' = wire /\ rx' = rx /\ reader' = reader
    BY <1>7 DEF Receive
  <2> HIDE DEF a
  <2>4. receiver' \in [Tags -> [failed : BOOLEAN, got : Seq(Entries)]]
    BY ZenonT(30), <2>2, <2>3 DEF PipeOK
  <2> QED  BY ZenonT(30), <2>1, <2>3, <2>4 DEF PipeOK
<1>8. ASSUME NEW t \in Tags, ReceiveFails(t)
      PROVE  PipeOK'
  <2>1. PICK k \in 0..Len(rings[t]) :
            rings' = [rings EXCEPT ![t] = SubSeq(rings[t], k + 1, Len(rings[t]))]
    BY ZenonT(30), <1>8 DEF ReceiveFails
  <2>2. rings[t] \in Seq(Entries)
    BY DEF PipeOK
  <2>3. SubSeq(rings[t], k + 1, Len(rings[t])) \in Seq(Entries)
    BY <2>2
  <2>4. rings' \in [Tags -> Seq(Entries)]
    BY ZenonT(30), <2>1, <2>3 DEF PipeOK
  <2>5. receiver' \in [Tags -> [failed : BOOLEAN, got : Seq(Entries)]]
    BY ZenonT(30), <1>8 DEF ReceiveFails, PipeOK
  <2> QED  BY ZenonT(30), <1>8, <2>4, <2>5 DEF ReceiveFails, PipeOK
<1>9. CASE \/ \E t \in Tags : SenderStep(t)
           \/ SendThread /\ (Write => conn # "open")
           \/ Interrupt \/ Shutdown \/ Join \/ PeerCloses \/ UNCHANGED vars
  <2>1. UNCHANGED <<wire, rxVars>>
    <3>1. CASE SendThread /\ (Write => conn # "open")
      BY <3>1 DEF SendThread, CheckRunning, BeginPark, Poll, WaitPark, Spin, EndPark, Write,
                  WriteFails, WakeDone, Drain
    <3>2. CASE \E t \in Tags : SenderStep(t)
      BY ZenonT(30), <3>2 DEF SenderStep
    <3>3. CASE Interrupt \/ Shutdown \/ Join \/ PeerCloses \/ UNCHANGED vars
      BY ZenonT(30), <3>3 DEF Interrupt, Shutdown, Join, PeerCloses, vars
    <3> QED  BY ZenonT(30), <1>9, <3>1, <3>2, <3>3
  <2> QED  BY ZenonT(30), <1>1, <2>1
<1>10. CASE SendThread /\ Write /\ conn = "open"
  BY ZenonT(30), <1>2, <1>10 DEF SendThread
<1> QED
  BY ZenonT(30), <1>3, <1>4, <1>5, <1>6, <1>7, <1>8, <1>9, <1>10 DEF Next, ReceiveThread

\* A step behind which nothing changes leaves alone what was written.
LEMMA BehindKeeps ==
    ASSUME OrderInv, Behind
    PROVE  /\ GotOK' /\ (conn = "open" => rx)' /\ (rx => ReceivedOK /\ WireOK)'
           /\ \A t \in Tags : Arrived(t)' = Arrived(t)
           /\ \A e \in Entries : (OnWire(e)' <=> OnWire(e)) /\ (Written(e)' <=> Written(e))
           /\ conn' = "open" => conn = "open"
<1>1. wire' = wire /\ rx' = rx /\ rings' = rings /\ receiver' = receiver
  BY DEF Behind
<1>2. \A t : Arrived(t)' = Arrived(t)
  BY <1>1 DEF Arrived
<1>3. \A e : OnWire(e)' <=> OnWire(e)
  BY <1>1 DEF OnWire
<1>4. (GotOK' <=> GotOK) /\ (ReceivedOK' <=> ReceivedOK)
  BY ZenonT(30), <1>1 DEF GotOK, ReceivedOK
<1>5. WireOK' <=> WireOK
  BY ZenonT(30), <1>1, <1>2 DEF WireOK
<1>6. \A e : Written(e)' <=> Written(e)
  BY <1>2, <1>3 DEF Written
<1>7. conn' = "open" => conn = "open"
  BY ZenonT(30) DEF Behind
<1> QED
  BY ZenonT(30), <1>1, <1>2, <1>3, <1>4, <1>5, <1>6, <1>7 DEF OrderInv

\* Numbers are numbers.
LEMMA NumberTypes ==
    ASSUME Types, PipeOK
    PROVE  /\ \A t \in Tags : Number(t) \in Int /\ Arrived(t) \in Nat
           /\ \A e \in Entries : e.tag \in Tags /\ e.nr \in Nat /\ e.nr > 0 /\ e = Entry(e.tag, e.nr)
           /\ \A i \in Slots : Place(i) \in Nat
           /\ \A k \in 1..Len(wire) : wire[k] \in Entries
           /\ Len(wire) \in Nat
<1>1. ASSUME NEW t \in Tags
      PROVE  Number(t) \in Int
  <2>1. sender[t].nr \in Int /\ sender[t].nr - 1 \in Int
    BY SendsAssumption DEF Types, SenderOK, Senders
  <2> QED  BY ZenonT(30), <2>1 DEF Number
<1>2. \A t \in Tags : Arrived(t) \in Nat
  BY DEF PipeOK, Arrived
<1>3. \A e \in Entries : e.tag \in Tags /\ e.nr \in Nat /\ e.nr > 0 /\ e = Entry(e.tag, e.nr)
  BY SendsAssumption DEF Entries, Entry
<1>4. \A i \in Slots : Place(i) \in Nat
  BY CapacityAssumption DEF Types, QueueOK, Queues, Slots, Place
<1>5. Len(wire) \in Nat /\ \A k \in 1..Len(wire) : wire[k] \in Entries
  BY DEF PipeOK
<1> QED
  BY ZenonT(30), <1>1, <1>2, <1>3, <1>4, <1>5

\* The send thread writes what it has in hand: it is next under its tag.
LEMMA WritesOrder ==
    ASSUME Types, PipeOK, OrderInv, Writes
    PROVE  OrderInv'
<1> DEFINE x == thread.entry
<1>1. x \in Entries /\ InHand(x) /\ Live
  BY DEF Writes, Types, ThreadOK, Holding, InHand, Live
<1>2. FlowOK /\ WireOK /\ rx /\ ReceivedOK
  BY ZenonT(30), <1>1 DEF OrderInv, Writes
<1>3. ~Written(x) /\ \A f \in Entries : f.tag = x.tag /\ f.nr < x.nr => Written(f)
  BY <1>1, <1>2 DEF FlowOK
<1>4. /\ wire' = Append(wire, x) /\ rings' = rings /\ receiver' = receiver /\ rx' = rx /\ conn' = "open"
      /\ queue' = queue /\ sender' = sender /\ thread'.pc = "done"
  BY DEF Writes, Types, ThreadOK, rxVars
<1> HIDE DEF x
<1>5. /\ Len(wire') = Len(wire) + 1 /\ wire'[Len(wire) + 1] = x
      /\ \A k \in 1..Len(wire) : wire'[k] = wire[k]
  BY <1>1, <1>4 DEF PipeOK
<1>6. \A t : Arrived(t)' = Arrived(t)
  BY ZenonT(30), <1>4 DEF Arrived
<1>7. \A e : OnWire(e)' <=> OnWire(e) \/ e = x
  BY <1>5, NumberTypes DEF OnWire
<1>8. \A e \in Entries : Written(e)' <=> Written(e) \/ e = x
  BY <1>6, <1>7 DEF Written
<1>9. ReceivedOK' /\ GotOK'
  BY ZenonT(30), <1>2, <1>4 DEF ReceivedOK, GotOK
<1>10. WireOK'
  <2>1. ASSUME NEW k \in 1..Len(wire), wire[k].tag = x.tag
        PROVE  wire[k].nr < x.nr
    <3>1. wire[k] \in Entries /\ wire[k].nr \in Nat /\ x.nr \in Nat /\ Arrived(x.tag) \in Nat
      BY ZenonT(30), <1>1, NumberTypes
    <3>2. CASE wire[k].nr = x.nr
      <4>1. wire[k] = x
        BY ZenonT(30), <1>1, <2>1, <3>1, <3>2, NumberTypes
      <4> QED  BY ZenonT(30), <1>3, <4>1 DEF Written, OnWire
    <3>3. CASE x.nr < wire[k].nr
      <4>1. x.nr > Arrived(x.tag)
        BY <1>3, <3>1 DEF Written
      <4>2. \E j \in 1..k - 1 : wire[j] = x
        BY ZenonT(30), <1>1, <1>2, <2>1, <3>3, <4>1 DEF WireOK
      <4>3. \E j \in 1..Len(wire) : wire[j] = x
        BY <4>2, NumberTypes
      <4> QED  BY ZenonT(30), <1>3, <4>3 DEF Written, OnWire
    <3> QED  BY <3>1, <3>2, <3>3
  <2>2. \A j, k \in 1..Len(wire') :
            j < k /\ wire'[j].tag = wire'[k].tag => wire'[j].nr < wire'[k].nr
    <3> SUFFICES ASSUME NEW j \in 1..Len(wire'), NEW k \in 1..Len(wire'), j < k,
                        wire'[j].tag = wire'[k].tag
                 PROVE  wire'[j].nr < wire'[k].nr
      OBVIOUS
    <3>1. j \in 1..Len(wire) /\ wire'[j] = wire[j]
      BY <1>5, NumberTypes
    <3>2. CASE k \in 1..Len(wire)
      BY ZenonT(30), <1>2, <1>5, <3>1, <3>2 DEF WireOK
    <3>3. CASE k = Len(wire) + 1
      BY ZenonT(30), <1>5, <2>1, <3>1, <3>3
    <3>4. Len(wire) \in Nat
      BY NumberTypes
    <3>5. k \in 1..Len(wire) \/ k = Len(wire) + 1
      BY <1>5, <3>4
    <3> QED  BY ZenonT(30), <3>2, <3>3, <3>5
  <2>3. \A k \in 1..Len(wire') : wire'[k].nr > Arrived(wire'[k].tag)
    <3>1. x.nr > Arrived(x.tag)
      BY <1>1, <1>3, NumberTypes DEF Written
    <3> QED  BY <1>2, <1>5, <3>1, NumberTypes DEF WireOK
  <2>4. ASSUME NEW k \in 1..Len(wire'), NEW e \in Entries,
               e.tag = wire'[k].tag, e.nr < wire'[k].nr, e.nr > Arrived(e.tag)
        PROVE  \E j \in 1..k - 1 : wire'[j] = e
    <3>1. CASE k \in 1..Len(wire)
      <4>1. \E j \in 1..k - 1 : wire[j] = e
        BY ZenonT(30), <1>2, <1>5, <2>4, <3>1 DEF WireOK
      <4> QED  BY <1>5, <3>1, <4>1, NumberTypes
    <3>2. CASE k = Len(wire) + 1
      <4>1. Written(e)
        BY ZenonT(30), <1>3, <1>5, <2>4, <3>2
      <4>2. \E j \in 1..Len(wire) : wire[j] = e
        BY <2>4, <4>1, NumberTypes DEF Written, OnWire
      <4> QED  BY <1>5, <3>2, <4>2, NumberTypes
    <3> QED  BY <1>5, <3>1, <3>2, NumberTypes
  <2> QED  BY ZenonT(30), <1>6, <2>2, <2>3, <2>4 DEF WireOK
<1>11. FlowOK'
  <2>1. \A t : Number(t)' = Number(t)
    BY ZenonT(30), <1>4 DEF Number
  <2>2. \A i, e : Promised(i, e)' <=> Promised(i, e)
    BY ZenonT(30), <1>4 DEF Promised, Putting
  <2>3. \A e : ~InHand(e)'
    BY ZenonT(30), <1>4 DEF InHand
  <2>4. \A e \in Entries : InHand(e) => e = x
    BY DEF InHand, x
  <2>5. \A i : Place(i)' = Place(i)
    BY ZenonT(30), <1>4 DEF Place
  <2> QED  BY ZenonT(30), <1>1, <1>2, <1>6, <1>7, <1>8, <2>1, <2>2, <2>3, <2>4, <2>5 DEF FlowOK
<1> QED
  BY <1>2, <1>4, <1>9, <1>10, <1>11 DEF OrderInv

\* The receive thread puts the first entry on the wire into the queue of its tag: it is the one
\* that comes after those that have arrived.
LEMMA ReadOrder ==
    ASSUME Types, PipeOK, OrderInv, Read, Ahead, rx
    PROVE  OrderInv'
<1>a. rx /\ wire \in Seq(Entries) /\ wire # <<>>
  BY DEF Read, Push, PipeOK
<1>b. Len(wire) \in Nat /\ Len(wire) > 0 /\ Head(wire) = wire[1] /\ Head(wire) \in Entries
  BY <1>a
<1>c. PICK x \in Entries : x = Head(wire)
  BY <1>b
<1>d. PICK t \in Tags : t = x.tag
  BY ZenonT(30), <1>c DEF Entries
<1>1. /\ rx /\ Len(wire) > 0 /\ x = wire[1] /\ x \in Entries /\ t \in Tags
      /\ rings' = [rings EXCEPT ![t] = Append(rings[t], x)]
      /\ wire' = Tail(wire) /\ rx' = rx /\ receiver' = receiver
  BY ZenonT(30), <1>a, <1>b, <1>c, <1>d DEF Read, Push
<1>2. WireOK /\ ReceivedOK /\ (Live => FlowOK)
  BY ZenonT(30), <1>1 DEF OrderInv
<1>3. /\ x.nr \in Nat /\ x.nr > 0 /\ x = Entry(t, x.nr) /\ Arrived(t) \in Nat /\ Len(wire) \in Nat
      /\ Len(receiver[t].got) \in Nat /\ Len(rings[t]) \in Nat
  <2>1. x.nr \in Nat /\ x.nr > 0 /\ x = Entry(x.tag, x.nr) /\ Arrived(t) \in Nat
    BY <1>c, <1>d, NumberTypes
  <2>2. Len(wire) \in Nat /\ Len(receiver[t].got) \in Nat /\ Len(rings[t]) \in Nat
    BY <1>b, <1>d, NumberTypes DEF PipeOK
  <2> QED  BY ZenonT(30), <1>d, <2>1, <2>2
<1>4. /\ Len(wire') = Len(wire) - 1 /\ \A k \in 1..Len(wire') : k + 1 \in 1..Len(wire) /\ wire'[k] = wire[k + 1]
      /\ \A k \in 1..Len(wire) : k = 1 \/ (k - 1 \in 1..Len(wire') /\ wire'[k - 1] = wire[k])
  BY <1>1, <1>3 DEF PipeOK
<1>5. Len(rings'[t]) = Len(rings[t]) + 1 /\ rings'[t][Len(rings[t]) + 1] = x
  BY <1>1 DEF PipeOK
<1>6. /\ \A i \in 1..Len(rings[t]) : rings'[t][i] = rings[t][i]
      /\ \A u \in Tags : u # t => rings'[u] = rings[u]
  BY <1>1 DEF PipeOK
<1>e. PICK a \in Nat, b \in Nat : a = Len(receiver[t].got) /\ b = Len(rings[t])
  BY ZenonT(30), <1>3
<1>f. a + (b + 1) = (a + b) + 1
  OBVIOUS
<1>7. Arrived(t)' = Arrived(t) + 1 /\ \A u \in Tags : u # t => Arrived(u)' = Arrived(u)
  <2>1. Len(receiver'[t].got) = a /\ Len(rings'[t]) = b + 1
    BY ZenonT(30), <1>1, <1>5, <1>e
  <2>2. \A u \in Tags : u # t => Len(receiver'[u].got) + Len(rings'[u]) = Len(receiver[u].got) + Len(rings[u])
    BY ZenonT(30), <1>1, <1>6
  <2>3. Len(receiver'[t].got) + Len(rings'[t]) = Len(receiver[t].got) + Len(rings[t]) + 1
    BY ZenonT(30), <1>e, <1>f, <2>1
  <2> QED  BY ZenonT(30), <2>2, <2>3 DEF Arrived
<1>8. x.nr = Arrived(t) + 1
  <2>1. 1 \in 1..Len(wire) /\ x.nr > Arrived(t) /\ t = x.tag
    BY <1>1, <1>2, <1>3, <1>d DEF WireOK
  <2>2. SUFFICES ASSUME x.nr > Arrived(t) + 1 PROVE FALSE
    BY <1>3, <2>1
  <2> DEFINE e == Entry(t, Arrived(t) + 1)
  <2>3. e \in Entries /\ e.tag = t /\ e.nr = Arrived(t) + 1
    <3>1. x.nr \in 1..Sends
      BY ZenonT(30), <1>1 DEF Entries
    <3>2. Arrived(t) + 1 \in 1..Sends
      BY <1>3, <2>2, <3>1, SendsAssumption
    <3> QED  BY ZenonT(30), <1>1, <3>2 DEF Entry, Entries
  <2> HIDE DEF e
  <2>4. e.tag = wire[1].tag /\ e.nr < wire[1].nr /\ e.nr > Arrived(e.tag)
    BY <1>1, <1>3, <2>1, <2>2, <2>3
  <2>5. \E j \in 1..1 - 1 : wire[j] = e
    BY ZenonT(30), <1>2, <2>1, <2>3, <2>4 DEF WireOK
  <2> QED  BY <2>5
<1>9. ReceivedOK'
  <2>1. \A u \in Tags : \A i \in 1..Len(receiver'[u].got) : receiver'[u].got[i] = Entry(u, i)
    BY <1>1, <1>2 DEF ReceivedOK, GotOK
  <2>2. ASSUME NEW u \in Tags, NEW i \in 1..Len(rings'[u])
        PROVE  rings'[u][i] = Entry(u, Len(receiver[u].got) + i)
    <3>1. CASE u # t
      BY ZenonT(30), <1>2, <1>6, <2>2, <3>1 DEF ReceivedOK
    <3>2. CASE u = t /\ i \in 1..Len(rings[t])
      BY ZenonT(30), <1>1, <1>2, <1>6, <3>2 DEF ReceivedOK
    <3>3. CASE u = t /\ i = Len(rings[t]) + 1
      <4>1. Arrived(t) = a + b /\ i = b + 1
        BY ZenonT(30), <1>e, <3>3 DEF Arrived
      <4>2. x.nr = Len(receiver[t].got) + i
        BY ZenonT(30), <1>8, <1>e, <1>f, <4>1
      <4> QED  BY ZenonT(30), <1>3, <1>5, <3>3, <4>2
    <3>4. u = t => i \in 1..Len(rings[t]) \/ i = Len(rings[t]) + 1
      BY <1>3, <1>5, <2>2
    <3> QED  BY <3>1, <3>2, <3>3, <3>4
  <2> QED  BY ZenonT(30), <1>1, <2>1, <2>2 DEF ReceivedOK, GotOK
<1>10. WireOK'
  <2>1. ASSUME NEW j \in 1..Len(wire'), NEW k \in 1..Len(wire'), j < k, wire'[j].tag = wire'[k].tag
        PROVE  wire'[j].nr < wire'[k].nr
    <3>1. j + 1 < k + 1
      BY <2>1, <1>3, <1>4
    <3> QED  BY <1>2, <1>4, <2>1, <3>1 DEF WireOK
  <2>2. ASSUME NEW k \in 1..Len(wire'), NEW w, w = wire'[k]
        PROVE  w.nr > Arrived(w.tag)'
    <3>1. w \in Entries /\ w.tag \in Tags /\ w.nr \in Nat /\ w = wire[k + 1] /\ k + 1 \in 1..Len(wire)
      BY ZenonT(30), <1>4, <2>2, NumberTypes
    <3>2. w.nr > Arrived(w.tag)
      BY ZenonT(30), <1>2, <3>1 DEF WireOK
    <3>3. w.tag = t => w.nr > x.nr
      <4>1. 1 < k + 1 /\ 1 \in 1..Len(wire)
        BY <1>3, <2>2, <3>1
      <4>2. wire[1].tag = wire[k + 1].tag => wire[1].nr < wire[k + 1].nr
        BY ZenonT(30), <1>2, <3>1, <4>1 DEF WireOK
      <4>3. x.nr < w.nr <=> w.nr > x.nr
        BY ZenonT(30), <1>3, <3>1
      <4> QED  BY ZenonT(30), <1>1, <1>d, <3>1, <4>2, <4>3
    <3> QED  BY ZenonT(30), <1>3, <1>7, <1>8, <3>1, <3>2, <3>3
  <2>3. ASSUME NEW k \in 1..Len(wire'), NEW e \in Entries,
               e.tag = wire'[k].tag, e.nr < wire'[k].nr, e.nr > Arrived(e.tag)'
        PROVE  \E j \in 1..k - 1 : wire'[j] = e
    <3>1. e.nr \in Nat /\ e.tag \in Tags /\ Arrived(e.tag) \in Nat
      BY ZenonT(30), NumberTypes
    <3>2. e.nr > Arrived(e.tag) /\ e # x
      BY <1>3, <1>d, <1>7, <1>8, <2>3, <3>1
    <3>3. PICK j \in 1..(k + 1) - 1 : wire[j] = e
      BY ZenonT(30), <1>2, <1>4, <2>3, <3>2 DEF WireOK
    <3>4. j # 1
      BY <1>1, <3>2, <3>3
    <3>5. j \in 1..Len(wire) /\ j - 1 \in 1..k - 1
      BY <1>3, <1>4, <2>3, <3>3, <3>4
    <3> QED  BY ZenonT(30), <1>4, <3>3, <3>4, <3>5
  <2> QED  BY ZenonT(30), <2>1, <2>2, <2>3 DEF WireOK, Arrived
<1>11. \A e \in Entries : Written(e)' <=> Written(e)
  <2>1. ASSUME NEW e
        PROVE  OnWire(e) <=> OnWire(e)' \/ e = x
    <3>1. OnWire(e)' => OnWire(e)
      BY <1>4 DEF OnWire
    <3>2. OnWire(x) /\ 1 \in 1..Len(wire)
      BY <1>1, <1>3 DEF OnWire
    <3>3. OnWire(e) => OnWire(e)' \/ e = x
      BY ZenonT(30), <1>1, <1>4 DEF OnWire
    <3> QED  BY <3>1, <3>2, <3>3
  <2>2. ASSUME NEW e \in Entries
        PROVE  e.nr <= Arrived(e.tag)' <=> e.nr <= Arrived(e.tag) \/ e = x
    <3>1. e.nr \in Nat /\ e.tag \in Tags /\ e = Entry(e.tag, e.nr) /\ Arrived(e.tag) \in Nat
      BY NumberTypes
    <3> QED  BY <1>3, <1>d, <1>7, <1>8, <3>1
  <2> QED  BY <2>1, <2>2 DEF Written
<1>12. Live' => FlowOK'
  <2> SUFFICES ASSUME Live' PROVE FlowOK'
    OBVIOUS
  <2>1. Live /\ FlowOK
    BY ZenonT(30), <1>2 DEF Live, Ahead
  <2>2. /\ \A u : Number(u)' = Number(u)
        /\ \A i, e : Promised(i, e)' <=> Promised(i, e)
        /\ \A e : InHand(e)' <=> InHand(e)
        /\ \A i : Place(i)' = Place(i)
    BY ZenonT(30) DEF Ahead, Number, Promised, Putting, InHand, Place
  <2>3. \A e : OnWire(e)' => OnWire(e)
    BY ZenonT(30), <1>4 DEF OnWire
  <2>4. OnWire(x)
    <3>1. 1 \in 1..Len(wire)
      BY <1>1, <1>3
    <3> QED  BY ZenonT(30), <1>1, <3>1 DEF OnWire
  <2>5. \A u \in Tags : Arrived(u)' <= Number(u)
    <3>1. x.nr <= Number(t)
      BY ZenonT(30), <1>1, <1>d, <2>1, <2>4 DEF FlowOK
    <3>2. Arrived(t)' <= Number(t)
      BY ZenonT(30), <1>7, <1>8, <3>1
    <3>3. \A u \in Tags : Arrived(u) <= Number(u)
      BY ZenonT(30), <2>1 DEF FlowOK
    <3> QED  BY ZenonT(30), <1>7, <3>2, <3>3
  <2> QED  BY ZenonT(30), <1>11, <2>1, <2>2, <2>3, <2>5 DEF FlowOK
<1>13. GotOK' /\ (conn = "open" => rx)'
  BY ZenonT(30), <1>1, <1>9 DEF ReceivedOK
<1> QED
  BY ZenonT(30), <1>1, <1>9, <1>10, <1>12, <1>13 DEF OrderInv

\* Where every entry is decides whether they are in order.
LEMMA FlowSame ==
    ASSUME FlowOK,
           \A t \in Tags : Arrived(t)' = Arrived(t) /\ Number(t)' = Number(t),
           \A e \in Entries : (OnWire(e)' <=> OnWire(e)) /\ (InHand(e)' <=> InHand(e)),
           \A i \in Slots : \A e \in Entries : Promised(i, e)' <=> Promised(i, e),
           \A i \in Slots : Place(i)' = Place(i)
    PROVE  FlowOK'
<1>1. \A e \in Entries : e.tag \in Tags
  BY ZenonT(30) DEF Entries
<1>2. \A e \in Entries : Written(e)' <=> Written(e)
  BY ZenonT(30), <1>1 DEF Written
<1>3. \A e \in Entries : Number(e.tag)' = Number(e.tag)
  BY ZenonT(30), <1>1
<1>4. \A t \in Tags : (Arrived(t) <= Number(t))'
  BY ZenonT(30) DEF FlowOK
<1>5. \A e \in Entries : (OnWire(e) \/ InHand(e) \/ (\E i \in Slots : Promised(i, e))
                              => e.nr <= Number(e.tag))'
  BY <1>3 DEF FlowOK
<1>6. \A e \in Entries : (e.nr <= Number(e.tag)
                              => Written(e) \/ InHand(e) \/ \E i \in Slots : Promised(i, e))'
  BY ZenonT(30), <1>2, <1>3 DEF FlowOK
<1>7. \A e \in Entries : (InHand(e) =>
           /\ ~Written(e)
           /\ \A f \in Entries : f.tag = e.tag /\ f.nr < e.nr => Written(f))'
  BY ZenonT(30), <1>2 DEF FlowOK
<1>8. \A e \in Entries, i \in Slots : (Promised(i, e) => ~Written(e) /\ ~InHand(e))'
  BY ZenonT(30), <1>2 DEF FlowOK
<1>9. \A e, f \in Entries, i, j \in Slots :
           (Promised(i, e) /\ Promised(j, f) /\ e.tag = f.tag /\ i # j
               => e.nr # f.nr /\ (e.nr < f.nr => Place(i) < Place(j)))'
  BY DEF FlowOK
<1> QED
  BY ZenonT(30), <1>4, <1>5, <1>6, <1>7, <1>8, <1>9 DEF FlowOK

\* An operation takes the next entry from its queue: what has arrived stays the same.
LEMMA ReceiveOrder ==
    ASSUME Types, PipeOK, OrderInv, Ahead, rx, NEW t \in Tags, Receive(t)
    PROVE  OrderInv'
<1>1. PICK g \in Seq(Entries), r \in Seq(Entries) : g = receiver[t].got /\ r = rings[t] /\ r # <<>>
  BY DEF Receive, PipeOK
<1>2. /\ receiver' = [receiver EXCEPT ![t].got = Append(g, Head(r))]
      /\ rings' = [rings EXCEPT ![t] = Tail(r)]
      /\ wire' = wire /\ rx' = rx /\ conn' = conn
  BY <1>1 DEF Receive
<1>3. /\ receiver'[t].got = Append(g, Head(r)) /\ rings'[t] = Tail(r)
      /\ \A u \in Tags : u # t => receiver'[u] = receiver[u] /\ rings'[u] = rings[u]
  BY ZenonT(30), <1>2 DEF PipeOK
<1>4. PICK a \in Nat, b \in Nat : a = Len(g) /\ b = Len(r) /\ b > 0
  BY <1>1
<1>5. /\ Len(Append(g, Head(r))) = a + 1 /\ Append(g, Head(r))[a + 1] = r[1]
      /\ \A i \in 1..a : Append(g, Head(r))[i] = g[i]
  <2>1. Head(r) = r[1] /\ r[1] \in Entries
    BY <1>1, <1>4
  <2> QED  BY <1>1, <1>4, <2>1
<1>6. Len(Tail(r)) = b - 1 /\ \A i \in 1..b - 1 : Tail(r)[i] = r[i + 1]
  BY <1>1, <1>4
<1>7. \A u \in Tags : Arrived(u)' = Arrived(u)
  <2>1. (a + 1) + (b - 1) = a + b
    BY <1>4
  <2>2. Arrived(t)' = (a + 1) + (b - 1) /\ Arrived(t) = a + b
    BY ZenonT(30), <1>1, <1>3, <1>4, <1>5, <1>6 DEF Arrived
  <2>3. \A u \in Tags : u # t => Arrived(u)' = Arrived(u)
    BY ZenonT(30), <1>3 DEF Arrived
  <2> QED  BY ZenonT(30), <2>1, <2>2, <2>3
<1>8. ReceivedOK'
  <2>1. /\ \A i \in 1..a : g[i] = Entry(t, i)
        /\ \A i \in 1..b : r[i] = Entry(t, a + i)
    BY ZenonT(30), <1>1, <1>4 DEF OrderInv, ReceivedOK, GotOK
  <2>2. ASSUME NEW i \in 1..a + 1
        PROVE  receiver'[t].got[i] = Entry(t, i)
    <3>1. CASE i \in 1..a
      BY ZenonT(30), <1>3, <1>5, <2>1, <3>1
    <3>2. CASE i = a + 1
      <4>1. r[1] = Entry(t, a + 1)
        BY <1>4, <2>1
      <4> QED  BY ZenonT(30), <1>3, <1>5, <3>2, <4>1
    <3>3. i \in 1..a \/ i = a + 1
      OBVIOUS
    <3> QED  BY ZenonT(30), <3>1, <3>2, <3>3
  <2>3. ASSUME NEW i \in 1..b - 1
        PROVE  rings'[t][i] = Entry(t, (a + 1) + i)
    <3>1. i + 1 \in 1..b /\ a + (i + 1) = (a + 1) + i
      BY <1>4
    <3> QED  BY ZenonT(30), <1>3, <1>6, <2>1, <3>1
  <2>4. ASSUME NEW u \in Tags, u # t
        PROVE  /\ \A i \in 1..Len(receiver'[u].got) : receiver'[u].got[i] = Entry(u, i)
               /\ \A i \in 1..Len(rings'[u]) : rings'[u][i] = Entry(u, Len(receiver'[u].got) + i)
    BY ZenonT(30), <1>3, <2>4 DEF OrderInv, ReceivedOK, GotOK
  <2>5. Len(receiver'[t].got) = a + 1 /\ Len(rings'[t]) = b - 1
    BY ZenonT(30), <1>3, <1>5, <1>6
  <2>6. /\ \A i \in 1..Len(receiver'[t].got) : receiver'[t].got[i] = Entry(t, i)
        /\ \A i \in 1..Len(rings'[t]) : rings'[t][i] = Entry(t, Len(receiver'[t].got) + i)
    BY ZenonT(30), <2>2, <2>3, <2>5
  <2> QED  BY ZenonT(30), <2>4, <2>6 DEF ReceivedOK, GotOK
<1>9. \A e : OnWire(e)' <=> OnWire(e)
  BY <1>2 DEF OnWire
<1>10. rx' => WireOK'
  <2>1. \A k \in 1..Len(wire) : wire[k].tag \in Tags
    BY ZenonT(30), NumberTypes
  <2>2. \A e \in Entries : e.tag \in Tags
    BY NumberTypes
  <2> QED  BY ZenonT(30), <1>2, <1>7, <2>1, <2>2 DEF OrderInv, WireOK
<1>11. Live' => FlowOK'
  <2>1. /\ \A u : Number(u)' = Number(u)
        /\ \A i, e : Promised(i, e)' <=> Promised(i, e)
        /\ \A e : InHand(e)' <=> InHand(e)
        /\ \A i : Place(i)' = Place(i)
        /\ Live' <=> Live
    BY ZenonT(30) DEF Ahead, Number, Promised, Putting, InHand, Place, Live
  <2> QED  BY ZenonT(30), <1>7, <1>9, <2>1, FlowSame DEF OrderInv
<1>12. GotOK' /\ (conn = "open" => rx)'
  BY ZenonT(30), <1>2, <1>8 DEF ReceivedOK
<1> QED
  BY ZenonT(30), <1>2, <1>8, <1>10, <1>11, <1>12 DEF OrderInv

\* When the receiving socket is not running, only what was taken from it counts.
LEMMA EndOrder ==
    ASSUME OrderInv, Ends
    PROVE  OrderInv'
<1>1. rx' = FALSE /\ conn' # "open"
  BY ZenonT(30) DEF Ends, OrderInv
<1>2. GotOK'
  BY ZenonT(30) DEF Ends, OrderInv, GotOK
<1>3. ~Live'
  BY ZenonT(30), <1>1 DEF Live
<1> QED
  BY ZenonT(30), <1>1, <1>2, <1>3 DEF OrderInv

\* Which slot an entry has depends on the slots, and on the senders that fill them.
LEMMA SlotsSame ==
    ASSUME queue'.slots = queue.slots, queue'.tail = queue.tail, Putting' = Putting,
           \A t \in Putting : sender'[t].idx = sender[t].idx /\ sender'[t].nr = sender[t].nr
    PROVE  /\ \A i \in Slots : \A e \in Entries : Promised(i, e)' <=> Promised(i, e)
           /\ \A i \in Slots : Place(i)' = Place(i)
  BY ZenonT(30) DEF Promised, Place

\* As long as the entries stay where they are, they stay in order.
LEMMA StayOrder ==
    ASSUME OrderInv, Behind, Live' => Live,
           \A t \in Tags : Number(t)' = Number(t),
           \A e \in Entries : Live' => (InHand(e)' <=> InHand(e)),
           \A i \in Slots : \A e \in Entries : Promised(i, e)' <=> Promised(i, e),
           \A i \in Slots : Place(i)' = Place(i)
    PROVE  OrderInv'
<1>1. /\ GotOK' /\ (conn = "open" => rx)' /\ (rx => ReceivedOK /\ WireOK)'
      /\ \A t \in Tags : Arrived(t)' = Arrived(t)
      /\ \A e \in Entries : OnWire(e)' <=> OnWire(e)
  BY ZenonT(30), BehindKeeps
<1>2. ASSUME Live'
      PROVE  FlowOK'
  <2>1. FlowOK
    BY ZenonT(30), <1>2 DEF OrderInv
  <2> QED  BY ZenonT(30), <1>1, <1>2, <2>1, FlowSame
<1> QED
  BY ZenonT(30), <1>1, <1>2 DEF OrderInv

\* The send thread moves on, and takes nothing.
LEMMA ThreadOrder ==
    ASSUME Types, OrderInv, Behind, Elsewhere \/ Idles \/ Releases \/ Wakes \/ Drains
    PROVE  OrderInv'
<1>1. CASE Elsewhere
  <2>1. queue' = queue /\ sender' = sender /\ thread' = thread
    BY ZenonT(30), <1>1 DEF Elsewhere
  <2>2. (Live' => Live) /\ (\A t : Number(t)' = Number(t)) /\ (\A e : InHand(e)' <=> InHand(e))
    BY ZenonT(30), <2>1 DEF Live, Behind, Number, InHand
  <2>3. Putting' = Putting
    BY ZenonT(30), <2>1 DEF Putting
  <2>4. /\ \A i \in Slots : \A e \in Entries : Promised(i, e)' <=> Promised(i, e)
        /\ \A i \in Slots : Place(i)' = Place(i)
    BY ZenonT(30), <2>1, <2>3, SlotsSame
  <2> QED  BY ZenonT(30), <2>2, <2>4, StayOrder
<1>2. CASE Idles
  <2>1. queue' = queue /\ sender' = sender
    BY ZenonT(30), <1>2 DEF Idles
  <2>2. (Live' => Live) /\ (\A t : Number(t)' = Number(t))
    BY ZenonT(30), <1>2, <2>1 DEF Idles, Live, Behind, Number
  <2>3. \A e : Live' => ~InHand(e) /\ ~InHand(e)'
    BY ZenonT(30), <1>2 DEF Idles, Live, Behind, InHand
  <2>4. Putting' = Putting
    BY ZenonT(30), <2>1 DEF Putting
  <2>5. /\ \A i \in Slots : \A e \in Entries : Promised(i, e)' <=> Promised(i, e)
        /\ \A i \in Slots : Place(i)' = Place(i)
    BY ZenonT(30), <2>1, <2>4, SlotsSame
  <2> QED  BY ZenonT(30), <2>2, <2>3, <2>5, StayOrder
<1>3. CASE Releases
  <2>1. sender' = sender /\ queue'.tail = queue.tail /\ queue'.slots = queue.slots
    <3>1. sender' = sender /\ queue' = Release(queue) /\ queue \in Queues
      BY <1>3 DEF Releases, Types, QueueOK
    <3>2. queue' = [count |-> queue.count - 1, head |-> queue.head, tail |-> queue.tail,
                    slots |-> queue.slots]
      BY <3>1, QueueAccess, Zenon
    <3> QED  BY <3>1, <3>2
  <2>2. thread.pc = "took" /\ thread'.pc = "write" /\ thread'.entry = thread.entry
    BY ZenonT(30), <1>3 DEF Releases, Types, ThreadOK
  <2>3. (Live' => Live) /\ (\A t : Number(t)' = Number(t)) /\ (\A e : InHand(e)' <=> InHand(e))
    BY <2>1, <2>2 DEF Live, Behind, Number, InHand
  <2>4. Putting' = Putting
    BY ZenonT(30), <2>1 DEF Putting
  <2>5. /\ \A i \in Slots : \A e \in Entries : Promised(i, e)' <=> Promised(i, e)
        /\ \A i \in Slots : Place(i)' = Place(i)
    BY ZenonT(30), <2>1, <2>4, SlotsSame
  <2> QED  BY <2>3, <2>5, StayOrder
<1>4. CASE Wakes
  <2>1. thread.entry \in Entries /\ SenderOK /\ Wake(thread.entry)
    BY ZenonT(30), <1>4 DEF Wakes, Types, ThreadOK, Holding
  <2>2. \A t \in Tags : /\ sender'[t].pc = sender[t].pc /\ sender'[t].nr = sender[t].nr
                        /\ sender'[t].idx = sender[t].idx
    BY ZenonT(30), <2>1, WakeKeeps
  <2>3. queue' = queue /\ thread.pc = "done" /\ thread'.pc = "check"
    BY <1>4 DEF Wakes
  <2>4. /\ Live' => Live
        /\ \A t \in Tags : Number(t)' = Number(t)
        /\ \A e : ~InHand(e) /\ ~InHand(e)'
    BY ZenonT(30), <2>2, <2>3 DEF Live, Behind, Number, InHand
  <2>5. Putting' = Putting
    BY ZenonT(30), <2>2 DEF Putting
  <2>6. \A t \in Putting : sender'[t].idx = sender[t].idx /\ sender'[t].nr = sender[t].nr
    BY ZenonT(30), <2>2 DEF Putting
  <2>7. /\ \A i \in Slots : \A e \in Entries : Promised(i, e)' <=> Promised(i, e)
        /\ \A i \in Slots : Place(i)' = Place(i)
    BY ZenonT(30), <2>3, <2>5, <2>6, SlotsSame
  <2> QED  BY ZenonT(30), <2>4, <2>7, StayOrder
<1>5. CASE Drains
  <2>1. ~Live'
    BY ZenonT(30), <1>5 DEF Drains, Live
  <2> QED  BY ZenonT(30), <2>1, BehindKeeps DEF OrderInv
<1> QED
  BY ZenonT(30), <1>1, <1>2, <1>3, <1>4, <1>5

\* A sender reserves a slot or gives it back, fills the one it has claimed, or wakes and waits.
LEMMA SenderOrder ==
    ASSUME Types, QueueInv, OrderInv, Behind, NEW t \in Tags,
           Call(t) \/ RollBackSlot(t) \/ PutEntry(t) \/ WakeThread(t) \/ WaitDone(t)
    PROVE  OrderInv'
<1>1. thread' = thread /\ sender' = [sender EXCEPT ![t] = sender'[t]]
  BY ZenonT(30), CallAccess DEF Types
<1>2. \A u \in Tags : u # t => sender'[u] = sender[u]
  BY ZenonT(30), <1>1 DEF Types, SenderOK
<1>3. (Live' => Live) /\ (\A e : InHand(e)' <=> InHand(e))
  BY ZenonT(30), <1>1 DEF Live, Behind, InHand
<1>4. sender \in [Tags -> Senders] /\ queue \in Queues /\ sender[t].nr \in Int
  BY SendsAssumption DEF Types, SenderOK, Senders, QueueOK
<1>5. SUFFICES /\ Number(t)' = Number(t)
               /\ \A i \in Slots : \A e \in Entries : Promised(i, e)' <=> Promised(i, e)
               /\ \A i \in Slots : Place(i)' = Place(i)
  <2>1. \A u \in Tags : u # t => Number(u)' = Number(u)
    BY ZenonT(30), <1>2 DEF Number
  <2>2. \A u \in Tags : Number(u)' = Number(u)
    BY ZenonT(30), <1>5, <2>1
  <2> QED  BY ZenonT(30), <1>3, <1>5, <2>2, StayOrder
<1>6. ASSUME queue'.slots = queue.slots, queue'.tail = queue.tail,
             sender[t].pc # "put", sender'[t].pc # "put"
      PROVE  /\ \A i \in Slots : \A e \in Entries : Promised(i, e)' <=> Promised(i, e)
             /\ \A i \in Slots : Place(i)' = Place(i)
  <2>1. Putting' = Putting /\ t \notin Putting
    BY ZenonT(30), <1>2, <1>6 DEF Putting
  <2>2. \A u \in Putting : sender'[u].idx = sender[u].idx /\ sender'[u].nr = sender[u].nr
    BY ZenonT(30), <1>2, <2>1 DEF Putting
  <2> QED  BY ZenonT(30), <1>6, <2>1, <2>2, SlotsSame
<1>7. CASE Call(t)
  <2>1. sender[t].pc = "call"
    BY ZenonT(30), <1>7 DEF Call
  <2>2. CASE ~tx
    <3>1. queue' = queue /\ sender'[t].pc = "failed" /\ sender'[t].nr = sender[t].nr
      BY ZenonT(30), <1>4, <1>7, <2>2 DEF Call, Become, Senders
    <3>2. Number(t)' = Number(t)
      BY <2>1, <3>1 DEF Number
    <3> QED  BY ZenonT(30), <1>6, <2>1, <3>1, <3>2
  <2>3. CASE tx
    <3>0. (sender[t].nr + 1) - 1 = sender[t].nr
      BY <1>4
    <3>1. PICK p \in {"roll back", "claim"}, h \in {"none", "parked"} :
            sender' = [sender EXCEPT ![t].nr = sender[t].nr + 1, ![t].pc = p, ![t].handle = h]
      BY <1>7, <2>3, Zenon DEF Call
    <3>2. sender'[t].nr = sender[t].nr + 1 /\ sender'[t].pc = p
      BY ZenonT(30), <1>4, <3>1 DEF Senders
    <3>3. queue'.tail = queue.tail /\ queue'.slots = queue.slots
      <4>1. queue' = Reserve(queue)
        BY ZenonT(30), <1>7, <2>3 DEF Call
      <4>2. queue' = [count |-> queue.count + 1, head |-> queue.head, tail |-> queue.tail,
                      slots |-> queue.slots]
        BY <1>4, <4>1, QueueAccess, Zenon
      <4> QED  BY ZenonT(30), <4>2
    <3>4. Number(t)' = (sender[t].nr + 1) - 1 /\ Number(t) = sender[t].nr
      BY ZenonT(30), <2>1, <3>2 DEF Number
    <3>5. sender'[t].pc # "put"
      BY ZenonT(30), <3>1, <3>2
    <3> QED  BY ZenonT(30), <1>6, <2>1, <3>0, <3>3, <3>4, <3>5
  <2> QED  BY ZenonT(30), <2>2, <2>3
<1>8. CASE RollBackSlot(t)
  <2>1. sender[t].pc = "roll back" /\ queue' = RollBack(queue)
        /\ sender' = [sender EXCEPT ![t].pc = "failed", ![t].nr = @ - 1, ![t].handle = "none"]
    BY ZenonT(30), <1>8 DEF RollBackSlot
  <2>2. sender'[t].pc = "failed" /\ sender'[t].nr = sender[t].nr - 1
    BY ZenonT(30), <1>4, <2>1 DEF Senders
  <2>3. Number(t)' = Number(t)
    BY ZenonT(30), <2>1, <2>2 DEF Number
  <2>4. queue'.tail = queue.tail /\ queue'.slots = queue.slots
    <3>1. queue' = [count |-> queue.count - 1, head |-> queue.head, tail |-> queue.tail,
                    slots |-> queue.slots]
      BY <1>4, <2>1, QueueAccess, Zenon
    <3> QED  BY <3>1
  <2> QED  BY ZenonT(30), <1>6, <2>1, <2>2, <2>3, <2>4
<1>9. CASE WakeThread(t) \/ WaitDone(t)
  <2>1. /\ queue' = queue /\ sender[t].pc \in {"wake", "wait"}
        /\ sender'[t].pc \in {"call", "wait"} /\ sender'[t].nr = sender[t].nr
    BY ZenonT(30), <1>4, <1>9 DEF WakeThread, WaitDone, Become, Senders
  <2>2. Number(t)' = Number(t)
    BY ZenonT(30), <2>1 DEF Number
  <2> QED  BY ZenonT(30), <1>6, <2>1, <2>2
<1>10. CASE PutEntry(t)
  <2>1. PICK x, s : x = Entry(t, sender[t].nr) /\ s = sender[t].idx
    OBVIOUS
  <2>2. /\ sender[t].pc = "put" /\ sender'[t].pc = "wake" /\ sender'[t].nr = sender[t].nr
        /\ queue' = Put(queue, s, x)
    BY <1>4, <1>10, <2>1 DEF PutEntry, Become, Senders
  <2>3. s \in Slots
    BY <1>4, <2>1 DEF Senders
  <2>4. queue'.tail = queue.tail /\ queue'.slots = [queue.slots EXCEPT ![s] = x]
    BY ZenonT(30), <1>4, <2>2 DEF Put, Queues
  <2>5. queue'.slots[s] = x /\ \A i \in Slots : i # s => queue'.slots[i] = queue.slots[i]
    BY ZenonT(30), <1>4, <2>3, <2>4 DEF Queues
  <2>6. t \in Putting /\ Putting' = Putting \ {t}
    BY ZenonT(30), <1>2, <2>2 DEF Putting
  <2>7. queue.slots[s] = NoEntry /\ \A u \in Putting : sender[u].idx = s => u = t
    BY ZenonT(30), <2>1, <2>2, <2>6 DEF QueueInv, NoOverwrite, OneEach
  <2>8. ASSUME NEW i \in Slots, NEW e \in Entries
        PROVE  Promised(i, e)' <=> Promised(i, e)
    <3>1. \A u \in Putting' : sender'[u] = sender[u] /\ u \in Putting /\ u # t
      BY ZenonT(30), <1>2, <2>6 DEF Putting
    <3>2. CASE i = s
      <4>1. Promised(i, e) <=> e = x
        BY ZenonT(30), <2>1, <2>6, <2>7, <3>2, EntryIsSomething DEF Promised
      <4>2. Promised(i, e)' <=> e = x
        BY ZenonT(30), <2>5, <2>7, <3>1, <3>2 DEF Promised
      <4> QED  BY ZenonT(30), <4>1, <4>2
    <3>3. CASE i # s
      <4>1. queue'.slots[i] = queue.slots[i] /\ sender[t].idx # i
        BY ZenonT(30), <2>1, <2>5, <3>3
      <4> QED  BY ZenonT(30), <2>6, <3>1, <4>1 DEF Promised
    <3> QED  BY ZenonT(30), <3>2, <3>3
  <2>9. Number(t)' = Number(t) /\ \A i \in Slots : Place(i)' = Place(i)
    BY ZenonT(30), <2>2, <2>4 DEF Number, Place
  <2> QED  BY <2>8, <2>9
<1> QED
  BY ZenonT(30), <1>7, <1>8, <1>9, <1>10

\* The place of a slot and the slot at a place.
LEMMA Places ==
    ASSUME Types
    PROVE  /\ \A i \in Slots : Place(i) \in Slots /\ At(queue.tail, Place(i)) = i
           /\ \A k \in Slots : Place(At(queue.tail, k)) = k
<1>1. PICK s \in Slots : s = queue.tail
  BY ZenonT(30) DEF Types, QueueOK, Queues
<1>2. \A i \in Slots : Place(i) = IF s <= i THEN i - s ELSE i - s + Capacity
  BY ZenonT(30), <1>1 DEF Place
<1>3. \A i \in Slots : Place(i) \in Slots /\ At(s, Place(i)) = i
  BY <1>2, CapacityAssumption DEF At, Slots
<1>4. \A k \in Slots : At(s, k) \in Slots /\ Place(At(s, k)) = k
  <2>1. \A k \in Slots : At(s, k) \in Slots
    BY CapacityAssumption DEF At, Slots
  <2>2. ASSUME NEW k \in Slots
        PROVE  (IF s <= At(s, k) THEN At(s, k) - s ELSE At(s, k) - s + Capacity) = k
    BY CapacityAssumption DEF At, Slots
  <2> QED  BY ZenonT(30), <1>2, <2>1, <2>2
<1> QED
  BY ZenonT(30), <1>1, <1>3, <1>4

\* A slot that has an entry, or was claimed for one, is in use.
LEMMA PromisedUsed ==
    ASSUME NEW i \in Slots, NEW e \in Entries, Promised(i, e)
    PROVE  i \in Used
  BY ZenonT(30), EntryIsSomething DEF Promised, Used

\* The send thread takes the entry at the front: of its tag there is none before it.
LEMMA TakesOrder ==
    ASSUME Types, PipeOK, QueueInv, OrderInv, Behind, Takes, thread.pc \in {"poll", "spin"}
    PROVE  OrderInv'
<1>1. PICK s \in Slots : s = queue.tail
  BY DEF Types, QueueOK, Queues
<1>2. PICK x \in Entries : x = queue.slots[s]
  BY ZenonT(30), <1>1 DEF Takes, Front, Types, QueueOK, Queues
<1>3. /\ sender' = sender /\ thread'.pc = "took" /\ thread'.entry = x
      /\ thread.pc \notin {"took", "write"}
      /\ queue'.tail = (s + 1) % Capacity
      /\ queue'.slots = [queue.slots EXCEPT ![s] = NoEntry]
  BY ZenonT(30), <1>1, <1>2, QueueAccess DEF Takes, Dequeue, Front, Types, QueueOK, Holding
<1>4. /\ GotOK' /\ (conn = "open" => rx)' /\ (rx => ReceivedOK /\ WireOK)'
      /\ \A t \in Tags : Arrived(t)' = Arrived(t)
      /\ \A e \in Entries : (OnWire(e)' <=> OnWire(e)) /\ (Written(e)' <=> Written(e))
      /\ conn' = "open" => conn = "open"
  BY ZenonT(30), BehindKeeps
<1>5. SUFFICES ASSUME Live' PROVE FlowOK'
  BY ZenonT(30), <1>4 DEF OrderInv
<1>6. FlowOK
  BY ZenonT(30), <1>4, <1>5 DEF Live, OrderInv
<1>7. \A e : ~InHand(e) /\ (InHand(e)' <=> e = x)
  BY ZenonT(30), <1>3 DEF InHand
<1>8. Putting' = Putting /\ \A t : Number(t)' = Number(t)
  BY ZenonT(30), <1>3 DEF Putting, Number
<1>9. \A i \in Slots : i # s => queue'.slots[i] = queue.slots[i]
  BY ZenonT(30), <1>3 DEF Types, QueueOK, Queues
<1>10. queue'.slots[s] = NoEntry
  BY ZenonT(30), <1>3 DEF Types, QueueOK, Queues
<1>11. \A t \in Putting : sender[t].idx # s
  BY <1>2, EntryIsSomething DEF QueueInv, NoOverwrite, Putting
<1>12. \A f \in Entries : Promised(s, f) <=> f = x
  BY ZenonT(30), <1>2, <1>11 DEF Promised
<1>13. \A i \in Slots : \A f \in Entries : Promised(i, f)' <=> i # s /\ Promised(i, f)
  BY ZenonT(30), <1>3, <1>8, <1>9, <1>10, <1>11, EntryIsSomething DEF Promised
<1>14. Place(s) = 0 /\ \A i \in Slots : i # s => Place(i)' = Place(i) - 1
  <2>1. (s + 1) % Capacity = IF s + 1 = Capacity THEN 0 ELSE s + 1
    BY ZenonT(30), NextSlot
  <2>2. Place(s) = 0
    BY <1>1 DEF Place, Slots
  <2>3. ASSUME NEW i \in Slots, i # s
        PROVE  Place(i)' = Place(i) - 1
    <3>1. CASE s + 1 = Capacity
      <4>1. queue'.tail = 0
        BY ZenonT(30), <1>3, <2>1, <3>1
      <4> QED  BY <1>1, <2>3, <3>1, <4>1, CapacityAssumption DEF Place, Slots
    <3>2. CASE s + 1 # Capacity
      <4>1. queue'.tail = s + 1
        BY ZenonT(30), <1>3, <2>1, <3>2
      <4> QED  BY <1>1, <2>3, <3>2, <4>1, CapacityAssumption DEF Place, Slots
    <3> QED  BY ZenonT(30), <3>1, <3>2
  <2> QED  BY ZenonT(30), <2>2, <2>3
<1>15. /\ \A i \in Slots : Place(i) \in Nat
       /\ \A e \in Entries : e.tag \in Tags /\ e.nr \in Nat /\ Number(e.tag) \in Int
  BY ZenonT(30), NumberTypes
<1>16. \A t \in Tags : Arrived(t)' <= Number(t)'
  BY ZenonT(30), <1>4, <1>6, <1>8 DEF FlowOK
<1>17. \A e \in Entries : OnWire(e)' \/ InHand(e)' \/ (\E i \in Slots : Promised(i, e)')
                              => e.nr <= Number(e.tag)'
  <2>1. \A e \in Entries : OnWire(e) \/ (\E i \in Slots : Promised(i, e)) => e.nr <= Number(e.tag)
    BY ZenonT(30), <1>6 DEF FlowOK
  <2> QED  BY ZenonT(30), <1>4, <1>7, <1>8, <1>12, <1>13, <2>1
<1>18. \A e \in Entries : e.nr <= Number(e.tag)'
                              => Written(e)' \/ InHand(e)' \/ \E i \in Slots : Promised(i, e)'
  <2>1. \A e \in Entries : e.nr <= Number(e.tag) => Written(e) \/ \E i \in Slots : Promised(i, e)
    BY ZenonT(30), <1>6, <1>7 DEF FlowOK
  <2> QED  BY ZenonT(30), <1>4, <1>7, <1>8, <1>12, <1>13, <2>1
<1>19. ~Written(x)
  BY ZenonT(30), <1>6, <1>12 DEF FlowOK
<1>20. ASSUME NEW f \in Entries, f.tag = x.tag, f.nr < x.nr
       PROVE  Written(f)
  <2>1. x.nr <= Number(x.tag)
    BY ZenonT(30), <1>6, <1>12 DEF FlowOK
  <2>2. f.nr <= Number(f.tag)
    BY <1>15, <1>20, <2>1
  <2>3. ASSUME NEW i \in Slots, Promised(i, f)
        PROVE  FALSE
    <3>1. i # s
      BY <1>12, <1>15, <1>20, <2>3
    <3>2. Place(i) < Place(s)
      BY ZenonT(30), <1>6, <1>12, <1>20, <2>3, <3>1 DEF FlowOK
    <3> QED  BY <1>14, <1>15, <3>2
  <2> QED  BY ZenonT(30), <1>6, <1>7, <2>2, <2>3 DEF FlowOK
<1>21. \A e \in Entries : InHand(e)' =>
           /\ ~Written(e)'
           /\ \A f \in Entries : f.tag = e.tag /\ f.nr < e.nr => Written(f)'
  BY ZenonT(30), <1>4, <1>7, <1>19, <1>20
<1>22. \A e \in Entries, i \in Slots : Promised(i, e)' => ~Written(e)' /\ ~InHand(e)'
  <2>1. \A i \in Slots : i # s => ~Promised(i, x)
    BY ZenonT(30), <1>6, <1>12 DEF FlowOK
  <2>2. \A e \in Entries, i \in Slots : Promised(i, e) => ~Written(e)
    BY ZenonT(30), <1>6 DEF FlowOK
  <2> QED  BY ZenonT(30), <1>4, <1>7, <1>13, <2>1, <2>2
<1>23. \A e, f \in Entries, i, j \in Slots :
           Promised(i, e)' /\ Promised(j, f)' /\ e.tag = f.tag /\ i # j
               => e.nr # f.nr /\ (e.nr < f.nr => Place(i)' < Place(j)')
  <2> SUFFICES ASSUME NEW e \in Entries, NEW f \in Entries, NEW i \in Slots, NEW j \in Slots,
                      Promised(i, e)', Promised(j, f)', e.tag = f.tag, i # j
               PROVE  e.nr # f.nr /\ (e.nr < f.nr => Place(i)' < Place(j)')
    BY ZenonT(30)
  <2>1. i # s /\ j # s /\ Promised(i, e) /\ Promised(j, f)
    BY ZenonT(30), <1>13
  <2>2. e.nr # f.nr /\ (e.nr < f.nr => Place(i) < Place(j))
    BY <1>6, <2>1 DEF FlowOK
  <2>3. Place(i)' = Place(i) - 1 /\ Place(j)' = Place(j) - 1
    BY ZenonT(30), <1>14, <2>1
  <2> QED  BY <1>15, <2>2, <2>3
<1> QED
  BY ZenonT(30), <1>16, <1>17, <1>18, <1>21, <1>22, <1>23 DEF FlowOK

\* A sender claims the slot at head: of its tag there is none behind it.
LEMMA ClaimOrder ==
    ASSUME Countable, Types, PipeOK, QueueInv, OrderInv, Behind, NEW t \in Tags, ClaimSlot(t)
    PROVE  OrderInv'
<1>1. PICK h \in Slots : h = queue.head
  BY DEF Types, QueueOK, Queues
<1>2. PICK m \in 1..Sends : m = sender[t].nr
  BY SendsAssumption DEF ClaimSlot, Types, SenderOK, Senders
<1>3. PICK x \in Entries : x = Entry(t, m)
  BY ZenonT(30), EntryIsSomething
<1>a. x.tag = t /\ x.nr = m
  BY ZenonT(30), <1>3 DEF Entry
<1>4. /\ \A u \in Tags : u # t => sender'[u] = sender[u]
      /\ sender[t].pc = "claim" /\ sender'[t].pc = "put"
      /\ sender'[t].idx = h /\ sender'[t].nr = m
  BY ZenonT(30), <1>1, <1>2 DEF ClaimSlot, Types, SenderOK, Senders
<1>5. queue'.tail = queue.tail /\ queue'.slots = queue.slots
  <2>1. queue' = Claim(queue) /\ queue \in Queues
    BY DEF ClaimSlot, Types, QueueOK
  <2>2. queue' = [count |-> queue.count, head |-> (queue.head + 1) % Capacity,
                  tail |-> queue.tail, slots |-> queue.slots]
    BY <2>1, QueueAccess, Zenon
  <2> QED  BY ZenonT(30), <2>2
<1>6. thread' = thread
  BY DEF ClaimSlot
<1>7. Putting' = Putting \cup {t} /\ t \notin Putting
  BY ZenonT(30), <1>4 DEF Putting
<1>8. \A u \in Putting : sender'[u] = sender[u] /\ u # t
  BY ZenonT(30), <1>4, <1>7 DEF Putting
<1>9. \A i \in Slots : \A e \in Entries : Promised(i, e)' <=> Promised(i, e) \/ (i = h /\ e = x)
  BY <1>3, <1>4, <1>5, <1>7, <1>8 DEF Promised
<1>10. /\ Number(t) = m - 1 /\ Number(t)' = m
       /\ \A u \in Tags : u # t => Number(u)' = Number(u)
  BY ZenonT(30), <1>2, <1>4 DEF Number
<1>11. (\A e : InHand(e)' <=> InHand(e)) /\ (\A i : Place(i)' = Place(i)) /\ (Live' => Live)
  BY ZenonT(30), <1>5, <1>6 DEF InHand, Place, Live, Behind
<1>12. h \notin Used /\ \A i \in Used : Place(i) < Place(h)
  <2>1. PICK n \in 0..Capacity : Ring(n)
    BY ZenonT(30) DEF QueueInv
  <2>2. n \in Slots
    <3>1. Cardinality(Claiming) \in Nat /\ Cardinality(Claiming) # 0 /\ Taken \in Nat
      <4>1. t \in Claiming /\ Claiming \in SUBSET Tags
        BY ZenonT(30), <1>4 DEF Claiming
      <4> QED  BY <4>1, Counting DEF Countable
    <3> QED  BY <2>1, <3>1, CapacityAssumption DEF Ring, Slots
  <2>3. Place(h) = n
    BY ZenonT(30), <1>1, <2>1, <2>2, Places DEF Ring
  <2>4. ASSUME NEW i \in Slots
        PROVE  i \in Used <=> Place(i) < n
    <3>1. Place(i) \in Slots /\ At(queue.tail, Place(i)) = i
      BY ZenonT(30), Places
    <3> QED  BY ZenonT(30), <2>1, <3>1 DEF Ring, Segment
  <2>5. ~(n < n)
    BY <2>1
  <2> QED  BY ZenonT(30), <2>3, <2>4, <2>5 DEF Used
<1>13. /\ GotOK' /\ (conn = "open" => rx)' /\ (rx => ReceivedOK /\ WireOK)'
       /\ \A u \in Tags : Arrived(u)' = Arrived(u)
       /\ \A e \in Entries : (OnWire(e)' <=> OnWire(e)) /\ (Written(e)' <=> Written(e))
  BY ZenonT(30), BehindKeeps
<1>14. SUFFICES ASSUME Live' PROVE FlowOK'
  BY ZenonT(30), <1>13 DEF OrderInv
<1>15. FlowOK
  BY ZenonT(30), <1>11, <1>14 DEF OrderInv
<1>16. /\ \A e \in Entries : e.tag \in Tags /\ e.nr \in Nat /\ e = Entry(e.tag, e.nr)
       /\ \A u \in Tags : Number(u) \in Int /\ Arrived(u) \in Nat
  BY ZenonT(30), NumberTypes
<1>17. \A u \in Tags : Arrived(u)' <= Number(u)'
  <2>1. \A u \in Tags : Arrived(u) <= Number(u)
    BY ZenonT(30), <1>15 DEF FlowOK
  <2> QED  BY <1>10, <1>13, <1>16, <2>1
<1>18. \A e \in Entries : OnWire(e) \/ InHand(e) \/ (\E i \in Slots : Promised(i, e))
                              => e.nr <= Number(e.tag)
  BY ZenonT(30), <1>15 DEF FlowOK
<1>19. \A e \in Entries : e.nr <= Number(e.tag)' <=> e.nr <= Number(e.tag) \/ e = x
  <2>1. ASSUME NEW e \in Entries, e.tag = t
        PROVE  e.nr <= m <=> e.nr <= m - 1 \/ e = x
    <3>1. e.nr = m <=> e = x
      BY ZenonT(30), <1>3, <1>a, <1>16, <2>1
    <3>2. e.nr <= m <=> e.nr <= m - 1 \/ e.nr = m
      BY <1>16
    <3> QED  BY ZenonT(30), <3>1, <3>2
  <2> QED  BY ZenonT(30), <1>a, <1>10, <1>16, <2>1
<1>20. ~OnWire(x) /\ ~InHand(x) /\ ~Written(x)
  <2>1. ~(m <= m - 1)
    OBVIOUS
  <2>2. ~OnWire(x) /\ ~InHand(x)
    BY ZenonT(30), <1>a, <1>10, <1>18, <2>1
  <2>3. ~(m <= Arrived(t))
    BY <1>10, <1>15, <1>16 DEF FlowOK
  <2> QED  BY ZenonT(30), <1>a, <2>2, <2>3 DEF Written
<1>21. \A e \in Entries : OnWire(e)' \/ InHand(e)' \/ (\E i \in Slots : Promised(i, e)')
                              => e.nr <= Number(e.tag)'
  BY ZenonT(30), <1>9, <1>11, <1>13, <1>18, <1>19
<1>22. \A e \in Entries : e.nr <= Number(e.tag)'
                              => Written(e)' \/ InHand(e)' \/ \E i \in Slots : Promised(i, e)'
  <2>1. \A e \in Entries : e.nr <= Number(e.tag)
                              => Written(e) \/ InHand(e) \/ \E i \in Slots : Promised(i, e)
    BY ZenonT(30), <1>15 DEF FlowOK
  <2> QED  BY ZenonT(30), <1>9, <1>11, <1>13, <1>19, <2>1
<1>23. \A e \in Entries : InHand(e)' =>
           /\ ~Written(e)'
           /\ \A f \in Entries : f.tag = e.tag /\ f.nr < e.nr => Written(f)'
  BY ZenonT(30), <1>11, <1>13, <1>15 DEF FlowOK
<1>24. \A e \in Entries, i \in Slots : Promised(i, e)' => ~Written(e)' /\ ~InHand(e)'
  <2>1. \A e \in Entries, i \in Slots : Promised(i, e) => ~Written(e) /\ ~InHand(e)
    BY ZenonT(30), <1>15 DEF FlowOK
  <2> QED  BY ZenonT(30), <1>9, <1>11, <1>13, <1>20, <2>1
<1>25. \A e, f \in Entries, i, j \in Slots :
           Promised(i, e)' /\ Promised(j, f)' /\ e.tag = f.tag /\ i # j
               => e.nr # f.nr /\ (e.nr < f.nr => Place(i)' < Place(j)')
  <2> SUFFICES ASSUME NEW e \in Entries, NEW f \in Entries, NEW i \in Slots, NEW j \in Slots,
                      Promised(i, e)', Promised(j, f)', e.tag = f.tag, i # j
               PROVE  e.nr # f.nr /\ (e.nr < f.nr => Place(i) < Place(j))
    BY ZenonT(30), <1>11
  <2>1. CASE Promised(i, e) /\ Promised(j, f)
    BY ZenonT(30), <1>15, <2>1 DEF FlowOK
  <2>2. CASE Promised(i, e) /\ j = h /\ f = x
    <3>1. Place(i) < Place(h)
      BY ZenonT(30), <1>12, <2>2, PromisedUsed
    <3>2. e.nr <= m - 1
      BY ZenonT(30), <1>a, <1>10, <1>18, <2>2
    <3> QED  BY <1>a, <1>16, <2>2, <3>1, <3>2
  <2>3. CASE i = h /\ e = x /\ Promised(j, f)
    <3>1. f.nr <= m - 1
      BY ZenonT(30), <1>a, <1>10, <1>18, <2>3
    <3> QED  BY <1>a, <1>16, <2>3, <3>1
  <2> QED  BY ZenonT(30), <1>9, <2>1, <2>2, <2>3
<1> QED
  BY ZenonT(30), <1>17, <1>21, <1>22, <1>23, <1>24, <1>25 DEF FlowOK

\* Nothing has been sent.
LEMMA OrderInvInit ==
    ASSUME Init
    PROVE  OrderInv
<1>0. /\ rx /\ wire = <<>> /\ Len(wire) = 0
      /\ \A t \in Tags : Len(receiver[t].got) = 0 /\ Len(rings[t]) = 0
  BY DEF Init, NewReceiver
<1>1. GotOK /\ ReceivedOK /\ WireOK /\ rx /\ \A t \in Tags : Arrived(t) = 0
  <2>1. 1..0 = {}
    OBVIOUS
  <2>2. GotOK /\ ReceivedOK
    BY ZenonT(30), <1>0, <2>1 DEF GotOK, ReceivedOK
  <2>3. WireOK
    BY ZenonT(30), <1>0, <2>1 DEF WireOK
  <2>4. 0 + 0 = 0
    OBVIOUS
  <2> QED  BY ZenonT(30), <1>0, <2>2, <2>3, <2>4 DEF Arrived
<1>2. /\ \A e \in Entries : ~OnWire(e) /\ ~InHand(e) /\ \A i \in Slots : ~Promised(i, e)
      /\ \A t \in Tags : Number(t) = 0
  <2>1. \A e \in Entries : \A i \in Slots : ~Promised(i, e)
    BY ZenonT(30), EntryIsSomething DEF Init, EmptyQueue, Slots, NewSender, Promised, Putting
  <2>2. \A e \in Entries : ~OnWire(e) /\ ~InHand(e)
    BY DEF Init, OnWire, InHand
  <2>3. \A t \in Tags : sender[t].pc = "call" /\ sender[t].nr = 0
    BY DEF Init, NewSender
  <2>4. \A t \in Tags : Number(t) = 0
    BY ZenonT(30), <2>3 DEF Number
  <2> QED  BY ZenonT(30), <2>1, <2>2, <2>4
<1>3. \A e \in Entries : e.tag \in Tags /\ e.nr > 0 /\ e.nr \in Nat
  BY SendsAssumption DEF Entries
<1>4. FlowOK
  BY <1>1, <1>2, <1>3 DEF FlowOK
<1> QED
  BY ZenonT(30), <1>1, <1>4 DEF OrderInv

\* No step puts the entries out of order.
LEMMA OrderInvStep ==
    ASSUME Countable, Types, PipeOK, QueueInv, OrderInv, [Next]_vars
    PROVE  OrderInv'
<1>1. CASE Behind /\ (Elsewhere \/ Idles \/ Releases \/ Wakes \/ Drains)
  BY ZenonT(30), <1>1, ThreadOrder
<1>2. CASE Behind /\ Takes /\ thread.pc \in {"poll", "spin"}
  BY ZenonT(30), <1>2, TakesOrder
<1>3. ASSUME NEW t \in Tags, Behind,
             Call(t) \/ RollBackSlot(t) \/ PutEntry(t) \/ WakeThread(t) \/ WaitDone(t)
      PROVE  OrderInv'
  BY ZenonT(30), <1>3, SenderOrder
<1>4. ASSUME NEW t \in Tags, Behind, ClaimSlot(t)
      PROVE  OrderInv'
  BY ZenonT(30), <1>4, ClaimOrder
<1>5. CASE Writes
  BY ZenonT(30), <1>5, WritesOrder
<1>6. CASE Ahead /\ rx /\ Read
  BY ZenonT(30), <1>6, ReadOrder
<1>7. ASSUME NEW t \in Tags, Ahead, rx, Receive(t)
      PROVE  OrderInv'
  BY ZenonT(30), <1>7, ReceiveOrder
<1>8. CASE Ends
  BY ZenonT(30), <1>8, EndOrder
<1> QED
  BY ZenonT(30), OrderCases, <1>1, <1>2, <1>3, <1>4, <1>5, <1>6, <1>7, <1>8

------------------------------------------------------------------------------
(* The specification. *)

INSTANCE FiniteSetTheorems

\* There are finitely many operations.
LEMMA TagsCountable == Countable
<1> SUFFICES ASSUME NEW S \in SUBSET Tags
             PROVE  /\ Cardinality(S) \in Nat
                    /\ S = {} <=> Cardinality(S) = 0
                    /\ \A t \in Tags \ S : Cardinality(S \cup {t}) = Cardinality(S) + 1
                    /\ \A t \in S : Cardinality(S \ {t}) = Cardinality(S) - 1
  BY ZenonT(30) DEF Countable
<1>1. IsFiniteSet(S)
  BY ZenonT(30), SendsAssumption, FS_Subset
<1>2. Cardinality(S) \in Nat /\ (S = {} <=> Cardinality(S) = 0)
  BY ZenonT(30), <1>1, FS_CardinalityType, FS_EmptySet
<1>3. \A t \in Tags \ S : Cardinality(S \cup {t}) = Cardinality(S) + 1
  BY ZenonT(30), <1>1, FS_AddElement
<1>4. \A t \in S : Cardinality(S \ {t}) = Cardinality(S) - 1
  BY ZenonT(30), <1>1, FS_RemoveElement
<1> QED  BY ZenonT(30), <1>2, <1>3, <1>4

\* However many producers enqueue at the same time and whatever the capacity of the queue, a
\* producer finds the slot it has claimed empty: the assertion in enqueue cannot fail.
THEOREM SlotsAreFree == Spec => []NoOverwrite
<1>1. Init => Types /\ QueueInv
  BY ZenonT(30), TypesInit, QueueInvInit, TagsCountable
<1>2. Types /\ QueueInv /\ [Next]_vars => (Types /\ QueueInv)'
  BY ZenonT(30), TypesStep, QueueInvStep, TagsCountable
<1>3. QueueInv => NoOverwrite
  BY ZenonT(30) DEF QueueInv
<1> QED  BY <1>1, <1>2, <1>3, PTL DEF Spec

\* For any number of operations, entries and slots: what an operation receives while the
\* receiving socket is running is what was sent under its tag, in order and without a gap.
THEOREM ReceivedInOrder == Spec => []DeliveredInOrder
<1>1. Init => Types /\ PipeOK /\ QueueInv /\ OrderInv
  BY ZenonT(30), TypesInit, PipeInit, QueueInvInit, OrderInvInit, TagsCountable
<1>2. Types /\ PipeOK /\ QueueInv /\ OrderInv /\ [Next]_vars
          => (Types /\ PipeOK /\ QueueInv /\ OrderInv)'
  BY ZenonT(30), TypesStep, PipeStep, QueueInvStep, OrderInvStep, TagsCountable
<1>3. PipeOK /\ OrderInv => DeliveredInOrder
  <2> SUFFICES ASSUME PipeOK, OrderInv, NEW t \in Tags
               PROVE  receiver[t].got = [i \in 1..Len(receiver[t].got) |-> Entry(t, i)]
    BY ZenonT(30) DEF DeliveredInOrder
  <2>1. receiver[t].got \in Seq(Entries)
    BY ZenonT(30) DEF PipeOK
  <2>2. \A i \in 1..Len(receiver[t].got) : receiver[t].got[i] = Entry(t, i)
    BY DEF OrderInv, GotOK
  <2> QED  BY <2>1, <2>2
<1> QED  BY <1>1, <1>2, <1>3, PTL DEF Spec

=============================================================================
