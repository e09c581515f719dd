----------------------- MODULE MasterConnectionProofs -----------------------
(***************************************************************************)
(* No thread of a client misses a wake-up of its QueuedSocket, for any     *)
(* threads, scripts and packets.                                           *)
(***************************************************************************)
EXTENDS MasterConnection, SequenceTheorems, TLAPS

\* The provers get more time than by default.
USE SMTT(20)

\* The state the argument needs: the callers are records of a known shape, and recv_queue
\* is a sequence.
Record(c) == c = [pc |-> c.pc, calls |-> c.calls, rest |-> c.rest]

CallersOK == caller = [t \in Threads |-> caller[t]] /\ \A t \in Threads : Record(caller[t])

QueueOK == \E S : queue \in Seq(S)

Inv == CallersOK /\ QueueOK /\ NoLostWakeup

\* Only a thread that waited before waits after the step, and for the same packet.
NobodyNewWaits ==
    \A t \in Threads : caller'[t].pc = "waiting" => caller[t].pc = "waiting" /\ caller'[t] = caller[t]

NobodyWaits == \A t \in Threads : caller'[t].pc # "waiting"

-----------------------------------------------------------------------------

\* A step that lets nobody new wait and adds nothing to recv_queue keeps the invariant.
LEMMA KeepsWaiters ==
    ASSUME Inv, CallersOK', NobodyNewWaits, running' = running, queue' = queue
    PROVE  Inv'
<1>1. QueueOK'
  BY ZenonT(30) DEF Inv, QueueOK
<1>2. ASSUME NEW t \in Threads, caller'[t].pc = "waiting"
      PROVE  running' /\ Matches(Call(t).what)' = {}
  <2>1. caller[t].pc = "waiting" /\ caller'[t] = caller[t]
    BY ZenonT(30), <1>2 DEF NobodyNewWaits
  <2>2. Call(t)' = Call(t)
    BY ZenonT(30), <2>1 DEF Call
  <2>3. running /\ Matches(Call(t).what) = {}
    BY ZenonT(30), <2>1 DEF Inv, NoLostWakeup
  <2> QED
    BY ZenonT(30), <2>2, <2>3 DEF Matches
<1> QED
  BY ZenonT(30), <1>1, <1>2 DEF Inv, NoLostWakeup

\* So does a step after which nobody waits.
LEMMA WakesAll ==
    ASSUME CallersOK', QueueOK', NobodyWaits
    PROVE  Inv'
  BY ZenonT(30) DEF Inv, NoLostWakeup, NobodyWaits

\* One thread changes.
LEMMA OneCaller ==
    ASSUME CallersOK, NEW t \in Threads, NEW c, Record(c), caller' = [caller EXCEPT ![t] = c]
    PROVE  /\ CallersOK'
           /\ caller'[t] = c
           /\ \A u \in Threads \ {t} : caller'[u] = caller[u]
<1>1. caller' = [u \in Threads |-> IF u = t THEN c ELSE caller[u]]
  BY ZenonT(30) DEF CallersOK
<1> QED
  BY ZenonT(30), <1>1 DEF CallersOK

\* notify_all() leaves nobody waiting.
LEMMA NotifiedCallers ==
    ASSUME CallersOK, caller' = Notified(caller)
    PROVE  CallersOK' /\ NobodyWaits
<1>1. \A t \in Threads : caller'[t] = IF caller[t].pc = "waiting" THEN [caller[t] EXCEPT !.pc = "scan"]
                                       ELSE caller[t]
  BY ZenonT(30) DEF Notified
<1>2. ASSUME NEW t \in Threads PROVE Record(caller'[t]) /\ caller'[t].pc # "waiting"
  <2>1. Record(caller[t])
    BY ZenonT(30) DEF CallersOK
  <2>2. CASE caller[t].pc = "waiting"
    <3>1. caller'[t] = [pc |-> "scan", calls |-> caller[t].calls, rest |-> caller[t].rest]
      BY ZenonT(30), <1>1, <2>1, <2>2 DEF Record
    <3> QED
      BY <3>1 DEF Record
  <2>3. CASE caller[t].pc # "waiting"
    BY ZenonT(30), <1>1, <2>1, <2>3
  <2> QED
    BY ZenonT(30), <2>2, <2>3
<1>3. caller' = [t \in Threads |-> caller'[t]]
  BY ZenonT(30) DEF Notified
<1> QED
  BY ZenonT(30), <1>2, <1>3 DEF CallersOK, NobodyWaits

\* Taking a packet out of recv_queue adds no match.
LEMMA RemovalAddsNothing ==
    ASSUME QueueOK, NEW i \in DOMAIN queue, queue' = RemoveAt(queue, i)
    PROVE  QueueOK' /\ \A k : Matches(k) = {} => Matches(k)' = {}
<1>1. PICK S : queue \in Seq(S)
  BY DEF QueueOK
<1>2. i \in 1..Len(queue) /\ Len(queue) \in Nat
  BY <1>1
<1>3. SubSeq(queue, 1, i - 1) \in Seq(S) /\ SubSeq(queue, i + 1, Len(queue)) \in Seq(S)
  BY <1>1, <1>2
<1>4. /\ Len(SubSeq(queue, 1, i - 1)) = i - 1
      /\ Len(SubSeq(queue, i + 1, Len(queue))) = Len(queue) - i
      /\ \A j \in 1..(i - 1) : SubSeq(queue, 1, i - 1)[j] = queue[j]
      /\ \A j \in 1..(Len(queue) - i) : SubSeq(queue, i + 1, Len(queue))[j] = queue[i + j]
  BY <1>1, <1>2
<1>5. PICK a, b : a = SubSeq(queue, 1, i - 1) /\ b = SubSeq(queue, i + 1, Len(queue)) /\ queue' = a \o b
  BY ZenonT(30) DEF RemoveAt
<1>6. /\ a \in Seq(S) /\ b \in Seq(S) /\ Len(a) = i - 1 /\ Len(b) = Len(queue) - i
      /\ \A j \in 1..(i - 1) : a[j] = queue[j]
      /\ \A j \in 1..(Len(queue) - i) : b[j] = queue[i + j]
  BY ZenonT(30), <1>3, <1>4, <1>5
<1>7. /\ a \o b \in Seq(S) /\ Len(a \o b) = Len(a) + Len(b)
      /\ \A j \in 1..(Len(a) + Len(b)) : (a \o b)[j] = IF j <= Len(a) THEN a[j] ELSE b[j - Len(a)]
  BY ZenonT(30), <1>6, ConcatProperties
<1>8. /\ queue' \in Seq(S) /\ Len(queue') = Len(a) + Len(b)
      /\ \A j \in 1..(Len(a) + Len(b)) : queue'[j] = IF j <= Len(a) THEN a[j] ELSE b[j - Len(a)]
  BY <1>5, <1>7, Zenon
<1>9. queue' \in Seq(S) /\ Len(queue') = Len(queue) - 1
  BY <1>2, <1>6, <1>8
<1>10. ASSUME NEW k, Matches(k) = {}, NEW j \in DOMAIN queue' PROVE KindOf(queue'[j]) # k
  <2>1. j \in 1..(Len(queue) - 1)
    BY <1>9, <1>10
  <2>2. CASE j < i
    <3>1. j \in 1..(i - 1) /\ j <= Len(a) /\ j \in 1..(Len(a) + Len(b))
      <4>1. Len(a) = i - 1 /\ Len(b) = Len(queue) - i
        BY ZenonT(30), <1>6
      <4> QED
        BY <1>2, <2>1, <2>2, <4>1
    <3>2. queue'[j] = a[j]
      BY <1>8, <3>1, Zenon
    <3>3. a[j] = queue[j]
      BY <1>6, <3>1, Zenon
    <3>4. queue'[j] = queue[j]
      BY <3>2, <3>3, Zenon
    <3> QED
      BY <1>1, <1>2, <1>10, <2>1, <3>4 DEF Matches
  <2>3. CASE ~(j < i)
    <3>1. PICK n : n = j - Len(a)
      BY ZenonT(30)
    <3>2. Len(a) = i - 1
      BY ZenonT(30), <1>6
    <3>3. n \in 1..(Len(queue) - i) /\ i + n = j + 1 /\ ~(j <= Len(a))
      BY <1>2, <2>1, <2>3, <3>1, <3>2
    <3>4. j \in 1..(Len(a) + Len(b))
      BY <1>2, <1>6, <2>1
    <3>5. queue'[j] = b[n]
      BY <1>8, <3>1, <3>4, <3>3, Zenon
    <3>6. queue'[j] = queue[j + 1]
      BY ZenonT(30), <1>6, <3>3, <3>5
    <3> QED
      BY <1>1, <1>2, <1>10, <2>1, <3>6 DEF Matches
  <2> QED
    BY ZenonT(30), <2>2, <2>3
<1> QED
  BY ZenonT(30), <1>9, <1>10 DEF QueueOK, Matches

-----------------------------------------------------------------------------
(* One lemma per kind of step *)

\* The calls of the threads.
LEMMA CallerStepKeeps ==
    ASSUME Inv, NEW t \in Threads, CallerStep(t)
    PROVE  Inv'
<1>a. CallersOK /\ QueueOK /\ Record(caller[t])
  BY ZenonT(30) DEF Inv, CallersOK
<1>b. Record(Returned(t)) /\ Returned(t).pc = "idle"
  BY DEF Returned, Idle, Record
<1>1. CASE SendPacket(t)
  <2>1. PICK c : /\ c = [caller[t] EXCEPT !.pc = "send", !.rest = Wire(Call(t).what)]
                 /\ caller' = [caller EXCEPT ![t] = c]
    BY <1>1, Zenon DEF SendPacket
  <2>2. Record(c) /\ c.pc = "send"
    BY ZenonT(30), <1>a, <2>1 DEF Record
  <2>3. CallersOK' /\ NobodyNewWaits
    BY ZenonT(30), <1>a, <2>1, <2>2, OneCaller DEF NobodyNewWaits
  <2> QED
    BY ZenonT(30), <1>1, <2>3, KeepsWaiters DEF SendPacket, clientVars
<1>2. CASE SendUnits(t)
  <2>1. PICK c : /\ c = Returned(t) \/ \E r : c = [caller[t] EXCEPT !.rest = r]
                 /\ caller' = [caller EXCEPT ![t] = c]
    BY <1>2, Zenon DEF SendUnits
  <2>2. Record(c) /\ c.pc # "waiting"
    BY ZenonT(30), <1>2, <1>a, <1>b, <2>1 DEF Record, SendUnits
  <2>3. CallersOK' /\ NobodyNewWaits
    BY ZenonT(30), <1>a, <2>1, <2>2, OneCaller DEF NobodyNewWaits
  <2> QED
    BY ZenonT(30), <1>2, <2>3, KeepsWaiters DEF SendUnits, clientVars
<1>3. CASE SendFails(t)
  <2>1. caller' = [caller EXCEPT ![t] = Returned(t)]
    BY ZenonT(30), <1>3 DEF SendFails
  <2>2. CallersOK' /\ NobodyNewWaits
    BY ZenonT(30), <1>a, <1>b, <2>1, OneCaller DEF NobodyNewWaits
  <2> QED
    BY ZenonT(30), <1>3, <2>2, KeepsWaiters DEF SendFails, clientVars
<1>4. CASE Poll(t)
  <2>1. PICK c : /\ c = Returned(t) \/ c = [caller[t] EXCEPT !.pc = "scan"]
                 /\ caller' = [caller EXCEPT ![t] = c]
    BY <1>4, Zenon DEF Poll
  <2>2. Record(c) /\ c.pc # "waiting"
    BY ZenonT(30), <1>a, <1>b, <2>1 DEF Record
  <2>3. CallersOK' /\ NobodyNewWaits
    BY ZenonT(30), <1>a, <2>1, <2>2, OneCaller DEF NobodyNewWaits
  <2> QED
    BY ZenonT(30), <1>4, <2>3, KeepsWaiters DEF Poll, clientVars
<1>5. CASE Scan(t)
  <2> DEFINE found == Matches(Call(t).what)
  <2>1. CASE found # {}
    <3>1. /\ caller' = [caller EXCEPT ![t] = Returned(t)]
          /\ running' = running
      BY ZenonT(30), <1>5, <2>1 DEF Scan
    <3>2. PICK i \in DOMAIN queue : queue' = RemoveAt(queue, i)
      BY ZenonT(30), <1>5, <2>1 DEF Scan, Matches
    <3>3. CallersOK' /\ NobodyNewWaits
      BY ZenonT(30), <1>a, <1>b, <3>1, OneCaller DEF NobodyNewWaits
    <3>4. QueueOK'
      BY ZenonT(30), <1>a, <3>2, RemovalAddsNothing
    <3>5. ASSUME NEW u \in Threads, caller'[u].pc = "waiting"
          PROVE  running' /\ Matches(Call(u).what)' = {}
      <4>1. caller[u].pc = "waiting" /\ caller'[u] = caller[u]
        BY ZenonT(30), <3>3, <3>5 DEF NobodyNewWaits
      <4>2. running /\ Matches(Call(u).what) = {}
        BY ZenonT(30), <4>1 DEF Inv, NoLostWakeup
      <4>3. PICK k : k = Call(u).what /\ k = Call(u)'.what
        BY ZenonT(30), <4>1 DEF Call
      <4>4. Matches(k)' = {}
        BY ZenonT(30), <1>a, <3>2, <4>2, <4>3, RemovalAddsNothing
      <4> QED
        BY ZenonT(30), <3>1, <4>2, <4>3, <4>4 DEF Matches
    <3> QED
      BY ZenonT(30), <3>3, <3>4, <3>5 DEF Inv, NoLostWakeup
  <2>2. CASE found = {}
    <3>1. PICK c : /\ c = Returned(t) \/ (running /\ c = [caller[t] EXCEPT !.pc = "waiting"])
                   /\ caller' = [caller EXCEPT ![t] = c]
      <4>1. PICK c : /\ c = IF Call(t).do = "peek" \/ ~running THEN Returned(t)
                           ELSE [caller[t] EXCEPT !.pc = "waiting"]
                     /\ caller' = [caller EXCEPT ![t] = c]
        BY <1>5, <2>2, Zenon DEF Scan
      <4> QED
        BY <4>1, Zenon
    <3>2. Record(c) /\ (c.pc = "waiting" => running /\ c.calls = caller[t].calls)
      BY ZenonT(30), <1>a, <1>b, <3>1 DEF Record
    <3>3. /\ CallersOK' /\ caller'[t] = c
          /\ \A u \in Threads \ {t} : caller'[u] = caller[u]
      BY ZenonT(30), <1>a, <3>1, <3>2, OneCaller
    <3>4. queue' = queue /\ running' = running
      BY ZenonT(30), <1>5, <2>2 DEF Scan
    <3>5. ASSUME NEW u \in Threads, caller'[u].pc = "waiting"
          PROVE  running' /\ Matches(Call(u).what)' = {}
      <4>1. CASE u = t
        <5>1. running /\ Call(t)' = Call(t)
          BY ZenonT(30), <3>2, <3>3, <3>5, <4>1 DEF Call
        <5> QED
          BY ZenonT(30), <2>2, <3>4, <4>1, <5>1 DEF Matches
      <4>2. CASE u # t
        <5>1. caller'[u] = caller[u]
          BY ZenonT(30), <3>3, <4>2
        <5>2. running /\ Matches(Call(u).what) = {} /\ Call(u)' = Call(u)
          BY ZenonT(30), <3>5, <5>1 DEF Inv, NoLostWakeup, Call
        <5> QED
          BY ZenonT(30), <3>4, <5>2 DEF Matches
      <4> QED
        BY ZenonT(30), <4>1, <4>2
    <3> QED
      BY ZenonT(30), <1>a, <3>3, <3>4, <3>5 DEF Inv, NoLostWakeup, QueueOK
  <2> QED
    BY ZenonT(30), <2>1, <2>2
<1> QED
  BY ZenonT(30), <1>1, <1>2, <1>3, <1>4, <1>5 DEF CallerStep

\* Nothing changes that a waiting thread depends on.
LEMMA OthersKeep ==
    ASSUME Inv, caller' = caller, running' = running, queue' = queue
    PROVE  Inv'
<1>1. CallersOK' /\ NobodyNewWaits
  BY ZenonT(30) DEF Inv, CallersOK, NobodyNewWaits
<1> QED
  BY ZenonT(30), <1>1, KeepsWaiters

\* interrupt() wakes everybody.
LEMMA CloseKeeps ==
    ASSUME Inv, CloseSocket
    PROVE  Inv'
<1>1. CallersOK' /\ NobodyWaits
  BY ZenonT(30), NotifiedCallers DEF Inv, CloseSocket
<1>2. QueueOK'
  BY ZenonT(30) DEF Inv, QueueOK, CloseSocket
<1> QED
  BY ZenonT(30), <1>1, <1>2, WakesAll

LEMMA ReceiverStepKeeps ==
    ASSUME Inv, ReceiverStep \/ ReceiveFromClosed
    PROVE  Inv'
<1>1. CASE PushPacket
  <2>1. CallersOK' /\ NobodyWaits
    BY ZenonT(30), <1>1, NotifiedCallers DEF Inv, PushPacket
  <2>2. PICK S : queue \in Seq(S)
    BY ZenonT(30) DEF Inv, QueueOK
  <2>3. queue' \in Seq(S \cup {receiver.got})
    BY <1>1, <2>2 DEF PushPacket
  <2> QED
    BY ZenonT(30), <2>1, <2>3, WakesAll DEF QueueOK
<1>2. CASE ReceiverCloses
  BY ZenonT(30), <1>2, CloseKeeps DEF ReceiverCloses
<1>3. CASE ReceiverEnds
  <2>1. CallersOK' /\ NobodyWaits
    BY ZenonT(30), <1>3, NotifiedCallers DEF Inv, ReceiverEnds
  <2>2. QueueOK'
    BY ZenonT(30), <1>3 DEF Inv, QueueOK, ReceiverEnds, clientVars
  <2> QED
    BY ZenonT(30), <2>1, <2>2, WakesAll
<1>4. CASE \/ ReceiveNext \/ ReceiveLength \/ LengthReceived \/ ReceiveData \/ DataReceived
           \/ ReceiveFails \/ ReceiveFailed \/ ReceiveFromClosed
  <2>1. caller' = caller /\ running' = running /\ queue' = queue
    BY ZenonT(30), <1>4 DEF ReceiveNext, ReceiveLength, LengthReceived, ReceiveData, DataReceived,
                ReceiveFails, ReceiveFailed, ReceiveFromClosed, clientVars
  <2> QED
    BY ZenonT(30), <2>1, OthersKeep
<1> QED
  BY ZenonT(30), <1>1, <1>2, <1>3, <1>4 DEF ReceiverStep

\* A thread of a client waits in cond_var.wait() only while there is nothing for it: every
\* push and every interrupt() of the QueuedSocket reaches the threads it concerns.
THEOREM WakeupsAreSeen == Spec => []NoLostWakeup
<1>1. Init => Inv
  <2> SUFFICES ASSUME Init PROVE Inv
    BY ZenonT(30)
  <2>1. \A t \in Threads : caller[t] = Idle
    BY ZenonT(30) DEF Init
  <2>2. CallersOK
    BY ZenonT(30), <2>1 DEF Init, CallersOK, Idle, Record
  <2>3. queue \in Seq({})
    BY DEF Init
  <2> QED
    BY <2>1, <2>2, <2>3 DEF Inv, QueueOK, NoLostWakeup, Idle
<1>2. Inv /\ [Next]_vars => Inv'
  <2> SUFFICES ASSUME Inv, [Next]_vars PROVE Inv'
    BY ZenonT(30)
  <2>1. CASE \E t \in Threads : CallerStep(t)
    BY ZenonT(30), <2>1, CallerStepKeeps
  <2>2. CASE ReceiverStep \/ ReceiveFromClosed
    BY ZenonT(30), <2>2, ReceiverStepKeeps
  <2>3. CASE InterruptCloses
    BY ZenonT(30), <2>3, CloseKeeps DEF InterruptCloses
  <2>4. CASE Interrupt \/ ClientRead \/ CloseClient \/ ClientClose \/ UNCHANGED vars
    <3>1. caller' = caller /\ running' = running /\ queue' = queue
      BY ZenonT(30), <2>4 DEF Interrupt, ClientRead, CloseClient, ClientClose, clientVars, vars
    <3> QED
      BY ZenonT(30), <3>1, OthersKeep
  <2> QED
    BY ZenonT(30), <2>1, <2>2, <2>3, <2>4 DEF Next
<1>3. Inv => NoLostWakeup
  BY DEF Inv
<1> QED
  BY <1>1, <1>2, <1>3, PTL DEF Spec

=============================================================================
