----------------------------- MODULE RingReduce -----------------------------
(***************************************************************************)
(* One collective operation as its participants perform it: the ring       *)
(* reduce-scatter and allgather of pipelineRingReduce over the multiplexed *)
(* sockets between neighbours, and the vote that completes it              *)
(* (src/ccoip/src/cpp/reduce.cpp, allReduceAsync of                        *)
(* ccoip_client_handler.cpp).                                              *)
(*                                                                         *)
(* A value is the sequence of what has been done to it: the ranks that     *)
(* were added up, in order, and marks for a quantization and for the final *)
(* averaging. Equal sequences are bit-identical results whatever the       *)
(* arithmetic is. Half a byte on the wire is a pair of a value and the     *)
(* position in it, so a number whose halves were mixed up shows.           *)
(***************************************************************************)
EXTENDS Integers, Sequences, FiniteSets, FiniteSetsExt, SequencesExt

CONSTANTS
    Ops,       \* operations: [world, total, bits, quant, chunk]
    InPlace,   \* the ranks whose send buffer is their receive buffer
    MaxFaults  \* bound on crashes and broken connections

ASSUME OpsAssumption == \A o \in Ops : o.world \in Nat \ {0}

VARIABLES
    op,      \* the operation under way
    rank,    \* what each participant is doing
    link,    \* the connection from each participant to its successor
    master,  \* the master's part in the operation
    faults

vars == <<op, rank, link, master, faults>>

Ranks == 0..op.world - 1

TxPeer(r) == (r + 1) % op.world
RxPeer(r) == (r + op.world - 1) % op.world

Crashed == {r \in Ranks : rank[r].pc = "crashed"}

Quantization == -1
Average      == -2
Garbage      == <<-3>>

------------------------------------------------------------------------------
(* Elements, chunks and bytes. *)

\* quantized_type # data_type.
Quantizing == op.quant # op.bits

\* Elements of less than a byte are cut in units that fill whole bytes.
Pack == IF Quantizing /\ op.quant < 8 THEN 8 \div op.quant ELSE 1

ChunkSize(c) ==
    LET units == op.total \div Pack
    IN  Pack * (units \div op.world + IF c < units % op.world THEN 1 ELSE 0)

ChunkStart(c) == MapThenSumSet(ChunkSize, 0..c - 1)

ChunkOf(buf, c) == SubSeq(buf, ChunkStart(c) + 1, ChunkStart(c) + ChunkSize(c))

Bytes(elements) == (elements * op.quant) \div 8

\* Half-bytes of an element.
Parts == op.quant \div 4

Encode(values) ==
    [m \in 1..Len(values) * Parts |-> <<values[(m - 1) \div Parts + 1], (m - 1) % Parts>>]

Decode(buf, e) ==
    LET at == (e - 1) * Parts
        v  == buf[at + 1][1]
    IN  IF \A k \in 0..Parts - 1 : buf[at + 1 + k] = <<v, k>> THEN v ELSE Garbage

\* What performReduction makes of a value on the wire. De-quantized with the ranges of another
\* chunk it would be something else.
Dequantize(v, meta) == IF Quantizing /\ v \notin meta THEN Garbage ELSE v

Overwrite(buf, from, part) ==
    [i \in DOMAIN buf |-> IF i - from \in DOMAIN part THEN part[i - from] ELSE buf[i]]

Fresh(n) == [m \in 1..n |-> <<Garbage, 0>>]

MaxChunkBytes == Bytes(Max({ChunkSize(c) : c \in Ranks}))

------------------------------------------------------------------------------
(* The state of a participant. *)

\* chunk_to_send and chunk_to_receive of the step; in the allgather current_chunk_idx, which
\* starts with the chunk behind the own one, and inc_idx.
TxChunk(r) ==
    LET first == IF rank[r].phase = "scatter" THEN r ELSE r + 1
    IN  (first + op.world - rank[r].step) % op.world

RxChunk(r) == (TxChunk(r) + op.world - 1) % op.world

TxBytes(r) == Bytes(ChunkSize(TxChunk(r)))
RxBytes(r) == Bytes(ChunkSize(RxChunk(r)))

\* The memory that tx_span points to, as it is now.
TxSpan(r) ==
    CASE rank[r].tx = "dst"       -> Encode(ChunkOf(rank[r].dst, TxChunk(r)))
      [] rank[r].tx = "quantized" -> Encode(rank[r].quantized)
      [] rank[r].tx = "owned"     -> rank[r].buf

NewRank(r) ==
    [pc |-> "start", phase |-> "scatter", step |-> 0, sent |-> 0, recvd |-> 0,
     dst |-> [e \in 1..op.total |-> <<r>>], backup |-> <<>>, tx |-> "dst",
     quantized |-> <<>>, buf |-> <<>>, meta |-> {}, outcome |-> "none", reported |-> "none"]

\* Entries of an operation under the same tag that was aborted.
Stale == [seq |-> 0, kind |-> "data", body |-> <<<<Garbage, 0>>, <<Garbage, 0>>>>]
SeqNr == 1

\* A connection may have carried the tag before, and hold what nobody took. What is under way
\* and what has arrived is one sequence; seen says that the queue of the tag exists, which
\* the receiver knows once an entry has arrived.
NewLink(used) ==
    [entries |-> IF used THEN <<Stale>> ELSE <<>>, seen |-> used, tx |-> TRUE, rx |-> TRUE]

NewMaster == [aborted |-> FALSE, complete |-> FALSE, votes |-> {}, left |-> {}]

Init ==
    /\ op \in Ops
    /\ rank = [r \in Ranks |-> NewRank(r)]
    /\ \E used \in BOOLEAN : link = [r \in Ranks |-> NewLink(used)]
    /\ master = NewMaster
    /\ faults = 0

------------------------------------------------------------------------------
(* pipelineRingReduce *)

\* Mutant of Give: the source is not restored in the allgather.
GiveScatterOnly(rk, r, outcome) ==
    [rk EXCEPT !.pc = "reduced", !.outcome = outcome,
               !.dst = IF r \in InPlace /\ rk.phase = "scatter" THEN rk.backup ELSE @]

\* restore_src_buf, and the result that is returned.
Give(rk, r, outcome) ==
    [rk EXCEPT !.pc = "reduced", !.outcome = outcome,
               !.dst = IF r \in InPlace THEN rk.backup ELSE @]

Failed(r)  == Give(rank[r], r, "failed")
Aborted(r) == Give(rank[r], r, "aborted")

\* The buffers of a phase are allocated when it begins.
BeginPhase(rk, phase) ==
    [rk EXCEPT !.pc = "stage", !.phase = phase, !.step = 0, !.buf = Fresh(2 * MaxChunkBytes)]

\* performReduceFinalization
Finalized(rk) ==
    [rk EXCEPT !.pc = "reduced", !.outcome = "success",
               !.dst = [e \in DOMAIN @ |-> Append(@[e], Average)]]

\* The end of a turn of the send/receive loop, of a stage, of a phase.
Continue(r, rk) ==
    IF rk.sent < TxBytes(r) THEN [rk EXCEPT !.pc = "send"]
    ELSE IF rk.recvd < RxBytes(r) THEN [rk EXCEPT !.pc = "recv"]
    ELSE IF rk.step < op.world - 2 THEN [rk EXCEPT !.pc = "stage", !.step = @ + 1]
    ELSE IF rk.phase = "scatter" THEN BeginPhase(rk, "gather")
    ELSE Finalized(rk)

Become(r, rk) == rank' = [rank EXCEPT ![r] = rk]

\* The copy of the source, or its backup when it is the destination; sub-byte elements have
\* to come in units.
Start(r) ==
    /\ rank[r].pc = "start"
    /\ Become(r, IF op.total % Pack # 0
                 THEN [rank[r] EXCEPT !.pc = "reduced", !.outcome = "failed"]
                 ELSE BeginPhase([rank[r] EXCEPT !.backup = rank[r].dst], "scatter"))
    /\ UNCHANGED <<op, link, master, faults>>

\* Mutant of Prepared: a chunk that came in is quantized anew before it is passed on.
PreparedAnew(r) ==
    LET c      == TxChunk(r)
        rk     == [rank[r] EXCEPT !.sent = 0, !.recvd = 0]
        values == [e \in 1..ChunkSize(c) |-> Append(ChunkOf(rk.dst, c)[e], Quantization)]
    IN  IF ~Quantizing \/ ChunkSize(c) = 0 THEN [rk EXCEPT !.tx = "dst"]
        ELSE [rk EXCEPT !.tx = "quantized", !.quantized = values,
                        !.dst = IF rk.phase = "scatter" THEN @
                                ELSE Overwrite(@, ChunkStart(c), values)]

\* What is sent in a step: the chunk, its quantization, or, from the second step of the
\* allgather on, the quantized chunk that came in before. The owner of a chunk takes over what
\* others will make of its quantization.
Prepared(r) ==
    LET c      == TxChunk(r)
        rk     == [rank[r] EXCEPT !.sent = 0, !.recvd = 0]
        values == [e \in 1..ChunkSize(c) |-> Append(ChunkOf(rk.dst, c)[e], Quantization)]
    IN  IF ~Quantizing \/ ChunkSize(c) = 0 THEN [rk EXCEPT !.tx = "dst"]
        ELSE IF rk.phase = "gather" /\ rk.step > 0 THEN [rk EXCEPT !.tx = "owned"]
        ELSE [rk EXCEPT !.tx = "quantized", !.quantized = values,
                        !.dst = IF rk.phase = "scatter" THEN @
                                ELSE Overwrite(@, ChunkStart(c), values)]

\* meta_data_self: the ranges the chunk was quantized with.
MetaSelf(rk) ==
    CASE rk.tx = "dst"       -> {}
      [] rk.tx = "quantized" -> ToSet(rk.quantized)
      [] rk.tx = "owned"     -> rk.meta

Entry(kind, body) == [seq |-> SeqNr, kind |-> kind, body |-> body]

\* A stage begins: with quantization the ranges are sent ahead, in a copy.
BeginStage(r) ==
    LET rk == Prepared(r)
    IN  /\ rank[r].pc = "stage"
        /\ IF ~Quantizing THEN Become(r, Continue(r, rk)) /\ UNCHANGED link
           ELSE IF ~link[r].tx THEN Become(r, Failed(r)) /\ UNCHANGED link
           ELSE /\ Become(r, [rk EXCEPT !.pc = "meta"])
                /\ link' = [link EXCEPT ![r].entries = Append(@, Entry("meta", MetaSelf(rk)))]
        /\ UNCHANGED <<op, master, faults>>

\* The next part of tx_span.
Part(r) ==
    LET to == Min({rank[r].sent + op.chunk, TxBytes(r)})
    IN  SubSeq(TxSpan(r), 2 * rank[r].sent + 1, 2 * to)

\* The sender tries to receive once before it sends again.
Sent(r) ==
    LET rk == [rank[r] EXCEPT !.sent = @ + Len(Part(r)) \div 2]
    IN  IF rk.recvd < RxBytes(r) THEN [rk EXCEPT !.pc = "recv"] ELSE Continue(r, rk)

\* sendBytes queues a reference to the next part, and the caller waits until the send thread
\* has written it. What is written to a peer that is gone is lost.
Send(r) ==
    /\ rank[r].pc = "send" /\ link[r].tx
    /\ Become(r, Sent(r))
    /\ link' = IF TxPeer(r) \in Crashed THEN link
               ELSE [link EXCEPT ![r].entries = Append(@, Entry("data", Part(r)))]
    /\ UNCHANGED <<op, master, faults>>

\* The send thread meets an error, interrupts the socket and wakes the sender all the same.
SendLost(r) ==
    /\ rank[r].pc = "send" /\ link[r].tx /\ TxPeer(r) \in Crashed
    /\ Become(r, Sent(r))
    /\ link' = [link EXCEPT ![r].tx = FALSE]
    /\ UNCHANGED <<op, master, faults>>

SendFails(r) ==
    /\ rank[r].pc = "send" /\ ~link[r].tx
    /\ Become(r, Failed(r))
    /\ UNCHANGED <<op, link, master, faults>>

------------------------------------------------------------------------------
(* Receiving: receiveBytesInplace and receivePacket spin while the queue of the tag does not  *)
(* exist, and fail on a socket that is closed, whatever the queue holds.                      *)

Receiving(r) == rank[r].pc \in {"meta", "recv"}

Queue(r) == link[RxPeer(r)].entries

Space(r) == RxBytes(r) - rank[r].recvd

Pop(r) == link' = [link EXCEPT ![RxPeer(r)].entries = Tail(@), ![RxPeer(r)].seen = TRUE]

\* The queue is there and seems empty.
NothingYet(r) == link[RxPeer(r)].rx /\ link[RxPeer(r)].seen

\* Mutant of ReceiveFails: no ranges yet is taken for a closed socket.
ReceiveFailsWhenEmpty(r) ==
    /\ Receiving(r)
    /\ ~link[RxPeer(r)].rx \/ (rank[r].pc = "meta" /\ NothingYet(r))
    /\ Become(r, Failed(r))
    /\ UNCHANGED <<op, link, master, faults>>

ReceiveFails(r) ==
    /\ Receiving(r) /\ ~link[RxPeer(r)].rx
    /\ Become(r, Failed(r))
    /\ UNCHANGED <<op, link, master, faults>>

Readable(r) == Receiving(r) /\ link[RxPeer(r)].rx /\ Queue(r) # <<>>

Unwanted(r, entry) ==
    \/ entry.seq # SeqNr
    \/ rank[r].pc = "meta" /\ entry.kind # "meta"
    \/ rank[r].pc = "recv" /\ entry.kind = "data" /\ Len(entry.body) > 2 * Space(r)

\* An entry of another operation, of another kind, or one that is too long, is dropped.
DropEntry(r) ==
    /\ Readable(r) /\ Unwanted(r, Head(Queue(r)))
    /\ Pop(r)
    /\ UNCHANGED <<op, rank, master, faults>>

ReceiveMeta(r) ==
    /\ Readable(r) /\ rank[r].pc = "meta"
    /\ ~Unwanted(r, Head(Queue(r))) /\ Head(Queue(r)).kind = "meta"
    /\ Become(r, Continue(r, [rank[r] EXCEPT !.meta = Head(Queue(r)).body]))
    /\ Pop(r)
    /\ UNCHANGED <<op, master, faults>>

\* The elements that are complete now, and were not before, are accumulated, or copied.
Accumulated(rk, r, recvd) ==
    LET old  == (rk.recvd * 8) \div op.quant
        new  == (recvd * 8) \div op.quant
        from == ChunkStart(RxChunk(r))
        In(e) == Dequantize(Decode(rk.buf, e), rk.meta)
    IN  [rk EXCEPT !.recvd = recvd,
                   !.dst = Overwrite(@, from + old,
                             [k \in 1..new - old |->
                                IF rk.phase = "gather" THEN In(old + k)
                                ELSE In(old + k) \o @[from + old + k]])]

ReceiveData(r) ==
    LET body == Head(Queue(r)).body
        rk   == [rank[r] EXCEPT !.buf = Overwrite(@, 2 * rank[r].recvd, body)]
    IN  /\ Readable(r) /\ rank[r].pc = "recv"
        /\ ~Unwanted(r, Head(Queue(r))) /\ Head(Queue(r)).kind = "data"
        /\ Become(r, Continue(r, Accumulated(rk, r, rk.recvd + Len(body) \div 2)))
        /\ Pop(r)
        /\ UNCHANGED <<op, master, faults>>

\* Nothing has come in: the next part is sent.
ReceiveNothing(r) ==
    /\ rank[r].pc = "recv" /\ rank[r].sent < TxBytes(r) /\ NothingYet(r)
    /\ Become(r, [rank[r] EXCEPT !.pc = "send"])
    /\ UNCHANGED <<op, link, master, faults>>

\* Mutant of ReceiveAbort: the allgather does not look for it.
ReceiveAbortInScatter(r) ==
    /\ Receiving(r) /\ master.aborted /\ NothingYet(r) /\ rank[r].phase = "scatter"
    /\ rank[r].pc = "recv" => rank[r].sent = TxBytes(r)
    /\ Become(r, Aborted(r))
    /\ UNCHANGED <<op, link, master, faults>>

\* The abort packet of the master is looked for while there is nothing to do but to wait.
ReceiveAbort(r) ==
    /\ Receiving(r) /\ master.aborted /\ NothingYet(r)
    /\ rank[r].pc = "recv" => rank[r].sent = TxBytes(r)
    /\ Become(r, Aborted(r))
    /\ UNCHANGED <<op, link, master, faults>>

------------------------------------------------------------------------------
(* allReduceAsync after the reduce, and the master's part.                                    *)

\* Everybody who is left has voted.
Decided(votes, left) == Ranks \ left \subseteq votes

\* The vote to complete reaches the master, which aborts the operation when the voter failed.
VoteComplete(r) ==
    LET votes == master.votes \cup {r}
    IN  /\ rank[r].pc = "reduced"
        /\ Become(r, [rank[r] EXCEPT !.pc = "voted"])
        /\ master' = [master EXCEPT !.votes = votes,
                        !.aborted = @ \/ rank[r].outcome # "success",
                        !.complete = Decided(votes, master.left)]
        /\ UNCHANGED <<op, link, faults>>

\* The abort packet, which says whether it was aborted, and the complete packet have come.
Complete(r) ==
    /\ rank[r].pc = "voted" /\ master.complete
    /\ Become(r, [rank[r] EXCEPT !.pc = "returned",
                    !.reported = IF rank[r].outcome = "success" /\ ~master.aborted
                                 THEN "success" ELSE "failed"])
    /\ UNCHANGED <<op, link, master, faults>>

\* The master notices that a participant is gone.
Disconnect(r) ==
    /\ r \in Crashed \ master.left
    /\ master' = IF master.complete THEN [master EXCEPT !.left = @ \cup {r}]
                 ELSE [master EXCEPT !.left = @ \cup {r}, !.aborted = TRUE,
                                     !.complete = Decided(master.votes, master.left \cup {r})]
    /\ UNCHANGED <<op, rank, link, faults>>

------------------------------------------------------------------------------
(* Faults. *)

Crash(r) ==
    /\ faults < MaxFaults /\ rank[r].pc \notin {"crashed", "returned"}
    /\ Become(r, [rank[r] EXCEPT !.pc = "crashed"])
    /\ faults' = faults + 1
    /\ UNCHANGED <<op, link, master>>

\* The connection to the successor breaks.
Break(r) ==
    /\ faults < MaxFaults /\ link[r].tx /\ link[r].rx
    /\ link' = [link EXCEPT ![r].tx = FALSE, ![r].rx = FALSE]
    /\ faults' = faults + 1
    /\ UNCHANGED <<op, rank, master>>

\* The receive thread finds that the predecessor is gone, or that it closed the connection.
NoticeClosed(r) ==
    /\ link[RxPeer(r)].rx /\ (RxPeer(r) \in Crashed \/ ~link[RxPeer(r)].tx)
    /\ link' = [link EXCEPT ![RxPeer(r)].rx = FALSE]
    /\ UNCHANGED <<op, rank, master, faults>>

Step(r) ==
    \/ Start(r) \/ BeginStage(r) \/ Send(r) \/ SendLost(r) \/ SendFails(r)
    \/ ReceiveFails(r) \/ DropEntry(r) \/ ReceiveMeta(r) \/ ReceiveData(r)
    \/ ReceiveNothing(r) \/ ReceiveAbort(r)
    \/ VoteComplete(r) \/ Complete(r)

Finished == \A r \in Ranks : rank[r].pc \in {"returned", "crashed"}

Next ==
    \/ \E r \in Ranks :
         \/ Step(r) \/ NoticeClosed(r) \/ Disconnect(r) \/ Crash(r) \/ Break(r)
    \/ Finished /\ UNCHANGED vars

\* The threads of a live process run, data that was sent arrives, and the end of a connection
\* is noticed.
Fairness ==
    \A r \in 0..Max({o.world : o \in Ops}) - 1 :
        /\ WF_vars(r \in Ranks /\ Step(r))
        /\ WF_vars(r \in Ranks /\ NoticeClosed(r))
        /\ WF_vars(r \in Ranks /\ Disconnect(r))

Spec == Init /\ [][Next]_vars /\ Fairness

------------------------------------------------------------------------------
(* Properties *)

\* Every rank was added once, and the result was averaged once.
Whole(v) ==
    /\ Last(v) = Average
    /\ \A r \in Ranks : Cardinality({i \in DOMAIN v : v[i] = r}) = 1
    /\ \A i \in 1..Len(v) - 1 : v[i] \in Ranks \cup {Quantization}

Contribution(r) == [e \in 1..op.total |-> <<r>>]

\* A participant whose reduce succeeded holds, in every element, the contribution of every rank
\* exactly once, and bit for bit what all the others hold: chunks, partial elements, leftovers
\* of an aborted operation, and a quantized chunk that is forwarded out of the memory the next
\* one is received into, never mix.
SuccessIsReduced ==
    \A r, q \in Ranks :
        rank[r].outcome = "success" =>
            /\ \A e \in 1..op.total : Whole(rank[r].dst[e])
            /\ rank[q].outcome = "success" => rank[q].dst = rank[r].dst

\* A reduce that fails or is aborted, in whichever stage, leaves the data of the caller as it
\* was when it is done in place (restore_src_buf).
SourceRestored ==
    \A r \in Ranks \cap InPlace :
        rank[r].outcome \in {"failed", "aborted"} => rank[r].dst = Contribution(r)

\* Nobody fails unless a peer crashed, a connection broke, or the operation was refused at once:
\* however the ranks interleave, they never take each other's data for an error.
FailsOnlyAfterFault ==
    \A r \in Ranks :
        rank[r].outcome \in {"failed", "aborted"} =>
            faults > 0 \/ op.total % Pack # 0

\* An operation with an element for every rank ends for everyone, also when a peer crashes or
\* a connection breaks at any point: the abort of the master reaches whoever waits.
EveryoneReturns == op.total >= op.world => <>Finished

\* An operation that is reported to have failed leaves the data of the caller as it was when
\* it is done in place, so that it can be tried again. False for the code: restore_src_buf is
\* called when the own reduce fails, not when the master reports an abort after it succeeded.
FailureKeepsSource ==
    \A r \in Ranks \cap InPlace : rank[r].reported = "failed" => rank[r].dst = Contribution(r)

=============================================================================
