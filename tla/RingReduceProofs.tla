-------------------------- MODULE RingReduceProofs --------------------------
(***************************************************************************)
(* Proofs about RingReduce, for rings of any size and operations of any    *)
(* length, with and without quantization, and any number of faults.        *)
(*                                                                         *)
(* From the first stage on a participant holds its contribution in the     *)
(* backup, and has no outcome; all that gives it one but success restores  *)
(* the destination from there. Until something breaks, every connection    *)
(* is open on both ends and the master has no reason to abort.             *)
(***************************************************************************)
EXTENDS RingReduce, TLAPS

\* The provers get more time than by default.
USE SMTT(20)

Fields == {"pc", "phase", "step", "sent", "recvd", "dst", "backup", "tx", "quantized", "buf",
           "meta", "outcome", "reported"}

Shape(rk) == rk = [f \in Fields |-> rk[f]]

\* Between the start and the result.
Busy == {"stage", "meta", "send", "recv"}

Working(rk, own) == Shape(rk) /\ rk.backup = own /\ rk.outcome = "none"

RankOK(rk, r, own) ==
    /\ Shape(rk)
    /\ rk.pc = "start" => rk.dst = own /\ rk.outcome = "none"
    /\ rk.pc \in Busy => Working(rk, own)
    /\ rk.pc = "reduced" => rk.outcome \in {"success", "failed", "aborted"}
    /\ r \in InPlace /\ rk.outcome \in {"failed", "aborted"} => rk.dst = own

------------------------------------------------------------------------------
(* What the parts of a step do to a participant. *)

LEMMA GiveOK ==
    ASSUME NEW r, NEW own, NEW rk, Working(rk, own), NEW outcome \in {"failed", "aborted"}
    PROVE  RankOK(Give(rk, r, outcome), r, own)
  BY ZenonT(30) DEF Working, Shape, Fields, RankOK, Give, Busy

LEMMA BeginPhaseOK ==
    ASSUME NEW r, NEW own, NEW rk, Working(rk, own), NEW phase
    PROVE  RankOK(BeginPhase(rk, phase), r, own) /\ BeginPhase(rk, phase).outcome = "none"
<1> DEFINE b == Fresh(2 * MaxChunkBytes)
           n == [rk EXCEPT !.pc = "stage", !.phase = phase, !.step = 0, !.buf = b]
<1>1. BeginPhase(rk, phase) = n
  BY ZenonT(30) DEF BeginPhase
<1> HIDE DEF b
<1>2. RankOK(n, r, own) /\ n.outcome = "none"
  BY ZenonT(30) DEF Working, Shape, Fields, RankOK, Busy
<1> QED  BY ZenonT(30), <1>1, <1>2

LEMMA ContinueOK ==
    ASSUME NEW r, NEW own, NEW rk, Working(rk, own)
    PROVE  /\ RankOK(Continue(r, rk), r, own)
           /\ Continue(r, rk).outcome \in {"none", "success"}
           /\ Continue(r, rk).pc # "crashed"
<1> DEFINE next == Continue(r, rk)
           OK(n) == RankOK(n, r, own) /\ n.outcome \in {"none", "success"} /\ n.pc # "crashed"
<1>1. CASE next = [rk EXCEPT !.pc = "send"] \/ next = [rk EXCEPT !.pc = "recv"]
  <2>1. OK([rk EXCEPT !.pc = "send"]) /\ OK([rk EXCEPT !.pc = "recv"])
    BY ZenonT(30) DEF Working, Shape, Fields, RankOK, Busy
  <2> QED  BY ZenonT(30), <1>1, <2>1
<1>2. CASE next = [rk EXCEPT !.pc = "stage", !.step = rk.step + 1]
  <2>1. OK([rk EXCEPT !.pc = "stage", !.step = rk.step + 1])
    BY ZenonT(30) DEF Working, Shape, Fields, RankOK, Busy
  <2> QED  BY ZenonT(30), <1>2, <2>1
<1>3. CASE next = BeginPhase(rk, "gather")
  <2>1. BeginPhase(rk, "gather").pc = "stage"
    BY ZenonT(30) DEF BeginPhase, Working, Shape, Fields
  <2> QED  BY ZenonT(30), <1>3, <2>1, BeginPhaseOK
<1>4. CASE next = Finalized(rk)
  <2>1. OK(Finalized(rk))
    BY ZenonT(30) DEF Finalized, Working, Shape, Fields, RankOK, Busy
  <2> QED  BY ZenonT(30), <1>4, <2>1
<1>5. \/ next = [rk EXCEPT !.pc = "send"] \/ next = [rk EXCEPT !.pc = "recv"]
      \/ next = [rk EXCEPT !.pc = "stage", !.step = rk.step + 1]
      \/ next = BeginPhase(rk, "gather") \/ next = Finalized(rk)
  BY Zenon DEF Continue
<1> QED  BY ZenonT(30), <1>1, <1>2, <1>3, <1>4, <1>5

LEMMA PreparedOK ==
    ASSUME NEW r, NEW own, Working(rank[r], own)
    PROVE  /\ Working(Prepared(r), own)
           /\ RankOK([Prepared(r) EXCEPT !.pc = "meta"], r, own)
<1> DEFINE rk == [rank[r] EXCEPT !.sent = 0, !.recvd = 0]
<1>1. Working(rk, own)
  BY ZenonT(30) DEF Working, Shape, Fields
<1> HIDE DEF rk
<1>2. \/ \E x : Prepared(r) = [rk EXCEPT !.tx = x]
      \/ \E x, v, d : Prepared(r) = [rk EXCEPT !.tx = x, !.quantized = v, !.dst = d]
  BY Zenon DEF Prepared, rk
<1>3. Working(Prepared(r), own)
  BY ZenonT(30), <1>1, <1>2 DEF Working, Shape, Fields
<1> QED  BY ZenonT(30), <1>3 DEF Working, Shape, Fields, RankOK, Busy

------------------------------------------------------------------------------
(* The invariant *)

RanksOK ==
    /\ op \in Ops
    /\ rank = [r \in Ranks |-> rank[r]]
    /\ \A r \in Ranks : RankOK(rank[r], r, Contribution(r))

LinkShape(l) == l = [f \in {"entries", "seen", "tx", "rx"} |-> l[f]]

LinksOK ==
    /\ link = [r \in Ranks |-> link[r]]
    /\ \A r \in Ranks : LinkShape(link[r])

MasterOK == master = [f \in {"aborted", "complete", "votes", "left"} |-> master[f]]

\* Nothing has gone wrong.
Unharmed(rk) == rk.pc # "crashed" /\ rk.outcome \notin {"failed", "aborted"}

Quiet ==
    /\ master.aborted = FALSE
    /\ \A r \in Ranks : link[r].tx = TRUE /\ link[r].rx = TRUE /\ Unharmed(rank[r])

QuietInv ==
    /\ faults \in Nat
    /\ faults = 0 /\ op.total % Pack = 0 => Quiet

Inv == RanksOK /\ LinksOK /\ MasterOK /\ QuietInv

LEMMA Predecessor ==
    ASSUME RanksOK, NEW r \in Ranks
    PROVE  RxPeer(r) \in Ranks
<1>1. op.world \in Nat \ {0}
  BY ZenonT(30), OpsAssumption DEF RanksOK
<1>2. r \in 0..op.world - 1
  BY ZenonT(30) DEF Ranks
<1>3. r + op.world - 1 \in Int /\ op.world \in Int /\ op.world > 0
  BY <1>1, <1>2
<1>4. ASSUME NEW x \in Int, NEW w \in Int, w > 0
      PROVE  x % w \in 0..w - 1
  BY <1>4
<1> QED  BY ZenonT(30), <1>3, <1>4 DEF RxPeer, Ranks

\* What a step of a participant makes of it.
Makes(r, rk) ==
    /\ rank' = [rank EXCEPT ![r] = rk]
    /\ RankOK(rk, r, Contribution(r))
    /\ Quiet /\ op.total % Pack = 0 => Unharmed(rk)

LEMMA StepMakes ==
    ASSUME RanksOK, NEW r \in Ranks, Step(r)
    PROVE  op' = op /\ faults' = faults /\ \E rk : Makes(r, rk)
<1> DEFINE own == Contribution(r)
<1>r. RankOK(rank[r], r, own)
  BY ZenonT(30) DEF RanksOK
<1>w. rank[r].pc \in Busy => Working(rank[r], own)
  BY ZenonT(30), <1>r DEF RankOK
<1>p. RxPeer(r) \in Ranks
  BY ZenonT(30), Predecessor
<1> HIDE DEF own
<1>f. ASSUME rank[r].pc \in Busy, NEW outcome \in {"failed", "aborted"}, ~Quiet,
             rank' = [rank EXCEPT ![r] = Give(rank[r], r, outcome)]
      PROVE  \E rk : Makes(r, rk)
  BY ZenonT(30), <1>f, <1>w, GiveOK DEF Makes, own
<1>c. ASSUME NEW rk, Working(rk, own), rank' = [rank EXCEPT ![r] = Continue(r, rk)]
      PROVE  \E x : Makes(r, x)
  BY ZenonT(30), <1>c, ContinueOK DEF Makes, own, Unharmed
<1>1. CASE Start(r)
  <2>1. rank[r].pc = "start" /\ op' = op /\ faults' = faults
    BY ZenonT(30), <1>1 DEF Start
  <2>2. CASE op.total % Pack # 0
    <3> DEFINE n == [rank[r] EXCEPT !.pc = "reduced", !.outcome = "failed"]
    <3>1. rank' = [rank EXCEPT ![r] = n]
      BY ZenonT(30), <1>1, <2>2 DEF Start, Become
    <3>2. RankOK(n, r, own)
      BY ZenonT(30), <1>r, <2>1 DEF RankOK, Shape, Fields, Busy
    <3> QED  BY ZenonT(30), <2>1, <2>2, <3>1, <3>2 DEF Makes, own
  <2>3. CASE op.total % Pack = 0
    <3> DEFINE b == [rank[r] EXCEPT !.backup = rank[r].dst]
    <3>1. rank' = [rank EXCEPT ![r] = BeginPhase(b, "scatter")]
      BY ZenonT(30), <1>1, <2>3 DEF Start, Become
    <3>2. Working(b, own)
      BY ZenonT(30), <1>r, <2>1 DEF RankOK, Working, Shape, Fields
    <3> HIDE DEF b
    <3>3. RankOK(BeginPhase(b, "scatter"), r, own) /\ BeginPhase(b, "scatter").outcome = "none"
      BY ZenonT(30), <3>2, BeginPhaseOK
    <3>4. BeginPhase(b, "scatter").pc = "stage"
      BY ZenonT(30), <3>2 DEF BeginPhase, Working, Shape, Fields
    <3> QED  BY ZenonT(30), <2>1, <3>1, <3>3, <3>4 DEF Makes, own, Unharmed
  <2> QED  BY ZenonT(30), <2>2, <2>3
<1>2. CASE BeginStage(r)
  <2>1. Working(rank[r], own) /\ op' = op /\ faults' = faults
    BY ZenonT(30), <1>2, <1>w DEF BeginStage, Busy
  <2>2. /\ Working(Prepared(r), own)
        /\ RankOK([Prepared(r) EXCEPT !.pc = "meta"], r, own)
    BY ZenonT(30), <2>1, PreparedOK
  <2>3. CASE Become(r, Continue(r, Prepared(r)))
    BY ZenonT(30), <1>c, <2>1, <2>2, <2>3 DEF Become
  <2>4. CASE link[r].tx # TRUE /\ Become(r, Failed(r))
    BY ZenonT(30), <1>2, <1>f, <2>1, <2>4 DEF Become, Failed, Quiet, BeginStage, Busy
  <2>5. CASE Become(r, [Prepared(r) EXCEPT !.pc = "meta"])
    <3>1. Unharmed([Prepared(r) EXCEPT !.pc = "meta"])
      BY ZenonT(30), <2>2 DEF Unharmed, Working, Shape, Fields
    <3> QED  BY ZenonT(30), <2>1, <2>2, <2>5, <3>1 DEF Makes, Become, own
  <2> QED  BY ZenonT(30), <1>2, <2>3, <2>4, <2>5 DEF BeginStage
<1>3. CASE Send(r) \/ SendLost(r)
  <2>1. Working(rank[r], own) /\ op' = op /\ faults' = faults
    BY ZenonT(30), <1>3, <1>w DEF Send, SendLost, Busy
  <2>2. PICK s : LET rk == [rank[r] EXCEPT !.sent = s]
                 IN  rank' = [rank EXCEPT ![r] = Continue(r, rk)]
                     \/ rank' = [rank EXCEPT ![r] = [rk EXCEPT !.pc = "recv"]]
    BY <1>3, Zenon DEF Send, SendLost, Become, Sent
  <2> DEFINE rk == [rank[r] EXCEPT !.sent = s]
             n  == [rk EXCEPT !.pc = "recv"]
  <2>3. Working(rk, own)
    BY ZenonT(30), <2>1 DEF Working, Shape, Fields
  <2>4. RankOK(n, r, own) /\ Unharmed(n)
    BY ZenonT(30), <2>3 DEF Working, Shape, Fields, RankOK, Busy, Unharmed
  <2>5. CASE rank' = [rank EXCEPT ![r] = Continue(r, rk)]
    BY ZenonT(30), <1>c, <2>1, <2>3, <2>5
  <2>6. CASE rank' = [rank EXCEPT ![r] = n]
    BY ZenonT(30), <2>1, <2>4, <2>6 DEF Makes, own
  <2> QED  BY ZenonT(30), <2>2, <2>5, <2>6
<1>4. CASE SendFails(r)
  <2>1. ~Quiet
    BY ZenonT(30), <1>4 DEF SendFails, Quiet
  <2> QED  BY ZenonT(30), <1>4, <1>f, <2>1 DEF SendFails, Become, Failed, Busy
<1>5. CASE ReceiveFails(r)
  <2>1. ~Quiet
    BY ZenonT(30), <1>5, <1>p DEF ReceiveFails, Quiet
  <2> QED  BY ZenonT(30), <1>5, <1>f, <2>1 DEF ReceiveFails, Receiving, Become, Failed, Busy
<1>6. CASE DropEntry(r)
  <2>1. rank' = [rank EXCEPT ![r] = rank[r]] /\ op' = op /\ faults' = faults
    BY ZenonT(30), <1>6 DEF DropEntry, RanksOK
  <2> QED  BY ZenonT(30), <1>r, <2>1 DEF Makes, own, Quiet
<1>7. CASE ReceiveMeta(r)
  <2>1. Working(rank[r], own) /\ op' = op /\ faults' = faults
    BY ZenonT(30), <1>7, <1>w DEF ReceiveMeta, Busy
  <2>2. PICK m : rank' = [rank EXCEPT ![r] = Continue(r, [rank[r] EXCEPT !.meta = m])]
    BY <1>7, Zenon DEF ReceiveMeta, Become
  <2>3. Working([rank[r] EXCEPT !.meta = m], own)
    BY ZenonT(30), <2>1 DEF Working, Shape, Fields
  <2> QED  BY ZenonT(30), <1>c, <2>1, <2>2, <2>3
<1>8. CASE ReceiveData(r)
  <2>1. Working(rank[r], own) /\ op' = op /\ faults' = faults
    BY ZenonT(30), <1>8, <1>w DEF ReceiveData, Busy
  <2>2. PICK b, n : rank' = [rank EXCEPT ![r] =
                        Continue(r, Accumulated([rank[r] EXCEPT !.buf = b], r, n))]
    BY <1>8, Zenon DEF ReceiveData, Become
  <2> DEFINE rk == [rank[r] EXCEPT !.buf = b]
  <2>3. Working(rk, own)
    BY ZenonT(30), <2>1 DEF Working, Shape, Fields
  <2> HIDE DEF rk
  <2>4. PICK d : Accumulated(rk, r, n) = [rk EXCEPT !.recvd = n, !.dst = d]
    BY Zenon DEF Accumulated
  <2>5. Working(Accumulated(rk, r, n), own)
    BY ZenonT(30), <2>3, <2>4 DEF Working, Shape, Fields
  <2> QED  BY ZenonT(30), <1>c, <2>1, <2>2, <2>5 DEF rk
<1>9. CASE ReceiveNothing(r)
  <2> DEFINE n == [rank[r] EXCEPT !.pc = "send"]
  <2>1. Working(rank[r], own) /\ op' = op /\ faults' = faults /\ rank' = [rank EXCEPT ![r] = n]
    BY ZenonT(30), <1>9, <1>w DEF ReceiveNothing, Become, Busy
  <2>2. RankOK(n, r, own) /\ Unharmed(n)
    BY ZenonT(30), <2>1 DEF Working, Shape, Fields, RankOK, Busy, Unharmed
  <2> QED  BY ZenonT(30), <2>1, <2>2 DEF Makes, own
<1>10. CASE ReceiveAbort(r)
  <2>1. ~Quiet
    BY ZenonT(30), <1>10 DEF ReceiveAbort, Quiet
  <2> QED  BY ZenonT(30), <1>10, <1>f, <2>1 DEF ReceiveAbort, Receiving, Become, Aborted, Busy
<1>11. CASE VoteComplete(r) \/ Complete(r)
  <2>1. /\ op' = op /\ faults' = faults /\ rank[r].pc \in {"reduced", "voted"}
        /\ \E x : rank' = [rank EXCEPT ![r] = [rank[r] EXCEPT !.pc = "voted"]]
                \/ rank' = [rank EXCEPT ![r] = [rank[r] EXCEPT !.pc = "returned", !.reported = x]]
    BY <1>11, Zenon DEF VoteComplete, Complete, Become
  <2>2. PICK x : rank' = [rank EXCEPT ![r] = [rank[r] EXCEPT !.pc = "voted"]]
                \/ rank' = [rank EXCEPT ![r] = [rank[r] EXCEPT !.pc = "returned", !.reported = x]]
    BY ZenonT(30), <2>1
  <2> DEFINE v == [rank[r] EXCEPT !.pc = "voted"]
             n == [rank[r] EXCEPT !.pc = "returned", !.reported = x]
  <2>3. RankOK(v, r, own) /\ v.outcome = rank[r].outcome /\ v.pc # "crashed"
    BY ZenonT(30), <1>r DEF RankOK, Shape, Fields, Busy
  <2>4. RankOK(n, r, own) /\ n.outcome = rank[r].outcome /\ n.pc # "crashed"
    BY ZenonT(30), <1>r DEF RankOK, Shape, Fields, Busy
  <2>5. Quiet => rank[r].outcome \notin {"failed", "aborted"}
    BY ZenonT(30) DEF Quiet, Unharmed
  <2> QED  BY ZenonT(30), <2>1, <2>2, <2>3, <2>4, <2>5 DEF Makes, Unharmed, own
<1> QED
  BY ZenonT(30), <1>1, <1>2, <1>3, <1>4, <1>5, <1>6, <1>7, <1>8, <1>9, <1>10, <1>11
  DEF Step, SendFails, ReceiveFails, ReceiveAbort

\* A step of a participant closes no connection that is in order.
LEMMA StepLinks ==
    ASSUME RanksOK, LinksOK, NEW r \in Ranks, Step(r)
    PROVE  /\ LinksOK'
           /\ Quiet => \A q \in Ranks : link'[q].tx = TRUE /\ link'[q].rx = TRUE
<1>0. op' = op
  BY ZenonT(30), StepMakes
<1>1. CASE link' = link
  BY ZenonT(30), <1>0, <1>1 DEF LinksOK, Quiet, Ranks
<1>2. ASSUME NEW q \in Ranks, NEW e, NEW s, \/ link' = [link EXCEPT ![q].entries = e]
                                           \/ link' = [link EXCEPT ![q].entries = e, ![q].seen = s]
      PROVE  /\ LinksOK'
             /\ Quiet => \A x \in Ranks : link'[x].tx = TRUE /\ link'[x].rx = TRUE
  <2>1. Ranks' = Ranks
    BY ZenonT(30), <1>0 DEF Ranks
  <2>2. link' = [x \in Ranks |-> link'[x]]
    BY ZenonT(30), <1>2 DEF LinksOK
  <2>3. \A x \in Ranks : /\ LinkShape(link'[x])
                         /\ link'[x].tx = link[x].tx /\ link'[x].rx = link[x].rx
    BY <1>2 DEF LinksOK, LinkShape
  <2> QED  BY ZenonT(30), <2>1, <2>2, <2>3 DEF LinksOK, Quiet
<1>3. CASE SendLost(r)
  <2>1. Ranks' = Ranks
    BY ZenonT(30), <1>0 DEF Ranks
  <2>2. ~Quiet
    BY ZenonT(30), <1>3 DEF SendLost, Quiet, Unharmed, Crashed
  <2>3. LinksOK'
    BY ZenonT(30), <1>3, <2>1 DEF SendLost, LinksOK, LinkShape
  <2> QED  BY ZenonT(30), <2>2, <2>3
<1>4. CASE BeginStage(r) \/ Send(r)
  <2>1. link' = link \/ \E e : link' = [link EXCEPT ![r].entries = e]
    BY <1>4, Zenon DEF BeginStage, Send
  <2> QED  BY ZenonT(30), <1>1, <1>2, <2>1
<1>5. CASE DropEntry(r) \/ ReceiveMeta(r) \/ ReceiveData(r)
  <2>1. \E e, s : link' = [link EXCEPT ![RxPeer(r)].entries = e, ![RxPeer(r)].seen = s]
    BY <1>5, Zenon DEF DropEntry, ReceiveMeta, ReceiveData, Pop
  <2> QED  BY ZenonT(30), <1>2, <2>1, Predecessor
<1> QED
  BY ZenonT(30), <1>1, <1>3, <1>4, <1>5 DEF Step, Start, SendFails, ReceiveFails, ReceiveNothing,
     ReceiveAbort, VoteComplete, Complete

LEMMA InvInit ==
    ASSUME Init
    PROVE  Inv
<1>1. \A r \in Ranks : RankOK(NewRank(r), r, Contribution(r)) /\ Unharmed(NewRank(r))
  BY ZenonT(30) DEF NewRank, RankOK, Shape, Fields, Contribution, Busy, Unharmed
<1>2. op \in Ops /\ rank = [r \in Ranks |-> NewRank(r)]
  BY ZenonT(30) DEF Init
<1>3. RanksOK
  BY ZenonT(30), <1>1, <1>2 DEF RanksOK
<1>4. PICK used \in BOOLEAN : link = [r \in Ranks |-> NewLink(used)]
  BY ZenonT(30) DEF Init
<1>5. LinkShape(NewLink(used)) /\ NewLink(used).tx = TRUE /\ NewLink(used).rx = TRUE
  BY ZenonT(30) DEF NewLink, LinkShape
<1>6. LinksOK /\ \A r \in Ranks : link[r].tx = TRUE /\ link[r].rx = TRUE
  BY ZenonT(30), <1>4, <1>5 DEF LinksOK
<1>7. MasterOK /\ master.aborted = FALSE /\ faults = 0
  BY ZenonT(30) DEF Init, NewMaster, MasterOK
<1>8. QuietInv
  BY ZenonT(30), <1>1, <1>2, <1>6, <1>7 DEF QuietInv, Quiet
<1> QED  BY ZenonT(30), <1>3, <1>6, <1>7, <1>8 DEF Inv

LEMMA InvStep ==
    ASSUME Inv, [Next]_vars
    PROVE  Inv'
<1> USE DEF Inv
<1>0. ASSUME NEW r \in Ranks, op' = op, NEW rk, rank' = [rank EXCEPT ![r] = rk],
             RankOK(rk, r, Contribution(r))
      PROVE  /\ RanksOK' /\ Ranks' = Ranks /\ Pack' = Pack
             /\ rank'[r] = rk /\ \A q \in Ranks \ {r} : rank'[q] = rank[q]
  <2>1. Ranks' = Ranks /\ Pack' = Pack /\ \A q : Contribution(q)' = Contribution(q)
    BY ZenonT(30), <1>0 DEF Ranks, Pack, Quantizing, Contribution
  <2>2. /\ rank' = [q \in Ranks |-> rank'[q]] /\ rank'[r] = rk
        /\ \A q \in Ranks \ {r} : rank'[q] = rank[q]
    BY ZenonT(30), <1>0 DEF RanksOK
  <2>3. \A q \in Ranks : RankOK(rank'[q], q, Contribution(q))
    BY ZenonT(30), <1>0, <2>2 DEF RanksOK
  <2> QED  BY ZenonT(30), <1>0, <2>1, <2>2, <2>3 DEF RanksOK
<1>1. ASSUME NEW r \in Ranks, Step(r)
      PROVE  Inv'
  <2>1. PICK rk : Makes(r, rk)
    BY ZenonT(30), <1>1, StepMakes
  <2>2. op' = op /\ faults' = faults
    BY ZenonT(30), <1>1, StepMakes
  <2>3. /\ RanksOK' /\ Ranks' = Ranks /\ Pack' = Pack
        /\ rank'[r] = rk /\ \A q \in Ranks \ {r} : rank'[q] = rank[q]
    BY ZenonT(30), <1>0, <2>1, <2>2 DEF Makes
  <2>4. /\ LinksOK'
        /\ Quiet => \A q \in Ranks : link'[q].tx = TRUE /\ link'[q].rx = TRUE
    BY ZenonT(30), <1>1, StepLinks
  <2>5. MasterOK' /\ (Quiet => master'.aborted = FALSE)
    <3>1. CASE VoteComplete(r)
      <4>1. rank[r].outcome = "success" \/ ~Quiet
        BY ZenonT(30), <3>1 DEF VoteComplete, RanksOK, RankOK, Quiet, Unharmed
      <4> QED  BY ZenonT(30), <3>1, <4>1 DEF VoteComplete, MasterOK, Quiet
    <3>2. CASE master' = master
      BY ZenonT(30), <3>2 DEF MasterOK, Quiet
    <3> QED
      BY ZenonT(30), <1>1, <3>1, <3>2 DEF Step, Start, BeginStage, Send, SendLost, SendFails, ReceiveFails,
         DropEntry, ReceiveMeta, ReceiveData, ReceiveNothing, ReceiveAbort, Complete
  <2>6. QuietInv'
    BY ZenonT(30), <2>1, <2>2, <2>3, <2>4, <2>5 DEF QuietInv, Quiet, Makes
  <2> QED  BY ZenonT(30), <2>3, <2>4, <2>5, <2>6
<1>2. ASSUME NEW r \in Ranks, Crash(r)
      PROVE  Inv'
  <2> DEFINE rk == [rank[r] EXCEPT !.pc = "crashed"]
  <2>1. op' = op /\ rank' = [rank EXCEPT ![r] = rk] /\ link' = link /\ master' = master
    BY ZenonT(30), <1>2 DEF Crash, Become
  <2>2. RankOK(rk, r, Contribution(r))
    BY ZenonT(30) DEF RanksOK, RankOK, Shape, Fields, Busy
  <2>3. RanksOK' /\ Ranks' = Ranks
    BY ZenonT(30), <1>0, <2>1, <2>2
  <2>4. QuietInv'
    BY <1>2 DEF Crash, QuietInv
  <2> QED  BY ZenonT(30), <2>1, <2>3, <2>4 DEF LinksOK, MasterOK
<1>3. ASSUME NEW r \in Ranks, Break(r) \/ NoticeClosed(r)
      PROVE  Inv'
  <2>1. op' = op /\ rank' = rank /\ master' = master /\ Ranks' = Ranks
    BY ZenonT(30), <1>3 DEF Break, NoticeClosed, Ranks
  <2>2. RanksOK' /\ MasterOK'
    BY ZenonT(30), <2>1 DEF RanksOK, Contribution, MasterOK
  <2>3. LinksOK'
    BY <1>3, <2>1, Predecessor DEF Break, NoticeClosed, LinksOK, LinkShape
  <2>4. QuietInv'
    <3>1. CASE Break(r)
      BY <3>1 DEF Break, QuietInv
    <3>2. CASE NoticeClosed(r)
      <4>1. ~Quiet
        BY ZenonT(30), <3>2, Predecessor DEF NoticeClosed, Quiet, Unharmed, Crashed
      <4> QED  BY <2>1, <3>2, <4>1 DEF NoticeClosed, QuietInv, Pack, Quantizing
    <3> QED  BY ZenonT(30), <1>3, <3>1, <3>2
  <2> QED  BY ZenonT(30), <2>2, <2>3, <2>4
<1>4. ASSUME NEW r \in Ranks, Disconnect(r)
      PROVE  Inv'
  <2>1. op' = op /\ rank' = rank /\ link' = link /\ faults' = faults
    BY ZenonT(30), <1>4 DEF Disconnect
  <2>2. RanksOK' /\ LinksOK'
    BY ZenonT(30), <2>1 DEF RanksOK, Contribution, LinksOK, Ranks
  <2>3. MasterOK'
    BY ZenonT(30), <1>4 DEF Disconnect, MasterOK
  <2>4. ~Quiet
    BY ZenonT(30), <1>4 DEF Disconnect, Quiet, Unharmed, Crashed
  <2>5. QuietInv'
    BY ZenonT(30), <2>1, <2>4 DEF QuietInv, Pack, Quantizing
  <2> QED  BY ZenonT(30), <2>2, <2>3, <2>5
<1>5. CASE UNCHANGED vars
  BY ZenonT(30), <1>5 DEF vars, RanksOK, LinksOK, MasterOK, QuietInv, Quiet, Ranks, Contribution, Pack,
     Quantizing
<1> QED  BY ZenonT(30), <1>1, <1>2, <1>3, <1>4, <1>5 DEF Next

LEMMA InvHolds == Spec => []Inv
<1>1. Init => Inv
  BY ZenonT(30), InvInit
<1>2. Inv /\ [Next]_vars => Inv'
  BY ZenonT(30), InvStep
<1> QED  BY <1>1, <1>2, PTL DEF Spec

\* Whatever breaks and in whichever stage, a participant that reduces in place and does not
\* succeed has its own data back in the buffer (restore_src_buf), for rings of any size,
\* operations of any length and any number of faults.
THEOREM SourceAlwaysRestored == Spec => []SourceRestored
<1>1. Inv => SourceRestored
  BY ZenonT(30) DEF Inv, RanksOK, RankOK, SourceRestored
<1> QED  BY <1>1, InvHolds, PTL

\* As long as no peer crashes and no connection breaks, no participant of an operation that is
\* not refused at once fails or is aborted, for rings of any size and any interleaving.
THEOREM FailureHasCause == Spec => []FailsOnlyAfterFault
<1>1. Inv => FailsOnlyAfterFault
  BY DEF Inv, QuietInv, Quiet, Unharmed, FailsOnlyAfterFault
<1> QED  BY <1>1, InvHolds, PTL

=============================================================================
