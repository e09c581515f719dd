----------------------------- MODULE MCCluster -----------------------------
(***************************************************************************)
(* Instances of Cluster for TLC: three peers of one group, and the peer    *)
(* loops that exercise one service each.                                   *)
(***************************************************************************)
EXTENDS Cluster

CONSTANTS p1, p2, p3

ThreePeers == {p1, p2, p3}

OneGroup == [p \in Peers |-> 1]
OwnAddress == [p \in Peers |-> p]

MCByUuid == [P \in SUBSET Peers |-> SelectSeq(<<p1, p2, p3>>, LAMBDA p : p \in P)]

ReduceLoop == {<<"reduce", "update">>}
TrainLoop  == {<<"optimize", "reduce", "update">>}
FaultLoops == ReduceLoop \cup {<<"query", "sync">>}

\* Every client starts with contents of its own.
OneKey     == {"k"}
MCContents == {<<<<"k", n>>>> : n \in 1..3}
OwnContents == [p \in Peers |-> <<<<"k", CASE p = p1 -> 1 [] p = p2 -> 2 [] OTHER -> 3>>>>]

EnforcePopular == [p \in Peers |-> "popular"]

=============================================================================
