------------------------------ MODULE MCMaster ------------------------------
(***************************************************************************)
(* Instances of Master for TLC: two or three peers of one group behind one *)
(* address, and four shared states over two keys.                          *)
(***************************************************************************)
EXTENDS Master

CONSTANTS p1, p2, p3

TwoPeers   == {p1, p2}
ThreePeers == {p1, p2, p3}

OneGroup   == [p \in Peers |-> 1]
OneAddress == [p \in Peers |-> 1]

MCByUuid == [P \in SUBSET Peers |-> SelectSeq(<<p1, p2, p3>>, LAMBDA p : p \in P)]

\* Two contents of the same key, another key, and both keys.
TwoKeys      == {"k", "l"}
FourContents == {<<<<"k", 1>>>>, <<<<"k", 2>>>>, <<<<"l", 1>>>>, <<<<"k", 1>>, <<"l", 1>>>>}

\* Bound: behaviours are followed until two links have failed.
FewFailures == Cardinality({e \in Peers \X Peers : e[2] \in s.unreachable[e[1]]}) <= 1

=============================================================================
