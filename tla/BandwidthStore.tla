--------------------------- MODULE BandwidthStore ---------------------------
(***************************************************************************)
(* BandwidthStore: which links between accepted peers have been measured.  *)
(* The store is keyed by network address, because peers behind the same    *)
(* address share a link.  A store is a record: peers is registered_peers,  *)
(* links is the set of address pairs that have an entry in bandwidth_map.  *)
(* The measured values only steer the external tour solver, which the      *)
(* model lets return any tour, so they are left out.                       *)
(***************************************************************************)
EXTENDS FiniteSets

CONSTANTS
    Peers,       \* uuids of the peers
    PeerGroup,   \* PeerGroup[p]: the peer group of p
    Addr         \* Addr[p]: the network address p is seen at

ASSUME PeersAssumption == IsFiniteSet(Peers)

EmptyStore == [peers |-> {}, links |-> {}]

Stores == [peers : SUBSET Peers,
           links : SUBSET ({Addr[p] : p \in Peers} \X {Addr[p] : p \in Peers})]

RegisterPeers(b, P) == [b EXCEPT !.peers = @ \cup P]

StoreBandwidth(b, from, to) ==
    IF {from, to} \subseteq b.peers
    THEN [b EXCEPT !.links = @ \cup {<<Addr[from], Addr[to]>>}]
    ELSE b

GroupPeers(b, g) == {p \in b.peers : PeerGroup[p] = g}

GroupAddrs(b, g) == {Addr[p] : p \in GroupPeers(b, g)}

\* addressRepresentativesForGroup: one peer of the group speaks for each address.
Representative(b, g, a) == CHOOSE p \in GroupPeers(b, g) : Addr[p] = a

\* The pairs of peers p still has to be part of a benchmark of.
MissingEntries(b, p) ==
    LET g      == PeerGroup[p]
        others == {Representative(b, g, a) : a \in GroupAddrs(b, g) \ {Addr[p]}}
        pairs  == IF others = {} THEN {<<p, p>>}
                  ELSE ({p} \X others) \cup (others \X {p})
    IN  IF p \notin b.peers THEN {}
        ELSE {e \in pairs : <<Addr[e[1]], Addr[e[2]]>> \notin b.links}

FullyPopulated(b) ==
    \A g \in {PeerGroup[p] : p \in b.peers} :
        LET A == GroupAddrs(b, g)
        IN  IF Cardinality(A) = 1 THEN A \X A \subseteq b.links
            ELSE \A x, y \in A : x # y => <<x, y>> \in b.links

\* The links of an address go with the last peer behind it.
UnregisterPeer(b, p) ==
    LET rest == b.peers \ {p}
        gone == p \in b.peers /\ \A q \in rest : Addr[q] # Addr[p]
    IN  [peers |-> rest,
         links |-> IF gone THEN {l \in b.links : Addr[p] \notin {l[1], l[2]}} ELSE b.links]

=============================================================================
