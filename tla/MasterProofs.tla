---------------------------- MODULE MasterProofs ----------------------------
(***************************************************************************)
(* Proofs about the master, for any number of peers, groups, tags and      *)
(* operations, and clients that send whatever they like.                   *)
(*                                                                         *)
(* The inductive invariant is Consistent: the type invariant together with *)
(* the three facts that tie the redundant parts of the master's state to   *)
(* each other.  None of the three is inductive by itself.  A transition    *)
(* that clears a vote set moves only the clients the consensus was about;  *)
(* that no other client had a vote follows from what clients that are not  *)
(* accepted may do, and that none of the moved ones has an operation under *)
(* way follows from the states that go with operations.                    *)
(*                                                                         *)
(* A handler is a composition of operators on the state, so there is one   *)
(* lemma per operator, and one per handler that composes them.             *)
(***************************************************************************)
EXTENDS Master, TLAPS

\* The provers get more time than by default.
USE SMTT(20)

\* The type invariant of a state in the middle of a handler.
Typed(r) == r \in MasterStates({r.out})

Consistent(r) == Typed(r) /\ VotesMatch(r) /\ OperationsMatch(r) /\ AcceptedMatch(r)

\* What the proofs need to know of cardinalities.  It follows from the theory of finite sets, at
\* the end of MasterUnisonProofs.
Countable ==
    /\ \A T \in SUBSET Tags : Cardinality(T) \in Nat
    /\ \A P \in SUBSET Peers : /\ Cardinality(P) \in Nat
                               /\ \A Q \in SUBSET P : Cardinality(Q) = Cardinality(P) => Q = P

-----------------------------------------------------------------------------
(* The initial state *)

\* Without clients, votes and operations nothing disagrees.
LEMMA EmptyConsistent == Consistent(EmptyMaster)
<1>1. EmptySync \in SyncStates
  BY DEF EmptySync, SyncStates, Statuses
<1>2. EmptyStore \in Stores /\ EmptyStore.peers = {}
  BY DEF EmptyStore, Stores
<1>3. EmptySync.votes = {} /\ EmptySync.votes_complete = {}
  BY ZenonT(30) DEF EmptySync
<1>4. Typed(EmptyMaster)
  BY <1>1, <1>2 DEF EmptyMaster, Typed, MasterStates, Phases, ConnectionStates, CollStates
<1>5. VotesMatch(EmptyMaster)
  BY ZenonT(30), <1>3 DEF EmptyMaster, VotesMatch, In, Registered
<1>6. OperationsMatch(EmptyMaster)
  BY ZenonT(30) DEF EmptyMaster, OperationsMatch
<1>7. AcceptedMatch(EmptyMaster)
  BY ZenonT(30), <1>2 DEF EmptyMaster, AcceptedMatch, Accepted, ConnectingStates
<1> QED
  BY ZenonT(30), <1>4, <1>5, <1>6, <1>7 DEF Consistent

-----------------------------------------------------------------------------
(* Updates the three facts do not see *)

SameVotes(q, r) ==
    /\ q.phase = r.phase
    /\ q.state = r.state
    /\ q.query = r.query
    /\ q.coll = r.coll
    /\ q.votes_accept = r.votes_accept
    /\ q.votes_establish = r.votes_establish
    /\ q.votes_optimize = r.votes_optimize
    /\ q.votes_optimized = r.votes_optimized
    /\ q.bandwidth.peers = r.bandwidth.peers
    /\ q.sync.votes = r.sync.votes
    /\ q.sync.votes_complete = r.sync.votes_complete

\* An update of fields outside the votes, such as the ring, preserves the invariant.
LEMMA Unseen ==
    ASSUME NEW r, NEW q, Consistent(r), Typed(q), SameVotes(q, r)
    PROVE  Consistent(q)
<1>1. VotesMatch(q)
  BY DEF Consistent, SameVotes, VotesMatch, In, Registered
<1>2. OperationsMatch(q)
  BY DEF Consistent, SameVotes, OperationsMatch
<1>3. AcceptedMatch(q)
  BY DEF Consistent, SameVotes, AcceptedMatch, Accepted
<1> QED
  BY ZenonT(30), <1>1, <1>2, <1>3 DEF Consistent

\* The states that stand for a vote in one of the six vote sets.
VoteStates == {"VOTE_ACCEPT_NEW_PEERS", "VOTE_NO_NEW_PEERS", "VOTE_OPTIMIZE_TOPOLOGY",
               "VOTE_COMPLETE_TOPOLOGY_OPTIMIZATION", "VOTE_SYNC_SHARED_STATE",
               "VOTE_COMPLETE_SHARED_STATE_SYNC"}

\* Clients that move between states that stand for no vote leave the vote sets correct.
LEMMA VotesKept ==
    ASSUME NEW r, NEW q, VotesMatch(r), q.phase = r.phase, q.sync = r.sync,
           q.votes_accept = r.votes_accept, q.votes_establish = r.votes_establish,
           q.votes_optimize = r.votes_optimize, q.votes_optimized = r.votes_optimized,
           \A c \in Peers : \/ q.state[c] = r.state[c]
                            \/ q.state[c] \notin VoteStates /\ r.state[c] \notin VoteStates
    PROVE  VotesMatch(q)
<1>1. Registered(q) = Registered(r)
  BY ZenonT(30) DEF Registered
<1>2. ASSUME NEW v \in VoteStates
      PROVE  In(q, {v}) = In(r, {v})
  <2>1. \A c \in Registered(r) : q.state[c] \in {v} <=> r.state[c] \in {v}
    BY ZenonT(30), <1>2 DEF Registered
  <2> QED
    BY ZenonT(30), <1>1, <2>1 DEF In
<1> QED
  BY ZenonT(30), <1>2 DEF VotesMatch, VoteStates

\* Sending packets changes nothing but out.
LEMMA SendConsistent ==
    ASSUME NEW r, Consistent(r), NEW batch
    PROVE  Consistent(Send(r, batch))
<1> DEFINE q == Send(r, batch)
<1>1. Typed(q) /\ SameVotes(q, r)
  BY ZenonT(30) DEF Consistent, Typed, MasterStates, SameVotes, Send
<1> QED
  BY ZenonT(30), <1>1, Unseen

\* Neither does a step of the handler leave anything behind in out.
LEMMA DeliveredConsistent ==
    ASSUME NEW r, Consistent(r)
    PROVE  Consistent(Delivered(r)) /\ Delivered(r).out = <<>>
<1> DEFINE q == Delivered(r)
<1>1. Typed(q) /\ SameVotes(q, r) /\ q.out = <<>>
  BY ZenonT(30) DEF Consistent, Typed, MasterStates, SameVotes, Delivered
<1> QED
  BY <1>1, Unseen

\* Closing connections, by a kick or by the client.
LEMMA CutConsistent ==
    ASSUME NEW r, Consistent(r), NEW C \in SUBSET Peers
    PROVE  Consistent([r EXCEPT !.cut = C])
<1> DEFINE q == [r EXCEPT !.cut = C]
<1>1. Typed(q) /\ SameVotes(q, r)
  BY ZenonT(30) DEF Consistent, Typed, MasterStates, SameVotes
<1> QED
  BY <1>1, Unseen

\* kickClient only marks the connection.
LEMMA KickConsistent ==
    ASSUME NEW r, Consistent(r), NEW c \in Peers
    PROVE  Consistent(Kick(r, c))
<1>1. r.cut \cup {c} \in SUBSET Peers
  BY DEF Consistent, Typed, MasterStates
<1> QED
  BY <1>1, CutConsistent DEF Kick

\* peer_dropped is a flag of the handler alone.
LEMMA DroppedConsistent ==
    ASSUME NEW r, Consistent(r)
    PROVE  /\ Consistent([r EXCEPT !.peer_dropped = TRUE])
           /\ Consistent([r EXCEPT !.peer_dropped = FALSE])
<1> DEFINE p == [r EXCEPT !.peer_dropped = TRUE]
           q == [r EXCEPT !.peer_dropped = FALSE]
<1>1. Typed(p) /\ SameVotes(p, r) /\ Typed(q) /\ SameVotes(q, r)
  BY ZenonT(30) DEF Consistent, Typed, MasterStates, SameVotes
<1> QED
  BY ZenonT(30), <1>1, Unseen

\* New rings, and a new record of the neighbours clients were told of.
LEMMA RingsConsistent ==
    ASSUME NEW r, Consistent(r),
           NEW R \in [Groups -> Seq(Peers)], NEW O \in [Groups -> BOOLEAN]
    PROVE  Consistent([r EXCEPT !.ring = R, !.optimal = O])
<1> DEFINE q == [r EXCEPT !.ring = R, !.optimal = O]
<1>1. Typed(q) /\ SameVotes(q, r)
  BY ZenonT(30) DEF Consistent, Typed, MasterStates, SameVotes
<1> QED
  BY <1>1, Unseen

\* Neither are the neighbours sent last.
LEMMA PrevInfoConsistent ==
    ASSUME NEW r, Consistent(r), NEW I \in [Peers -> SUBSET Peers]
    PROVE  Consistent([r EXCEPT !.prev_info = I])
<1> DEFINE q == [r EXCEPT !.prev_info = I]
<1>1. Typed(q) /\ SameVotes(q, r)
  BY ZenonT(30) DEF Consistent, Typed, MasterStates, SameVotes
<1> QED
  BY <1>1, Unseen

\* Neither is the unreachability map.
LEMMA UnreachableConsistent ==
    ASSUME NEW r, Consistent(r), NEW U \in [Peers -> SUBSET Peers]
    PROVE  Consistent([r EXCEPT !.unreachable = U])
<1> DEFINE q == [r EXCEPT !.unreachable = U]
<1>1. Typed(q) /\ SameVotes(q, r)
  BY ZenonT(30) DEF Consistent, Typed, MasterStates, SameVotes
<1> QED
  BY <1>1, Unseen

-----------------------------------------------------------------------------
(* Rings *)

\* The basic ring is a sequence of peers, whatever the states of the clients.
LEMMA BasicRingType ==
    ASSUME NEW r, NEW g
    PROVE  BuildBasicRingTopology(r, g) \in Seq(Peers)
<1>1. RingPeers(r, g) \in SUBSET Peers
  BY DEF RingPeers, Registered
<1> QED
  BY <1>1, ByUuidAssumption DEF BuildBasicRingTopology

\* So is a tour over some of the peers.
LEMMA TourType ==
    ASSUME Countable, NEW P \in SUBSET Peers, NEW t \in Tours(P)
    PROVE  t \in Seq(Peers)
<1>1. Cardinality(P) \in Nat
  BY DEF Countable
<1>2. t \in [1..Cardinality(P) -> P]
  BY DEF Tours, Bijection, Injection
<1> QED
  BY <1>1, <1>2

\* getRingTopology rebuilds dirty rings and touches nothing else.
LEMMA GetRingTopologyConsistent ==
    ASSUME NEW r, Consistent(r), NEW G, NEW include_registered
    PROVE  Consistent(GetRingTopology(r, G, include_registered))
<1> DEFINE rebuilt(g) == /\ g \in G
                         /\ IsTopologyDirty(r, g, include_registered)
                         /\ ~KeepsOptimal(r, g, BuildBasicRingTopology(r, g))
           R == [g \in Groups |-> IF rebuilt(g) THEN BuildBasicRingTopology(r, g) ELSE r.ring[g]]
           O == [g \in Groups |-> r.optimal[g] /\ ~rebuilt(g)]
<1>1. r.ring \in [Groups -> Seq(Peers)] /\ r.optimal \in [Groups -> BOOLEAN]
  BY DEF Consistent, Typed, MasterStates
<1>2. R \in [Groups -> Seq(Peers)]
  BY ZenonT(30), <1>1, BasicRingType
<1>3. O \in [Groups -> BOOLEAN]
  BY ZenonT(30), <1>1
<1>4. GetRingTopology(r, G, include_registered) = [r EXCEPT !.ring = R, !.optimal = O]
  BY DEF GetRingTopology, Consistent, Typed, MasterStates
<1> HIDE DEF R, O
<1>5. Consistent([r EXCEPT !.ring = R, !.optimal = O])
  BY ZenonT(30), <1>2, <1>3, RingsConsistent
<1> QED
  BY ZenonT(30), <1>4, <1>5

\* setRingTopology installs a ring of peers or keeps the old one.
LEMMA SetRingTopologyConsistent ==
    ASSUME NEW r, Consistent(r), NEW g \in Groups, NEW new \in Seq(Peers), NEW optimal \in BOOLEAN
    PROVE  Consistent(SetRingTopology(r, g, new, optimal))
<1>1. r.ring \in [Groups -> Seq(Peers)] /\ r.optimal \in [Groups -> BOOLEAN]
  BY DEF Consistent, Typed, MasterStates
<1> DEFINE R == [r.ring EXCEPT ![g] = new]
           O == [r.optimal EXCEPT ![g] = optimal]
<1>2. R \in [Groups -> Seq(Peers)] /\ O \in [Groups -> BOOLEAN]
  BY ZenonT(30), <1>1
<1>3. SetRingTopology(r, g, new, optimal) \in {r, [r EXCEPT !.ring = R, !.optimal = O]}
  BY DEF SetRingTopology, Consistent, Typed, MasterStates
<1> HIDE DEF R, O
<1>4. Consistent([r EXCEPT !.ring = R, !.optimal = O])
  BY ZenonT(30), <1>2, RingsConsistent
<1> QED
  BY ZenonT(30), <1>3, <1>4

\* The neighbours a client is told of are peers.
LEMMA NeighboursType ==
    ASSUME NEW r, NEW c
    PROVE  Range(GetPeersForClient(r, c)) \in SUBSET Peers
<1> DEFINE ring == r.ring[PeerGroup[c]]
           i    == IF c \in Range(ring) THEN CHOOSE j \in DOMAIN ring : ring[j] = c ELSE 1
           prev == ring[PrevIndex(ring, i)]
           next == ring[NextIndex(ring, i)]
           known == {prev, next} \subseteq Registered(r)
<1>0. GetPeersForClient(r, c) = IF Len(ring) <= 1 THEN <<>>
                                ELSE IF ~known THEN <<>>
                                ELSE IF prev = next THEN <<prev>> ELSE <<prev, next>>
  BY DEF GetPeersForClient
<1>1. known => prev \in Peers /\ next \in Peers
  BY DEF Registered
<1> HIDE DEF ring, i, prev, next, known
<1>2. Range(<<>>) \in SUBSET Peers
  BY DEF Range
<1>3. \A p \in Peers : Range(<<p>>) \in SUBSET Peers
  BY DEF Range
<1>4. \A p, q \in Peers : Range(<<p, q>>) \in SUBSET Peers
  BY DEF Range
<1>5. CASE Len(ring) <= 1 \/ ~known
  BY <1>0, <1>2, <1>5
<1>6. CASE ~(Len(ring) <= 1) /\ known /\ prev = next
  BY <1>0, <1>1, <1>3, <1>6
<1>7. CASE ~(Len(ring) <= 1) /\ known /\ prev # next
  BY <1>0, <1>1, <1>4, <1>7
<1> QED
  BY ZenonT(30), <1>5, <1>6, <1>7

-----------------------------------------------------------------------------
(* P2P establishment *)

\* onPeerAccepted makes clients accepted and known to the bandwidth store at once.
LEMMA OnPeerAcceptedConsistent ==
    ASSUME NEW r, Consistent(r), NEW C \in SUBSET Peers
    PROVE  Consistent(OnPeerAccepted(r, C))
<1> DEFINE q == OnPeerAccepted(r, C)
<1>1. /\ r.phase \in [Peers -> Phases]
      /\ r.state \in [Peers -> ConnectionStates]
      /\ r.bandwidth \in Stores
  BY DEF Consistent, Typed, MasterStates
<1>2. Typed(q)
  BY ZenonT(30) DEF Consistent, Typed, MasterStates, OnPeerAccepted, RegisterPeers, Stores, Phases
<1>3. /\ q.phase = [c \in Peers |-> IF c \in C THEN "ACCEPTED" ELSE r.phase[c]]
      /\ q.state = r.state /\ q.query = r.query /\ q.coll = r.coll
      /\ q.votes_accept = r.votes_accept /\ q.votes_establish = r.votes_establish
      /\ q.votes_optimize = r.votes_optimize /\ q.votes_optimized = r.votes_optimized
      /\ q.bandwidth.peers = r.bandwidth.peers \cup C
      /\ q.sync = r.sync
  BY <1>1 DEF Consistent, Typed, MasterStates, OnPeerAccepted, RegisterPeers, Stores
<1> HIDE DEF q
<1>4. \A c \in Peers : r.phase[c] # "ACCEPTED" => r.state[c] \in ConnectingStates
  BY DEF Consistent, AcceptedMatch, Accepted
<1>5. \A st \in {"VOTE_ACCEPT_NEW_PEERS", "VOTE_NO_NEW_PEERS", "VOTE_OPTIMIZE_TOPOLOGY",
                 "VOTE_COMPLETE_TOPOLOGY_OPTIMIZATION", "VOTE_SYNC_SHARED_STATE",
                 "VOTE_COMPLETE_SHARED_STATE_SYNC"} : In(q, {st}) = In(r, {st})
  BY <1>1, <1>3, <1>4 DEF In, Registered, ConnectingStates
<1>6. VotesMatch(q)
  BY <1>3, <1>5 DEF Consistent, VotesMatch
<1>7. OperationsMatch(q)
  BY <1>3 DEF Consistent, OperationsMatch
<1>8. AcceptedMatch(q)
  BY <1>1, <1>3 DEF Consistent, AcceptedMatch, Accepted
<1>9. Consistent(q)
  BY ZenonT(30), <1>2, <1>6, <1>7, <1>8 DEF Consistent
<1> QED
  BY ZenonT(30), <1>9 DEF q

\* A vote of voteEstablishP2PConnections is recorded in the state and in the set.
LEMMA VoteEstablishConsistent ==
    ASSUME NEW r, Consistent(r), NEW c \in Peers, CanVoteEstablish(r, c)
    PROVE  /\ Consistent(VoteEstablishP2PConnections(r, c, TRUE))
           /\ Consistent(VoteEstablishP2PConnections(r, c, FALSE))
<1>1. r.phase \in [Peers -> Phases] /\ r.state \in [Peers -> ConnectionStates]
  BY DEF Consistent, Typed, MasterStates
<1>2. Consistent(VoteEstablishP2PConnections(r, c, TRUE))
  <2> DEFINE q == VoteEstablishP2PConnections(r, c, TRUE)
  <2>1. Typed(q)
    BY ZenonT(30) DEF Consistent, Typed, MasterStates, VoteEstablishP2PConnections, ConnectionStates
  <2>2. /\ q.state = [r.state EXCEPT ![c] = "VOTE_ACCEPT_NEW_PEERS"]
        /\ q.votes_accept = r.votes_accept \cup {c}
        /\ q.phase = r.phase /\ q.query = r.query /\ q.coll = r.coll
        /\ q.votes_establish = r.votes_establish
        /\ q.votes_optimize = r.votes_optimize /\ q.votes_optimized = r.votes_optimized
        /\ q.bandwidth = r.bandwidth /\ q.sync = r.sync
    BY DEF Consistent, Typed, MasterStates, VoteEstablishP2PConnections
  <2> HIDE DEF q
  <2>3. VotesMatch(q)
    BY <1>1, <2>2 DEF Consistent, VotesMatch, In, Registered, CanVoteEstablish
  <2>4. OperationsMatch(q)
    BY <1>1, <2>2 DEF Consistent, OperationsMatch, CanVoteEstablish
  <2>5. AcceptedMatch(q)
    BY <1>1, <2>2 DEF Consistent, AcceptedMatch, Accepted, CanVoteEstablish
  <2>6. Consistent(q)
    BY <2>1, <2>3, <2>4, <2>5 DEF Consistent
  <2> QED
    BY ZenonT(30), <2>6 DEF q
<1>3. Consistent(VoteEstablishP2PConnections(r, c, FALSE))
  <2> DEFINE q == VoteEstablishP2PConnections(r, c, FALSE)
  <2>1. Typed(q)
    BY ZenonT(30) DEF Consistent, Typed, MasterStates, VoteEstablishP2PConnections, ConnectionStates
  <2>2. /\ q.state = [r.state EXCEPT ![c] = "VOTE_NO_NEW_PEERS"]
        /\ q.votes_establish = r.votes_establish \cup {c}
        /\ q.phase = r.phase /\ q.query = r.query /\ q.coll = r.coll
        /\ q.votes_accept = r.votes_accept
        /\ q.votes_optimize = r.votes_optimize /\ q.votes_optimized = r.votes_optimized
        /\ q.bandwidth = r.bandwidth /\ q.sync = r.sync
    BY DEF Consistent, Typed, MasterStates, VoteEstablishP2PConnections
  <2> HIDE DEF q
  <2>3. VotesMatch(q)
    BY <1>1, <2>2 DEF Consistent, VotesMatch, In, Registered, CanVoteEstablish
  <2>4. OperationsMatch(q)
    BY <1>1, <2>2 DEF Consistent, OperationsMatch, CanVoteEstablish
  <2>5. AcceptedMatch(q)
    BY <1>1, <2>2 DEF Consistent, AcceptedMatch, Accepted, CanVoteEstablish
  <2>6. Consistent(q)
    BY <2>1, <2>3, <2>4, <2>5 DEF Consistent
  <2> QED
    BY ZenonT(30), <2>6 DEF q
<1> QED
  BY ZenonT(30), <1>2, <1>3

\* transitionToP2PEstablishmentPhase clears a vote set when all its voters move.
LEMMA TransitionP2PConsistent ==
    ASSUME NEW r, Consistent(r)
    PROVE  /\ AcceptNewPeersConsensus(r) => Consistent(TransitionToP2PEstablishmentPhase(r, TRUE))
           /\ NoAcceptNewPeersConsensus(r) => Consistent(TransitionToP2PEstablishmentPhase(r, FALSE))
<1>1. r.phase \in [Peers -> Phases] /\ r.state \in [Peers -> ConnectionStates]
  BY ZenonT(30) DEF Consistent, Typed, MasterStates
<1>2. \A c \in Peers : r.phase[c] # "ACCEPTED" => r.state[c] \in ConnectingStates
  BY DEF Consistent, AcceptedMatch, Accepted
<1>3. ASSUME AcceptNewPeersConsensus(r) PROVE Consistent(TransitionToP2PEstablishmentPhase(r, TRUE))
  <2> DEFINE q == TransitionToP2PEstablishmentPhase(r, TRUE)
  <2>1. Typed(q)
    BY ZenonT(30) DEF Consistent, Typed, MasterStates, TransitionToP2PEstablishmentPhase, ConnectionStates
  <2>2. /\ q.state = [c \in Peers |-> IF c \in Registered(r) THEN "CONNECTING_TO_PEERS" ELSE r.state[c]]
        /\ q.votes_accept = {}
        /\ q.phase = r.phase /\ q.query = r.query /\ q.coll = r.coll
        /\ q.votes_establish = r.votes_establish
        /\ q.votes_optimize = r.votes_optimize /\ q.votes_optimized = r.votes_optimized
        /\ q.bandwidth = r.bandwidth /\ q.sync = r.sync
    BY DEF Consistent, Typed, MasterStates, TransitionToP2PEstablishmentPhase
  <2> HIDE DEF q
  <2>3. \A c \in Registered(r) : r.state[c] \in ConnectingStates \cup {"VOTE_ACCEPT_NEW_PEERS"}
    BY <1>1, <1>2, <1>3 DEF AcceptNewPeersConsensus, UnanimousIn, Registered, Phases
  <2>4. VotesMatch(q)
    BY <1>1, <2>2, <2>3 DEF Consistent, VotesMatch, In, Registered, ConnectingStates
  <2>5. OperationsMatch(q)
    BY <1>1, <2>2, <2>3 DEF Consistent, OperationsMatch, Registered, ConnectingStates
  <2>6. AcceptedMatch(q)
    BY <1>1, <2>2 DEF Consistent, AcceptedMatch, Accepted, Registered, ConnectingStates
  <2>7. Consistent(q)
    BY <2>1, <2>4, <2>5, <2>6 DEF Consistent
  <2> QED
    BY ZenonT(30), <2>7 DEF q
<1>4. ASSUME NoAcceptNewPeersConsensus(r) PROVE Consistent(TransitionToP2PEstablishmentPhase(r, FALSE))
  <2> DEFINE q == TransitionToP2PEstablishmentPhase(r, FALSE)
  <2>1. Typed(q)
    BY ZenonT(30) DEF Consistent, Typed, MasterStates, TransitionToP2PEstablishmentPhase, ConnectionStates
  <2>2. /\ q.state = [c \in Peers |-> IF c \in Accepted(r) THEN "CONNECTING_TO_PEERS" ELSE r.state[c]]
        /\ q.votes_establish = {}
        /\ q.phase = r.phase /\ q.query = r.query /\ q.coll = r.coll
        /\ q.votes_accept = r.votes_accept
        /\ q.votes_optimize = r.votes_optimize /\ q.votes_optimized = r.votes_optimized
        /\ q.bandwidth = r.bandwidth /\ q.sync = r.sync
    BY DEF Consistent, Typed, MasterStates, TransitionToP2PEstablishmentPhase
  <2> HIDE DEF q
  <2>3. \A c \in Accepted(r) : r.state[c] = "VOTE_NO_NEW_PEERS"
    BY <1>4 DEF NoAcceptNewPeersConsensus, UnanimousIn, Registered, Accepted
  <2>4. VotesMatch(q)
    BY <1>1, <1>2, <2>2, <2>3 DEF Consistent, VotesMatch, In, Registered, Accepted, ConnectingStates
  <2>5. OperationsMatch(q)
    BY <1>1, <2>2, <2>3 DEF Consistent, OperationsMatch, Accepted
  <2>6. AcceptedMatch(q)
    BY <1>1, <2>2 DEF Consistent, AcceptedMatch, Accepted
  <2>7. Consistent(q)
    BY <2>1, <2>4, <2>5, <2>6 DEF Consistent
  <2> QED
    BY ZenonT(30), <2>7 DEF q
<1> QED
  BY ZenonT(30), <1>3, <1>4

\* sendP2PConnectionInformation rebuilds rings and sends.
LEMMA SendP2PConnectionInformationConsistent ==
    ASSUME NEW r, Consistent(r), NEW include_registered
    PROVE  Consistent(SendP2PConnectionInformation(r, include_registered))
<1> DEFINE to   == In(r, {"CONNECTING_TO_PEERS"})
           q    == GetRingTopology(r, {PeerGroup[c] : c \in to}, include_registered)
           near == [c \in to |-> GetPeersForClient(q, c)]
           I    == [c \in Peers |-> IF c \in to THEN Range(near[c]) ELSE q.prev_info[c]]
<1>1. Consistent(q)
  BY ZenonT(30), GetRingTopologyConsistent
<1>2. I \in [Peers -> SUBSET Peers]
  <2>1. q.prev_info \in [Peers -> SUBSET Peers]
    BY ZenonT(30), <1>1 DEF Consistent, Typed, MasterStates
  <2> HIDE DEF q, to
  <2> QED
    BY ZenonT(30), <2>1, NeighboursType
<1>3. Consistent([q EXCEPT !.prev_info = I])
  <2> HIDE DEF q, I
  <2> QED
    BY ZenonT(30), <1>1, <1>2, PrevInfoConsistent
<1> QED
  BY <1>3, SendConsistent DEF SendP2PConnectionInformation

\* checkEstablishP2PConnectionConsensus, both of its branches.
LEMMA CheckEstablishConsistent ==
    ASSUME NEW r, Consistent(r)
    PROVE  Consistent(CheckEstablishP2PConnectionConsensus(r))
<1>1. ASSUME NEW q, Consistent(q), AcceptNewPeersConsensus(q)
      PROVE  Consistent(StartP2PPhase(q, TRUE))
  <2> DEFINE p == [q EXCEPT !.peer_dropped = FALSE]
  <2>1. Consistent(p)
    BY ZenonT(30), <1>1, DroppedConsistent
  <2>2. AcceptNewPeersConsensus(p)
    BY <1>1 DEF AcceptNewPeersConsensus, UnanimousIn, Registered, Consistent, Typed, MasterStates
  <2> HIDE DEF p
  <2>3. Consistent(TransitionToP2PEstablishmentPhase(p, TRUE))
    BY ZenonT(30), <2>1, <2>2, TransitionP2PConsistent
  <2>4. Consistent(SendP2PConnectionInformation(TransitionToP2PEstablishmentPhase(p, TRUE), TRUE))
    BY ZenonT(30), <2>3, SendP2PConnectionInformationConsistent
  <2> QED
    BY ZenonT(30), <2>4 DEF StartP2PPhase, p
<1>2. ASSUME NEW q, Consistent(q), NoAcceptNewPeersConsensus(q)
      PROVE  Consistent(StartP2PPhase(q, FALSE))
  <2> DEFINE p == [q EXCEPT !.peer_dropped = FALSE]
  <2>1. Consistent(p)
    BY ZenonT(30), <1>2, DroppedConsistent
  <2>2. NoAcceptNewPeersConsensus(p)
    BY ZenonT(30), <1>2 DEF NoAcceptNewPeersConsensus, UnanimousIn, Registered, Consistent, Typed, MasterStates
  <2> HIDE DEF p
  <2>3. Consistent(TransitionToP2PEstablishmentPhase(p, FALSE))
    BY ZenonT(30), <2>1, <2>2, TransitionP2PConsistent
  <2>4. Consistent(SendP2PConnectionInformation(TransitionToP2PEstablishmentPhase(p, FALSE), FALSE))
    BY ZenonT(30), <2>3, SendP2PConnectionInformationConsistent
  <2> QED
    BY ZenonT(30), <2>4 DEF StartP2PPhase, p
<1> DEFINE a == IF AcceptNewPeersConsensus(r) THEN StartP2PPhase(r, TRUE) ELSE r
<1>3. Consistent(a)
  BY ZenonT(30), <1>1
<1> HIDE DEF a
<1>4. Consistent(IF NoAcceptNewPeersConsensus(a) THEN StartP2PPhase(a, FALSE) ELSE a)
  BY ZenonT(30), <1>2, <1>3
<1> QED
  BY ZenonT(30), <1>4 DEF CheckEstablishP2PConnectionConsensus, a

\* registerClient adds an idle client, or accepts the first one at once.
LEMMA RegisterClientConsistent ==
    ASSUME NEW r, Consistent(r), NEW c \in Peers, c \notin Registered(r)
    PROVE  Consistent(RegisterClient(r, c))
<1> DEFINE q == [r EXCEPT !.phase[c] = "REGISTERED", !.state[c] = "IDLE"]
<1>1. /\ r.phase \in [Peers -> Phases] /\ r.state \in [Peers -> ConnectionStates]
      /\ r.phase[c] = "NONE" /\ r.state[c] \in ConnectingStates
  BY DEF Consistent, Typed, MasterStates, AcceptedMatch, Accepted, Registered
<1>2. Consistent(q)
  <2>1. Typed(q)
    BY ZenonT(30) DEF Consistent, Typed, MasterStates, Phases, ConnectionStates
  <2>2. /\ q.phase = [r.phase EXCEPT ![c] = "REGISTERED"]
        /\ q.state = [r.state EXCEPT ![c] = "IDLE"]
        /\ q.query = r.query /\ q.coll = r.coll
        /\ q.votes_accept = r.votes_accept /\ q.votes_establish = r.votes_establish
        /\ q.votes_optimize = r.votes_optimize /\ q.votes_optimized = r.votes_optimized
        /\ q.bandwidth = r.bandwidth /\ q.sync = r.sync
    BY ZenonT(30) DEF Consistent, Typed, MasterStates
  <2> HIDE DEF q
  <2>3. VotesMatch(q)
    BY <1>1, <2>2 DEF Consistent, VotesMatch, In, Registered
  <2>4. OperationsMatch(q)
    BY <1>1, <2>2 DEF Consistent, OperationsMatch, ConnectingStates
  <2>5. AcceptedMatch(q)
    BY <1>1, <2>2 DEF Consistent, AcceptedMatch, Accepted, ConnectingStates
  <2> QED
    BY ZenonT(30), <2>1, <2>3, <2>4, <2>5 DEF Consistent
<1>3. CASE Registered(r) # {}
  BY ZenonT(30), <1>2, <1>3 DEF RegisterClient
<1>4. CASE Registered(r) = {}
  <2> DEFINE p == OnPeerAccepted(q, {c})
             v == VoteEstablishP2PConnections(p, c, TRUE)
  <2>1. Consistent(p)
    BY ZenonT(30), <1>2, OnPeerAcceptedConsistent
  <2>2. /\ p.phase \in [Peers -> Phases] /\ p.state \in [Peers -> ConnectionStates]
        /\ \A e \in Peers : p.phase[e] # "NONE" => e = c
        /\ p.phase[c] = "ACCEPTED" /\ p.state[c] = "IDLE"
    <3>1. /\ q.phase = [r.phase EXCEPT ![c] = "REGISTERED"] /\ q.state = [r.state EXCEPT ![c] = "IDLE"]
          /\ q \in MasterStates({q.out})
      BY <1>2 DEF Consistent, Typed, MasterStates
    <3> HIDE DEF q
    <3>2. /\ p.phase = [e \in Peers |-> IF e \in {c} THEN "ACCEPTED" ELSE q.phase[e]]
          /\ p.state = q.state
      BY <3>1 DEF OnPeerAccepted, MasterStates
    <3>3. p.phase \in [Peers -> Phases] /\ p.state \in [Peers -> ConnectionStates]
      BY ZenonT(30), <2>1 DEF Consistent, Typed, MasterStates
    <3> HIDE DEF p
    <3> QED
      BY ZenonT(30), <1>1, <1>4, <3>1, <3>2, <3>3 DEF Registered
  <2> HIDE DEF p
  <2>3. Consistent(v)
    BY ZenonT(30), <2>1, <2>2, VoteEstablishConsistent DEF CanVoteEstablish
  <2>4. v.phase = p.phase /\ v.state = [p.state EXCEPT ![c] = "VOTE_ACCEPT_NEW_PEERS"]
    BY ZenonT(30), <2>1 DEF VoteEstablishP2PConnections, Consistent, Typed, MasterStates
  <2> HIDE DEF v
  <2>5. AcceptNewPeersConsensus(v)
    BY ZenonT(30), <2>2, <2>4 DEF AcceptNewPeersConsensus, UnanimousIn, Registered
  <2>6. Consistent(TransitionToP2PEstablishmentPhase(v, TRUE))
    BY ZenonT(30), <2>3, <2>5, TransitionP2PConsistent
  <2> QED
    BY ZenonT(30), <1>4, <2>6 DEF RegisterClient, v, p
<1> QED
  BY ZenonT(30), <1>3, <1>4

\* Clients that waited for others leave the p2p phase and are accepted.
LEMMA LeaveP2PPhaseConsistent ==
    ASSUME NEW r, Consistent(r), NEW M \in SUBSET In(r, {"WAITING_FOR_OTHER_PEERS"}),
           NEW st \in {"IDLE", "CONNECTING_TO_PEERS_FAILED"}
    PROVE  Consistent(LeaveP2PPhase(r, M, st))
<1> DEFINE q == [r EXCEPT !.state = [c \in Peers |-> IF c \in M THEN st ELSE r.state[c]]]
<1>1. r.phase \in [Peers -> Phases] /\ r.state \in [Peers -> ConnectionStates]
  BY ZenonT(30) DEF Consistent, Typed, MasterStates
<1>2. Typed(q)
  BY ZenonT(30) DEF Consistent, Typed, MasterStates, ConnectionStates
<1>3. /\ q.state = [c \in Peers |-> IF c \in M THEN st ELSE r.state[c]]
      /\ q.phase = r.phase /\ q.query = r.query /\ q.coll = r.coll
      /\ q.votes_accept = r.votes_accept /\ q.votes_establish = r.votes_establish
      /\ q.votes_optimize = r.votes_optimize /\ q.votes_optimized = r.votes_optimized
      /\ q.bandwidth = r.bandwidth /\ q.sync = r.sync
  BY DEF Consistent, Typed, MasterStates
<1>4. \A c \in M : c \in Peers /\ r.state[c] = "WAITING_FOR_OTHER_PEERS"
  BY DEF In, Registered
<1> HIDE DEF q
<1>5. VotesMatch(q)
  BY <1>1, <1>3, <1>4 DEF Consistent, VotesMatch, In, Registered
<1>6. OperationsMatch(q)
  BY <1>1, <1>3, <1>4 DEF Consistent, OperationsMatch
<1>7. AcceptedMatch(q)
  BY <1>1, <1>3, <1>4 DEF Consistent, AcceptedMatch, Accepted, ConnectingStates
<1>8. Consistent(q)
  BY ZenonT(30), <1>2, <1>5, <1>6, <1>7 DEF Consistent
<1>9. M \in SUBSET Peers
  BY <1>4
<1> QED
  BY ZenonT(30), <1>8, <1>9, OnPeerAcceptedConsistent DEF LeaveP2PPhase, q

\* Telling the clients how the p2p phase ended changes rings at most.
LEMMA SendEstablishedConsistent ==
    ASSUME NEW r, Consistent(r), NEW success
    PROVE  Consistent(SendP2PConnectionsEstablished(r, success))
<1> DEFINE q == GetRingTopology(r, {PeerGroup[c] : c \in InP2PPhase(r)}, FALSE)
<1>1. Consistent(q)
  BY ZenonT(30), GetRingTopologyConsistent
<1> QED
  BY ZenonT(30), <1>1, SendConsistent DEF SendP2PConnectionsEstablished

\* checkP2PConnectionsEstablished, also when its transition gives up half way.
LEMMA CheckP2PEstablishedConsistent ==
    ASSUME NEW r, Consistent(r), NEW q \in CheckP2PConnectionsEstablished(r)
    PROVE  Consistent(q)
<1> DEFINE waiting == In(r, {"WAITING_FOR_OTHER_PEERS"})
           failure == r.peer_dropped \/ In(r, {"CONNECTING_TO_PEERS_FAILED"}) # {}
           st      == IF failure THEN "CONNECTING_TO_PEERS_FAILED" ELSE "IDLE"
           p       == [r EXCEPT !.peer_dropped = FALSE]
<1>1. Consistent(p)
  BY ZenonT(30), DroppedConsistent
<1>2. In(p, {"WAITING_FOR_OTHER_PEERS"}) = waiting
  BY ZenonT(30) DEF In, Registered, Consistent, Typed, MasterStates
<1>3. st \in {"IDLE", "CONNECTING_TO_PEERS_FAILED"}
  OBVIOUS
<1>4. \/ q = r
      \/ \E M \in SUBSET waiting : q = LeaveP2PPhase(p, M, st)
      \/ q = SendP2PConnectionsEstablished(LeaveP2PPhase(p, waiting, st), ~failure)
  BY ZenonT(30) DEF CheckP2PConnectionsEstablished
<1> HIDE DEF p, st, waiting, failure
<1>5. \A M \in SUBSET waiting : Consistent(LeaveP2PPhase(p, M, st))
  BY ZenonT(30), <1>1, <1>2, <1>3, LeaveP2PPhaseConsistent
<1>6. Consistent(SendP2PConnectionsEstablished(LeaveP2PPhase(p, waiting, st), ~failure))
  BY ZenonT(30), <1>5, SendEstablishedConsistent
<1> QED
  BY ZenonT(30), <1>4, <1>5, <1>6

\* handleRequestSessionJoin, for new and for known clients.
LEMMA RequestSessionJoinConsistent ==
    ASSUME NEW r, Consistent(r), NEW c \in Peers, NEW q \in HandleRequestSessionJoin(r, c)
    PROVE  Consistent(q)
<1>1. CASE c \in Registered(r)
  BY ZenonT(30), <1>1, KickConsistent DEF HandleRequestSessionJoin
<1>2. CASE c \notin Registered(r)
  <2> DEFINE p == IF CanRegister(r, c) THEN RegisterClient(r, c) ELSE r
             w == Send(p, [x \in {<<c, <<"session", 0>>>>} |-> CanRegister(r, c)])
  <2>1. Consistent(p)
    BY ZenonT(30), <1>2, RegisterClientConsistent
  <2>2. Consistent(w)
    BY ZenonT(30), <2>1, SendConsistent
  <2>3. q \in {SendP2PConnectionInformation(w, TRUE), CheckEstablishP2PConnectionConsensus(w)}
    BY ZenonT(30), <1>2 DEF HandleRequestSessionJoin
  <2> HIDE DEF w
  <2> QED
    BY ZenonT(30), <2>2, <2>3, SendP2PConnectionInformationConsistent, CheckEstablishConsistent
<1> QED
  BY ZenonT(30), <1>1, <1>2

\* handleEstablishP2PConnections, with either vote.
LEMMA EstablishP2PConnectionsConsistent ==
    ASSUME NEW r, Consistent(r), NEW c \in Peers, NEW accept \in BOOLEAN,
           NEW q \in HandleEstablishP2PConnections(r, c, accept)
    PROVE  Consistent(q)
<1>1. CASE ~CanVoteEstablish(r, c)
  BY ZenonT(30), <1>1, KickConsistent DEF HandleEstablishP2PConnections
<1>2. CASE CanVoteEstablish(r, c)
  <2>1. q = CheckEstablishP2PConnectionConsensus(VoteEstablishP2PConnections(r, c, accept))
    BY ZenonT(30), <1>2 DEF HandleEstablishP2PConnections
  <2>2. CASE accept = TRUE
    BY ZenonT(30), <1>2, <2>1, <2>2, VoteEstablishConsistent, CheckEstablishConsistent
  <2>3. CASE accept = FALSE
    BY ZenonT(30), <1>2, <2>1, <2>3, VoteEstablishConsistent, CheckEstablishConsistent
  <2> QED
    BY ZenonT(30), <2>2, <2>3
<1> QED
  BY ZenonT(30), <1>1, <1>2

\* A connecting client reports, with or without success.
LEMMA ReportConsistent ==
    ASSUME NEW r, Consistent(r), NEW c \in Peers, r.state[c] = "CONNECTING_TO_PEERS",
           NEW st \in {"WAITING_FOR_OTHER_PEERS", "CONNECTING_TO_PEERS_FAILED"}
    PROVE  Consistent([r EXCEPT !.state[c] = st])
<1> DEFINE q == [r EXCEPT !.state[c] = st]
<1>1. r.phase \in [Peers -> Phases] /\ r.state \in [Peers -> ConnectionStates]
  BY DEF Consistent, Typed, MasterStates
<1>2. Typed(q)
  BY ZenonT(30) DEF Consistent, Typed, MasterStates, ConnectionStates
<1>3. /\ q.state = [r.state EXCEPT ![c] = st]
      /\ q.phase = r.phase /\ q.query = r.query /\ q.coll = r.coll
      /\ q.votes_accept = r.votes_accept /\ q.votes_establish = r.votes_establish
      /\ q.votes_optimize = r.votes_optimize /\ q.votes_optimized = r.votes_optimized
      /\ q.bandwidth = r.bandwidth /\ q.sync = r.sync
  BY DEF Consistent, Typed, MasterStates
<1> HIDE DEF q
<1>4. VotesMatch(q)
  BY <1>1, <1>3 DEF Consistent, VotesMatch, In, Registered
<1>5. OperationsMatch(q)
  BY <1>1, <1>3 DEF Consistent, OperationsMatch
<1>6. AcceptedMatch(q)
  BY <1>1, <1>3 DEF Consistent, AcceptedMatch, Accepted, ConnectingStates
<1>7. Consistent(q)
  BY ZenonT(30), <1>2, <1>4, <1>5, <1>6 DEF Consistent
<1> QED
  BY ZenonT(30), <1>7 DEF q

\* Recording the peers a client did not reach leaves the states alone.
LEMMA AddUnreachableConsistent ==
    ASSUME NEW r, Consistent(r), NEW c \in Peers, NEW F
    PROVE  /\ Consistent(AddUnreachable(r, c, F))
           /\ AddUnreachable(r, c, F).state = r.state
<1> DEFINE U == [r.unreachable EXCEPT ![c] = @ \cup (F \cap Registered(r))]
<1>1. U \in [Peers -> SUBSET Peers]
  BY DEF Consistent, Typed, MasterStates, Registered
<1>2. AddUnreachable(r, c, F) = [r EXCEPT !.unreachable = U]
  BY DEF AddUnreachable
<1> HIDE DEF U
<1>3. Consistent([r EXCEPT !.unreachable = U])
  BY ZenonT(30), <1>1, UnreachableConsistent
<1>4. [r EXCEPT !.unreachable = U].state = r.state
  BY DEF Consistent, Typed, MasterStates
<1> QED
  BY ZenonT(30), <1>2, <1>3, <1>4

\* markP2PConnectionsEstablished for a failed attempt.
LEMMA MarkFailedConsistent ==
    ASSUME Countable, NEW r, Consistent(r), NEW c \in Peers, r.state[c] = "CONNECTING_TO_PEERS", NEW F,
           NEW q \in MarkP2PConnectionsFailed(r, c, F)
    PROVE  Consistent(q)
<1> DEFINE u == AddUnreachable(r, c, F)
           g == PeerGroup[c]
<1>1. g \in Groups
  BY ZenonT(30) DEF Groups
<1>2. Consistent(u) /\ u.state = r.state
  BY AddUnreachableConsistent
<1>3. PICK ring \in ReachableRings(u, g) :
          q = [SetRingTopology(u, g, ring, FALSE) EXCEPT !.state[c] = "CONNECTING_TO_PEERS_FAILED"]
  BY ZenonT(30) DEF MarkP2PConnectionsFailed
<1> HIDE DEF u, g
<1>4. ring \in Seq(Peers)
  <2>1. RingPeers(u, g) \in SUBSET Peers
    BY ZenonT(30) DEF RingPeers, Registered
  <2>2. ring \in Tours(RingPeers(u, g))
    BY <1>3 DEF ReachableRings
  <2> QED
    BY ZenonT(30), <2>1, <2>2, TourType
<1> DEFINE w == SetRingTopology(u, g, ring, FALSE)
<1>5. Consistent(w)
  BY ZenonT(30), <1>1, <1>2, <1>4, SetRingTopologyConsistent
<1>6. w.state = r.state
  BY <1>2 DEF SetRingTopology, Consistent, Typed, MasterStates
<1> HIDE DEF w
<1>7. Consistent([w EXCEPT !.state[c] = "CONNECTING_TO_PEERS_FAILED"])
  BY ZenonT(30), <1>5, <1>6, ReportConsistent
<1> QED
  BY ZenonT(30), <1>3, <1>7 DEF w

\* handleP2PConnectionsEstablished, for a success and for a failure.
LEMMA P2PConnectionsEstablishedConsistent ==
    ASSUME Countable, NEW r, Consistent(r), NEW c \in Peers, NEW F
    PROVE  /\ \A q \in HandleP2PConnectionsEstablished(r, c, TRUE, {}) : Consistent(q)
           /\ \A q \in HandleP2PConnectionsEstablished(r, c, FALSE, F) : Consistent(q)
<1>1. CASE r.state[c] # "CONNECTING_TO_PEERS"
  BY ZenonT(30), <1>1, KickConsistent DEF HandleP2PConnectionsEstablished
<1>2. CASE r.state[c] = "CONNECTING_TO_PEERS"
  <2>1. ASSUME NEW q \in HandleP2PConnectionsEstablished(r, c, TRUE, {}) PROVE Consistent(q)
    <3> DEFINE w == [r EXCEPT !.state[c] = "WAITING_FOR_OTHER_PEERS"]
    <3>1. Consistent(w)
      BY ZenonT(30), <1>2, ReportConsistent
    <3>2. q \in CheckP2PConnectionsEstablished(w)
      BY ZenonT(30), <1>2, <2>1 DEF HandleP2PConnectionsEstablished
    <3> HIDE DEF w
    <3> QED
      BY ZenonT(30), <3>1, <3>2, CheckP2PEstablishedConsistent
  <2>2. ASSUME NEW q \in HandleP2PConnectionsEstablished(r, c, FALSE, F) PROVE Consistent(q)
    <3>1. CASE MarkP2PConnectionsFailed(r, c, F) = {}
      <4>1. q = Kick(AddUnreachable(r, c, F), c)
        BY ZenonT(30), <1>2, <2>2, <3>1 DEF HandleP2PConnectionsEstablished
      <4> QED
        BY ZenonT(30), <4>1, AddUnreachableConsistent, KickConsistent
    <3>2. CASE MarkP2PConnectionsFailed(r, c, F) # {}
      <4>1. PICK w \in MarkP2PConnectionsFailed(r, c, F) : q \in CheckP2PConnectionsEstablished(w)
        BY ZenonT(30), <1>2, <2>2, <3>2 DEF HandleP2PConnectionsEstablished
      <4>2. Consistent(w)
        BY ZenonT(30), <1>2, MarkFailedConsistent
      <4> QED
        BY ZenonT(30), <4>1, <4>2, CheckP2PEstablishedConsistent
    <3> QED
      BY ZenonT(30), <3>1, <3>2
  <2> QED
    BY ZenonT(30), <2>1, <2>2
<1> QED
  BY ZenonT(30), <1>1, <1>2

-----------------------------------------------------------------------------
(* Query for pending peers *)

\* Only accepted clients have a pending-peers vote.
LEMMA QueryConsistent ==
    ASSUME NEW r, Consistent(r), NEW Q \in SUBSET Accepted(r)
    PROVE  Consistent([r EXCEPT !.query = Q])
<1> DEFINE q == [r EXCEPT !.query = Q]
<1>1. Typed(q)
  BY ZenonT(30) DEF Consistent, Typed, MasterStates, Accepted
<1>2. /\ q.query = Q /\ q.state = r.state /\ q.phase = r.phase /\ q.coll = r.coll
      /\ q.votes_accept = r.votes_accept /\ q.votes_establish = r.votes_establish
      /\ q.votes_optimize = r.votes_optimize /\ q.votes_optimized = r.votes_optimized
      /\ q.bandwidth = r.bandwidth /\ q.sync = r.sync
  BY DEF Consistent, Typed, MasterStates
<1> HIDE DEF q
<1>3. VotesMatch(q)
  BY <1>2 DEF Consistent, VotesMatch, In, Registered
<1>4. OperationsMatch(q)
  BY <1>2 DEF Consistent, OperationsMatch
<1>5. AcceptedMatch(q)
  BY ZenonT(30), <1>2 DEF Consistent, AcceptedMatch, Accepted
<1>6. Consistent(q)
  BY ZenonT(30), <1>1, <1>3, <1>4, <1>5 DEF Consistent
<1> QED
  BY <1>6 DEF q

\* checkQueryPeersPendingConsensus answers and resets the votes.
LEMMA CheckQueryConsistent ==
    ASSUME NEW r, Consistent(r)
    PROVE  Consistent(CheckQueryPeersPendingConsensus(r))
<1> DEFINE w == Send(r, [x \in Accepted(r) \X {<<"pending", 0>>} |-> HasPendingPeers(r)])
<1>1. Consistent(w)
  BY ZenonT(30), SendConsistent
<1>2. w.query \ Accepted(w) \in SUBSET Accepted(w)
  BY ZenonT(30), <1>1 DEF Consistent, Typed, MasterStates, AcceptedMatch
<1>3. CheckQueryPeersPendingConsensus(r) \in {r, [w EXCEPT !.query = @ \ Accepted(w)]}
  BY DEF CheckQueryPeersPendingConsensus, ResetVoteQueryPendingPeers
<1> HIDE DEF w
<1>4. Consistent([w EXCEPT !.query = w.query \ Accepted(w)])
  BY <1>1, <1>2, QueryConsistent
<1> QED
  BY ZenonT(30), <1>3, <1>4

\* handleCheckPeersPending.
LEMMA CheckPeersPendingConsistent ==
    ASSUME NEW r, Consistent(r), NEW c \in Peers, NEW q \in HandleCheckPeersPending(r, c)
    PROVE  Consistent(q)
<1>1. CASE ~CanVoteQuery(r, c)
  BY ZenonT(30), <1>1, KickConsistent DEF HandleCheckPeersPending
<1>2. CASE CanVoteQuery(r, c)
  <2>1. r.query \cup {c} \in SUBSET Accepted(r)
    BY ZenonT(30), <1>2 DEF CanVoteQuery, Accepted, Consistent, Typed, MasterStates, AcceptedMatch
  <2>2. Consistent([r EXCEPT !.query = r.query \cup {c}])
    BY ZenonT(30), <2>1, QueryConsistent
  <2> QED
    BY ZenonT(30), <1>2, <2>2, CheckQueryConsistent DEF HandleCheckPeersPending
<1> QED
  BY ZenonT(30), <1>1, <1>2

-----------------------------------------------------------------------------
(* Topology optimization *)

\* Accepted clients that were not and will not be running change their states.
LEMMA Moved ==
    ASSUME NEW r, NEW q, Consistent(r), Typed(q),
           q.phase = r.phase, q.query = r.query, q.coll = r.coll,
           q.bandwidth.peers = r.bandwidth.peers,
           \A c \in Peers : \/ q.state[c] = r.state[c]
                            \/ /\ c \in Accepted(r)
                               /\ r.state[c] # "COLLECTIVE_COMMUNICATIONS_RUNNING"
                               /\ q.state[c] # "COLLECTIVE_COMMUNICATIONS_RUNNING",
           VotesMatch(q)
    PROVE  Consistent(q)
<1>1. OperationsMatch(q)
  BY DEF Consistent, OperationsMatch
<1>2. AcceptedMatch(q)
  BY ZenonT(30) DEF Consistent, AcceptedMatch, Accepted
<1> QED
  BY ZenonT(30), <1>1, <1>2 DEF Consistent

\* voteOptimizeTopology records the vote in the state and in the set.
LEMMA VoteOptimizeConsistent ==
    ASSUME NEW r, Consistent(r), NEW c \in Peers, CanVoteOptimize(r, c)
    PROVE  Consistent(VoteOptimizeTopology(r, c))
<1> DEFINE q == VoteOptimizeTopology(r, c)
<1>1. r.phase \in [Peers -> Phases] /\ r.state \in [Peers -> ConnectionStates]
  BY DEF Consistent, Typed, MasterStates
<1>2. Typed(q)
  BY ZenonT(30) DEF Consistent, Typed, MasterStates, VoteOptimizeTopology, ConnectionStates
<1>3. /\ q.state = [r.state EXCEPT ![c] = "VOTE_OPTIMIZE_TOPOLOGY"]
      /\ q.votes_optimize = r.votes_optimize \cup {c}
      /\ q.phase = r.phase /\ q.query = r.query /\ q.coll = r.coll
      /\ q.votes_accept = r.votes_accept /\ q.votes_establish = r.votes_establish
      /\ q.votes_optimized = r.votes_optimized
      /\ q.bandwidth = r.bandwidth /\ q.sync = r.sync
  BY DEF Consistent, Typed, MasterStates, VoteOptimizeTopology
<1> HIDE DEF q
<1>4. VotesMatch(q)
  BY <1>1, <1>3 DEF Consistent, VotesMatch, In, Registered, CanVoteOptimize
<1>5. \A e \in Peers : e # c => q.state[e] = r.state[e]
  BY <1>1, <1>3
<1>6. /\ c \in Accepted(r) /\ r.state[c] # "COLLECTIVE_COMMUNICATIONS_RUNNING"
      /\ q.state[c] # "COLLECTIVE_COMMUNICATIONS_RUNNING"
  BY <1>1, <1>3 DEF CanVoteOptimize, Accepted
<1>7. Consistent(q)
  BY ZenonT(30), <1>2, <1>3, <1>4, <1>5, <1>6, Moved
<1> QED
  BY ZenonT(30), <1>7 DEF q

\* transitionToTopologyOptimizationPhase clears the votes of all it moves.
LEMMA TransitionOptimizeConsistent ==
    ASSUME NEW r, Consistent(r), OptimizeTopologyConsensus(r)
    PROVE  Consistent(TransitionToTopologyOptimizationPhase(r))
<1> DEFINE q == TransitionToTopologyOptimizationPhase(r)
<1>1. r.phase \in [Peers -> Phases] /\ r.state \in [Peers -> ConnectionStates]
  BY ZenonT(30) DEF Consistent, Typed, MasterStates
<1>2. Typed(q)
  BY ZenonT(30) DEF Consistent, Typed, MasterStates, TransitionToTopologyOptimizationPhase, ConnectionStates
<1>3. /\ q.state = [c \in Peers |-> IF c \in Accepted(r) THEN "OPTIMIZE_TOPOLOGY" ELSE r.state[c]]
      /\ q.votes_optimize = {}
      /\ q.phase = r.phase /\ q.query = r.query /\ q.coll = r.coll
      /\ q.votes_accept = r.votes_accept /\ q.votes_establish = r.votes_establish
      /\ q.votes_optimized = r.votes_optimized
      /\ q.bandwidth = r.bandwidth /\ q.sync = r.sync
  BY DEF Consistent, Typed, MasterStates, TransitionToTopologyOptimizationPhase
<1> HIDE DEF q
<1>4. /\ \A c \in Accepted(r) : r.state[c] = "VOTE_OPTIMIZE_TOPOLOGY"
      /\ \A c \in Peers \ Accepted(r) : r.state[c] \in ConnectingStates
  BY DEF OptimizeTopologyConsensus, UnanimousIn, Registered, Accepted, Consistent, AcceptedMatch
<1>5. VotesMatch(q)
  BY <1>1, <1>3, <1>4 DEF Consistent, VotesMatch, In, Registered, Accepted, ConnectingStates
<1>6. Consistent(q)
  BY <1>1, <1>2, <1>3, <1>4, <1>5, Moved
<1> QED
  BY ZenonT(30), <1>6 DEF q

\* handleOptimizeTopology.
LEMMA OptimizeTopologyConsistent ==
    ASSUME NEW r, Consistent(r), NEW c \in Peers, NEW q \in HandleOptimizeTopology(r, c)
    PROVE  Consistent(q)
<1>1. CASE ~CanVoteOptimize(r, c)
  BY ZenonT(30), <1>1, KickConsistent DEF HandleOptimizeTopology
<1>2. CASE CanVoteOptimize(r, c)
  <2> DEFINE v == VoteOptimizeTopology(r, c)
  <2>1. Consistent(v)
    BY ZenonT(30), <1>2, VoteOptimizeConsistent
  <2>2. q = CheckTopologyOptimizationConsensus(v)
    BY ZenonT(30), <1>2 DEF HandleOptimizeTopology
  <2> HIDE DEF v
  <2>3. CASE ~OptimizeTopologyConsensus(v)
    BY ZenonT(30), <2>1, <2>2, <2>3 DEF CheckTopologyOptimizationConsensus
  <2>4. CASE OptimizeTopologyConsensus(v)
    <3>1. Consistent(TransitionToTopologyOptimizationPhase(v))
      BY ZenonT(30), <2>1, <2>4, TransitionOptimizeConsistent
    <3> QED
      BY ZenonT(30), <2>2, <2>4, <3>1, SendConsistent DEF CheckTopologyOptimizationConsensus
  <2> QED
    BY ZenonT(30), <2>3, <2>4
<1> QED
  BY <1>1, <1>2

\* voteTopologyOptimizationComplete records the vote in the state and in the set.
LEMMA VoteOptimizedConsistent ==
    ASSUME NEW r, Consistent(r), NEW c \in Peers, CanVoteOptimized(r, c)
    PROVE  Consistent(VoteTopologyOptimizationComplete(r, c))
<1> DEFINE q == VoteTopologyOptimizationComplete(r, c)
<1>1. r.phase \in [Peers -> Phases] /\ r.state \in [Peers -> ConnectionStates]
  BY DEF Consistent, Typed, MasterStates
<1>2. Typed(q)
  BY ZenonT(30) DEF Consistent, Typed, MasterStates, VoteTopologyOptimizationComplete, ConnectionStates
<1>3. /\ q.state = [r.state EXCEPT ![c] = "VOTE_COMPLETE_TOPOLOGY_OPTIMIZATION"]
      /\ q.votes_optimized = r.votes_optimized \cup {c}
      /\ q.phase = r.phase /\ q.query = r.query /\ q.coll = r.coll
      /\ q.votes_accept = r.votes_accept /\ q.votes_establish = r.votes_establish
      /\ q.votes_optimize = r.votes_optimize
      /\ q.bandwidth = r.bandwidth /\ q.sync = r.sync
  BY DEF Consistent, Typed, MasterStates, VoteTopologyOptimizationComplete
<1> HIDE DEF q
<1>4. VotesMatch(q)
  BY <1>1, <1>3 DEF Consistent, VotesMatch, In, Registered, CanVoteOptimized
<1>5. \A e \in Peers : e # c => q.state[e] = r.state[e]
  BY <1>1, <1>3
<1>6. /\ c \in Accepted(r) /\ r.state[c] # "COLLECTIVE_COMMUNICATIONS_RUNNING"
      /\ q.state[c] # "COLLECTIVE_COMMUNICATIONS_RUNNING"
  BY <1>1, <1>3 DEF CanVoteOptimized, Accepted
<1>7. Consistent(q)
  BY ZenonT(30), <1>2, <1>3, <1>4, <1>5, <1>6, Moved
<1> QED
  BY <1>7 DEF q

\* endTopologyOptimizationPhase clears the votes of all it moves.
LEMMA EndOptimizationConsistent ==
    ASSUME NEW r, Consistent(r), TopologyOptimizationCompleteConsensus(r)
    PROVE  Consistent(EndTopologyOptimizationPhase(r))
<1> DEFINE q == EndTopologyOptimizationPhase(r)
<1>1. r.phase \in [Peers -> Phases] /\ r.state \in [Peers -> ConnectionStates]
  BY DEF Consistent, Typed, MasterStates
<1>2. Typed(q)
  BY ZenonT(30) DEF Consistent, Typed, MasterStates, EndTopologyOptimizationPhase, ConnectionStates
<1>3. /\ q.state = [c \in Peers |-> IF c \in Accepted(r) THEN "IDLE" ELSE r.state[c]]
      /\ q.votes_optimized = {}
      /\ q.phase = r.phase /\ q.query = r.query /\ q.coll = r.coll
      /\ q.votes_accept = r.votes_accept /\ q.votes_establish = r.votes_establish
      /\ q.votes_optimize = r.votes_optimize
      /\ q.bandwidth = r.bandwidth /\ q.sync = r.sync
  BY DEF Consistent, Typed, MasterStates, EndTopologyOptimizationPhase
<1> HIDE DEF q
<1>4. /\ \A c \in Accepted(r) : r.state[c] = "VOTE_COMPLETE_TOPOLOGY_OPTIMIZATION"
      /\ \A c \in Peers \ Accepted(r) : r.state[c] \in ConnectingStates
  BY DEF TopologyOptimizationCompleteConsensus, UnanimousIn, Registered, Accepted, Consistent,
         AcceptedMatch
<1>5. VotesMatch(q)
  BY <1>1, <1>3, <1>4 DEF Consistent, VotesMatch, In, Registered, Accepted, ConnectingStates
<1>6. Consistent(q)
  BY <1>1, <1>2, <1>3, <1>4, <1>5, Moved
<1> QED
  BY <1>6 DEF q

\* Marking unmeasured edges unreachable does not affect the vote.
LEMMA MarkMissingConsistent ==
    ASSUME NEW r, Consistent(r)
    PROVE  /\ Consistent(MarkMissingUnreachable(r))
           /\ TopologyOptimizationCompleteConsensus(r) =>
                  TopologyOptimizationCompleteConsensus(MarkMissingUnreachable(r))
<1> DEFINE missing == UNION {GetMissingBandwidthEntries(r, c) : c \in Accepted(r)}
           marked  == {e \in missing : {e[1], e[2]} \subseteq Registered(r)}
           U == [c \in Peers |-> r.unreachable[c] \cup {e[2] : e \in {m \in marked : m[1] = c}}]
           q == [r EXCEPT !.unreachable = U]
<1>1. U \in [Peers -> SUBSET Peers]
  <2>1. \A e \in marked : e[2] \in Peers
    BY ZenonT(30) DEF Registered
  <2>2. r.unreachable \in [Peers -> SUBSET Peers]
    BY DEF Consistent, Typed, MasterStates
  <2> HIDE DEF marked
  <2> QED
    BY ZenonT(30), <2>1, <2>2
<1>2. MarkMissingUnreachable(r) \in {r, q}
  BY DEF MarkMissingUnreachable
<1> HIDE DEF U
<1>3. Consistent(q)
  BY ZenonT(30), <1>1, UnreachableConsistent
<1>4. TopologyOptimizationCompleteConsensus(r) => TopologyOptimizationCompleteConsensus(q)
  BY DEF TopologyOptimizationCompleteConsensus, UnanimousIn, Registered, Consistent, Typed, MasterStates
<1> HIDE DEF q
<1> QED
  BY ZenonT(30), <1>2, <1>3, <1>4

\* The optimization threads touch the rings and the tasks.
LEMMA TopologyConsistent ==
    ASSUME NEW r, Consistent(r), NEW x \in Topologies
    PROVE  Consistent([r EXCEPT !.ring = x.ring, !.optimal = x.optimal, !.task = x.task])
<1> DEFINE q == [r EXCEPT !.ring = x.ring, !.optimal = x.optimal, !.task = x.task]
<1>1. Typed(q) /\ SameVotes(q, r)
  BY ZenonT(30) DEF Topologies, Consistent, Typed, MasterStates, SameVotes
<1> QED
  BY ZenonT(30), <1>1, Unseen

\* A change of a group's optimization task.
LEMMA TaskConsistent ==
    ASSUME NEW r, Consistent(r), NEW g \in Groups,
           NEW st \in {"none", "scheduled", "running", "done"}, NEW B \in SUBSET Peers
    PROVE  Consistent([r EXCEPT !.task[g] = [st |-> st, base |-> B]])
<1> DEFINE q == [r EXCEPT !.task[g] = [st |-> st, base |-> B]]
<1>1. Typed(q) /\ SameVotes(q, r)
  BY ZenonT(30) DEF Consistent, Typed, MasterStates, SameVotes
<1> QED
  BY <1>1, Unseen

\* handleOptimizeTopologyWorkComplete, whatever the solver returns.
LEMMA WorkCompleteConsistent ==
    ASSUME NEW r, Consistent(r), NEW c \in Peers, NEW q \in HandleOptimizeTopologyWorkComplete(r, c)
    PROVE  Consistent(q)
<1>1. CASE ~CanVoteOptimized(r, c)
  BY ZenonT(30), <1>1, KickConsistent DEF HandleOptimizeTopologyWorkComplete
<1>2. CASE CanVoteOptimized(r, c)
  <2> DEFINE v == VoteTopologyOptimizationComplete(r, c)
             m == MarkMissingUnreachable(v)
             e == EndTopologyOptimizationPhase(m)
  <2>1. Consistent(v)
    BY <1>2, VoteOptimizedConsistent
  <2>2. q \in CheckTopologyOptimizationCompletionConsensus(v)
    BY ZenonT(30), <1>2 DEF HandleOptimizeTopologyWorkComplete
  <2> HIDE DEF v
  <2>3. CASE ~TopologyOptimizationCompleteConsensus(v)
    BY ZenonT(30), <2>1, <2>2, <2>3 DEF CheckTopologyOptimizationCompletionConsensus
  <2>4. CASE TopologyOptimizationCompleteConsensus(v)
    <3>1. Consistent(m) /\ TopologyOptimizationCompleteConsensus(m)
      BY ZenonT(30), <2>1, <2>4, MarkMissingConsistent
    <3> HIDE DEF m
    <3>2. Consistent(e)
      BY ZenonT(30), <3>1, EndOptimizationConsistent
    <3> HIDE DEF e
    <3>3. ASSUME NEW w \in OptimizeTopologies(e) PROVE Consistent(w)
      <4>1. PICK x \in Topologies :
                w = [e EXCEPT !.ring = x.ring, !.optimal = x.optimal, !.task = x.task]
        BY ZenonT(30), <3>3 DEF OptimizeTopologies
      <4>2. Consistent([e EXCEPT !.ring = x.ring, !.optimal = x.optimal, !.task = x.task])
        BY ZenonT(30), <3>2, TopologyConsistent
      <4> QED
        BY ZenonT(30), <4>1, <4>2
    <3>4. \E w \in OptimizeTopologies(e) :
              q = Send(w, [x \in Accepted(w) \X {<<"optimized", 0>>} |-> TRUE])
      BY ZenonT(30), <2>2, <2>4 DEF CheckTopologyOptimizationCompletionConsensus, e, m
    <3> QED
      BY ZenonT(30), <3>3, <3>4, SendConsistent
  <2> QED
    BY <2>3, <2>4
<1> QED
  BY <1>1, <1>2

\* handleReportPeerBandwidth adds a link between known peers.
LEMMA ReportBandwidthConsistent ==
    ASSUME NEW r, Consistent(r), NEW c \in Peers, NEW to \in Peers,
           NEW q \in HandleReportPeerBandwidth(r, c, to)
    PROVE  Consistent(q)
<1>1. CASE c \notin Registered(r)
  BY ZenonT(30), <1>1, KickConsistent DEF HandleReportPeerBandwidth
<1>2. CASE c \in Registered(r)
  <2> DEFINE w == StorePeerBandwidth(r, c, to)
  <2>1. r.bandwidth \in Stores
    BY ZenonT(30) DEF Consistent, Typed, MasterStates
  <2>2. /\ StoreBandwidth(r.bandwidth, c, to) \in Stores
        /\ StoreBandwidth(r.bandwidth, c, to).peers = r.bandwidth.peers
    BY <2>1 DEF StoreBandwidth, Stores
  <2>3. Typed(w) /\ SameVotes(w, r)
    BY ZenonT(30), <2>2 DEF StorePeerBandwidth, Consistent, Typed, MasterStates, SameVotes
  <2> QED
    BY ZenonT(30), <1>2, <2>3, Unseen DEF HandleReportPeerBandwidth
<1> QED
  BY ZenonT(30), <1>1, <1>2

\* What the topology optimization thread does while the server thread goes on.
LEMMA SolverConsistent ==
    ASSUME Countable, NEW r, Consistent(r), NEW g \in Groups
    PROVE  /\ Consistent(StartSolver(r, g))
           /\ \A q \in FinishSolver(r, g) : Consistent(q)
<1>1. Consistent(StartSolver(r, g))
  <2> DEFINE w == GetRingTopology(r, {g}, FALSE)
             done == [w EXCEPT !.task[g] = [st |-> "done", base |-> {}]]
             running == [w EXCEPT !.task[g] = [st |-> "running", base |-> Linked(w, Range(w.ring[g]))]]
  <2>1. Consistent(w)
    BY ZenonT(30), GetRingTopologyConsistent
  <2>2. StartSolver(r, g) \in {done, running}
    BY ZenonT(30) DEF StartSolver
  <2>3. Linked(w, Range(w.ring[g])) \in SUBSET Peers
    BY ZenonT(30), <2>1 DEF Linked, Consistent, Typed, MasterStates, Stores
  <2> HIDE DEF w
  <2>4. Consistent(done)
    BY ZenonT(30), <2>1, TaskConsistent
  <2>5. Consistent(running)
    BY ZenonT(30), <2>1, <2>3, TaskConsistent
  <2> QED
    BY ZenonT(30), <2>2, <2>4, <2>5
<1>2. ASSUME NEW q \in FinishSolver(r, g) PROVE Consistent(q)
  <2> DEFINE base == r.task[g].base
             w == [r EXCEPT !.task[g] = [st |-> "done", base |-> {}]]
  <2>1. base \in SUBSET Peers
    BY DEF Consistent, Typed, MasterStates
  <2>2. Consistent(w)
    BY ZenonT(30), TaskConsistent
  <2>3. \/ q = w
        \/ \E t \in Tours(base), o \in BOOLEAN : q = SetRingTopology(w, g, t, o)
    BY <1>2 DEF FinishSolver
  <2> HIDE DEF w, base
  <2> QED
    BY ZenonT(30), <2>1, <2>2, <2>3, TourType, SetRingTopologyConsistent
<1> QED
  BY <1>1, <1>2

-----------------------------------------------------------------------------
(* Shared-state synchronization *)

\* Updates of the shared-state fields other than the two vote sets.
LEMMA SyncConsistent ==
    ASSUME NEW r, Consistent(r), NEW y \in SyncStates,
           y.votes = r.sync.votes, y.votes_complete = r.sync.votes_complete
    PROVE  Consistent([r EXCEPT !.sync = y])
<1> DEFINE q == [r EXCEPT !.sync = y]
<1>1. Typed(q) /\ SameVotes(q, r)
  BY ZenonT(30) DEF Consistent, Typed, MasterStates, SameVotes
<1> QED
  BY <1>1, Unseen

\* isNewRevisionLegal sets a status and, the first time, the next revision.
LEMMA RecordRevisionConsistent ==
    ASSUME NEW r, Consistent(r), NEW c \in Peers, NEW revision \in Nat
    PROVE  Consistent(RecordRevision(r, c, revision))
<1> DEFINE status == IsNewRevisionLegal(r, c, revision)
           y == [r.sync EXCEPT !.status[c] = status,
                               !.next_revision[PeerGroup[c]] = IF @ = 0 THEN revision ELSE @]
<1>1. status \in Statuses
  BY ZenonT(30) DEF IsNewRevisionLegal, Statuses
<1>2. PeerGroup[c] \in Groups /\ r.sync \in SyncStates
  BY DEF Groups, Consistent, Typed, MasterStates
<1> HIDE DEF status
<1>3. y \in SyncStates /\ y.votes = r.sync.votes /\ y.votes_complete = r.sync.votes_complete
  BY ZenonT(30), <1>1, <1>2 DEF SyncStates
<1>4. RecordRevision(r, c, revision) = [r EXCEPT !.sync = y]
  BY DEF RecordRevision, status
<1> HIDE DEF y
<1>5. Consistent([r EXCEPT !.sync = y])
  BY ZenonT(30), <1>3, SyncConsistent
<1> QED
  BY ZenonT(30), <1>4, <1>5

\* voteSyncSharedState records the vote in the state and in the set.
LEMMA VoteSyncConsistent ==
    ASSUME NEW r, Consistent(r), NEW c \in Peers, NEW strategy \in Strategies, CanVoteSync(r, c)
    PROVE  Consistent(VoteSyncSharedState(r, c, strategy))
<1> DEFINE q == VoteSyncSharedState(r, c, strategy)
           y == [r.sync EXCEPT !.votes = @ \cup {c}, !.strategy[c] = strategy]
<1>1. r.phase \in [Peers -> Phases] /\ r.state \in [Peers -> ConnectionStates] /\ r.sync \in SyncStates
  BY DEF Consistent, Typed, MasterStates
<1>2. y \in SyncStates /\ y.votes = r.sync.votes \cup {c} /\ y.votes_complete = r.sync.votes_complete
  BY ZenonT(30), <1>1 DEF SyncStates, Strategies
<1>3. q = [r EXCEPT !.state[c] = "VOTE_SYNC_SHARED_STATE", !.sync = y]
  BY ZenonT(30) DEF VoteSyncSharedState, Consistent, Typed, MasterStates
<1> HIDE DEF y, q
<1>4. Typed(q)
  BY ZenonT(30), <1>2, <1>3 DEF Consistent, Typed, MasterStates, ConnectionStates
<1>5. /\ q.state = [r.state EXCEPT ![c] = "VOTE_SYNC_SHARED_STATE"]
      /\ q.phase = r.phase /\ q.query = r.query /\ q.coll = r.coll
      /\ q.votes_accept = r.votes_accept /\ q.votes_establish = r.votes_establish
      /\ q.votes_optimize = r.votes_optimize /\ q.votes_optimized = r.votes_optimized
      /\ q.bandwidth = r.bandwidth /\ q.sync = y
  BY <1>3 DEF Consistent, Typed, MasterStates
<1>6. VotesMatch(q)
  BY <1>1, <1>2, <1>5 DEF Consistent, VotesMatch, In, Registered, CanVoteSync
<1>7. \A e \in Peers : e # c => q.state[e] = r.state[e]
  BY ZenonT(30), <1>1, <1>5
<1>8. /\ c \in Accepted(r) /\ r.state[c] # "COLLECTIVE_COMMUNICATIONS_RUNNING"
      /\ q.state[c] # "COLLECTIVE_COMMUNICATIONS_RUNNING"
  BY ZenonT(30), <1>1, <1>5 DEF CanVoteSync, Accepted
<1>9. Consistent(q)
  BY ZenonT(30), <1>4, <1>5, <1>6, <1>7, <1>8, Moved
<1> QED
  BY ZenonT(30), <1>9 DEF q

\* voteSharedStateMask adds a ballot.
LEMMA VoteMaskConsistent ==
    ASSUME NEW r, Consistent(r), NEW c \in Peers, NEW hashes \in SharedStates
    PROVE  Consistent(VoteSharedStateMask(r, c, hashes))
<1> DEFINE vote == [peer |-> c, hashes |-> hashes]
           old  == r.sync.candidates[PeerGroup[c]]
           cast == IF r.sync.strategy[c] = "rx_only" THEN old ELSE Append(old, vote)
           y == [r.sync EXCEPT !.candidates[PeerGroup[c]] = cast, !.entries = @ \cup {vote}]
<1>1. vote \in Ballot
  BY ZenonT(30) DEF Ballot
<1>2. PeerGroup[c] \in Groups /\ r.sync \in SyncStates
  BY ZenonT(30) DEF Groups, Consistent, Typed, MasterStates
<1> HIDE DEF vote
<1>2a. cast \in Seq(Ballot)
  <2>1. old \in Seq(Ballot)
    BY ZenonT(30), <1>2 DEF SyncStates
  <2> HIDE DEF old
  <2> QED
    BY <1>1, <2>1
<1> HIDE DEF cast
<1>3. y \in SyncStates /\ y.votes = r.sync.votes /\ y.votes_complete = r.sync.votes_complete
  BY ZenonT(30), <1>1, <1>2, <1>2a DEF SyncStates
<1>4. VoteSharedStateMask(r, c, hashes) = [r EXCEPT !.sync = y]
  BY ZenonT(30) DEF VoteSharedStateMask, vote, cast
<1> HIDE DEF y
<1>5. Consistent([r EXCEPT !.sync = y])
  BY ZenonT(30), <1>3, SyncConsistent
<1> QED
  BY ZenonT(30), <1>4, <1>5

\* An elected mask is one of the lists the clients voted with.
LEMMA ElectableType ==
    ASSUME NEW r, Consistent(r), NEW g \in Groups, NEW mask \in ElectableMasks(r, g)
    PROVE  mask \in SharedStates
<1>1. r.sync.candidates[g] \in Seq(Ballot)
  BY ZenonT(30) DEF Consistent, Typed, MasterStates, SyncStates
<1>2. PICK i \in DOMAIN r.sync.candidates[g] : mask = r.sync.candidates[g][i].hashes
  BY ZenonT(30) DEF ElectableMasks
<1>3. r.sync.candidates[g][i] \in Ballot
  BY <1>1
<1> QED
  BY ZenonT(30), <1>2, <1>3 DEF Ballot

\* checkMaskSharedStateMismatches sets statuses, hashes and dirty keys only.
LEMMA CheckMaskConsistent ==
    ASSUME NEW r, Consistent(r), NEW g \in Groups, NEW mask \in SharedStates,
           NEW found \in ComparisonsOfVotes(r, g, mask)
    PROVE  LET q == CheckMaskSharedStateMismatches(r, g, mask, found)
           IN  Consistent(q) /\ q.phase = r.phase /\ q.state = r.state
<1> DEFINE compared == ComparedVotes(r, g)
           votesOf(c)   == {v \in compared : v.peer = c}
           differing(V) == UNION {DifferentHash(found[v]) : v \in V}
           H == [k \in Keys |->
                    IF \E i \in differing(compared) : mask[i][1] = k
                    THEN LET i == CHOOSE i \in differing(compared) : mask[i][1] = k IN mask[i][2]
                    ELSE r.sync.hashes[g][k]]
           D == [c \in Peers |-> r.sync.dirty[c] \cup {mask[i][1] : i \in differing(votesOf(c))}]
           S == [c \in Peers |->
                    IF r.sync.status[c] = "SUCCESSFUL_MATCH" /\ votesOf(c) # {}
                    THEN MaskStatus(found[CHOOSE v \in votesOf(c) : TRUE])
                    ELSE r.sync.status[c]]
           y == [r.sync EXCEPT !.mask[g] = mask, !.hashes[g] = H, !.dirty = D, !.status = S]
<1>1. r.sync \in SyncStates
  BY ZenonT(30) DEF Consistent, Typed, MasterStates
<1>2. \A V \in SUBSET compared : \A i \in differing(V) : mask[i] \in Keys \X (Nat \ {0})
  <2>1. \A v \in compared : DifferentHash(found[v]) \subseteq DOMAIN mask
    BY ZenonT(30) DEF DifferentHash, ComparisonsOfVotes
  <2>2. \A i \in DOMAIN mask : mask[i] \in Keys \X (Nat \ {0})
    BY SharedStatesAssumption
  <2> QED
    BY ZenonT(30), <2>1, <2>2
<1>3. H \in [Keys -> Nat]
  <2> DEFINE A == differing(compared)
  <2>1. r.sync.hashes[g] \in [Keys -> Nat]
    BY ZenonT(30), <1>1 DEF SyncStates
  <2>2. \A i \in A : mask[i][2] \in Nat
    BY ZenonT(30), <1>2
  <2> HIDE DEF A
  <2>3. \A k \in Keys : (\E i \in A : mask[i][1] = k) => (CHOOSE i \in A : mask[i][1] = k) \in A
    BY ZenonT(30)
  <2>4. H = [k \in Keys |-> IF \E i \in A : mask[i][1] = k
                            THEN mask[CHOOSE i \in A : mask[i][1] = k][2]
                            ELSE r.sync.hashes[g][k]]
    BY ZenonT(30) DEF A
  <2> HIDE DEF H
  <2> QED
    BY ZenonT(30), <2>1, <2>2, <2>3, <2>4
<1>4. D \in [Peers -> SUBSET Keys]
  <2>1. r.sync.dirty \in [Peers -> SUBSET Keys]
    BY ZenonT(30), <1>1 DEF SyncStates
  <2>2. \A c \in Peers : {mask[i][1] : i \in differing(votesOf(c))} \in SUBSET Keys
    BY ZenonT(30), <1>2
  <2> HIDE DEF differing, votesOf
  <2> QED
    BY ZenonT(30), <2>1, <2>2
<1>5. S \in [Peers -> Statuses]
  <2>1. r.sync.status \in [Peers -> Statuses]
    BY ZenonT(30), <1>1 DEF SyncStates
  <2>2. \A f : MaskStatus(f) \in Statuses
    BY DEF MaskStatus, Statuses
  <2> HIDE DEF votesOf
  <2> QED
    BY ZenonT(30), <2>1, <2>2
<1>6. CheckMaskSharedStateMismatches(r, g, mask, found) = [r EXCEPT !.sync = y]
  BY DEF CheckMaskSharedStateMismatches
<1> HIDE DEF H, D, S
<1>7. y \in SyncStates /\ y.votes = r.sync.votes /\ y.votes_complete = r.sync.votes_complete
  BY ZenonT(30), <1>1, <1>3, <1>4, <1>5 DEF SyncStates
<1> HIDE DEF y
<1>8. Consistent([r EXCEPT !.sync = y])
  BY ZenonT(30), <1>7, SyncConsistent
<1>9. [r EXCEPT !.sync = y].phase = r.phase /\ [r EXCEPT !.sync = y].state = r.state
  BY ZenonT(30) DEF Consistent, Typed, MasterStates
<1> QED
  BY ZenonT(30), <1>6, <1>8, <1>9

\* The counts the consensus compares leave no member without a vote.
LEMMA SyncVoteUnanimous ==
    ASSUME Countable, NEW r, Consistent(r), NEW g
    PROVE  /\ SyncSharedStateConsensus(r, g) =>
                  \A c \in Members(r, g) : r.state[c] = "VOTE_SYNC_SHARED_STATE"
           /\ SyncSharedStateCompleteConsensus(r, g) =>
                  \A c \in Members(r, g) : r.state[c] = "VOTE_COMPLETE_SHARED_STATE_SYNC"
<1>1. Members(r, g) \in SUBSET Peers
  BY ZenonT(30) DEF Members, Accepted
<1>2. \A c \in Peers \ Accepted(r) : r.state[c] \in ConnectingStates
  BY ZenonT(30) DEF Consistent, AcceptedMatch
<1>3. ASSUME SyncSharedStateConsensus(r, g)
      PROVE  \A c \in Members(r, g) : r.state[c] = "VOTE_SYNC_SHARED_STATE"
  <2> DEFINE V == {c \in In(r, {"VOTE_SYNC_SHARED_STATE"}) : PeerGroup[c] = g}
  <2>1. V \subseteq Members(r, g)
    BY ZenonT(30), <1>2 DEF In, Registered, Members, ConnectingStates
  <2>2. Cardinality(V) = Cardinality(Members(r, g))
    BY ZenonT(30), <1>3 DEF SyncSharedStateConsensus
  <2>3. V = Members(r, g)
    BY <1>1, <2>1, <2>2 DEF Countable
  <2> QED
    BY ZenonT(30), <2>3 DEF In
<1>4. ASSUME SyncSharedStateCompleteConsensus(r, g)
      PROVE  \A c \in Members(r, g) : r.state[c] = "VOTE_COMPLETE_SHARED_STATE_SYNC"
  <2> DEFINE V == {c \in In(r, {"VOTE_COMPLETE_SHARED_STATE_SYNC"}) : PeerGroup[c] = g}
  <2>1. V \subseteq Members(r, g)
    BY ZenonT(30), <1>2 DEF In, Registered, Members, ConnectingStates
  <2>2. Cardinality(V) = Cardinality(Members(r, g))
    BY ZenonT(30), <1>4 DEF SyncSharedStateCompleteConsensus
  <2>3. V = Members(r, g)
    BY <1>1, <2>1, <2>2 DEF Countable
  <2> QED
    BY ZenonT(30), <2>3 DEF In
<1> QED
  BY ZenonT(30), <1>3, <1>4

\* transitionToSharedStateSyncPhase clears the votes of all it moves.
LEMMA TransitionSyncConsistent ==
    ASSUME NEW r, Consistent(r), NEW g \in Groups,
           \A c \in Members(r, g) : r.state[c] = "VOTE_SYNC_SHARED_STATE"
    PROVE  Consistent(TransitionToSharedStateSyncPhase(r, g))
<1> DEFINE q == TransitionToSharedStateSyncPhase(r, g)
           X == [c \in Peers |->
                    IF c \notin Members(r, g) THEN r.state[c]
                    ELSE IF r.sync.status[c] = "SUCCESSFUL_MATCH" THEN "DISTRIBUTE_SHARED_STATE"
                    ELSE "REQUEST_SHARED_STATE"]
           y == [r.sync EXCEPT !.votes = @ \ InGroup(g), !.next_revision[g] = @ + 1]
<1>1. r.phase \in [Peers -> Phases] /\ r.state \in [Peers -> ConnectionStates] /\ r.sync \in SyncStates
  BY DEF Consistent, Typed, MasterStates
<1>2. /\ y \in SyncStates
      /\ y.votes = r.sync.votes \ InGroup(g) /\ y.votes_complete = r.sync.votes_complete
  <2>1. r.sync.next_revision \in [Groups -> Nat]
    BY ZenonT(30), <1>1 DEF SyncStates
  <2> DEFINE n == [r.sync.next_revision EXCEPT ![g] = r.sync.next_revision[g] + 1]
  <2>2. n \in [Groups -> Nat]
    BY <2>1
  <2>3. y = [r.sync EXCEPT !.votes = @ \ InGroup(g), !.next_revision = n]
    BY ZenonT(30), <1>1 DEF SyncStates
  <2> HIDE DEF n, y
  <2> QED
    BY ZenonT(30), <1>1, <2>2, <2>3 DEF SyncStates
<1>3. /\ X \in [Peers -> ConnectionStates]
      /\ \A c \in Members(r, g) : X[c] \in {"DISTRIBUTE_SHARED_STATE", "REQUEST_SHARED_STATE"}
      /\ \A c \in Peers \ Members(r, g) : X[c] = r.state[c]
  BY ZenonT(30), <1>1 DEF ConnectionStates, Members, Accepted
<1>4. q = [r EXCEPT !.state = X, !.sync = y]
  BY ZenonT(30) DEF TransitionToSharedStateSyncPhase, Consistent, Typed, MasterStates
<1> HIDE DEF q, X, y
<1>5. Typed(q)
  BY ZenonT(30), <1>2, <1>3, <1>4 DEF Consistent, Typed, MasterStates
<1>6. /\ q.state = X /\ q.sync = y
      /\ q.phase = r.phase /\ q.query = r.query /\ q.coll = r.coll
      /\ q.votes_accept = r.votes_accept /\ q.votes_establish = r.votes_establish
      /\ q.votes_optimize = r.votes_optimize /\ q.votes_optimized = r.votes_optimized
      /\ q.bandwidth = r.bandwidth
  BY <1>4 DEF Consistent, Typed, MasterStates
<1>7. \A c \in Peers \ Accepted(r) : r.state[c] \in ConnectingStates
  BY ZenonT(30) DEF Consistent, AcceptedMatch
<1>8. VotesMatch(q)
  BY <1>1, <1>2, <1>3, <1>6, <1>7
     DEF Consistent, VotesMatch, In, Registered, Members, Accepted, InGroup, ConnectingStates
<1>9. Consistent(q)
  BY ZenonT(30), <1>3, <1>5, <1>6, <1>8, Moved DEF Members
<1> QED
  BY ZenonT(30), <1>9 DEF q

\* voteDistSharedStateComplete records the vote in the state and in the set.
LEMMA VoteSyncCompleteConsistent ==
    ASSUME NEW r, Consistent(r), NEW c \in Peers, CanVoteSyncComplete(r, c)
    PROVE  Consistent(VoteDistSharedStateComplete(r, c))
<1> DEFINE q == VoteDistSharedStateComplete(r, c)
           y == [r.sync EXCEPT !.votes_complete = @ \cup {c}]
<1>1. r.phase \in [Peers -> Phases] /\ r.state \in [Peers -> ConnectionStates] /\ r.sync \in SyncStates
  BY DEF Consistent, Typed, MasterStates
<1>2. y \in SyncStates /\ y.votes = r.sync.votes /\ y.votes_complete = r.sync.votes_complete \cup {c}
  BY ZenonT(30), <1>1 DEF SyncStates
<1>3. q = [r EXCEPT !.state[c] = "VOTE_COMPLETE_SHARED_STATE_SYNC", !.sync = y]
  BY DEF VoteDistSharedStateComplete, Consistent, Typed, MasterStates
<1> HIDE DEF y, q
<1>4. Typed(q)
  BY ZenonT(30), <1>2, <1>3 DEF Consistent, Typed, MasterStates, ConnectionStates
<1>5. /\ q.state = [r.state EXCEPT ![c] = "VOTE_COMPLETE_SHARED_STATE_SYNC"]
      /\ q.phase = r.phase /\ q.query = r.query /\ q.coll = r.coll
      /\ q.votes_accept = r.votes_accept /\ q.votes_establish = r.votes_establish
      /\ q.votes_optimize = r.votes_optimize /\ q.votes_optimized = r.votes_optimized
      /\ q.bandwidth = r.bandwidth /\ q.sync = y
  BY ZenonT(30), <1>3 DEF Consistent, Typed, MasterStates
<1>6. VotesMatch(q)
  BY <1>1, <1>2, <1>5 DEF Consistent, VotesMatch, In, Registered, CanVoteSyncComplete
<1>7. \A e \in Peers : e # c => q.state[e] = r.state[e]
  BY ZenonT(30), <1>1, <1>5
<1>8. /\ c \in Accepted(r) /\ r.state[c] # "COLLECTIVE_COMMUNICATIONS_RUNNING"
      /\ q.state[c] # "COLLECTIVE_COMMUNICATIONS_RUNNING"
  BY ZenonT(30), <1>1, <1>5 DEF CanVoteSyncComplete, Accepted
<1>9. Consistent(q)
  BY ZenonT(30), <1>4, <1>5, <1>6, <1>7, <1>8, Moved
<1> QED
  BY <1>9 DEF q

\* endSharedStateSyncPhase clears the votes of all it moves.
LEMMA EndSyncConsistent ==
    ASSUME NEW r, Consistent(r), NEW g \in Groups,
           \A c \in Members(r, g) : r.state[c] = "VOTE_COMPLETE_SHARED_STATE_SYNC"
    PROVE  Consistent(EndSharedStateSyncPhase(r, g))
<1> DEFINE q == EndSharedStateSyncPhase(r, g)
           X == [c \in Peers |-> IF c \in Members(r, g) THEN "IDLE" ELSE r.state[c]]
           m == [r.sync.mask EXCEPT ![g] = <<>>]
           a == [r.sync.candidates EXCEPT ![g] = <<>>]
           e == {v \in r.sync.entries : PeerGroup[v.peer] # g}
           h == [r.sync.hashes EXCEPT ![g] = [k \in Keys |-> 0]]
           u == [c \in Peers |-> IF PeerGroup[c] = g THEN "none" ELSE r.sync.status[c]]
           d == [c \in Peers |-> IF PeerGroup[c] = g THEN {} ELSE r.sync.dirty[c]]
           w == [c \in Peers |-> IF c \in Members(r, g) THEN "none" ELSE r.sync.strategy[c]]
           y == [r.sync EXCEPT !.mask = m, !.candidates = a, !.entries = e, !.hashes = h,
                               !.status = u, !.dirty = d,
                               !.votes_complete = r.sync.votes_complete \ InGroup(g), !.strategy = w]
<1>1. r.phase \in [Peers -> Phases] /\ r.state \in [Peers -> ConnectionStates] /\ r.sync \in SyncStates
  BY ZenonT(30) DEF Consistent, Typed, MasterStates
<1>2. /\ m \in [Groups -> SharedStates \cup {<<>>}]
      /\ e \in SUBSET Ballot
      /\ u \in [Peers -> Statuses]
      /\ d \in [Peers -> SUBSET Keys]
      /\ w \in [Peers -> Strategies \cup {"none"}]
  BY ZenonT(30), <1>1 DEF SyncStates, Statuses
<1>3. a \in [Groups -> Seq(Ballot)]
  BY <1>1 DEF SyncStates
<1>4. h \in [Groups -> [Keys -> Nat]]
  BY ZenonT(30), <1>1 DEF SyncStates
<1>5. q = [r EXCEPT !.state = X, !.sync = y]
  BY ZenonT(30), <1>1 DEF EndSharedStateSyncPhase, Consistent, Typed, MasterStates, SyncStates
<1>6. /\ X \in [Peers -> ConnectionStates]
      /\ \A c \in Members(r, g) : X[c] = "IDLE"
      /\ \A c \in Peers \ Members(r, g) : X[c] = r.state[c]
  BY ZenonT(30), <1>1 DEF ConnectionStates, Members, Accepted
<1> HIDE DEF m, a, e, h, u, d, w, q, X
<1>7. /\ y \in SyncStates
      /\ y.votes = r.sync.votes /\ y.votes_complete = r.sync.votes_complete \ InGroup(g)
  BY ZenonT(30), <1>1, <1>2, <1>3, <1>4 DEF SyncStates
<1> HIDE DEF y
<1>8. Typed(q)
  BY ZenonT(30), <1>5, <1>6, <1>7 DEF Consistent, Typed, MasterStates
<1>9. /\ q.state = X /\ q.sync = y
      /\ q.phase = r.phase /\ q.query = r.query /\ q.coll = r.coll
      /\ q.votes_accept = r.votes_accept /\ q.votes_establish = r.votes_establish
      /\ q.votes_optimize = r.votes_optimize /\ q.votes_optimized = r.votes_optimized
      /\ q.bandwidth = r.bandwidth
  BY <1>5 DEF Consistent, Typed, MasterStates
<1>10. \A c \in Peers \ Accepted(r) : r.state[c] \in ConnectingStates
  BY ZenonT(30) DEF Consistent, AcceptedMatch
<1>11. VotesMatch(q)
  BY <1>1, <1>6, <1>7, <1>9, <1>10
     DEF Consistent, VotesMatch, In, Registered, Members, Accepted, InGroup, ConnectingStates
<1>12. Consistent(q)
  BY ZenonT(30), <1>6, <1>8, <1>9, <1>11, Moved DEF Members
<1> QED
  BY ZenonT(30), <1>12 DEF q

\* checkSyncSharedStateCompleteConsensus.
LEMMA CheckSyncCompleteConsistent ==
    ASSUME Countable, NEW r, Consistent(r), NEW g \in Groups
    PROVE  Consistent(CheckSyncSharedStateCompleteConsensus(r, g))
<1> DEFINE q == EndSharedStateSyncPhase(r, g)
<1>1. CASE SyncSharedStateCompleteConsensus(r, g)
  <2>1. Consistent(q)
    BY <1>1, SyncVoteUnanimous, EndSyncConsistent
  <2> HIDE DEF q
  <2>2. \A batch : Consistent(Send(q, batch))
    BY <2>1, SendConsistent
  <2>3. CheckSyncSharedStateCompleteConsensus(r, g)
          = Send(q, [x \in Members(q, g) \X {<<"synced", 0>>} |-> TRUE])
    BY <1>1 DEF CheckSyncSharedStateCompleteConsensus, q
  <2> QED
    BY <2>2, <2>3
<1>2. CASE ~SyncSharedStateCompleteConsensus(r, g)
  BY <1>2 DEF CheckSyncSharedStateCompleteConsensus
<1> QED
  BY <1>1, <1>2

\* handleSyncSharedStateComplete.
LEMMA SyncSharedStateCompleteConsistent ==
    ASSUME Countable, NEW r, Consistent(r), NEW c \in Peers, NEW q \in HandleSyncSharedStateComplete(r, c)
    PROVE  Consistent(q)
<1> DEFINE v == VoteDistSharedStateComplete(r, c)
<1>1. PeerGroup[c] \in Groups
  BY ZenonT(30) DEF Groups
<1>2. CASE CanVoteSyncComplete(r, c)
  <2>1. Consistent(v)
    BY ZenonT(30), <1>2, VoteSyncCompleteConsistent
  <2>2. q = CheckSyncSharedStateCompleteConsensus(v, PeerGroup[c])
    BY ZenonT(30), <1>2 DEF HandleSyncSharedStateComplete
  <2> HIDE DEF v
  <2> QED
    BY ZenonT(30), <1>1, <2>1, <2>2, CheckSyncCompleteConsistent
<1>3. CASE ~CanVoteSyncComplete(r, c)
  BY ZenonT(30), <1>3, KickConsistent DEF HandleSyncSharedStateComplete
<1> QED
  BY <1>2, <1>3

\* The elected mask is distributed, or a client with other keys is kicked.
LEMMA DistributeMaskConsistent ==
    ASSUME NEW r, Consistent(r), NEW g \in Groups, NEW mask \in SharedStates,
           \A c \in Members(r, g) : r.state[c] = "VOTE_SYNC_SHARED_STATE",
           NEW found \in ComparisonsOfVotes(r, g, mask),
           NEW z \in DistributeMask(r, g, mask, found)
    PROVE  Consistent(z)
<1> DEFINE k == CheckMaskSharedStateMismatches(r, g, mask, found)
           q == TransitionToSharedStateSyncPhase(k, g)
           V == StrategyViolators(q, g)
           kicked == [q EXCEPT !.cut = q.cut \cup V]
           mismatch == {c \in Members(k, g) : k.sync.status[c] = "KEY_SET_MISMATCH"}
           sources == IF Distributors(q, g) = {} THEN {"none"} ELSE Distributors(q, g)
<1>1. Consistent(k) /\ k.phase = r.phase /\ k.state = r.state
  BY ZenonT(30), CheckMaskConsistent
<1>2. z \in IF mismatch # {} THEN {Kick(k, c) : c \in mismatch}
            ELSE {SendSyncSharedState(kicked, g, d) : d \in sources}
  BY ZenonT(30) DEF DistributeMask
<1> HIDE DEF k
<1>3. Consistent(q)
  BY ZenonT(30), <1>1, TransitionSyncConsistent DEF Members, Accepted
<1> HIDE DEF q
<1>4. q.cut \cup V \in SUBSET Peers
  BY ZenonT(30), <1>3 DEF StrategyViolators, Members, Accepted, Consistent, Typed, MasterStates
<1>5. Consistent(kicked)
  BY ZenonT(30), <1>3, <1>4, CutConsistent
<1> HIDE DEF V, kicked
<1>6. \A batch : Consistent(Send(kicked, batch))
  BY ZenonT(30), <1>5, SendConsistent
<1>7. \A d : Consistent(SendSyncSharedState(kicked, g, d))
  BY ZenonT(30), <1>6 DEF SendSyncSharedState
<1>8. \A c \in mismatch : Consistent(Kick(k, c))
  BY ZenonT(30), <1>1, KickConsistent DEF Members, Accepted
<1> HIDE DEF mismatch, sources
<1>9. CASE mismatch # {}
  <2>1. PICK c \in mismatch : z = Kick(k, c)
    BY ZenonT(30), <1>2, <1>9
  <2> QED
    BY ZenonT(30), <1>8, <2>1
<1>10. CASE mismatch = {}
  <2>1. PICK d \in sources : z = SendSyncSharedState(kicked, g, d)
    BY ZenonT(30), <1>2, <1>10
  <2> QED
    BY ZenonT(30), <1>7, <2>1
<1> QED
  BY ZenonT(30), <1>9, <1>10

\* checkSyncSharedStateConsensus, whichever mask is elected.
LEMMA CheckSyncConsistent ==
    ASSUME Countable, NEW r, Consistent(r), NEW g \in Groups, NEW failed, Consistent(failed),
           NEW z \in CheckSyncSharedStateConsensus(r, g, failed)
    PROVE  Consistent(z)
<1>1. z = r \/ z = failed \/ (SyncSharedStateConsensus(r, g) /\ z \in SharedStateElections(r, g))
  BY ZenonT(30) DEF CheckSyncSharedStateConsensus
<1>2. CASE SyncSharedStateConsensus(r, g) /\ z \in SharedStateElections(r, g)
  <2>0. PICK mask \in ElectableMasks(r, g) :
            z \in UNION {DistributeMask(r, g, mask, found) : found \in ComparisonsOfVotes(r, g, mask)}
    BY ZenonT(30), <1>2 DEF SharedStateElections
  <2>1. PICK found \in ComparisonsOfVotes(r, g, mask) : z \in DistributeMask(r, g, mask, found)
    BY ZenonT(30), <2>0
  <2>2. mask \in SharedStates
    BY ZenonT(30), ElectableType
  <2>3. \A c \in Members(r, g) : r.state[c] = "VOTE_SYNC_SHARED_STATE"
    BY ZenonT(30), <1>2, SyncVoteUnanimous
  <2> QED
    BY ZenonT(30), <2>1, <2>2, <2>3, DistributeMaskConsistent
<1> QED
  BY ZenonT(30), <1>1, <1>2

\* handleSyncSharedState.
LEMMA SyncSharedStateConsistent ==
    ASSUME Countable, NEW r, Consistent(r), NEW c \in Peers, NEW revision \in Nat,
           NEW strategy \in Strategies, NEW hashes \in SharedStates,
           NEW z \in HandleSyncSharedState(r, c, revision, strategy, hashes)
    PROVE  Consistent(z)
<1> DEFINE g == PeerGroup[c]
           q == RecordRevision(r, c, revision)
           w == VoteSyncSharedState(q, c, strategy)
           v == VoteSharedStateMask(w, c, hashes)
<1>1. g \in Groups
  BY ZenonT(30) DEF Groups
<1>2. z \in IF c \notin Registered(r) THEN {Kick(r, c)}
            ELSE IF q.sync.status[c] = "REVISION_INCREMENT_VIOLATION" \/ ~CanVoteSync(q, c)
            THEN {Kick(q, c)}
            ELSE CheckSyncSharedStateConsensus(v, g, [v EXCEPT !.cut = v.cut \cup Members(v, g)])
  BY ZenonT(30) DEF HandleSyncSharedState
<1>3. Consistent(q)
  BY ZenonT(30), RecordRevisionConsistent
<1> HIDE DEF q, g
<1>4. Consistent(Kick(r, c)) /\ Consistent(Kick(q, c))
  BY ZenonT(30), <1>3, KickConsistent
<1>5. CASE CanVoteSync(q, c)
  <2>1. Consistent(w)
    BY ZenonT(30), <1>3, <1>5, VoteSyncConsistent
  <2> HIDE DEF w
  <2>2. Consistent(v)
    BY ZenonT(30), <2>1, VoteMaskConsistent
  <2> HIDE DEF v
  <2>3. v.cut \cup Members(v, g) \in SUBSET Peers
    BY ZenonT(30), <2>2 DEF Members, Accepted, Consistent, Typed, MasterStates
  <2>4. Consistent([v EXCEPT !.cut = v.cut \cup Members(v, g)])
    BY ZenonT(30), <2>2, <2>3, CutConsistent
  <2>5. \A x \in CheckSyncSharedStateConsensus(v, g, [v EXCEPT !.cut = v.cut \cup Members(v, g)]) :
            Consistent(x)
    BY ZenonT(30), <1>1, <2>2, <2>4, CheckSyncConsistent
  <2> QED
    BY ZenonT(30), <1>2, <1>4, <2>5
<1>6. CASE ~CanVoteSync(q, c)
  BY ZenonT(30), <1>2, <1>4, <1>6
<1> QED
  BY ZenonT(30), <1>5, <1>6

-----------------------------------------------------------------------------
(* Collective operations *)

\* voteCollectiveCommsInitiate makes the client a running one.
LEMMA VoteInitiateConsistent ==
    ASSUME NEW r, Consistent(r), NEW c \in Peers, NEW t \in Tags, CanVoteInitiate(r, c, t)
    PROVE  Consistent(VoteCollectiveCommsInitiate(r, c, t))
<1> DEFINE q == VoteCollectiveCommsInitiate(r, c, t)
           f == [r.coll EXCEPT ![c] = [r.coll[c] EXCEPT ![t] = "VOTE_INITIATE"]]
           X == [r.state EXCEPT ![c] = "COLLECTIVE_COMMUNICATIONS_RUNNING"]
<1>1. /\ r.phase \in [Peers -> Phases] /\ r.state \in [Peers -> ConnectionStates]
      /\ r.coll \in [Peers -> [Tags -> CollStates]]
  BY ZenonT(30) DEF Consistent, Typed, MasterStates
<1>2. f \in [Peers -> [Tags -> CollStates]]
  BY ZenonT(30), <1>1 DEF CollStates
<1>3. X \in [Peers -> ConnectionStates]
  BY ZenonT(30), <1>1 DEF ConnectionStates
<1>4. q = [r EXCEPT !.state = X, !.coll = f]
  BY ZenonT(30) DEF VoteCollectiveCommsInitiate, Consistent, Typed, MasterStates
<1>5. /\ f[c][t] = "VOTE_INITIATE" /\ \A e \in Peers : e # c => f[e] = r.coll[e]
      /\ X[c] = "COLLECTIVE_COMMUNICATIONS_RUNNING" /\ \A e \in Peers : e # c => X[e] = r.state[e]
  BY ZenonT(30), <1>1
<1> HIDE DEF f, X, q
<1>6. Typed(q)
  BY ZenonT(30), <1>2, <1>3, <1>4 DEF Consistent, Typed, MasterStates
<1>7. /\ q.state = X /\ q.coll = f
      /\ q.phase = r.phase /\ q.query = r.query /\ q.sync = r.sync
      /\ q.votes_accept = r.votes_accept /\ q.votes_establish = r.votes_establish
      /\ q.votes_optimize = r.votes_optimize /\ q.votes_optimized = r.votes_optimized
      /\ q.bandwidth = r.bandwidth
  BY ZenonT(30), <1>4 DEF Consistent, Typed, MasterStates
<1>8. VotesMatch(q)
  <2>1. {r.state[c], X[c]} \cap VoteStates = {}
    BY <1>5 DEF CanVoteInitiate, VoteStates
  <2>2. \A e \in Peers : \/ q.state[e] = r.state[e]
                         \/ q.state[e] \notin VoteStates /\ r.state[e] \notin VoteStates
    BY ZenonT(30), <1>5, <1>7, <2>1
  <2> QED
    BY ZenonT(30), <1>7, <2>2, VotesKept DEF Consistent
<1>9. OperationsMatch(q)
  BY <1>5, <1>7 DEF Consistent, OperationsMatch
<1>10. AcceptedMatch(q)
  <2>1. c \in Accepted(r) /\ Accepted(q) = Accepted(r)
    BY ZenonT(30), <1>7 DEF Accepted, CanVoteInitiate
  <2>2. \A e \in Peers \ Accepted(r) : q.state[e] = r.state[e] /\ q.query = r.query
    BY ZenonT(30), <1>5, <1>7, <2>1
  <2> QED
    BY ZenonT(30), <1>7, <2>1, <2>2 DEF Consistent, AcceptedMatch
<1>11. Consistent(q)
  BY ZenonT(30), <1>6, <1>8, <1>9, <1>10 DEF Consistent
<1> QED
  BY ZenonT(30), <1>11 DEF q

\* Operations move on without starting or ending: nothing else is affected.
LEMMA CollConsistent ==
    ASSUME NEW r, Consistent(r), NEW f \in [Peers -> [Tags -> CollStates]],
           \A c \in Peers, t \in Tags : f[c][t] = "NONE" <=> r.coll[c][t] = "NONE"
    PROVE  Consistent([r EXCEPT !.coll = f])
<1> DEFINE q == [r EXCEPT !.coll = f]
<1>1. Typed(q)
  BY ZenonT(30) DEF Consistent, Typed, MasterStates
<1>2. /\ q.coll = f /\ q.state = r.state
      /\ q.phase = r.phase /\ q.query = r.query /\ q.sync = r.sync
      /\ q.votes_accept = r.votes_accept /\ q.votes_establish = r.votes_establish
      /\ q.votes_optimize = r.votes_optimize /\ q.votes_optimized = r.votes_optimized
      /\ q.bandwidth = r.bandwidth
  BY ZenonT(30) DEF Consistent, Typed, MasterStates
<1> HIDE DEF q
<1>3. VotesMatch(q)
  BY <1>2 DEF Consistent, VotesMatch, In, Registered
<1>4. OperationsMatch(q)
  BY <1>2 DEF Consistent, OperationsMatch
<1>5. AcceptedMatch(q)
  BY <1>2 DEF Consistent, AcceptedMatch, Accepted
<1>6. Consistent(q)
  BY ZenonT(30), <1>1, <1>3, <1>4, <1>5 DEF Consistent
<1> QED
  BY ZenonT(30), <1>6 DEF q

\* voteCollectiveCommsComplete moves an operation that is under way.
LEMMA VoteCompleteConsistent ==
    ASSUME NEW r, Consistent(r), NEW c \in Peers, NEW t \in Tags, CanVoteComplete(r, c, t)
    PROVE  Consistent(VoteCollectiveCommsComplete(r, c, t))
<1> DEFINE f == [r.coll EXCEPT ![c] = [r.coll[c] EXCEPT ![t] = "VOTE_COMPLETE"]]
<1>1. r.coll \in [Peers -> [Tags -> CollStates]]
  BY ZenonT(30) DEF Consistent, Typed, MasterStates
<1>2. f \in [Peers -> [Tags -> CollStates]]
  BY ZenonT(30), <1>1 DEF CollStates
<1>3. \A e \in Peers, u \in Tags : f[e][u] = "NONE" <=> r.coll[e][u] = "NONE"
  BY ZenonT(30), <1>1 DEF CanVoteComplete
<1>4. VoteCollectiveCommsComplete(r, c, t) = [r EXCEPT !.coll = f]
  BY DEF VoteCollectiveCommsComplete, Consistent, Typed, MasterStates
<1> HIDE DEF f
<1>5. Consistent([r EXCEPT !.coll = f])
  BY <1>2, <1>3, CollConsistent
<1> QED
  BY ZenonT(30), <1>4, <1>5

\* transitionToPerformCollectiveCommsPhase moves operations all members voted for.
LEMMA PerformConsistent ==
    ASSUME NEW r, Consistent(r), NEW g, NEW T \in SUBSET Tags,
           \A c \in Members(r, g), t \in T : r.coll[c][t] = "VOTE_INITIATE"
    PROVE  Consistent(TransitionToPerformCollectiveCommsPhase(r, g, T))
<1> DEFINE f == [c \in Peers |-> [t \in Tags |->
                    IF c \in Members(r, g) /\ t \in T THEN "PERFORM" ELSE r.coll[c][t]]]
<1>1. r.coll \in [Peers -> [Tags -> CollStates]]
  BY ZenonT(30) DEF Consistent, Typed, MasterStates
<1>2. f \in [Peers -> [Tags -> CollStates]]
  BY ZenonT(30), <1>1 DEF CollStates
<1>3. \A e \in Peers, u \in Tags : f[e][u] = "NONE" <=> r.coll[e][u] = "NONE"
  BY ZenonT(30), <1>1
<1>4. TransitionToPerformCollectiveCommsPhase(r, g, T) = [r EXCEPT !.coll = f]
  BY DEF TransitionToPerformCollectiveCommsPhase, SetColl, Consistent, Typed, MasterStates
<1> HIDE DEF f
<1>5. Consistent([r EXCEPT !.coll = f])
  BY ZenonT(30), <1>2, <1>3, CollConsistent
<1> QED
  BY ZenonT(30), <1>4, <1>5

\* The abort flags of operations.
LEMMA AbortedConsistent ==
    ASSUME NEW r, Consistent(r), NEW A \in [Groups -> SUBSET Tags]
    PROVE  Consistent([r EXCEPT !.aborted = A])
<1> DEFINE q == [r EXCEPT !.aborted = A]
<1>1. Typed(q) /\ SameVotes(q, r)
  BY ZenonT(30) DEF Consistent, Typed, MasterStates, SameVotes
<1> QED
  BY ZenonT(30), <1>1, Unseen

\* The next sequence number.
LEMMA SeqNrConsistent ==
    ASSUME NEW r, Consistent(r), NEW n \in Nat
    PROVE  Consistent([r EXCEPT !.seq_nr = n])
<1> DEFINE q == [r EXCEPT !.seq_nr = n]
<1>1. Typed(q) /\ SameVotes(q, r)
  BY ZenonT(30) DEF Consistent, Typed, MasterStates, SameVotes
<1> QED
  BY ZenonT(30), <1>1, Unseen

\* transitionToCollectiveCommsCompletePhase ends operations, and with its last one a client
\* is idle; it had no other vote, because it was running.
LEMMA CompleteConsistent ==
    ASSUME NEW r, Consistent(r), NEW g \in Groups, NEW T \in SUBSET Tags,
           \A c \in Members(r, g), t \in T : r.coll[c][t] = "VOTE_COMPLETE"
    PROVE  Consistent(TransitionToCollectiveCommsCompletePhase(r, g, T))
<1> DEFINE q == TransitionToCollectiveCommsCompletePhase(r, g, T)
           f == [c \in Peers |-> [t \in Tags |->
                    IF c \in Members(r, g) /\ t \in T THEN "NONE" ELSE r.coll[c][t]]]
           X == [c \in Peers |->
                    IF T # {} /\ c \in Members(r, g) /\ \A t \in Tags : f[c][t] = "NONE"
                    THEN "IDLE" ELSE r.state[c]]
           A == [r.aborted EXCEPT ![g] = r.aborted[g] \ T]
<1>1. /\ r.coll \in [Peers -> [Tags -> CollStates]]
      /\ r.state \in [Peers -> ConnectionStates] /\ r.phase \in [Peers -> Phases]
      /\ r.aborted \in [Groups -> SUBSET Tags]
  BY DEF Consistent, Typed, MasterStates
<1>2. f \in [Peers -> [Tags -> CollStates]]
  BY ZenonT(30), <1>1 DEF CollStates
<1>3. \A c \in Peers, t \in Tags :
          f[c][t] = IF c \in Members(r, g) /\ t \in T THEN "NONE" ELSE r.coll[c][t]
  BY ZenonT(30)
<1>4. q = [r EXCEPT !.coll = f, !.state = X, !.aborted = A]
  BY DEF TransitionToCollectiveCommsCompletePhase, SetColl, Consistent, Typed, MasterStates
<1> HIDE DEF f, q
<1>5. X \in [Peers -> ConnectionStates]
  BY ZenonT(30), <1>1 DEF ConnectionStates
<1>6. A \in [Groups -> SUBSET Tags]
  BY ZenonT(30), <1>1
<1>7. \A c \in Peers :
          X[c] = IF T # {} /\ c \in Members(r, g) /\ \A t \in Tags : f[c][t] = "NONE"
                 THEN "IDLE" ELSE r.state[c]
  BY ZenonT(30)
<1> HIDE DEF X, A
<1>8. Typed(q)
  BY ZenonT(30), <1>2, <1>4, <1>5, <1>6 DEF Consistent, Typed, MasterStates
<1>9. /\ q.coll = f /\ q.state = X
      /\ q.phase = r.phase /\ q.query = r.query /\ q.sync = r.sync
      /\ q.votes_accept = r.votes_accept /\ q.votes_establish = r.votes_establish
      /\ q.votes_optimize = r.votes_optimize /\ q.votes_optimized = r.votes_optimized
      /\ q.bandwidth = r.bandwidth
  BY ZenonT(30), <1>4 DEF Consistent, Typed, MasterStates
<1>10. \A c \in Peers : \/ X[c] = r.state[c]
                        \/ /\ c \in Accepted(r) /\ X[c] = "IDLE"
                           /\ r.state[c] = "COLLECTIVE_COMMUNICATIONS_RUNNING"
  BY ZenonT(30), <1>7 DEF Consistent, OperationsMatch, Members
<1>11. VotesMatch(q)
  <2>1. {"IDLE", "COLLECTIVE_COMMUNICATIONS_RUNNING"} \cap VoteStates = {}
    BY DEF VoteStates
  <2>2. \A e \in Peers : \/ q.state[e] = r.state[e]
                         \/ q.state[e] \notin VoteStates /\ r.state[e] \notin VoteStates
    BY ZenonT(30), <1>9, <1>10, <2>1
  <2> QED
    BY ZenonT(30), <1>9, <2>2, VotesKept DEF Consistent
<1>12. OperationsMatch(q)
  <2> SUFFICES ASSUME NEW c \in Peers
               PROVE  X[c] = "COLLECTIVE_COMMUNICATIONS_RUNNING"
                          <=> \E t \in Tags : f[c][t] # "NONE"
    BY <1>9 DEF OperationsMatch
  <2>1. r.state[c] = "COLLECTIVE_COMMUNICATIONS_RUNNING" <=> \E t \in Tags : r.coll[c][t] # "NONE"
    BY ZenonT(30) DEF Consistent, OperationsMatch
  <2>2. CASE T # {} /\ c \in Members(r, g)
    BY ZenonT(30), <1>3, <1>7, <2>1, <2>2
  <2>3. CASE ~(T # {} /\ c \in Members(r, g))
    BY ZenonT(30), <1>3, <1>7, <2>1, <2>3
  <2> QED
    BY ZenonT(30), <2>2, <2>3
<1>13. AcceptedMatch(q)
  BY <1>9, <1>10 DEF Consistent, AcceptedMatch, Accepted
<1>14. Consistent(q)
  BY ZenonT(30), <1>8, <1>11, <1>12, <1>13 DEF Consistent
<1> QED
  BY ZenonT(30), <1>14 DEF q

\* checkCollectiveCommsInitiateConsensus, for any set of tags.
LEMMA CheckInitiateConsistent ==
    ASSUME Countable, NEW r, Consistent(r), NEW g \in Groups, NEW T \in SUBSET Tags
    PROVE  Consistent(CheckCollectiveCommsInitiateConsensus(r, g, T))
<1> DEFINE ready == Unanimous(r, g, T, "VOTE_INITIATE")
           q == TransitionToPerformCollectiveCommsPhase(r, g, ready)
           n == q.seq_nr + Cardinality(ready)
           p == [q EXCEPT !.seq_nr = n]
           seq_nr(t) == r.seq_nr + Cardinality({u \in ready : u < t})
<1>1. CheckCollectiveCommsInitiateConsensus(r, g, T)
        = Send(p, [x \in Running(q, g) \X ({"commence"} \X ready) |-> seq_nr(x[2][2])])
  BY DEF CheckCollectiveCommsInitiateConsensus
<1>2. ready \in SUBSET Tags /\ \A c \in Members(r, g), t \in ready : r.coll[c][t] = "VOTE_INITIATE"
  BY ZenonT(30) DEF Unanimous
<1>3. Cardinality(ready) \in Nat
  BY ZenonT(30), <1>2 DEF Countable
<1> HIDE DEF ready
<1>4. Consistent(q)
  BY ZenonT(30), <1>2, PerformConsistent
<1> HIDE DEF q
<1>5. n \in Nat
  BY <1>3, <1>4 DEF Consistent, Typed, MasterStates
<1> HIDE DEF n
<1>6. Consistent(p)
  BY ZenonT(30), <1>4, <1>5, SeqNrConsistent
<1> HIDE DEF p
<1>7. \A batch : Consistent(Send(p, batch))
  BY ZenonT(30), <1>6, SendConsistent
<1> QED
  BY ZenonT(30), <1>1, <1>7

\* sendCollectiveCommsAbortPackets.
LEMMA AbortPacketsConsistent ==
    ASSUME NEW r, Consistent(r), NEW g, NEW T, NEW aborted
    PROVE  Consistent(SendCollectiveCommsAbortPackets(r, g, T, aborted))
BY ZenonT(30), SendConsistent DEF SendCollectiveCommsAbortPackets

\* checkCollectiveCommsCompleteConsensus, for any set of tags.
LEMMA CheckCompleteConsistent ==
    ASSUME NEW r, Consistent(r), NEW g \in Groups, NEW T \in SUBSET Tags
    PROVE  Consistent(CheckCollectiveCommsCompleteConsensus(r, g, T))
<1> DEFINE ready == Unanimous(r, g, T, "VOTE_COMPLETE")
           p == SendCollectiveCommsAbortPackets(r, g, ready \ r.aborted[g], FALSE)
           q == TransitionToCollectiveCommsCompletePhase(p, g, ready)
           told == {c \in Members(q, g) :
                       q.state[c] \in {"IDLE", "COLLECTIVE_COMMUNICATIONS_RUNNING"}}
<1>1. CheckCollectiveCommsCompleteConsensus(r, g, T)
        = Send(q, [x \in told \X ({"complete"} \X ready) |-> TRUE])
  BY ZenonT(30) DEF CheckCollectiveCommsCompleteConsensus
<1>2. ready \in SUBSET Tags /\ \A c \in Members(r, g), t \in ready : r.coll[c][t] = "VOTE_COMPLETE"
  BY ZenonT(30) DEF Unanimous
<1>3. p.phase = r.phase /\ p.coll = r.coll
  BY DEF SendCollectiveCommsAbortPackets, Send, Consistent, Typed, MasterStates
<1> HIDE DEF ready
<1>4. Consistent(p)
  BY ZenonT(30), AbortPacketsConsistent
<1> HIDE DEF p
<1>5. Consistent(q)
  BY <1>2, <1>3, <1>4, CompleteConsistent DEF Members, Accepted
<1> HIDE DEF q
<1>6. \A batch : Consistent(Send(q, batch))
  BY ZenonT(30), <1>5, SendConsistent
<1> QED
  BY ZenonT(30), <1>1, <1>6

\* abortCollectiveCommsOperation and its packets.
LEMMA AbortConsistent ==
    ASSUME NEW r, Consistent(r), NEW g \in Groups, NEW T \in SUBSET Tags
    PROVE  Consistent(AbortCollectiveCommsOperation(r, g, T))
<1> DEFINE A == [r.aborted EXCEPT ![g] = r.aborted[g] \cup T]
           q == [r EXCEPT !.aborted = A]
<1>1. A \in [Groups -> SUBSET Tags]
  BY ZenonT(30) DEF Consistent, Typed, MasterStates
<1>2. AbortCollectiveCommsOperation(r, g, T)
        = SendCollectiveCommsAbortPackets(q, g, T \ r.aborted[g], TRUE)
  BY ZenonT(30) DEF AbortCollectiveCommsOperation, Consistent, Typed, MasterStates
<1> HIDE DEF A
<1>3. Consistent(q)
  BY ZenonT(30), <1>1, AbortedConsistent
<1> HIDE DEF q
<1> QED
  BY ZenonT(30), <1>2, <1>3, AbortPacketsConsistent

\* handleCollectiveCommsInitiate.
LEMMA CollectiveCommsInitiateConsistent ==
    ASSUME Countable, NEW r, Consistent(r), NEW c \in Peers, NEW t \in Tags,
           NEW z \in HandleCollectiveCommsInitiate(r, c, t)
    PROVE  Consistent(z)
<1> DEFINE v == VoteCollectiveCommsInitiate(r, c, t)
<1>1. PeerGroup[c] \in Groups /\ {t} \in SUBSET Tags
  BY ZenonT(30) DEF Groups
<1>2. CASE CanVoteInitiate(r, c, t)
  <2>1. Consistent(v)
    BY ZenonT(30), <1>2, VoteInitiateConsistent
  <2>2. z = CheckCollectiveCommsInitiateConsensus(v, PeerGroup[c], {t})
    BY ZenonT(30), <1>2 DEF HandleCollectiveCommsInitiate
  <2> HIDE DEF v
  <2> QED
    BY ZenonT(30), <1>1, <2>1, <2>2, CheckInitiateConsistent
<1>3. CASE ~CanVoteInitiate(r, c, t)
  BY ZenonT(30), <1>3, KickConsistent DEF HandleCollectiveCommsInitiate
<1> QED
  BY ZenonT(30), <1>2, <1>3

\* handleCollectiveCommsComplete, aborted or not.
LEMMA CollectiveCommsCompleteConsistent ==
    ASSUME NEW r, Consistent(r), NEW c \in Peers, NEW t \in Tags, NEW was_aborted,
           NEW z \in HandleCollectiveCommsComplete(r, c, t, was_aborted)
    PROVE  Consistent(z)
<1> DEFINE g == PeerGroup[c]
           v == VoteCollectiveCommsComplete(r, c, t)
           a == AbortCollectiveCommsOperation(v, g, {t})
<1>1. g \in Groups /\ {t} \in SUBSET Tags
  BY DEF Groups
<1>2. CASE CanVoteComplete(r, c, t)
  <2>1. Consistent(v)
    BY ZenonT(30), <1>2, VoteCompleteConsistent
  <2>2. \/ z = CheckCollectiveCommsCompleteConsensus(a, g, {t})
        \/ z = CheckCollectiveCommsCompleteConsensus(v, g, {t})
    BY ZenonT(30), <1>2 DEF HandleCollectiveCommsComplete
  <2> HIDE DEF v, g
  <2>3. Consistent(a)
    BY ZenonT(30), <1>1, <2>1, AbortConsistent
  <2> HIDE DEF a
  <2> QED
    BY ZenonT(30), <1>1, <2>1, <2>2, <2>3, CheckCompleteConsistent
<1>3. CASE ~CanVoteComplete(r, c, t)
  BY ZenonT(30), <1>3, KickConsistent DEF HandleCollectiveCommsComplete
<1> QED
  BY ZenonT(30), <1>2, <1>3

-----------------------------------------------------------------------------
(* The loss of a connection *)

\* What a disconnect does to the operations under way.
LEMMA RecheckCollectivesConsistent ==
    ASSUME Countable, NEW r, Consistent(r), NEW g \in Groups
    PROVE  Consistent(RecheckCollectives(r, g))
<1> DEFINE T == GetOngoingCollectiveCommsOpTags(r, g)
           a == CheckCollectiveCommsInitiateConsensus(r, g, T)
           b == CheckCollectiveCommsCompleteConsensus(a, g, T)
           U == {t \in T : IsCollectiveOperationRunning(b, g, t)}
<1>1. RecheckCollectives(r, g) = AbortCollectiveCommsOperation(b, g, U)
  BY DEF RecheckCollectives
<1>2. T \in SUBSET Tags
  BY ZenonT(30) DEF GetOngoingCollectiveCommsOpTags
<1> HIDE DEF T
<1>3. Consistent(a)
  BY ZenonT(30), <1>2, CheckInitiateConsistent
<1> HIDE DEF a
<1>4. Consistent(b)
  BY ZenonT(30), <1>2, <1>3, CheckCompleteConsistent
<1> HIDE DEF b
<1>5. U \in SUBSET Tags
  BY ZenonT(30), <1>2
<1> HIDE DEF U
<1> QED
  BY ZenonT(30), <1>1, <1>4, <1>5, AbortConsistent

\* unregisterClient takes the client out of every vote it may have had a part in.
LEMMA UnregisterConsistent ==
    ASSUME NEW r, Consistent(r), NEW c \in Peers
    PROVE  Consistent(UnregisterClient(r, c))
<1> DEFINE q == UnregisterClient(r, c)
           P == [r.phase EXCEPT ![c] = "NONE"]
           X == [r.state EXCEPT ![c] = "IDLE"]
           f == [r.coll EXCEPT ![c] = [t \in Tags |-> "NONE"]]
           b == IF r.phase[c] = "ACCEPTED" THEN UnregisterPeer(r.bandwidth, c) ELSE r.bandwidth
           w == [r.sync.strategy EXCEPT ![c] = "none"]
           y == [r.sync EXCEPT !.votes = r.sync.votes \ {c}, !.strategy = w,
                               !.votes_complete = r.sync.votes_complete \ {c}]
<1>1. /\ r.phase \in [Peers -> Phases] /\ r.state \in [Peers -> ConnectionStates]
      /\ r.coll \in [Peers -> [Tags -> CollStates]] /\ r.bandwidth \in Stores
      /\ r.sync \in SyncStates
  BY ZenonT(30) DEF Consistent, Typed, MasterStates
<1>2. /\ b \in Stores
      /\ b.peers = IF r.phase[c] = "ACCEPTED" THEN r.bandwidth.peers \ {c} ELSE r.bandwidth.peers
  BY ZenonT(30), <1>1 DEF Stores, UnregisterPeer
<1>3. P \in [Peers -> Phases] /\ X \in [Peers -> ConnectionStates]
  BY ZenonT(30), <1>1 DEF Phases, ConnectionStates
<1>4. f \in [Peers -> [Tags -> CollStates]]
  BY ZenonT(30), <1>1 DEF CollStates
<1>5. w \in [Peers -> Strategies \cup {"none"}]
  BY ZenonT(30), <1>1 DEF SyncStates
<1>6. /\ P[c] = "NONE" /\ X[c] = "IDLE" /\ \A t \in Tags : f[c][t] = "NONE"
      /\ \A e \in Peers : e # c => P[e] = r.phase[e] /\ X[e] = r.state[e] /\ f[e] = r.coll[e]
  BY ZenonT(30), <1>1
<1>7. q = [r EXCEPT !.phase = P, !.state = X, !.query = r.query \ {c}, !.coll = f, !.bandwidth = b,
                    !.votes_accept = r.votes_accept \ {c},
                    !.votes_establish = r.votes_establish \ {c},
                    !.votes_optimize = r.votes_optimize \ {c},
                    !.votes_optimized = r.votes_optimized \ {c},
                    !.sync = y]
  BY ZenonT(30), <1>1 DEF UnregisterClient, Consistent, Typed, MasterStates, SyncStates
<1> HIDE DEF P, X, f, b, w, q
<1>8. /\ y \in SyncStates
      /\ y.votes = r.sync.votes \ {c} /\ y.votes_complete = r.sync.votes_complete \ {c}
  BY ZenonT(30), <1>1, <1>5 DEF SyncStates
<1> HIDE DEF y
<1>9. Typed(q)
  BY ZenonT(30), <1>2, <1>3, <1>4, <1>7, <1>8 DEF Consistent, Typed, MasterStates
<1>10. /\ q.phase = P /\ q.state = X /\ q.query = r.query \ {c} /\ q.coll = f
       /\ q.bandwidth = b /\ q.sync = y
       /\ q.votes_accept = r.votes_accept \ {c} /\ q.votes_establish = r.votes_establish \ {c}
       /\ q.votes_optimize = r.votes_optimize \ {c} /\ q.votes_optimized = r.votes_optimized \ {c}
  BY <1>7 DEF Consistent, Typed, MasterStates
<1>11. VotesMatch(q)
  BY <1>1, <1>6, <1>8, <1>10 DEF Consistent, VotesMatch, In, Registered
<1>12. OperationsMatch(q)
  BY <1>6, <1>10 DEF Consistent, OperationsMatch
<1>13. AcceptedMatch(q)
  <2>1. Accepted(q) = Accepted(r) \ {c}
    BY ZenonT(30), <1>6, <1>10 DEF Accepted
  <2>2. q.bandwidth.peers = Accepted(q)
    BY ZenonT(30), <1>2, <1>10, <2>1 DEF Consistent, AcceptedMatch, Accepted
  <2>3. \A e \in Peers \ Accepted(q) : q.state[e] \in ConnectingStates /\ e \notin q.query
    BY ZenonT(30), <1>6, <1>10, <2>1 DEF Consistent, AcceptedMatch, ConnectingStates
  <2> QED
    BY ZenonT(30), <2>2, <2>3 DEF AcceptedMatch
<1>14. Consistent(q)
  BY ZenonT(30), <1>9, <1>11, <1>12, <1>13 DEF Consistent
<1> QED
  BY ZenonT(30), <1>14 DEF q

\* onClientDisconnect: unregistering the client and all the checks that follow.
LEMMA DisconnectConsistent ==
    ASSUME Countable, NEW r, Consistent(r), NEW c \in Peers, NEW z \in OnClientDisconnect(r, c)
    PROVE  Consistent(z)
<1> DEFINE g == PeerGroup[c]
           k == [r EXCEPT !.cut = r.cut \ {c}]
           u == UnregisterClient(k, c)
           e == CheckEstablishP2PConnectionConsensus(u)
           d == [e EXCEPT !.peer_dropped = TRUE]
           rest(q) == LET w == CheckQueryPeersPendingConsensus(q)
                      IN  {RecheckCollectives(CheckSyncSharedStateCompleteConsensus(p, g), g) :
                               p \in CheckSyncSharedStateConsensus(w, g, w)}
<1>1. g \in Groups
  BY DEF Groups
<1>2. z \in IF c \notin Registered(r) THEN {k}
            ELSE UNION {rest(q) : q \in CheckP2PConnectionsEstablished(d)}
  BY ZenonT(30) DEF OnClientDisconnect
<1>3. r.cut \ {c} \in SUBSET Peers
  BY DEF Consistent, Typed, MasterStates
<1>4. Consistent(k)
  BY ZenonT(30), <1>3, CutConsistent
<1> HIDE DEF k
<1>5. Consistent(u)
  BY ZenonT(30), <1>4, UnregisterConsistent
<1> HIDE DEF u
<1>6. Consistent(e)
  BY ZenonT(30), <1>5, CheckEstablishConsistent
<1> HIDE DEF e
<1>7. Consistent(d)
  BY ZenonT(30), <1>6, DroppedConsistent
<1> HIDE DEF d, g
<1>8. CASE c \in Registered(r)
  <2>1. PICK q \in CheckP2PConnectionsEstablished(d) : z \in rest(q)
    BY ZenonT(30), <1>2, <1>8
  <2>2. Consistent(q)
    BY ZenonT(30), <1>7, CheckP2PEstablishedConsistent
  <2> DEFINE w == CheckQueryPeersPendingConsensus(q)
  <2>3. Consistent(w)
    BY ZenonT(30), <2>2, CheckQueryConsistent
  <2>4. PICK p \in CheckSyncSharedStateConsensus(w, g, w) :
            z = RecheckCollectives(CheckSyncSharedStateCompleteConsensus(p, g), g)
    BY ZenonT(30), <2>1
  <2> HIDE DEF w
  <2>5. Consistent(p)
    BY ZenonT(30), <1>1, <2>3, CheckSyncConsistent
  <2>6. Consistent(CheckSyncSharedStateCompleteConsensus(p, g))
    BY ZenonT(30), <1>1, <2>5, CheckSyncCompleteConsistent
  <2> QED
    BY ZenonT(30), <1>1, <2>4, <2>6, RecheckCollectivesConsistent
<1>9. CASE c \notin Registered(r)
  BY ZenonT(30), <1>2, <1>4, <1>9
<1> QED
  BY <1>8, <1>9

-----------------------------------------------------------------------------
(* The specification *)

Inv == Consistent(s) /\ s.out = <<>> /\ gone \in SUBSET Peers

\* The master starts in a consistent state.
LEMMA InitInv == Init => Inv
<1>1. EmptyMaster.out = <<>>
  BY ZenonT(30) DEF EmptyMaster
<1> QED
  BY ZenonT(30), <1>1, EmptyConsistent DEF Init, Inv

\* A handler that keeps the invariant keeps it once its packets are delivered.
LEMMA StepInv ==
    ASSUME Inv, NEW S, \A z \in S : Consistent(z), Step(S), gone' \in SUBSET Peers
    PROVE  Inv'
<1>1. PICK z \in S : s' = Delivered(z)
  BY DEF Step
<1>2. Consistent(s') /\ s'.out = <<>>
  BY ZenonT(30), <1>1, DeliveredConsistent
<1> QED
  BY ZenonT(30), <1>2 DEF Inv, Consistent, Typed, VotesMatch, OperationsMatch, AcceptedMatch,
              In, Registered, Accepted

\* Every action keeps the invariant, because the handler it runs does.
LEMMA NextInv == Countable /\ Inv /\ [Next]_vars => Inv'
<1> SUFFICES ASSUME Countable, Inv, [Next]_vars PROVE Inv'
  BY ZenonT(30)
<1>1. Consistent(s) /\ s.out = <<>> /\ gone \in SUBSET Peers
  BY DEF Inv
<1>2. ASSUME NEW c \in Peers, NEW S, \A z \in S : Consistent(z), Receive(c, S)
      PROVE  Inv'
  BY ZenonT(30), <1>1, <1>2, StepInv DEF Receive
<1>3. ASSUME NEW c \in Peers, RequestSessionJoin(c) PROVE Inv'
  BY ZenonT(30), <1>1, <1>2, <1>3, RequestSessionJoinConsistent DEF RequestSessionJoin
<1>4. ASSUME NEW c \in Peers, RequestEstablishP2PConnections(c) PROVE Inv'
  BY ZenonT(30), <1>1, <1>2, <1>4, EstablishP2PConnectionsConsistent DEF RequestEstablishP2PConnections
<1>5. ASSUME NEW c \in Peers, P2PConnectionsEstablished(c) PROVE Inv'
  BY ZenonT(30), <1>1, <1>2, <1>5, P2PConnectionsEstablishedConsistent DEF P2PConnectionsEstablished
<1>6. ASSUME NEW c \in Peers, CheckPeersPending(c) PROVE Inv'
  BY ZenonT(30), <1>1, <1>2, <1>6, CheckPeersPendingConsistent DEF CheckPeersPending
<1>7. ASSUME NEW c \in Peers, OptimizeTopology(c) PROVE Inv'
  BY ZenonT(30), <1>1, <1>2, <1>7, OptimizeTopologyConsistent DEF OptimizeTopology
<1>8. ASSUME NEW c \in Peers, ReportPeerBandwidth(c) PROVE Inv'
  BY ZenonT(30), <1>1, <1>2, <1>8, ReportBandwidthConsistent DEF ReportPeerBandwidth
<1>9. ASSUME NEW c \in Peers, OptimizeTopologyWorkComplete(c) PROVE Inv'
  BY ZenonT(30), <1>1, <1>2, <1>9, WorkCompleteConsistent DEF OptimizeTopologyWorkComplete
<1>10. ASSUME NEW c \in Peers, SyncSharedState(c) PROVE Inv'
  <2>1. PICK revision \in 0..MaxRevision, strategy \in Strategies, hashes \in SharedStates :
            Receive(c, HandleSyncSharedState(s, c, revision, strategy, hashes))
    BY ZenonT(30), <1>10 DEF SyncSharedState
  <2>2. revision \in Nat
    BY <2>1
  <2>3. \A z \in HandleSyncSharedState(s, c, revision, strategy, hashes) : Consistent(z)
    BY ZenonT(30), <1>1, <2>2, SyncSharedStateConsistent
  <2> QED
    BY ZenonT(30), <1>2, <2>1, <2>3
<1>11. ASSUME NEW c \in Peers, SyncSharedStateComplete(c) PROVE Inv'
  BY ZenonT(30), <1>1, <1>2, <1>11, SyncSharedStateCompleteConsistent DEF SyncSharedStateComplete
<1>12. ASSUME NEW c \in Peers, CollectiveCommsInitiate(c) PROVE Inv'
  BY ZenonT(30), <1>1, <1>2, <1>12, CollectiveCommsInitiateConsistent DEF CollectiveCommsInitiate
<1>13. ASSUME NEW c \in Peers, CollectiveCommsComplete(c) PROVE Inv'
  BY ZenonT(30), <1>1, <1>2, <1>13, CollectiveCommsCompleteConsistent DEF CollectiveCommsComplete
<1>14. ASSUME NEW c \in Peers, Cut(c) PROVE Inv'
  <2>1. Consistent(Kick(s, c)) /\ Kick(s, c).out = <<>>
    BY ZenonT(30), <1>1, KickConsistent DEF Kick, Consistent, Typed, MasterStates
  <2>2. Consistent(s') /\ s'.out = <<>> /\ gone' \in SUBSET Peers
    BY <1>1, <1>14, <2>1 DEF Cut
  <2> QED
    BY ZenonT(30), <2>2 DEF Inv, Consistent, Typed, VotesMatch, OperationsMatch, AcceptedMatch,
                In, Registered, Accepted
<1>15. ASSUME NEW c \in Peers, ClientDisconnect(c) PROVE Inv'
  <2>1. \A z \in OnClientDisconnect(s, c) : Consistent(z)
    BY ZenonT(30), <1>1, DisconnectConsistent
  <2>2. Step(OnClientDisconnect(s, c)) /\ gone' \in SUBSET Peers
    BY ZenonT(30), <1>1, <1>15 DEF ClientDisconnect
  <2> QED
    BY ZenonT(30), <2>1, <2>2, StepInv
<1>16. ASSUME NEW g \in Groups, Moonshot(g) PROVE Inv'
  <2>1. \A z \in {StartSolver(s, g)} : Consistent(z)
    BY ZenonT(30), <1>1, SolverConsistent
  <2>2. \A z \in FinishSolver(s, g) : Consistent(z)
    BY ZenonT(30), <1>1, SolverConsistent
  <2>3. gone' \in SUBSET Peers /\ (Step({StartSolver(s, g)}) \/ Step(FinishSolver(s, g)))
    BY ZenonT(30), <1>1, <1>16 DEF Moonshot
  <2> QED
    BY ZenonT(30), <2>1, <2>2, <2>3, StepInv
<1>17. ASSUME UNCHANGED vars PROVE Inv'
  <2>1. s' = s /\ gone' = gone
    BY ZenonT(30), <1>17 DEF vars
  <2>2. Consistent(s') /\ s'.out = <<>> /\ gone' \in SUBSET Peers
    BY ZenonT(30), <1>1, <2>1
  <2> QED
    BY ZenonT(30), <2>2 DEF Inv, Consistent, Typed, VotesMatch, OperationsMatch, AcceptedMatch,
                In, Registered, Accepted
<1>18. ASSUME NEW c \in Peers, Packet(c) PROVE Inv'
  BY ZenonT(30), <1>3, <1>4, <1>5, <1>6, <1>7, <1>8, <1>9, <1>10, <1>11, <1>12, <1>13, <1>18 DEF Packet
<1> QED
  BY ZenonT(30), <1>14, <1>15, <1>16, <1>17, <1>18 DEF Next

=============================================================================
