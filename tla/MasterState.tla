---------------------------- MODULE MasterState ----------------------------
(***************************************************************************)
(* CCoIPMasterState: everything the master knows about its clients, and    *)
(* the operations on it.                                                   *)
(*                                                                         *)
(* The master is single threaded, so its state is one record s, and a      *)
(* method of the class is an operator that returns the next record; a      *)
(* handler (module MasterHandler) is a composition of such operators in    *)
(* the order of the C++ calls.  Where the code iterates over a hash map    *)
(* and the order matters, the operator returns the set of all outcomes.    *)
(* A client is known by its uuid, an element of Peers; a process that      *)
(* reconnects gets a fresh uuid.                                           *)
(*                                                                         *)
(* Fields of s:                                                            *)
(*   phase, state       connection_phase and connection_state of the       *)
(*                      client's ClientInfo; phase "NONE": no entry        *)
(*   query              the clients with VOTE_QUERY_PENDING_PEERS          *)
(*   coll               collective_coms_states, per client and tag         *)
(*   votes_*            the vote sets kept beside the states               *)
(*   unreachable        unreachability_map                                 *)
(*   bandwidth          bandwidth_store                                    *)
(*   ring, optimal      ring_topologies, topology_is_optimal, per group    *)
(*   aborted            tags with a raised collective_comms_op_abort_state *)
(*   seq_nr             next collective sequence number                    *)
(*   sync               the shared-state fields (module MasterSharedState) *)
(*   peer_dropped, prev_info, task      fields of CCoIPMasterHandler       *)
(*   cut                connections being closed, by a kick or by the      *)
(*                      client, whose disconnect callback has not run yet  *)
(*   out                batches of packets sent by the running handler     *)
(***************************************************************************)
EXTENDS Integers, Sequences, FiniteSets, Functions, BandwidthStore

CONSTANTS
    Tags,        \* tags of collective operations
    Loopback,    \* peers that reach the master over a local address
    ByUuid       \* ByUuid[P]: the peers of P in ascending order of their uuid bytes

ASSUME TagsAssumption == Tags \subseteq Nat /\ IsFiniteSet(Tags)

ASSUME ByUuidAssumption ==
    /\ ByUuid \in [SUBSET Peers -> Seq(Peers)]
    /\ \A P \in SUBSET Peers : Range(ByUuid[P]) = P /\ Len(ByUuid[P]) = Cardinality(P)

Groups == {PeerGroup[c] : c \in Peers}

Phases == {"NONE", "REGISTERED", "ACCEPTED"}

ConnectionStates ==
    {"IDLE", "VOTE_ACCEPT_NEW_PEERS", "VOTE_NO_NEW_PEERS", "CONNECTING_TO_PEERS",
     "CONNECTING_TO_PEERS_FAILED", "WAITING_FOR_OTHER_PEERS", "VOTE_OPTIMIZE_TOPOLOGY",
     "OPTIMIZE_TOPOLOGY", "OPTIMIZE_TOPOLOGY_FAILED", "VOTE_COMPLETE_TOPOLOGY_OPTIMIZATION",
     "VOTE_SYNC_SHARED_STATE", "DISTRIBUTE_SHARED_STATE", "REQUEST_SHARED_STATE",
     "VOTE_COMPLETE_SHARED_STATE_SYNC", "COLLECTIVE_COMMUNICATIONS_RUNNING"}

CollStates == {"NONE", "VOTE_INITIATE", "PERFORM", "VOTE_COMPLETE"}

(***************************************************************************)
(* Packets to clients.  A client takes packets off its connection by type  *)
(* and tag, oldest first, so a connection is one queue per <<type, tag>>;  *)
(* untagged types have tag 0.                                              *)
(***************************************************************************)
PlainKinds == {"session", "info", "established", "pending", "optimize", "optimized",
               "sync", "synced"}

Kinds == (PlainKinds \X {0}) \cup ({"commence", "abort", "complete"} \X Tags)

\* One batch of packets: batch[<<c, k>>] of kind k to client c.  A packet to a connection
\* that is being closed is lost.
Send(s, batch) ==
    [s EXCEPT !.out = Append(@, [x \in {y \in DOMAIN batch : y[1] \notin s.cut} |-> batch[x]])]

\* kickClient only asks the socket to close; the disconnect callback comes later.
Kick(s, c) == [s EXCEPT !.cut = @ \cup {c}]

-----------------------------------------------------------------------------
(* Who is who *)

Registered(s) == {c \in Peers : s.phase[c] # "NONE"}
Accepted(s)   == {c \in Peers : s.phase[c] = "ACCEPTED"}
In(s, st)     == {c \in Registered(s) : s.state[c] \in st}
Members(s, g) == {c \in Accepted(s) : PeerGroup[c] = g}

\* The clients getLocalWorldSize counts.
LocalWorld(s, g, include_registered) ==
    {c \in Registered(s) : PeerGroup[c] = g /\ (include_registered \/ c \in Accepted(s))}

-----------------------------------------------------------------------------
(* Registration and p2p establishment votes *)

\* Mutant: the bandwidth store is not told.
OnPeerAcceptedUnmeasured(s, C) ==
    [s EXCEPT !.phase = [c \in Peers |-> IF c \in C THEN "ACCEPTED" ELSE @[c]]]

OnPeerAccepted(s, C) ==
    [s EXCEPT !.phase = [c \in Peers |-> IF c \in C THEN "ACCEPTED" ELSE @[c]],
              !.bandwidth = RegisterPeers(@, C)]

CanVoteEstablish(s, c) ==
    /\ s.phase[c] = "ACCEPTED"
    /\ s.state[c] \in {"IDLE", "CONNECTING_TO_PEERS_FAILED"}

VoteEstablishP2PConnections(s, c, accept_new_peers) ==
    IF accept_new_peers
    THEN [s EXCEPT !.state[c] = "VOTE_ACCEPT_NEW_PEERS", !.votes_accept = @ \cup {c}]
    ELSE [s EXCEPT !.state[c] = "VOTE_NO_NEW_PEERS", !.votes_establish = @ \cup {c}]

\* Registered clients cannot vote and count as voting for whatever is voted on.
UnanimousIn(s, st) ==
    \A c \in Registered(s) : s.state[c] = st \/ s.phase[c] = "REGISTERED"

AcceptNewPeersConsensus(s) == UnanimousIn(s, "VOTE_ACCEPT_NEW_PEERS")

NoAcceptNewPeersConsensus(s) == UnanimousIn(s, "VOTE_NO_NEW_PEERS")

TransitionToP2PEstablishmentPhase(s, accept_new_peers) ==
    LET moved == IF accept_new_peers THEN Registered(s) ELSE Accepted(s)
        state == [c \in Peers |-> IF c \in moved THEN "CONNECTING_TO_PEERS" ELSE s.state[c]]
    IN  IF accept_new_peers THEN [s EXCEPT !.state = state, !.votes_accept = {}]
        ELSE [s EXCEPT !.state = state, !.votes_establish = {}]

\* Local and non-local clients cannot reach each other, so they do not mix.
CanRegister(s, c) ==
    LET all_existing_local == Registered(s) \subseteq Loopback
    IN  Registered(s) = {} \/ (all_existing_local <=> c \in Loopback)

\* The first client is accepted at once, as if it had voted to accept itself.
RegisterClient(s, c) ==
    LET r == [s EXCEPT !.phase[c] = "REGISTERED", !.state[c] = "IDLE"]
    IN  IF Registered(s) # {} THEN r
        ELSE TransitionToP2PEstablishmentPhase(
                 VoteEstablishP2PConnections(OnPeerAccepted(r, {c}), c, TRUE), TRUE)

\* Erases the ClientInfo and the votes, and nothing else that names the client.
UnregisterClient(s, c) ==
    [s EXCEPT !.phase[c] = "NONE",
              !.state[c] = "IDLE",
              !.query = @ \ {c},
              !.coll[c] = [t \in Tags |-> "NONE"],
              !.bandwidth = IF s.phase[c] = "ACCEPTED" THEN UnregisterPeer(@, c) ELSE @,
              !.votes_accept = @ \ {c},
              !.votes_establish = @ \ {c},
              !.votes_optimize = @ \ {c},
              !.votes_optimized = @ \ {c},
              !.sync = [s.sync EXCEPT !.votes = @ \ {c},
                                      !.strategy[c] = "none",
                                      !.votes_complete = @ \ {c}]]

-----------------------------------------------------------------------------
(* The ring of a peer group *)

\* Accepted peers, and those that are about to be, make up a new ring.
RingPeers(s, g) ==
    {c \in Registered(s) : /\ PeerGroup[c] = g
                           /\ c \in Accepted(s) \/ s.state[c] = "CONNECTING_TO_PEERS"}

BuildBasicRingTopology(s, g) == ByUuid[RingPeers(s, g)]

Tours(P) == Bijection(1..Cardinality(P), P)

NextIndex(r, i) == IF i = Len(r) THEN 1 ELSE i + 1
PrevIndex(r, i) == IF i = 1 THEN Len(r) ELSE i - 1

MutuallyReachable(s, p, q) == q \notin s.unreachable[p] /\ p \notin s.unreachable[q]

\* Every ring the backtracking search may find; none: no ring exists.
ReachableRings(s, g) ==
    LET P == RingPeers(s, g)
    IN  IF P = {} THEN {}
        ELSE {r \in Tours(P) :
                 Len(r) = 1 \/ \A i \in DOMAIN r : MutuallyReachable(s, r[i], r[NextIndex(r, i)])}

\* An optimal ring is only given up for one over other peers.
KeepsOptimal(s, g, new) ==
    /\ s.optimal[g]
    /\ Len(new) = Len(s.ring[g])
    /\ Range(s.ring[g]) \subseteq Range(new)

SetRingTopology(s, g, new, optimal) ==
    IF KeepsOptimal(s, g, new) THEN s
    ELSE [s EXCEPT !.ring[g] = new, !.optimal[g] = optimal]

IsTopologyDirty(s, g, include_registered) ==
    \/ Len(s.ring[g]) # Cardinality(LocalWorld(s, g, include_registered))
    \/ ~(Range(s.ring[g]) \subseteq Registered(s))

\* getRingTopology rebuilds a dirty ring before it returns it.  Here for all groups
\* of G at once: s.ring[g] is the ring returned.
GetRingTopology(s, G, include_registered) ==
    LET rebuilt(g) == /\ g \in G
                      /\ IsTopologyDirty(s, g, include_registered)
                      /\ ~KeepsOptimal(s, g, BuildBasicRingTopology(s, g))
    IN  [s EXCEPT !.ring = [g \in Groups |-> IF rebuilt(g) THEN BuildBasicRingTopology(s, g) ELSE @[g]],
                  !.optimal = [g \in Groups |-> @[g] /\ ~rebuilt(g)]]

\* Mutant: the next peer of the ring is left out.
GetPreviousPeerForClient(s, c) ==
    LET r == s.ring[PeerGroup[c]]
        i == IF c \in Range(r) THEN CHOOSE j \in DOMAIN r : r[j] = c ELSE 1
    IN  IF Len(r) <= 1 THEN <<>> ELSE <<r[PrevIndex(r, i)]>>

\* The ring neighbours of c, previous first; a client not in the ring gets those
\* of the first position.
GetPeersForClient(s, c) ==
    LET r    == s.ring[PeerGroup[c]]
        i    == IF c \in Range(r) THEN CHOOSE j \in DOMAIN r : r[j] = c ELSE 1
        prev == r[PrevIndex(r, i)]
        next == r[NextIndex(r, i)]
    IN  IF Len(r) <= 1 THEN <<>>
        ELSE IF ~({prev, next} \subseteq Registered(s)) THEN <<>>
        ELSE IF prev = next THEN <<prev>> ELSE <<prev, next>>

-----------------------------------------------------------------------------
(* The end of a p2p establishment phase *)

AddUnreachable(s, c, failed_peers) ==
    [s EXCEPT !.unreachable[c] = @ \cup (failed_peers \cap Registered(s))]

\* markP2PConnectionsEstablished for a failed attempt: the outcomes that keep the
\* client.  None is left, and it is kicked, when it reaches nobody or when no ring
\* over mutually reachable peers exists.
MarkP2PConnectionsFailed(s, c, failed_peers) ==
    LET u == AddUnreachable(s, c, failed_peers)
        g == PeerGroup[c]
    IN  IF Cardinality(u.unreachable[c]) = Cardinality(Registered(s)) THEN {}
        ELSE {[SetRingTopology(u, g, r, FALSE) EXCEPT !.state[c] = "CONNECTING_TO_PEERS_FAILED"] :
                  r \in ReachableRings(u, g)}

\* Clients the phase is about: not the ones registered since it began.
InP2PPhase(s) == {c \in Registered(s) : s.phase[c] = "ACCEPTED" \/ s.state[c] # "IDLE"}

\* Mutant: the first report ends the phase.
P2PConsensusOnFirstReport(s) == In(s, {"WAITING_FOR_OTHER_PEERS", "CONNECTING_TO_PEERS_FAILED"}) # {}

P2PConnectionsEstablishConsensus(s) ==
    /\ In(s, {"WAITING_FOR_OTHER_PEERS", "CONNECTING_TO_PEERS_FAILED"}) # {}
    /\ In(s, {"CONNECTING_TO_PEERS"}) = {}

\* Clients transitionToP2PConnectionsEstablishedPhase stops at.
Unexpected(s, failure) ==
    InP2PPhase(s) \ In(s, {"WAITING_FOR_OTHER_PEERS"} \cup
                          (IF failure THEN {"CONNECTING_TO_PEERS_FAILED"} ELSE {}))

\* The waiting clients in M leave the phase for state st; new ones are accepted even when
\* the phase has failed.
LeaveP2PPhase(s, M, st) ==
    OnPeerAccepted([s EXCEPT !.state = [c \in Peers |-> IF c \in M THEN st ELSE @[c]]], M)

-----------------------------------------------------------------------------
(* Query for pending peers *)

CanVoteQuery(s, c) == s.phase[c] = "ACCEPTED" /\ c \notin s.query

HasPendingPeers(s) == Accepted(s) # Registered(s)

QueryPendingPeersConsensus(s) == Registered(s) # {} /\ Accepted(s) \subseteq s.query

ResetVoteQueryPendingPeers(s) == [s EXCEPT !.query = @ \ Accepted(s)]

-----------------------------------------------------------------------------
(* Topology optimization *)

CanVoteOptimize(s, c) ==
    s.phase[c] = "ACCEPTED" /\ s.state[c] \in {"IDLE", "OPTIMIZE_TOPOLOGY_FAILED"}

VoteOptimizeTopology(s, c) ==
    [s EXCEPT !.state[c] = "VOTE_OPTIMIZE_TOPOLOGY", !.votes_optimize = @ \cup {c}]

OptimizeTopologyConsensus(s) == UnanimousIn(s, "VOTE_OPTIMIZE_TOPOLOGY")

\* Mutant: clients that are not accepted are moved as well.
TransitionRegisteredToOptimization(s) ==
    [s EXCEPT !.state = [c \in Peers |-> IF c \in Registered(s) THEN "OPTIMIZE_TOPOLOGY" ELSE @[c]],
              !.votes_optimize = {}]

TransitionToTopologyOptimizationPhase(s) ==
    [s EXCEPT !.state = [c \in Peers |-> IF c \in Accepted(s) THEN "OPTIMIZE_TOPOLOGY" ELSE @[c]],
              !.votes_optimize = {}]

CanVoteOptimized(s, c) == s.phase[c] = "ACCEPTED" /\ s.state[c] = "OPTIMIZE_TOPOLOGY"

VoteTopologyOptimizationComplete(s, c) ==
    [s EXCEPT !.state[c] = "VOTE_COMPLETE_TOPOLOGY_OPTIMIZATION", !.votes_optimized = @ \cup {c}]

TopologyOptimizationCompleteConsensus(s) == UnanimousIn(s, "VOTE_COMPLETE_TOPOLOGY_OPTIMIZATION")

\* Mutants: the votes are kept; the states are kept.
EndTopologyOptimizationKeepsVotes(s) ==
    [s EXCEPT !.state = [c \in Peers |-> IF c \in Accepted(s) THEN "IDLE" ELSE @[c]]]

EndTopologyOptimizationKeepsStates(s) == [s EXCEPT !.votes_optimized = {}]

EndTopologyOptimizationPhase(s) ==
    [s EXCEPT !.state = [c \in Peers |-> IF c \in Accepted(s) THEN "IDLE" ELSE @[c]],
              !.votes_optimized = {}]

StorePeerBandwidth(s, from, to) ==
    IF {from, to} \subseteq Registered(s) /\ PeerGroup[from] = PeerGroup[to]
    THEN [s EXCEPT !.bandwidth = StoreBandwidth(@, from, to)]
    ELSE s

GetMissingBandwidthEntries(s, c) ==
    {e \in MissingEntries(s.bandwidth, c) : e[2] \notin s.unreachable[e[1]]}

\* Edges nobody could measure are not asked for again.
MarkMissingUnreachable(s) ==
    LET missing == UNION {GetMissingBandwidthEntries(s, c) : c \in Accepted(s)}
        marked  == {e \in missing : {e[1], e[2]} \subseteq Registered(s)}
    IN  IF FullyPopulated(s.bandwidth) THEN s
        ELSE [s EXCEPT !.unreachable = [c \in Peers |-> @[c] \cup {e[2] : e \in {m \in marked : m[1] = c}}]]

-----------------------------------------------------------------------------
(* Collective operations.  The operators take a set T of tags: operations  *)
(* with different tags do not interfere, and a disconnect affects several. *)

\* Mutants: the tag may be in use; a second operation is refused.
CanVoteInitiateAgain(s, c, t) ==
    s.phase[c] = "ACCEPTED" /\ s.state[c] \in {"IDLE", "COLLECTIVE_COMMUNICATIONS_RUNNING"}

CanVoteInitiate(s, c, t) ==
    /\ s.phase[c] = "ACCEPTED"
    /\ s.state[c] \in {"IDLE", "COLLECTIVE_COMMUNICATIONS_RUNNING"}
    /\ s.coll[c][t] = "NONE"

VoteCollectiveCommsInitiate(s, c, t) ==
    [s EXCEPT !.state[c] = "COLLECTIVE_COMMUNICATIONS_RUNNING", !.coll[c][t] = "VOTE_INITIATE"]

CanVoteComplete(s, c, t) == s.phase[c] = "ACCEPTED" /\ s.coll[c][t] = "PERFORM"

VoteCollectiveCommsComplete(s, c, t) == [s EXCEPT !.coll[c][t] = "VOTE_COMPLETE"]

\* The tags of T all accepted clients of the group are at the same point with.
Unanimous(s, g, T, st) == {t \in T : \A c \in Members(s, g) : s.coll[c][t] = st}

SetColl(s, g, T, st) ==
    [s EXCEPT !.coll = [c \in Peers |-> [t \in Tags |->
        IF c \in Members(s, g) /\ t \in T THEN st ELSE @[c][t]]]]

\* Mutant: a state of the client instead of one of the operation.
TransitionToRunning(s, g, T) == SetColl(s, g, T, "COLLECTIVE_COMMUNICATIONS_RUNNING")

TransitionToPerformCollectiveCommsPhase(s, g, T) == SetColl(s, g, T, "PERFORM")

\* Mutant: the client is idle although other operations are running.
CompleteIgnoresOtherTags(s, g, T) ==
    [SetColl(s, g, T, "NONE") EXCEPT
        !.state = [c \in Peers |-> IF T # {} /\ c \in Members(s, g) THEN "IDLE" ELSE @[c]],
        !.aborted[g] = @ \ T]

\* A client whose last operation ends is idle again.
TransitionToCollectiveCommsCompletePhase(s, g, T) ==
    LET r == SetColl(s, g, T, "NONE")
    IN  [r EXCEPT !.state = [c \in Peers |->
                        IF T # {} /\ c \in Members(s, g) /\ \A t \in Tags : r.coll[c][t] = "NONE"
                        THEN "IDLE" ELSE @[c]],
                  !.aborted[g] = @ \ T]

IsCollectiveOperationRunning(s, g, t) ==
    \E c \in LocalWorld(s, g, TRUE) : s.coll[c][t] = "PERFORM"

\* Mutant: operations that have not commenced are overlooked.
GetPerformedTags(s, g) == {t \in Tags : \E c \in LocalWorld(s, g, TRUE) : s.coll[c][t] = "PERFORM"}

GetOngoingCollectiveCommsOpTags(s, g) ==
    {t \in Tags : \E c \in LocalWorld(s, g, TRUE) : s.coll[c][t] # "NONE"}

=============================================================================
