--------------------------- MODULE MasterHandler ---------------------------
(***************************************************************************)
(* CCoIPMasterHandler: what the master does with a packet of a client and  *)
(* with the loss of a connection.  A handler validates and records a vote, *)
(* kicking the client when it may not cast it, and then checks whether the *)
(* vote is unanimous; if so the clients change state and are told.  Each   *)
(* handler runs to completion on the server thread: Handle...(s, c, ...)   *)
(* is the set of master states it may leave behind.                        *)
(***************************************************************************)
EXTENDS MasterSharedState, FiniteSetsExt

EmptyMaster ==
    [phase |-> [c \in Peers |-> "NONE"],
     state |-> [c \in Peers |-> "IDLE"],
     query |-> {},
     coll  |-> [c \in Peers |-> [t \in Tags |-> "NONE"]],
     votes_accept |-> {}, votes_establish |-> {}, votes_optimize |-> {}, votes_optimized |-> {},
     unreachable |-> [c \in Peers |-> {}],
     bandwidth |-> EmptyStore,
     ring |-> [g \in Groups |-> <<>>],
     optimal |-> [g \in Groups |-> FALSE],
     aborted |-> [g \in Groups |-> {}],
     seq_nr |-> 0,
     sync |-> EmptySync,
     peer_dropped |-> FALSE,
     prev_info |-> [c \in Peers |-> {}],
     task |-> [g \in Groups |-> [st |-> "none", base |-> {}]],
     cut |-> {},
     out |-> <<>>]

\* What the topology optimization threads work on.
Topologies ==
    [ring : [Groups -> Seq(Peers)],
     optimal : [Groups -> BOOLEAN],
     task : [Groups -> [st : {"none", "scheduled", "running", "done"}, base : SUBSET Peers]]]

\* The packets of a step leave with it.
Delivered(r) == [r EXCEPT !.out = <<>>]

-----------------------------------------------------------------------------
(* P2P connection establishment *)

\* Clients whose neighbours did not change are told so, and get no list.
SendP2PConnectionInformation(s, include_registered) ==
    LET to   == In(s, {"CONNECTING_TO_PEERS"})
        r    == GetRingTopology(s, {PeerGroup[c] : c \in to}, include_registered)
        near == [c \in to |-> GetPeersForClient(r, c)]
        same(c) == Range(near[c]) = s.prev_info[c]
        info(c) == [unchanged |-> same(c),
                    peers     |-> IF same(c) THEN <<>> ELSE near[c],
                    world     |-> Cardinality(LocalWorld(s, PeerGroup[c], include_registered)),
                    global    |-> Cardinality(Registered(s))]
    IN  Send([r EXCEPT !.prev_info = [c \in Peers |-> IF c \in to THEN Range(near[c]) ELSE @[c]]],
             [x \in to \X {<<"info", 0>>} |-> info(x[1])])

StartP2PPhase(s, accept_new_peers) ==
    SendP2PConnectionInformation(
        TransitionToP2PEstablishmentPhase([s EXCEPT !.peer_dropped = FALSE], accept_new_peers),
        accept_new_peers)

CheckEstablishP2PConnectionConsensus(s) ==
    LET a == IF AcceptNewPeersConsensus(s) THEN StartP2PPhase(s, TRUE) ELSE s
    IN  IF NoAcceptNewPeersConsensus(a) THEN StartP2PPhase(a, FALSE) ELSE a

\* Mutant: clients are told that are not part of the phase.
SendEstablishedToAll(s, success) ==
    Send(s, [x \in Registered(s) \X {<<"established", 0>>} |->
                [success |-> success, ring |-> s.ring[PeerGroup[x[1]]]]])

SendP2PConnectionsEstablished(s, success) ==
    LET to == InP2PPhase(s)
        r  == GetRingTopology(s, {PeerGroup[c] : c \in to}, FALSE)
    IN  Send(r, [x \in to \X {<<"established", 0>>} |->
                    [success |-> success, ring |-> r.ring[PeerGroup[x[1]]]]])

\* The transition walks a hash map and gives up at a client in an unexpected state:
\* any of the waiting clients may have been moved by then, and nobody is told.
CheckP2PConnectionsEstablished(s) ==
    LET waiting == In(s, {"WAITING_FOR_OTHER_PEERS"})
        failure == s.peer_dropped \/ In(s, {"CONNECTING_TO_PEERS_FAILED"}) # {}
        st      == IF failure THEN "CONNECTING_TO_PEERS_FAILED" ELSE "IDLE"
        r       == [s EXCEPT !.peer_dropped = FALSE]
    IN  IF ~P2PConnectionsEstablishConsensus(s) THEN {s}
        ELSE IF Unexpected(s, failure) # {} THEN {LeaveP2PPhase(r, M, st) : M \in SUBSET waiting}
        ELSE {SendP2PConnectionsEstablished(LeaveP2PPhase(r, waiting, st), ~failure)}

\* A rejected client is answered too; with one client registered the information is
\* sent whether or not that client is the one that asked.
HandleRequestSessionJoin(s, c) ==
    LET accepted == CanRegister(s, c)
        r == Send(IF accepted THEN RegisterClient(s, c) ELSE s,
                  [x \in {<<c, <<"session", 0>>>>} |-> accepted])
    IN  IF c \in Registered(s) THEN {Kick(s, c)}
        ELSE IF Cardinality(Registered(r)) = 1 THEN {SendP2PConnectionInformation(r, TRUE)}
        ELSE {CheckEstablishP2PConnectionConsensus(r)}

HandleEstablishP2PConnections(s, c, accept_new_peers) ==
    IF CanVoteEstablish(s, c)
    THEN {CheckEstablishP2PConnectionConsensus(VoteEstablishP2PConnections(s, c, accept_new_peers))}
    ELSE {Kick(s, c)}

\* failed_peers is empty for a success.
HandleP2PConnectionsEstablished(s, c, success, failed_peers) ==
    LET marked == IF success THEN {[s EXCEPT !.state[c] = "WAITING_FOR_OTHER_PEERS"]}
                  ELSE MarkP2PConnectionsFailed(s, c, failed_peers)
    IN  IF s.state[c] # "CONNECTING_TO_PEERS" THEN {Kick(s, c)}
        ELSE IF marked = {} THEN {Kick(AddUnreachable(s, c, failed_peers), c)}
        ELSE UNION {CheckP2PConnectionsEstablished(r) : r \in marked}

-----------------------------------------------------------------------------
(* Query for pending peers *)

CheckQueryPeersPendingConsensus(s) ==
    LET answer == [x \in Accepted(s) \X {<<"pending", 0>>} |-> HasPendingPeers(s)]
    IN  IF QueryPendingPeersConsensus(s) THEN ResetVoteQueryPendingPeers(Send(s, answer)) ELSE s

HandleCheckPeersPending(s, c) ==
    IF CanVoteQuery(s, c)
    THEN {CheckQueryPeersPendingConsensus([s EXCEPT !.query = @ \cup {c}])}
    ELSE {Kick(s, c)}

-----------------------------------------------------------------------------
(* Topology optimization.  task[g].st is the future of the group in         *)
(* topology_optimization_tasks: none, scheduled, running with the ring      *)
(* peers it has read in base, or done.                                      *)

CheckTopologyOptimizationConsensus(s) ==
    LET r == TransitionToTopologyOptimizationPhase(s)
        work(c) == {e \in GetMissingBandwidthEntries(r, c) : e[1] = c /\ e[2] \in Accepted(r)}
    IN  IF OptimizeTopologyConsensus(s)
        THEN Send(r, [x \in Accepted(r) \X {<<"optimize", 0>>} |-> work(x[1])]) ELSE s

HandleOptimizeTopology(s, c) ==
    IF CanVoteOptimize(s, c)
    THEN {CheckTopologyOptimizationConsensus(VoteOptimizeTopology(s, c))}
    ELSE {Kick(s, c)}

HandleReportPeerBandwidth(s, c, to) ==
    IF c \in Registered(s) THEN {StorePeerBandwidth(s, c, to)} ELSE {Kick(s, c)}

\* The solver knows the peers that have a measured link.
Linked(s, P) ==
    {p \in P \cap s.bandwidth.peers : \E q \in (P \cap s.bandwidth.peers) \ {p} :
         {<<Addr[p], Addr[q]>>, <<Addr[q], Addr[p]>>} \cap s.bandwidth.links # {}}

StartSolver(s, g) ==
    LET r == GetRingTopology(s, {g}, FALSE)
    IN  [r EXCEPT !.task[g] = IF r.optimal[g] THEN [st |-> "done", base |-> {}]
                              ELSE [st |-> "running", base |-> Linked(r, Range(r.ring[g]))]]

\* It fails, finds nothing better, or returns a tour that may be known to be optimal.
FinishSolver(s, g) ==
    LET base == s.task[g].base
        r    == [s EXCEPT !.task[g] = [st |-> "done", base |-> {}]]
    IN  {r} \cup (IF base = {} THEN {}
                  ELSE {SetRingTopology(r, g, t, o) : t \in Tours(base), o \in BOOLEAN})

JoinTask(s, g) ==
    CASE s.task[g].st = "scheduled" ->
             LET r == StartSolver(s, g) IN IF r.task[g].st = "done" THEN {r} ELSE FinishSolver(r, g)
      [] s.task[g].st = "running"   -> FinishSolver(s, g)
      [] OTHER -> {s}

\* The first pass is awaited; a later one (a moonshot) is left running.
PerformTopologyOptimization(s, g) ==
    LET moonshot  == s.task[g].st # "none"
        reschedule(r) == [r EXCEPT !.task[g] = [st |-> IF r.optimal[g] THEN "none" ELSE "scheduled",
                                                base |-> {}]]
    IN  IF s.optimal[g] THEN {s}
        ELSE IF moonshot THEN {reschedule(r) : r \in JoinTask(s, g)}
        ELSE JoinTask(reschedule(s), g)

\* getExistingPeerGroups names a group once per client, so a group is optimized as
\* often as it has clients; a moonshot may end between two passes.
OptimizedTopologies(s) ==
    LET joined(S, g) == S \cup UNION {JoinTask(r, g) : r \in S}
        pass(c, S) == UNION {PerformTopologyOptimization(r, PeerGroup[c]) : r \in joined(S, PeerGroup[c])}
    IN  {[ring |-> r.ring, optimal |-> r.optimal, task |-> r.task] :
             r \in FoldSet(pass, {s}, Registered(s))}

\* The passes touch nothing but the rings and the tasks.
OptimizeTopologies(s) ==
    {[s EXCEPT !.ring = x.ring, !.optimal = x.optimal, !.task = x.task] :
         x \in OptimizedTopologies(s) \cap Topologies}

CheckTopologyOptimizationCompletionConsensus(s) ==
    LET done(r) == [x \in Accepted(r) \X {<<"optimized", 0>>} |-> TRUE]
    IN  IF TopologyOptimizationCompleteConsensus(s)
        THEN {Send(r, done(r)) :
                  r \in OptimizeTopologies(EndTopologyOptimizationPhase(MarkMissingUnreachable(s)))}
        ELSE {s}

HandleOptimizeTopologyWorkComplete(s, c) ==
    IF CanVoteOptimized(s, c)
    THEN CheckTopologyOptimizationCompletionConsensus(VoteTopologyOptimizationComplete(s, c))
    ELSE {Kick(s, c)}

-----------------------------------------------------------------------------
(* Shared-state synchronization *)

\* findBestSharedStateTxPeer returns the same peer to all that ask in one round, and
\* none when nobody distributes.  A client without a distributor gets no keys.
SendSyncSharedState(s, g, distributor) ==
    LET answer(c) ==
          IF s.state[c] # "REQUEST_SHARED_STATE"
          THEN [outdated |-> FALSE, from |-> "none", keys |-> {}, hashes |-> s.sync.hashes[g]]
          ELSE [outdated |-> TRUE, from |-> distributor,
                keys     |-> IF distributor = "none" THEN {} ELSE s.sync.dirty[c],
                hashes   |-> s.sync.hashes[g]]
    IN  Send(s, [x \in Members(s, g) \X {<<"sync", 0>>} |-> answer(x[1])])

Distributors(s, g) == {c \in Members(s, g) : s.state[c] = "DISTRIBUTE_SHARED_STATE"}

\* tx_only clients must hold the elected contents; enforce_popular does not mix.
StrategyViolators(s, g) ==
    LET popular == {c \in Members(s, g) : s.sync.strategy[c] = "popular"}
        others  == Members(s, g) \ popular
    IN  {c \in others : s.sync.strategy[c] = "tx_only" /\ s.state[c] = "REQUEST_SHARED_STATE"}
          \cup (IF popular # {} THEN others ELSE {})

\* The mask has been compared.  A client with other keys is kicked, one at a time, and its
\* disconnect repeats the election; otherwise the phase begins.
DistributeMask(s, g, mask, found) ==
    LET r        == CheckMaskSharedStateMismatches(s, g, mask, found)
        mismatch == {c \in Members(r, g) : r.sync.status[c] = "KEY_SET_MISMATCH"}
        q        == TransitionToSharedStateSyncPhase(r, g)
        kicked   == [q EXCEPT !.cut = @ \cup StrategyViolators(q, g)]
        sources  == IF Distributors(q, g) = {} THEN {"none"} ELSE Distributors(q, g)
    IN  IF mismatch # {} THEN {Kick(r, c) : c \in mismatch}
        ELSE {SendSyncSharedState(kicked, g, d) : d \in sources}

\* No candidate, or an elected list without entries.
ElectionMayFail(s, g) == ElectableMasks(s, g) = {} \/ <<>> \in ElectableMasks(s, g)

\* The outcomes when everybody has voted.
SharedStateElections(s, g) ==
    UNION {UNION {DistributeMask(s, g, mask, found) : found \in ComparisonsOfVotes(s, g, mask)} :
               mask \in ElectableMasks(s, g) \ {<<>>}}

\* failed is what the caller makes of an election without result.
CheckSyncSharedStateConsensus(s, g, failed) ==
    IF ~SyncSharedStateConsensus(s, g) THEN {s}
    ELSE SharedStateElections(s, g) \cup (IF ElectionMayFail(s, g) THEN {failed} ELSE {})

HandleSyncSharedState(s, c, revision, strategy, hashes) ==
    LET g == PeerGroup[c]
        r == RecordRevision(s, c, revision)
        v == VoteSharedStateMask(VoteSyncSharedState(r, c, strategy), c, hashes)
    IN  IF c \notin Registered(s) THEN {Kick(s, c)}
        ELSE IF r.sync.status[c] = "REVISION_INCREMENT_VIOLATION" \/ ~CanVoteSync(r, c)
        THEN {Kick(r, c)}
        ELSE CheckSyncSharedStateConsensus(v, g, [v EXCEPT !.cut = @ \cup Members(v, g)])

CheckSyncSharedStateCompleteConsensus(s, g) ==
    LET r == EndSharedStateSyncPhase(s, g)
    IN  IF SyncSharedStateCompleteConsensus(s, g)
        THEN Send(r, [x \in Members(r, g) \X {<<"synced", 0>>} |-> TRUE]) ELSE s

HandleSyncSharedStateComplete(s, c) ==
    IF CanVoteSyncComplete(s, c)
    THEN {CheckSyncSharedStateCompleteConsensus(VoteDistSharedStateComplete(s, c), PeerGroup[c])}
    ELSE {Kick(s, c)}

-----------------------------------------------------------------------------
(* Collective operations *)

Running(s, g) == {c \in Members(s, g) : s.state[c] = "COLLECTIVE_COMMUNICATIONS_RUNNING"}

\* Mutant: the sequence number is drawn for each packet.
CommenceNumbersPackets(s, g, T) ==
    LET ready == Unanimous(s, g, T, "VOTE_INITIATE")
        r     == TransitionToPerformCollectiveCommsPhase(s, g, ready)
        order == ByUuid[Running(r, g)]
        nr(c) == CHOOSE i \in DOMAIN order : order[i] = c
    IN  Send([r EXCEPT !.seq_nr = @ + Cardinality(ready) * Len(order)],
             [x \in Running(r, g) \X ({"commence"} \X ready) |-> s.seq_nr + nr(x[1])])

\* Operations that commence together get their sequence numbers in tag order.
CheckCollectiveCommsInitiateConsensus(s, g, T) ==
    LET ready == Unanimous(s, g, T, "VOTE_INITIATE")
        r     == TransitionToPerformCollectiveCommsPhase(s, g, ready)
        seq_nr(t) == s.seq_nr + Cardinality({u \in ready : u < t})
    IN  Send([r EXCEPT !.seq_nr = @ + Cardinality(ready)],
             [x \in Running(r, g) \X ({"commence"} \X ready) |-> seq_nr(x[2][2])])

SendCollectiveCommsAbortPackets(s, g, T, aborted) ==
    Send(s, [x \in Running(s, g) \X ({"abort"} \X T) |-> aborted])

\* Every operation ends with exactly one abort packet per client, raised or not.
CheckCollectiveCommsCompleteConsensus(s, g, T) ==
    LET ready == Unanimous(s, g, T, "VOTE_COMPLETE")
        r     == TransitionToCollectiveCommsCompletePhase(
                     SendCollectiveCommsAbortPackets(s, g, ready \ s.aborted[g], FALSE), g, ready)
        told  == {c \in Members(r, g) : r.state[c] \in {"IDLE", "COLLECTIVE_COMMUNICATIONS_RUNNING"}}
    IN  Send(r, [x \in told \X ({"complete"} \X ready) |-> TRUE])

\* Mutant: an operation that is aborted twice is announced twice.
AbortTwice(s, g, T) ==
    SendCollectiveCommsAbortPackets([s EXCEPT !.aborted[g] = @ \cup T], g, T, TRUE)

AbortCollectiveCommsOperation(s, g, T) ==
    SendCollectiveCommsAbortPackets([s EXCEPT !.aborted[g] = @ \cup T], g, T \ s.aborted[g], TRUE)

HandleCollectiveCommsInitiate(s, c, t) ==
    IF CanVoteInitiate(s, c, t)
    THEN {CheckCollectiveCommsInitiateConsensus(VoteCollectiveCommsInitiate(s, c, t), PeerGroup[c], {t})}
    ELSE {Kick(s, c)}

HandleCollectiveCommsComplete(s, c, t, was_aborted) ==
    LET g == PeerGroup[c]
        v == VoteCollectiveCommsComplete(s, c, t)
        r == IF was_aborted THEN AbortCollectiveCommsOperation(v, g, {t}) ELSE v
    IN  IF CanVoteComplete(s, c, t) THEN {CheckCollectiveCommsCompleteConsensus(r, g, {t})}
        ELSE {Kick(s, c)}

-----------------------------------------------------------------------------
(* The loss of a connection.  Every vote the client may have held up is     *)
(* checked again, except the two votes of topology optimization.            *)

\* Mutant: the completion vote is not checked again.
RecheckInitiationOnly(s, g) ==
    CheckCollectiveCommsInitiateConsensus(s, g, GetOngoingCollectiveCommsOpTags(s, g))

RecheckCollectives(s, g) ==
    LET T == GetOngoingCollectiveCommsOpTags(s, g)
        r == CheckCollectiveCommsCompleteConsensus(
                 CheckCollectiveCommsInitiateConsensus(s, g, T), g, T)
    IN  AbortCollectiveCommsOperation(r, g, {t \in T : IsCollectiveOperationRunning(r, g, t)})

OnClientDisconnect(s, c) ==
    LET g    == PeerGroup[c]
        gone == [s EXCEPT !.cut = @ \ {c}]
        r    == CheckEstablishP2PConnectionConsensus(UnregisterClient(gone, c))
        rest(q) == LET w == CheckQueryPeersPendingConsensus(q)
                   IN  {RecheckCollectives(CheckSyncSharedStateCompleteConsensus(p, g), g) :
                            p \in CheckSyncSharedStateConsensus(w, g, w)}
    IN  IF c \notin Registered(s) THEN {gone}
        ELSE UNION {rest(q) : q \in CheckP2PConnectionsEstablished([r EXCEPT !.peer_dropped = TRUE])}

=============================================================================
