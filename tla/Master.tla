------------------------------- MODULE Master -------------------------------
(***************************************************************************)
(* The master process by itself, in an environment that may do anything:   *)
(* every client may send every packet at any time, however little sense it *)
(* makes, and every connection may be lost at any time.  What holds here   *)
(* does not depend on clients following the protocol.                      *)
(***************************************************************************)
EXTENDS MasterHandler

CONSTANTS
    MaxSeqNr,    \* bound on collective operations
    Used         \* the services the clients ask for

Services == {"establish", "fail", "query", "optimize", "sync", "reduce"}

ASSUME UsedAssumption == Used \subseteq Services

VARIABLES
    s,      \* CCoIPMasterState and CCoIPMasterHandler
    gone    \* connections that have been closed

vars == <<s, gone>>

Init == s = EmptyMaster /\ gone = {}

Step(S) == s' \in {Delivered(r) : r \in S}

Receive(c, S) == c \notin gone /\ Step(S) /\ UNCHANGED gone

RequestSessionJoin(c) == Receive(c, HandleRequestSessionJoin(s, c))

RequestEstablishP2PConnections(c) ==
    /\ "establish" \in Used
    /\ \E accept \in BOOLEAN : Receive(c, HandleEstablishP2PConnections(s, c, accept))

P2PConnectionsEstablished(c) ==
    \/ Receive(c, HandleP2PConnectionsEstablished(s, c, TRUE, {}))
    \/ /\ "fail" \in Used
       /\ \E F \in SUBSET (Peers \ {c}) : Receive(c, HandleP2PConnectionsEstablished(s, c, FALSE, F))

CheckPeersPending(c) == "query" \in Used /\ Receive(c, HandleCheckPeersPending(s, c))

OptimizeTopology(c) == "optimize" \in Used /\ Receive(c, HandleOptimizeTopology(s, c))

ReportPeerBandwidth(c) ==
    "optimize" \in Used /\ \E to \in Peers : Receive(c, HandleReportPeerBandwidth(s, c, to))

OptimizeTopologyWorkComplete(c) ==
    "optimize" \in Used /\ Receive(c, HandleOptimizeTopologyWorkComplete(s, c))

SyncSharedState(c) ==
    /\ "sync" \in Used
    /\ s.sync.next_revision[PeerGroup[c]] <= MaxRevision
    /\ \E revision \in 0..MaxRevision, strategy \in Strategies, hashes \in SharedStates :
           Receive(c, HandleSyncSharedState(s, c, revision, strategy, hashes))

SyncSharedStateComplete(c) == "sync" \in Used /\ Receive(c, HandleSyncSharedStateComplete(s, c))

CollectiveCommsInitiate(c) ==
    /\ "reduce" \in Used
    /\ s.seq_nr < MaxSeqNr
    /\ \E t \in Tags : Receive(c, HandleCollectiveCommsInitiate(s, c, t))

CollectiveCommsComplete(c) ==
    /\ "reduce" \in Used
    /\ \E t \in Tags, was_aborted \in BOOLEAN :
           Receive(c, HandleCollectiveCommsComplete(s, c, t, was_aborted))

\* The client dies or closes its end; the master finds out later.
Cut(c) == c \notin gone \cup s.cut /\ s' = Kick(s, c) /\ UNCHANGED gone

ClientDisconnect(c) ==
    /\ c \in s.cut
    /\ Step(OnClientDisconnect(s, c))
    /\ gone' = gone \cup {c}

\* The topology optimization thread.
Moonshot(g) ==
    /\ \/ s.task[g].st = "scheduled" /\ Step({StartSolver(s, g)})
       \/ s.task[g].st = "running" /\ Step(FinishSolver(s, g))
    /\ UNCHANGED gone

Packet(c) ==
    \/ RequestSessionJoin(c)
    \/ RequestEstablishP2PConnections(c)
    \/ P2PConnectionsEstablished(c)
    \/ CheckPeersPending(c)
    \/ OptimizeTopology(c)
    \/ ReportPeerBandwidth(c)
    \/ OptimizeTopologyWorkComplete(c)
    \/ SyncSharedState(c)
    \/ SyncSharedStateComplete(c)
    \/ CollectiveCommsInitiate(c)
    \/ CollectiveCommsComplete(c)

Next ==
    \/ \E c \in Peers : Packet(c) \/ Cut(c) \/ ClientDisconnect(c)
    \/ \E g \in Groups : Moonshot(g)

Spec == Init /\ [][Next]_vars

-----------------------------------------------------------------------------
(* Properties *)

Ballot == [peer : Peers, hashes : SharedStates]

SyncStates ==
    [votes : SUBSET Peers, votes_complete : SUBSET Peers,
     strategy   : [Peers -> Strategies \cup {"none"}],
     candidates : [Groups -> Seq(Ballot)],
     entries    : SUBSET Ballot,
     mask       : [Groups -> SharedStates \cup {<<>>}],
     hashes     : [Groups -> [Keys -> Nat]],
     status     : [Peers -> Statuses],
     dirty      : [Peers -> SUBSET Keys],
     next_revision : [Groups -> Nat]]

\* The states in which the packets sent so far are one of Out.
MasterStates(Out) ==
    [phase : [Peers -> Phases],
     state : [Peers -> ConnectionStates],
     query : SUBSET Peers,
     coll  : [Peers -> [Tags -> CollStates]],
     votes_accept : SUBSET Peers, votes_establish : SUBSET Peers,
     votes_optimize : SUBSET Peers, votes_optimized : SUBSET Peers,
     unreachable : [Peers -> SUBSET Peers],
     bandwidth : Stores,
     ring : [Groups -> Seq(Peers)], optimal : [Groups -> BOOLEAN],
     aborted : [Groups -> SUBSET Tags],
     seq_nr : Nat,
     sync : SyncStates,
     peer_dropped : BOOLEAN,
     prev_info : [Peers -> SUBSET Peers],
     task : [Groups -> [st : {"none", "scheduled", "running", "done"}, base : SUBSET Peers]],
     cut : SUBSET Peers,
     out : Out]

\* Every field of the master's state has the type of the C++ field it stands for.
TypeOK == s \in MasterStates({<<>>}) /\ gone \in SUBSET Peers

VotesMatch(r) ==
    /\ r.votes_accept = In(r, {"VOTE_ACCEPT_NEW_PEERS"})
    /\ r.votes_establish = In(r, {"VOTE_NO_NEW_PEERS"})
    /\ r.votes_optimize = In(r, {"VOTE_OPTIMIZE_TOPOLOGY"})
    /\ r.votes_optimized = In(r, {"VOTE_COMPLETE_TOPOLOGY_OPTIMIZATION"})
    /\ r.sync.votes = In(r, {"VOTE_SYNC_SHARED_STATE"})
    /\ r.sync.votes_complete = In(r, {"VOTE_COMPLETE_SHARED_STATE_SYNC"})

\* The six vote sets of CCoIPMasterState repeat what the connection states say.  They
\* never come apart, so none of the "This is a bug" returns behind an insertion into a
\* vote set, and no "Mismatch in number of clients voting", is ever reached.
VotesMatchStates == VotesMatch(s)

OperationsMatch(r) ==
    \A c \in Peers : r.state[c] = "COLLECTIVE_COMMUNICATIONS_RUNNING"
                        <=> \E t \in Tags : r.coll[c][t] # "NONE"

\* A client is in COLLECTIVE_COMMUNICATIONS_RUNNING exactly as long as it has an entry in
\* collective_coms_states: it cannot start another phase with an operation under way, and
\* it is not left running when its last operation ends.
RunningWhileOperations == OperationsMatch(s)

ConnectingStates == {"IDLE", "CONNECTING_TO_PEERS", "WAITING_FOR_OTHER_PEERS",
                     "CONNECTING_TO_PEERS_FAILED"}

AcceptedMatch(r) ==
    /\ \A c \in Peers \ Accepted(r) : r.state[c] \in ConnectingStates /\ c \notin r.query
    /\ r.bandwidth.peers = Accepted(r)

\* A client that is not accepted takes part in p2p establishment only, and the bandwidth
\* store knows exactly the accepted clients.
RegisteredOnlyConnects == AcceptedMatch(s)

\* What a latecomer may be doing.  A client that votes again before it is told how its p2p
\* phase ended makes transitionToP2PConnectionsEstablishedPhase give up half way; a client
\* left waiting by that is accepted by a later departure, whatever the others are doing by
\* then.  The departure counts as a failure, so all it can do is ask to connect again.
Late == {"CONNECTING_TO_PEERS_FAILED", "VOTE_ACCEPT_NEW_PEERS", "VOTE_NO_NEW_PEERS"}

\* The phases that concern all clients exclude everything else: while one accepted client
\* optimizes the topology so do all others, and while one client connects, accepted or not,
\* no accepted one does anything but connect; latecomers apart.
PhasesInUnison ==
    LET states == {s.state[c] : c \in Accepted(s)}
        optimizing == {"OPTIMIZE_TOPOLOGY", "VOTE_COMPLETE_TOPOLOGY_OPTIMIZATION"}
    IN  /\ states \cap optimizing # {} => states \subseteq optimizing \cup Late
        /\ In(s, {"CONNECTING_TO_PEERS"}) # {} =>
               states \subseteq {"CONNECTING_TO_PEERS", "WAITING_FOR_OTHER_PEERS"} \cup Late

\* Within a group, a shared-state distribution is entered and left by all members together,
\* latecomers apart.
SyncInUnison ==
    \A g \in Groups :
        LET states == {s.state[c] : c \in Members(s, g)}
            busy   == {"DISTRIBUTE_SHARED_STATE", "REQUEST_SHARED_STATE",
                       "VOTE_COMPLETE_SHARED_STATE_SYNC"}
        IN  states \cap busy # {} => states \subseteq busy \cup Late

\* Client c has voted with the elected entries, as far as its list and the mask both go.
HoldsElected(c, mask, entries) ==
    \E v \in entries : v.peer = c /\ \A i \in DOMAIN mask \cap DOMAIN v.hashes : v.hashes[i] = mask[i]

\* A client that others are sent to for the shared state voted with the elected contents,
\* however often the election was repeated because a client had other keys or left.  It may have
\* entries beyond the elected ones: a different number of entries is only warned of.  For
\* the same reason it may have fewer, and nothing is known then of those it does not have.
DistributorsHoldElected ==
    \A c \in Accepted(s) :
        s.state[c] = "DISTRIBUTE_SHARED_STATE" =>
            HoldsElected(c, s.sync.mask[PeerGroup[c]], s.sync.entries)

\* Once a group has a revision it only moves when a synchronization begins, for all members
\* at once, and then by one: no vote, valid or not, moves it (isNewRevisionLegal).
RevisionsCountRounds ==
    [][\A g \in Groups :
          LET old == s.sync.next_revision[g]
              new == s'.sync.next_revision[g]
          IN  old # 0 /\ new # old =>
                  /\ new = old + 1
                  /\ Members(s', g) # {}
                  /\ \A c \in Members(s', g) :
                        s'.state[c] \in {"DISTRIBUTE_SHARED_STATE", "REQUEST_SHARED_STATE"}]_vars

\* A collective operation is entered and left by all members of the group together, latecomers
\* apart: no member that could take part in it performs it while another has not been told to
\* begin, or was told it is over.
OperationsInUnison ==
    \A c, e \in Accepted(s), t \in Tags :
        /\ PeerGroup[c] = PeerGroup[e]
        /\ s.coll[c][t] \in {"PERFORM", "VOTE_COMPLETE"}
        /\ s.coll[e][t] \in {"NONE", "VOTE_INITIATE"}
        => s.state[e] \in Late

\* A vote all accepted clients have cast.
Decided(P) == Accepted(s) # {} /\ \A c \in Accepted(s) : s.state[c] \in P

\* The members of g have voted on contents, none of them empty, so that an election has a result.
Electable(r, g) ==
    LET candidates == r.sync.candidates[g]
    IN  candidates # <<>> /\ \A i \in DOMAIN candidates : candidates[i].hashes # <<>>

\* Whoever's packet or departure completes a vote, the vote is acted on in that step: no
\* state is left in which everybody waits for an answer the master does not owe anybody.  A
\* vote to synchronize with contents to elect stays undecided only while a member with other
\* keys is being kicked, whose departure repeats the election.  Two kinds of votes are left out
\* that may wait forever: a vote to synchronize with nothing to elect, which a departure can
\* leave behind, and the two votes of topology optimization, which onClientDisconnect does not
\* check again.
NoForgottenVote ==
    /\ ~Decided({"VOTE_ACCEPT_NEW_PEERS"})
    /\ ~Decided({"VOTE_NO_NEW_PEERS"})
    /\ ~(Accepted(s) # {} /\ Accepted(s) \subseteq s.query)
    /\ \A g \in Groups : Members(s, g) # {} =>
           /\ \E c \in Members(s, g) : s.state[c] # "VOTE_COMPLETE_SHARED_STATE_SYNC"
           /\ \/ \E c \in Members(s, g) : s.state[c] # "VOTE_SYNC_SHARED_STATE" \/ c \in s.cut
              \/ ~Electable(s, g)
           /\ \A t \in Tags, st \in {"VOTE_INITIATE", "VOTE_COMPLETE"} :
                  \E c \in Members(s, g) : s.coll[c][t] # st

\* A raised abort state is that of an operation under way: it is announced to those who take
\* part in it, each of whom gets exactly one abort packet. False for the code: the state
\* is only reset when an operation completes, not when the last participant leaves.
AbortOfOngoing ==
    \A g \in Groups : \A t \in s.aborted[g] :
        \E c \in Members(s, g) : s.coll[c][t] # "NONE"

=============================================================================
