------------------------- MODULE MasterPhasesProofs -------------------------
(***************************************************************************)
(* What it means that the master keeps its clients in step and answers     *)
(* every vote, and that it does so while clients join, connect to each     *)
(* other, optimize the topology and synchronize their shared state.        *)
(***************************************************************************)
EXTENDS MasterProofs

\* The provers get more time than by default.
USE SMTT(20)

-----------------------------------------------------------------------------
(* Operators that change no client *)

\* What the facts below are about is the same in both states.
Same(q, r) ==
    q.phase = r.phase /\ q.state = r.state /\ q.query = r.query /\ q.coll = r.coll /\ q.sync = r.sync

\* Packets, flags, rings, tasks and counters.
LEMMA PlainSame ==
    ASSUME NEW r, Consistent(r)
    PROVE  /\ \A batch : Same(Send(r, batch), r)
           /\ Same(Delivered(r), r)
           /\ \A C : Same([r EXCEPT !.cut = C], r)
           /\ \A b : Same([r EXCEPT !.peer_dropped = b], r)
           /\ \A R, O : Same([r EXCEPT !.ring = R, !.optimal = O], r)
           /\ \A I : Same([r EXCEPT !.prev_info = I], r)
           /\ \A U : Same([r EXCEPT !.unreachable = U], r)
           /\ \A A : Same([r EXCEPT !.aborted = A], r)
           /\ \A n : Same([r EXCEPT !.seq_nr = n], r)
           /\ \A T : Same([r EXCEPT !.task = T], r)
           /\ \A b : Same([r EXCEPT !.bandwidth = b], r)
BY ZenonT(30) DEF Same, Send, Delivered, Consistent, Typed, MasterStates

\* kickClient only marks the connection.
LEMMA KickSame ==
    ASSUME NEW r, Consistent(r), NEW c
    PROVE  Same(Kick(r, c), r)
BY ZenonT(30), PlainSame DEF Kick

\* getRingTopology and setRingTopology change rings.
LEMMA RingSame ==
    ASSUME NEW r, Consistent(r)
    PROVE  /\ \A G, i : Same(GetRingTopology(r, G, i), r)
           /\ \A g, n, o : Same(SetRingTopology(r, g, n, o), r)
<1>1. \A G, i : Same(GetRingTopology(r, G, i), r)
  BY ZenonT(30) DEF GetRingTopology, Same, Consistent, Typed, MasterStates
<1>2. \A g, n, o : Same(SetRingTopology(r, g, n, o), r)
  BY ZenonT(30) DEF SetRingTopology, Same, Consistent, Typed, MasterStates
<1> QED
  BY ZenonT(30), <1>1, <1>2

\* sendP2PConnectionInformation rebuilds rings and sends.
LEMMA InformationSame ==
    ASSUME NEW r, Consistent(r), NEW i
    PROVE  Same(SendP2PConnectionInformation(r, i), r)
<1> DEFINE to   == In(r, {"CONNECTING_TO_PEERS"})
           q    == GetRingTopology(r, {PeerGroup[c] : c \in to}, i)
           near == [c \in to |-> GetPeersForClient(q, c)]
           I    == [c \in Peers |-> IF c \in to THEN Range(near[c]) ELSE q.prev_info[c]]
           p    == [q EXCEPT !.prev_info = I]
<1>1. Consistent(q) /\ Same(q, r)
  BY ZenonT(30), GetRingTopologyConsistent, RingSame
<1>2. \E batch : SendP2PConnectionInformation(r, i) = Send(p, batch)
  BY ZenonT(30) DEF SendP2PConnectionInformation
<1> HIDE DEF q
<1>3. Same(p, q) /\ \A batch : Same(Send(p, batch), p)
  BY ZenonT(30), <1>1, SMTT(30) DEF Same, Send, Consistent, Typed, MasterStates
<1> HIDE DEF p
<1> QED
  BY ZenonT(30), <1>1, <1>2, <1>3 DEF Same

-----------------------------------------------------------------------------
(* What the checks of the p2p phase do to the clients *)

\* checkEstablishP2PConnectionConsensus moves all accepted clients, or nobody because
\* somebody has not voted.
LEMMA CheckEstablishEffect ==
    ASSUME NEW r, Consistent(r)
    PROVE  LET z == CheckEstablishP2PConnectionConsensus(r)
           IN  /\ z.phase = r.phase /\ z.query = r.query /\ z.coll = r.coll /\ z.sync = r.sync
               /\ \/ /\ z.state = r.state
                     /\ ~AcceptNewPeersConsensus(r) /\ ~NoAcceptNewPeersConsensus(r)
                  \/ /\ AcceptNewPeersConsensus(r)
                     /\ z.state = [c \in Peers |-> IF c \in Registered(r) THEN "CONNECTING_TO_PEERS"
                                                   ELSE r.state[c]]
                  \/ /\ NoAcceptNewPeersConsensus(r)
                     /\ z.state = [c \in Peers |-> IF c \in Accepted(r) THEN "CONNECTING_TO_PEERS"
                                                   ELSE r.state[c]]
<1>1. ASSUME NEW q, Consistent(q), AcceptNewPeersConsensus(q)
      PROVE  LET z == StartP2PPhase(q, TRUE)
             IN  /\ z.phase = q.phase /\ z.query = q.query /\ z.coll = q.coll /\ z.sync = q.sync
                 /\ z.state = [c \in Peers |-> IF c \in Registered(q) THEN "CONNECTING_TO_PEERS"
                                               ELSE q.state[c]]
                 /\ Consistent(z)
  <2> DEFINE p == [q EXCEPT !.peer_dropped = FALSE]
             m == TransitionToP2PEstablishmentPhase(p, TRUE)
  <2>1. Consistent(p) /\ Same(p, q)
    BY ZenonT(30), <1>1, DroppedConsistent, PlainSame
  <2>2. StartP2PPhase(q, TRUE) = SendP2PConnectionInformation(m, TRUE)
    BY ZenonT(30) DEF StartP2PPhase
  <2> HIDE DEF p
  <2>3. AcceptNewPeersConsensus(p)
    BY ZenonT(30), <1>1, <2>1 DEF AcceptNewPeersConsensus, UnanimousIn, Registered, Same
  <2>4. Consistent(m)
    BY ZenonT(30), <2>1, <2>3, TransitionP2PConsistent
  <2>5. /\ m.phase = p.phase /\ m.query = p.query /\ m.coll = p.coll /\ m.sync = p.sync
        /\ m.state = [c \in Peers |-> IF c \in Registered(p) THEN "CONNECTING_TO_PEERS" ELSE p.state[c]]
    BY ZenonT(30), <2>1 DEF Consistent, Typed, MasterStates, TransitionToP2PEstablishmentPhase
  <2> HIDE DEF m
  <2>6. /\ Same(SendP2PConnectionInformation(m, TRUE), m)
        /\ Consistent(SendP2PConnectionInformation(m, TRUE))
    BY ZenonT(30), <2>4, InformationSame, SendP2PConnectionInformationConsistent
  <2>7. Registered(p) = Registered(q) /\ p.state = q.state
    BY <2>1 DEF Registered, Same
  <2> QED
    BY ZenonT(30), <2>1, <2>2, <2>5, <2>6, <2>7 DEF Same
<1>2. ASSUME NEW q, Consistent(q), NoAcceptNewPeersConsensus(q)
      PROVE  LET z == StartP2PPhase(q, FALSE)
             IN  /\ z.phase = q.phase /\ z.query = q.query /\ z.coll = q.coll /\ z.sync = q.sync
                 /\ z.state = [c \in Peers |-> IF c \in Accepted(q) THEN "CONNECTING_TO_PEERS"
                                               ELSE q.state[c]]
  <2> DEFINE p == [q EXCEPT !.peer_dropped = FALSE]
             m == TransitionToP2PEstablishmentPhase(p, FALSE)
  <2>1. Consistent(p) /\ Same(p, q)
    BY ZenonT(30), <1>2, DroppedConsistent, PlainSame
  <2>2. StartP2PPhase(q, FALSE) = SendP2PConnectionInformation(m, FALSE)
    BY DEF StartP2PPhase
  <2> HIDE DEF p
  <2>3. NoAcceptNewPeersConsensus(p)
    BY ZenonT(30), <1>2, <2>1 DEF NoAcceptNewPeersConsensus, UnanimousIn, Registered, Same
  <2>4. Consistent(m)
    BY ZenonT(30), <2>1, <2>3, TransitionP2PConsistent
  <2>5. /\ m.phase = p.phase /\ m.query = p.query /\ m.coll = p.coll /\ m.sync = p.sync
        /\ m.state = [c \in Peers |-> IF c \in Accepted(p) THEN "CONNECTING_TO_PEERS" ELSE p.state[c]]
    BY ZenonT(30), <2>1 DEF Consistent, Typed, MasterStates, TransitionToP2PEstablishmentPhase
  <2> HIDE DEF m
  <2>6. Same(SendP2PConnectionInformation(m, FALSE), m)
    BY ZenonT(30), <2>4, InformationSame
  <2>7. Accepted(p) = Accepted(q) /\ p.state = q.state
    BY <2>1 DEF Accepted, Same
  <2> QED
    BY ZenonT(30), <2>1, <2>2, <2>5, <2>6, <2>7 DEF Same
<1> DEFINE a == IF AcceptNewPeersConsensus(r) THEN StartP2PPhase(r, TRUE) ELSE r
           z == CheckEstablishP2PConnectionConsensus(r)
<1>3. z = IF NoAcceptNewPeersConsensus(a) THEN StartP2PPhase(a, FALSE) ELSE a
  BY ZenonT(30) DEF CheckEstablishP2PConnectionConsensus
<1> HIDE DEF z
<1>4. CASE AcceptNewPeersConsensus(r)
  <2>1. a = StartP2PPhase(r, TRUE)
    BY ZenonT(30), <1>4
  <2> HIDE DEF a
  <2>2. /\ a.phase = r.phase /\ a.query = r.query /\ a.coll = r.coll /\ a.sync = r.sync
        /\ a.state = [c \in Peers |-> IF c \in Registered(r) THEN "CONNECTING_TO_PEERS" ELSE r.state[c]]
        /\ Consistent(a)
    BY ZenonT(30), <1>1, <1>4, <2>1
  <2>3. CASE ~NoAcceptNewPeersConsensus(a)
    BY ZenonT(30), <1>3, <1>4, <2>2, <2>3 DEF z
  <2>4. CASE NoAcceptNewPeersConsensus(a)
    <3>1. Accepted(a) = {}
      BY ZenonT(30), <2>2, <2>4 DEF NoAcceptNewPeersConsensus, UnanimousIn, Registered, Accepted
    <3>2. /\ z.phase = a.phase /\ z.query = a.query /\ z.coll = a.coll /\ z.sync = a.sync
          /\ z.state = [c \in Peers |-> IF c \in Accepted(a) THEN "CONNECTING_TO_PEERS" ELSE a.state[c]]
      BY ZenonT(30), <1>2, <1>3, <2>2, <2>4
    <3>3. z.state = a.state
      BY ZenonT(30), <2>2, <3>1, <3>2
    <3> QED
      BY ZenonT(30), <1>4, <2>2, <3>2, <3>3 DEF z
  <2> QED
    BY ZenonT(30), <2>3, <2>4
<1>5. CASE ~AcceptNewPeersConsensus(r)
  <2>1. a = r
    BY ZenonT(30), <1>5
  <2> HIDE DEF a
  <2>2. CASE NoAcceptNewPeersConsensus(r)
    <3>1. /\ z.phase = r.phase /\ z.query = r.query /\ z.coll = r.coll /\ z.sync = r.sync
          /\ z.state = [c \in Peers |-> IF c \in Accepted(r) THEN "CONNECTING_TO_PEERS" ELSE r.state[c]]
      BY ZenonT(30), <1>2, <1>3, <2>1, <2>2
    <3> QED
      BY ZenonT(30), <2>2, <3>1 DEF z
  <2>3. CASE ~NoAcceptNewPeersConsensus(r)
    BY ZenonT(30), <1>3, <1>5, <2>1, <2>3 DEF z
  <2> QED
    BY ZenonT(30), <2>2, <2>3
<1> QED
  BY ZenonT(30), <1>4, <1>5

\* checkP2PConnectionsEstablished moves and accepts some of the waiting clients, once nobody
\* is connecting.
LEMMA CheckP2PEffect ==
    ASSUME NEW r, Consistent(r), NEW z \in CheckP2PConnectionsEstablished(r)
    PROVE  \/ Same(z, r)
           \/ /\ z.query = r.query /\ z.coll = r.coll /\ z.sync = r.sync
              /\ In(r, {"CONNECTING_TO_PEERS"}) = {}
              /\ \E M \in SUBSET In(r, {"WAITING_FOR_OTHER_PEERS"}),
                    st \in {"IDLE", "CONNECTING_TO_PEERS_FAILED"} :
                     /\ z.phase = [c \in Peers |-> IF c \in M THEN "ACCEPTED" ELSE r.phase[c]]
                     /\ z.state = [c \in Peers |-> IF c \in M THEN st ELSE r.state[c]]
                     /\ st = "IDLE" => ~r.peer_dropped
<1> DEFINE waiting == In(r, {"WAITING_FOR_OTHER_PEERS"})
           failure == r.peer_dropped \/ In(r, {"CONNECTING_TO_PEERS_FAILED"}) # {}
           st      == IF failure THEN "CONNECTING_TO_PEERS_FAILED" ELSE "IDLE"
           p       == [r EXCEPT !.peer_dropped = FALSE]
<1>1. Consistent(p) /\ Same(p, r)
  BY ZenonT(30), DroppedConsistent, PlainSame
<1>2. st \in {"IDLE", "CONNECTING_TO_PEERS_FAILED"} /\ (st = "IDLE" => ~r.peer_dropped)
  OBVIOUS
<1>3. \/ z = r
      \/ /\ P2PConnectionsEstablishConsensus(r)
         /\ \E M \in SUBSET waiting : z = LeaveP2PPhase(p, M, st)
      \/ /\ P2PConnectionsEstablishConsensus(r)
         /\ z = SendP2PConnectionsEstablished(LeaveP2PPhase(p, waiting, st), ~failure)
  BY ZenonT(30) DEF CheckP2PConnectionsEstablished
<1> HIDE DEF p, st, failure
<1>4. In(p, {"WAITING_FOR_OTHER_PEERS"}) = waiting
  BY ZenonT(30), <1>1 DEF In, Registered, Same
<1>5. ASSUME NEW M \in SUBSET waiting
      PROVE  LET q == LeaveP2PPhase(p, M, st)
             IN  /\ Consistent(q)
                 /\ q.query = r.query /\ q.coll = r.coll /\ q.sync = r.sync
                 /\ q.phase = [c \in Peers |-> IF c \in M THEN "ACCEPTED" ELSE r.phase[c]]
                 /\ q.state = [c \in Peers |-> IF c \in M THEN st ELSE r.state[c]]
  <2>1. Consistent(LeaveP2PPhase(p, M, st))
    BY ZenonT(30), <1>1, <1>2, <1>4, LeaveP2PPhaseConsistent
  <2>2. LET q == LeaveP2PPhase(p, M, st)
        IN  /\ q.query = p.query /\ q.coll = p.coll /\ q.sync = p.sync
            /\ q.phase = [c \in Peers |-> IF c \in M THEN "ACCEPTED" ELSE p.phase[c]]
            /\ q.state = [c \in Peers |-> IF c \in M THEN st ELSE p.state[c]]
    BY ZenonT(30), <1>1 DEF LeaveP2PPhase, OnPeerAccepted, Consistent, Typed, MasterStates
  <2> QED
    BY ZenonT(30), <1>1, <2>1, <2>2 DEF Same
<1>6. P2PConnectionsEstablishConsensus(r) => In(r, {"CONNECTING_TO_PEERS"}) = {}
  BY ZenonT(30) DEF P2PConnectionsEstablishConsensus
<1>7. ASSUME NEW q, Consistent(q), NEW b PROVE Same(SendP2PConnectionsEstablished(q, b), q)
  <2> DEFINE w == GetRingTopology(q, {PeerGroup[c] : c \in InP2PPhase(q)}, FALSE)
  <2>1. Consistent(w) /\ Same(w, q)
    BY ZenonT(30), <1>7, GetRingTopologyConsistent, RingSame
  <2>2. \E batch : SendP2PConnectionsEstablished(q, b) = Send(w, batch)
    BY ZenonT(30) DEF SendP2PConnectionsEstablished
  <2> HIDE DEF w
  <2> QED
    BY <2>1, <2>2, PlainSame DEF Same
<1>8. CASE z = r
  BY ZenonT(30), <1>8 DEF Same
<1>9. CASE /\ P2PConnectionsEstablishConsensus(r)
           /\ \E M \in SUBSET waiting : z = LeaveP2PPhase(p, M, st)
  <2>1. PICK M \in SUBSET waiting : z = LeaveP2PPhase(p, M, st)
    BY ZenonT(30), <1>9
  <2> QED
    BY ZenonT(30), <1>2, <1>5, <1>6, <1>9, <2>1
<1>10. CASE /\ P2PConnectionsEstablishConsensus(r)
            /\ z = SendP2PConnectionsEstablished(LeaveP2PPhase(p, waiting, st), ~failure)
  <2> DEFINE q == LeaveP2PPhase(p, waiting, st)
  <2>1. /\ Consistent(q)
        /\ q.query = r.query /\ q.coll = r.coll /\ q.sync = r.sync
        /\ q.phase = [c \in Peers |-> IF c \in waiting THEN "ACCEPTED" ELSE r.phase[c]]
        /\ q.state = [c \in Peers |-> IF c \in waiting THEN st ELSE r.state[c]]
    BY ZenonT(30), <1>5
  <2> HIDE DEF q
  <2>2. Same(z, q)
    BY ZenonT(30), <1>7, <1>10, <2>1 DEF q
  <2>3. /\ z.query = r.query /\ z.coll = r.coll /\ z.sync = r.sync
        /\ z.phase = [c \in Peers |-> IF c \in waiting THEN "ACCEPTED" ELSE r.phase[c]]
        /\ z.state = [c \in Peers |-> IF c \in waiting THEN st ELSE r.state[c]]
    BY ZenonT(30), <2>1, <2>2 DEF Same
  <2>4. waiting \in SUBSET waiting
    BY ZenonT(30)
  <2> QED
    BY ZenonT(30), <1>2, <1>6, <1>10, <2>3, <2>4
<1> QED
  BY ZenonT(30), <1>3, <1>8, <1>9, <1>10

-----------------------------------------------------------------------------
(* Clients in step *)

Connecting == {"CONNECTING_TO_PEERS", "WAITING_FOR_OTHER_PEERS"}

Optimizing == {"OPTIMIZE_TOPOLOGY", "VOTE_COMPLETE_TOPOLOGY_OPTIMIZATION"}

Distributing == {"DISTRIBUTE_SHARED_STATE", "REQUEST_SHARED_STATE", "VOTE_COMPLETE_SHARED_STATE_SYNC"}

\* The three properties about phases, of a state in the middle of a handler.  A client that
\* is not registered has the state it will start with, so that nobody connects who is not.
Together(r) ==
    /\ \A c \in Peers : r.phase[c] = "NONE" => r.state[c] = "IDLE"
    /\ \A c \in Peers, e \in Accepted(r) :
           r.state[c] = "CONNECTING_TO_PEERS" => r.state[e] \in Connecting \cup Late
    /\ \A c, e \in Accepted(r) :
           r.state[c] \in Optimizing => r.state[e] \in Optimizing \cup Late
    /\ \A c, e \in Accepted(r) :
           PeerGroup[c] = PeerGroup[e] /\ r.state[c] \in Distributing
               => r.state[e] \in Distributing \cup Late
    /\ \A c, e \in Accepted(r), t \in Tags :
           /\ PeerGroup[c] = PeerGroup[e]
           /\ r.coll[c][t] \in {"PERFORM", "VOTE_COMPLETE"}
           /\ r.coll[e][t] \in {"NONE", "VOTE_INITIATE"}
           => r.state[e] \in Late

\* Clients that vote on the shared state have sent their hashes, and those that distribute
\* it have sent the elected ones.
Held(r) ==
    \A c \in Accepted(r) :
        /\ r.state[c] = "VOTE_SYNC_SHARED_STATE" => \E v \in r.sync.entries : v.peer = c
        /\ r.state[c] = "DISTRIBUTE_SHARED_STATE" =>
               HoldsElected(c, r.sync.mask[PeerGroup[c]], r.sync.entries)

\* The votes of the p2p phase, on pending peers, on the end of a distribution and on
\* collective operations are open: somebody has not voted.
EstablishOpen(r) ==
    \A st \in {"VOTE_ACCEPT_NEW_PEERS", "VOTE_NO_NEW_PEERS"} :
        Accepted(r) # {} => \E c \in Accepted(r) : r.state[c] # st

QueryOpen(r) == Accepted(r) # {} => \E c \in Accepted(r) : c \notin r.query

SyncOpen(r, g) ==
    Members(r, g) # {} => \E c \in Members(r, g) : r.state[c] # "VOTE_COMPLETE_SHARED_STATE_SYNC"

OperationOpen(r, g, t) ==
    Members(r, g) # {} =>
        \A st \in {"VOTE_INITIATE", "VOTE_COMPLETE"} : \E c \in Members(r, g) : r.coll[c][t] # st

Unison(r) == Together(r) /\ Held(r)

Open(r) ==
    /\ EstablishOpen(r)
    /\ QueryOpen(r)
    /\ \A g \in Groups : SyncOpen(r, g) /\ \A t \in Tags : OperationOpen(r, g, t)

\* Whatever changes no client changes none of this.
LEMMA SameKeeps ==
    ASSUME NEW r, NEW z, Same(z, r)
    PROVE  /\ Unison(r) => Unison(z)
           /\ Open(r) => Open(z)
           /\ EstablishOpen(r) => EstablishOpen(z)
           /\ QueryOpen(r) => QueryOpen(z)
           /\ \A g : SyncOpen(r, g) => SyncOpen(z, g)
           /\ \A g, t : OperationOpen(r, g, t) => OperationOpen(z, g, t)
<1>1. Accepted(z) = Accepted(r) /\ \A g : Members(z, g) = Members(r, g)
  BY ZenonT(30) DEF Same, Accepted, Members
<1>2. Unison(r) => Unison(z)
  BY ZenonT(30), <1>1 DEF Same, Unison, Together, Held
<1>3. /\ EstablishOpen(r) => EstablishOpen(z)
      /\ QueryOpen(r) => QueryOpen(z)
      /\ \A g : SyncOpen(r, g) => SyncOpen(z, g)
      /\ \A g, t : OperationOpen(r, g, t) => OperationOpen(z, g, t)
  BY ZenonT(30), <1>1 DEF Same, EstablishOpen, QueryOpen, SyncOpen, OperationOpen
<1> QED
  BY ZenonT(30), <1>2, <1>3 DEF Open

\* Clients without operations and without votes on anything but the establishment of
\* connections move, and possibly are accepted: the other votes stay open.
LEMMA MovedOpen ==
    ASSUME NEW r, NEW z, Accepted(r) \subseteq Accepted(z), z.query = r.query, z.coll = r.coll,
           \A c \in Accepted(z) \ Accepted(r) : c \notin r.query /\ \A t \in Tags : r.coll[c][t] = "NONE",
           \A c \in Accepted(z) : z.state[c] = "VOTE_COMPLETE_SHARED_STATE_SYNC"
                                     => c \in Accepted(r) /\ r.state[c] = z.state[c]
    PROVE  /\ QueryOpen(r) => QueryOpen(z)
           /\ \A g : SyncOpen(r, g) => SyncOpen(z, g)
           /\ \A g : \A t \in Tags : OperationOpen(r, g, t) => OperationOpen(z, g, t)
<1>1. \A g : Members(r, g) \subseteq Members(z, g) /\ Members(z, g) \subseteq Accepted(z)
  BY ZenonT(30) DEF Members
<1>2. \A g : Members(r, g) = Members(z, g) \cap Accepted(r)
  BY ZenonT(30) DEF Members
<1>3. QueryOpen(r) => QueryOpen(z)
  BY ZenonT(30) DEF QueryOpen
<1>4. \A g : SyncOpen(r, g) => SyncOpen(z, g)
  BY ZenonT(30), <1>1, <1>2 DEF SyncOpen
<1>5. \A g : \A t \in Tags : OperationOpen(r, g, t) => OperationOpen(z, g, t)
  BY <1>1, <1>2 DEF OperationOpen
<1> QED
  BY ZenonT(30), <1>3, <1>4, <1>5

-----------------------------------------------------------------------------
(* Establishing p2p connections *)

\* A client that is not running has no operation.
LEMMA NoOperation ==
    ASSUME NEW r, Consistent(r), NEW c \in Peers, r.state[c] # "COLLECTIVE_COMMUNICATIONS_RUNNING"
    PROVE  \A t \in Tags : r.coll[c][t] = "NONE"
BY ZenonT(30) DEF Consistent, OperationsMatch

\* checkEstablishP2PConnectionConsensus closes the vote it is about, and no other.
LEMMA CheckEstablishUnison ==
    ASSUME NEW r, Consistent(r), Unison(r)
    PROVE  LET z == CheckEstablishP2PConnectionConsensus(r)
           IN  /\ Unison(z) /\ EstablishOpen(z)
               /\ QueryOpen(r) => QueryOpen(z)
               /\ \A g : SyncOpen(r, g) => SyncOpen(z, g)
               /\ \A g : \A t \in Tags : OperationOpen(r, g, t) => OperationOpen(z, g, t)
<1> DEFINE z == CheckEstablishP2PConnectionConsensus(r)
<1>1. /\ r.phase \in [Peers -> Phases] /\ r.state \in [Peers -> ConnectionStates]
      /\ \A c \in Peers \ Accepted(r) : r.state[c] \in ConnectingStates
  BY ZenonT(30) DEF Consistent, Typed, MasterStates, AcceptedMatch
<1>2. /\ z.phase = r.phase /\ z.query = r.query /\ z.coll = r.coll /\ z.sync = r.sync
      /\ \/ /\ z.state = r.state
            /\ ~AcceptNewPeersConsensus(r) /\ ~NoAcceptNewPeersConsensus(r)
         \/ /\ AcceptNewPeersConsensus(r)
            /\ z.state = [c \in Peers |-> IF c \in Registered(r) THEN "CONNECTING_TO_PEERS"
                                          ELSE r.state[c]]
         \/ /\ NoAcceptNewPeersConsensus(r)
            /\ z.state = [c \in Peers |-> IF c \in Accepted(r) THEN "CONNECTING_TO_PEERS"
                                          ELSE r.state[c]]
  BY ZenonT(30), CheckEstablishEffect
<1> HIDE DEF z
<1>3. Accepted(z) = Accepted(r) /\ Accepted(r) \subseteq Registered(r) /\ Registered(r) \subseteq Peers
  BY ZenonT(30), <1>2 DEF Accepted, Registered
<1>4. CASE z.state = r.state /\ ~AcceptNewPeersConsensus(r) /\ ~NoAcceptNewPeersConsensus(r)
  <2>1. Same(z, r)
    BY ZenonT(30), <1>2, <1>4 DEF Same
  <2>2. EstablishOpen(z)
    <3>1. \A c \in Registered(r) : r.phase[c] # "REGISTERED" => c \in Accepted(r)
      BY ZenonT(30), <1>1 DEF Registered, Accepted, Phases
    <3> QED
      BY ZenonT(30), <1>3, <1>4, <3>1 DEF EstablishOpen, AcceptNewPeersConsensus, NoAcceptNewPeersConsensus, UnanimousIn
  <2> QED
    BY ZenonT(30), <2>1, <2>2, SameKeeps DEF z
<1>5. CASE \/ AcceptNewPeersConsensus(r) /\ z.state = [c \in Peers |->
                  IF c \in Registered(r) THEN "CONNECTING_TO_PEERS" ELSE r.state[c]]
           \/ NoAcceptNewPeersConsensus(r) /\ z.state = [c \in Peers |->
                  IF c \in Accepted(r) THEN "CONNECTING_TO_PEERS" ELSE r.state[c]]
  <2>1. /\ \A c \in Accepted(r) : z.state[c] = "CONNECTING_TO_PEERS"
        /\ \A c \in Peers : z.state[c] \in {r.state[c], "CONNECTING_TO_PEERS"}
        /\ \A c \in Peers : r.phase[c] = "NONE" => z.state[c] = r.state[c]
    BY ZenonT(30), <1>3, <1>5 DEF Registered, Accepted
  <2>2. \A c \in Accepted(r) : r.state[c] \in {"VOTE_ACCEPT_NEW_PEERS", "VOTE_NO_NEW_PEERS"}
    BY ZenonT(30), <1>3, <1>5 DEF AcceptNewPeersConsensus, NoAcceptNewPeersConsensus, UnanimousIn, Accepted
  <2>3. \A c \in Accepted(r), t \in Tags : r.coll[c][t] = "NONE"
    BY <1>3, <2>2, NoOperation
  <2>4. Together(z)
    BY <1>2, <1>3, <2>1, <2>3 DEF Unison, Together, Connecting, Optimizing, Distributing, Late
  <2>5. Held(z)
    BY ZenonT(30), <1>3, <2>1 DEF Held
  <2>6. EstablishOpen(z)
    BY ZenonT(30), <1>3, <2>1 DEF EstablishOpen
  <2>7. \A c \in Accepted(z) : z.state[c] # "VOTE_COMPLETE_SHARED_STATE_SYNC"
    BY ZenonT(30), <1>3, <2>1
  <2>8. /\ QueryOpen(r) => QueryOpen(z)
        /\ \A g : SyncOpen(r, g) => SyncOpen(z, g)
        /\ \A g : \A t \in Tags : OperationOpen(r, g, t) => OperationOpen(z, g, t)
    BY ZenonT(30), <1>2, <1>3, <2>7, MovedOpen
  <2> QED
    BY ZenonT(30), <2>4, <2>5, <2>6, <2>8 DEF Unison, z
<1> QED
  BY ZenonT(30), <1>2, <1>4, <1>5

\* checkP2PConnectionsEstablished accepts clients as idle only when the accepted ones are in
\* the p2p phase too, which is where a report finds them; after a departure they have failed.
LEMMA CheckP2PUnison ==
    ASSUME NEW r, Consistent(r), Unison(r), NEW z \in CheckP2PConnectionsEstablished(r),
           r.peer_dropped \/ \A c \in Accepted(r) : r.state[c] \in Connecting \cup Late
    PROVE  /\ Unison(z)
           /\ EstablishOpen(r) => EstablishOpen(z)
           /\ QueryOpen(r) => QueryOpen(z)
           /\ \A g : SyncOpen(r, g) => SyncOpen(z, g)
           /\ \A g : \A t \in Tags : OperationOpen(r, g, t) => OperationOpen(z, g, t)
           /\ z.sync = r.sync
<1>1. /\ r.phase \in [Peers -> Phases] /\ r.state \in [Peers -> ConnectionStates]
      /\ \A c \in Peers \ Accepted(r) : r.state[c] \in ConnectingStates /\ c \notin r.query
  BY ZenonT(30) DEF Consistent, Typed, MasterStates, AcceptedMatch
<1>2. CASE Same(z, r)
  BY ZenonT(30), <1>2, SameKeeps DEF Same
<1>3. CASE ~Same(z, r)
  <2>1. /\ z.query = r.query /\ z.coll = r.coll /\ z.sync = r.sync
        /\ In(r, {"CONNECTING_TO_PEERS"}) = {}
    BY ZenonT(30), <1>3, CheckP2PEffect
  <2>2. PICK M \in SUBSET In(r, {"WAITING_FOR_OTHER_PEERS"}),
             st \in {"IDLE", "CONNECTING_TO_PEERS_FAILED"} :
                 /\ z.phase = [c \in Peers |-> IF c \in M THEN "ACCEPTED" ELSE r.phase[c]]
                 /\ z.state = [c \in Peers |-> IF c \in M THEN st ELSE r.state[c]]
                 /\ st = "IDLE" => ~r.peer_dropped
    BY ZenonT(30), <1>3, CheckP2PEffect
  <2>3. M \in SUBSET Peers /\ \A c \in M : r.phase[c] # "NONE" /\ r.state[c] = "WAITING_FOR_OTHER_PEERS"
    BY ZenonT(30) DEF In, Registered
  <2>4. Accepted(z) = Accepted(r) \cup M
    BY ZenonT(30), <2>2, <2>3 DEF Accepted
  <2>5. \A c \in M, t \in Tags : r.coll[c][t] = "NONE"
    BY <2>3, NoOperation
  <2>6. \A c \in Peers : r.state[c] # "CONNECTING_TO_PEERS"
    BY ZenonT(30), <2>1 DEF In, Registered, Unison, Together
  <2>7. /\ \A c \in M : z.state[c] = st
        /\ \A c \in Peers \ M : z.state[c] = r.state[c] /\ z.phase[c] = r.phase[c]
    BY ZenonT(30), <2>2, <2>3
  <2>8. Together(z)
    <3>1. \A c \in Peers : z.phase[c] = "NONE" => z.state[c] = "IDLE"
      BY ZenonT(30), <2>2, <2>3 DEF Unison, Together
    <3>2. \A c \in Peers : z.state[c] # "CONNECTING_TO_PEERS"
      BY ZenonT(30), <2>6, <2>7
    <3>3. CASE st = "CONNECTING_TO_PEERS_FAILED"
      <4>1. \A c \in Accepted(z) : z.state[c] \in Late \/ (c \in Accepted(r) /\ z.state[c] = r.state[c])
        BY ZenonT(30), <2>3, <2>4, <2>7, <3>3 DEF Accepted, Late
      <4>2. \A c \in Accepted(z) : z.state[c] \in Late => z.state[c] \notin Optimizing \cup Distributing
        BY ZenonT(30) DEF Late, Optimizing, Distributing
      <4>3. \A c \in Accepted(z), t \in Tags : r.coll[c][t] # "NONE" => c \in Accepted(r)
        BY ZenonT(30), <2>4, <2>5
      <4> QED
        BY ZenonT(30), <2>1, <3>1, <3>2, <4>1, <4>2, <4>3 DEF Unison, Together
    <3>4. CASE st = "IDLE"
      <4>1. \A c \in Accepted(z) : z.state[c] \in Connecting \cup Late \cup {"IDLE"}
        BY ZenonT(30), <2>2, <2>4, <2>7, <3>4 DEF Accepted
      <4>2. \A c \in Accepted(z), t \in Tags : r.coll[c][t] = "NONE"
        <5>1. \A c \in Accepted(r) : c \in Peers /\ r.state[c] # "COLLECTIVE_COMMUNICATIONS_RUNNING"
          BY ZenonT(30), <2>2, <3>4 DEF Connecting, Late, Accepted
        <5> QED
          BY ZenonT(30), <2>4, <2>5, <5>1, NoOperation
      <4> QED
        BY ZenonT(30), <2>1, <3>1, <3>2, <4>1, <4>2 DEF Together, Connecting, Late, Optimizing, Distributing
    <3> QED
      BY ZenonT(30), <3>3, <3>4
  <2>9. Held(z)
    BY ZenonT(30), <2>1, <2>4, <2>7 DEF Unison, Held, Accepted
  <2>10. EstablishOpen(r) => EstablishOpen(z)
    BY ZenonT(30), <2>4, <2>7 DEF EstablishOpen, Accepted
  <2>11. \A c \in Accepted(z) \ Accepted(r) : c \notin r.query /\ \A t \in Tags : r.coll[c][t] = "NONE"
    BY ZenonT(30), <1>1, <2>3, <2>4, <2>5
  <2>12. \A c \in Accepted(z) : z.state[c] = "VOTE_COMPLETE_SHARED_STATE_SYNC"
                                   => c \in Accepted(r) /\ r.state[c] = z.state[c]
    BY ZenonT(30), <2>4, <2>7 DEF Accepted
  <2>13. /\ QueryOpen(r) => QueryOpen(z)
         /\ \A g : SyncOpen(r, g) => SyncOpen(z, g)
         /\ \A g : \A t \in Tags : OperationOpen(r, g, t) => OperationOpen(z, g, t)
    BY ZenonT(30), <2>1, <2>4, <2>11, <2>12, MovedOpen
  <2> QED
    BY ZenonT(30), <2>1, <2>8, <2>9, <2>10, <2>13 DEF Unison
<1> QED
  BY ZenonT(30), <1>2, <1>3

\* What a handler other than those of shared-state votes and of departures leaves.
Kept(z, r) == Unison(z) /\ Open(z) /\ z.sync.next_revision = r.sync.next_revision

\* Handlers that change no client.
LEMMA SameKept ==
    ASSUME NEW r, NEW z, Same(z, r), Unison(r), Open(r)
    PROVE  Kept(z, r)
BY ZenonT(30), SameKeeps DEF Kept, Same

\* A step that changes no client may come before or after.
LEMMA KeptSame ==
    ASSUME NEW r, NEW q, NEW z, Kept(q, r), Same(z, q)
    PROVE  Kept(z, r)
BY ZenonT(30), SameKeeps DEF Kept, Same

\* registerClient: a new client is registered as idle; the first one is accepted and connects.
LEMMA RegisterUnison ==
    ASSUME NEW r, Consistent(r), Unison(r), Open(r), NEW c \in Peers, c \notin Registered(r)
    PROVE  Kept(RegisterClient(r, c), r)
<1> DEFINE w == [r EXCEPT !.phase[c] = "REGISTERED", !.state[c] = "IDLE"]
           z == RegisterClient(r, c)
<1>1. /\ r.phase \in [Peers -> Phases] /\ r.state \in [Peers -> ConnectionStates]
      /\ r.phase[c] = "NONE" /\ r.state[c] = "IDLE" /\ c \notin r.query
      /\ \A t \in Tags : r.coll[c][t] = "NONE"
  <2>1. r.phase \in [Peers -> Phases] /\ r.state \in [Peers -> ConnectionStates] /\ r.phase[c] = "NONE"
    BY ZenonT(30) DEF Consistent, Typed, MasterStates, Registered
  <2>2. r.state[c] = "IDLE"
    BY ZenonT(30), <2>1 DEF Unison, Together
  <2>3. c \notin r.query
    BY ZenonT(30), <2>1 DEF Consistent, AcceptedMatch, Accepted
  <2> QED
    BY ZenonT(30), <2>1, <2>2, <2>3, NoOperation
<1>2. /\ w.phase = [r.phase EXCEPT ![c] = "REGISTERED"] /\ w.state = [r.state EXCEPT ![c] = "IDLE"]
      /\ w.query = r.query /\ w.coll = r.coll /\ w.sync = r.sync
  BY ZenonT(30) DEF Consistent, Typed, MasterStates
<1>3. CASE Registered(r) # {}
  <2>1. z = w
    BY ZenonT(30), <1>3 DEF RegisterClient
  <2> HIDE DEF w, z
  <2>2. z.state = r.state /\ \A e \in Peers : z.phase[e] = IF e = c THEN "REGISTERED" ELSE r.phase[e]
    BY <1>1, <1>2, <2>1
  <2>3. Accepted(z) = Accepted(r)
    BY ZenonT(30), <1>1, <2>2 DEF Accepted
  <2>4. Unison(z)
    BY <1>1, <1>2, <2>1, <2>2, <2>3 DEF Unison, Together, Held
  <2>5. Open(z)
    BY <1>2, <2>1, <2>2, <2>3 DEF Open, EstablishOpen, QueryOpen, SyncOpen, OperationOpen, Members
  <2>6. z.sync = r.sync
    BY ZenonT(30), <1>2, <2>1
  <2>7. Kept(z, r)
    BY ZenonT(30), <2>4, <2>5, <2>6 DEF Kept
  <2> QED
    BY ZenonT(30), <2>7 DEF z
<1>4. CASE Registered(r) = {}
  <2> DEFINE a == OnPeerAccepted(w, {c})
             v == VoteEstablishP2PConnections(a, c, TRUE)
  <2>1. z = TransitionToP2PEstablishmentPhase(v, TRUE)
    BY ZenonT(30), <1>4 DEF RegisterClient
  <2>2. /\ a.phase = [e \in Peers |-> IF e \in {c} THEN "ACCEPTED" ELSE w.phase[e]]
        /\ a.state = w.state /\ a.query = w.query /\ a.coll = w.coll /\ a.sync = w.sync
    BY ZenonT(30) DEF OnPeerAccepted, Consistent, Typed, MasterStates
  <2>3. /\ v.state = [a.state EXCEPT ![c] = "VOTE_ACCEPT_NEW_PEERS"]
        /\ v.phase = a.phase /\ v.query = a.query /\ v.coll = a.coll /\ v.sync = a.sync
    BY ZenonT(30) DEF VoteEstablishP2PConnections, OnPeerAccepted, Consistent, Typed, MasterStates
  <2>4. /\ z.state = [e \in Peers |-> IF e \in Registered(v) THEN "CONNECTING_TO_PEERS" ELSE v.state[e]]
        /\ z.phase = v.phase /\ z.query = v.query /\ z.coll = v.coll /\ z.sync = v.sync
    BY <2>1 DEF TransitionToP2PEstablishmentPhase, VoteEstablishP2PConnections, OnPeerAccepted,
                Consistent, Typed, MasterStates
  <2> HIDE DEF w, a, v, z
  <2>5. \A e \in Peers : r.phase[e] = "NONE"
    BY ZenonT(30), <1>4 DEF Registered
  <2>6. \A e \in Peers : /\ z.phase[e] = IF e = c THEN "ACCEPTED" ELSE "NONE"
                         /\ z.state[e] = IF e = c THEN "CONNECTING_TO_PEERS" ELSE r.state[e]
    BY <1>1, <1>2, <2>2, <2>3, <2>4, <2>5 DEF Registered
  <2>7. Accepted(z) = {c}
    BY ZenonT(30), <2>6 DEF Accepted
  <2>8. z.query = r.query /\ z.coll = r.coll /\ z.sync = r.sync
    BY ZenonT(30), <1>2, <2>2, <2>3, <2>4
  <2>9. Unison(z)
    BY <1>1, <2>5, <2>6, <2>7, <2>8
       DEF Unison, Together, Held, Connecting, Optimizing, Distributing, Late
  <2>10. Open(z)
    BY <1>1, <2>6, <2>7, <2>8 DEF Open, EstablishOpen, QueryOpen, SyncOpen, OperationOpen, Members
  <2>11. Kept(z, r)
    BY ZenonT(30), <2>8, <2>9, <2>10 DEF Kept
  <2> QED
    BY <2>11 DEF z
<1> QED
  BY ZenonT(30), <1>3, <1>4

\* checkEstablishP2PConnectionConsensus at the end of a handler.
LEMMA CheckEstablishKept ==
    ASSUME NEW r, NEW q, Consistent(q), Unison(q), QueryOpen(q),
           \A g \in Groups : SyncOpen(q, g) /\ \A t \in Tags : OperationOpen(q, g, t),
           q.sync.next_revision = r.sync.next_revision
    PROVE  Kept(CheckEstablishP2PConnectionConsensus(q), r)
<1> DEFINE z == CheckEstablishP2PConnectionConsensus(q)
<1>1. /\ Unison(z) /\ EstablishOpen(z) /\ QueryOpen(z)
      /\ \A g \in Groups : SyncOpen(z, g) /\ \A t \in Tags : OperationOpen(z, g, t)
  BY ZenonT(30), CheckEstablishUnison
<1>2. z.sync = q.sync
  BY ZenonT(30), CheckEstablishEffect
<1> QED
  BY ZenonT(30), <1>1, <1>2 DEF Kept, Open

\* handleRequestSessionJoin.
LEMMA RequestSessionJoinKept ==
    ASSUME NEW r, Consistent(r), Unison(r), Open(r), NEW c \in Peers,
           NEW z \in HandleRequestSessionJoin(r, c)
    PROVE  Kept(z, r)
<1>1. CASE c \in Registered(r)
  BY ZenonT(30), <1>1, KickSame, SameKept DEF HandleRequestSessionJoin
<1>2. CASE c \notin Registered(r)
  <2> DEFINE p == IF CanRegister(r, c) THEN RegisterClient(r, c) ELSE r
             w == Send(p, [x \in {<<c, <<"session", 0>>>>} |-> CanRegister(r, c)])
  <2>1. Consistent(p) /\ Kept(p, r)
    BY ZenonT(30), <1>2, RegisterClientConsistent, RegisterUnison, SameKept DEF Same
  <2>2. Consistent(w) /\ Same(w, p)
    BY ZenonT(30), <2>1, SendConsistent, PlainSame
  <2>3. z \in {SendP2PConnectionInformation(w, TRUE), CheckEstablishP2PConnectionConsensus(w)}
    BY ZenonT(30), <1>2 DEF HandleRequestSessionJoin
  <2> HIDE DEF w, p
  <2>4. Kept(w, r)
    BY ZenonT(30), <2>1, <2>2, KeptSame
  <2>5. CASE z = SendP2PConnectionInformation(w, TRUE)
    BY ZenonT(30), <2>2, <2>4, <2>5, InformationSame, KeptSame
  <2>6. CASE z = CheckEstablishP2PConnectionConsensus(w)
    BY ZenonT(30), <2>2, <2>4, <2>6, CheckEstablishKept DEF Kept, Open
  <2> QED
    BY ZenonT(30), <2>3, <2>5, <2>6
<1> QED
  BY ZenonT(30), <1>1, <1>2

\* handleEstablishP2PConnections: whoever votes is a latecomer at most.
LEMMA EstablishP2PConnectionsKept ==
    ASSUME NEW r, Consistent(r), Unison(r), Open(r), NEW c \in Peers, NEW accept \in BOOLEAN,
           NEW z \in HandleEstablishP2PConnections(r, c, accept)
    PROVE  Kept(z, r)
<1>1. CASE ~CanVoteEstablish(r, c)
  BY ZenonT(30), <1>1, KickSame, SameKept DEF HandleEstablishP2PConnections
<1>2. CASE CanVoteEstablish(r, c)
  <2> DEFINE v  == VoteEstablishP2PConnections(r, c, accept)
             st == IF accept THEN "VOTE_ACCEPT_NEW_PEERS" ELSE "VOTE_NO_NEW_PEERS"
  <2>1. z = CheckEstablishP2PConnectionConsensus(v)
    BY ZenonT(30), <1>2 DEF HandleEstablishP2PConnections
  <2>2. Consistent(v)
    <3>1. CASE accept = TRUE
      BY ZenonT(30), <1>2, <3>1, VoteEstablishConsistent
    <3>2. CASE accept = FALSE
      BY ZenonT(30), <1>2, <3>2, VoteEstablishConsistent
    <3> QED
      BY ZenonT(30), <3>1, <3>2
  <2>3. /\ v.state = [r.state EXCEPT ![c] = st]
        /\ v.phase = r.phase /\ v.query = r.query /\ v.coll = r.coll /\ v.sync = r.sync
    BY ZenonT(30) DEF VoteEstablishP2PConnections, Consistent, Typed, MasterStates
  <2>4. st \in {"VOTE_ACCEPT_NEW_PEERS", "VOTE_NO_NEW_PEERS"}
    BY ZenonT(30)
  <2>5. r.state \in [Peers -> ConnectionStates]
    BY ZenonT(30) DEF Consistent, Typed, MasterStates
  <2> HIDE DEF v, st
  <2>6. /\ Accepted(v) = Accepted(r) /\ c \in Accepted(r)
        /\ v.state[c] = st /\ \A e \in Peers : e # c => v.state[e] = r.state[e]
    BY ZenonT(30), <1>2, <2>3, <2>5 DEF CanVoteEstablish, Accepted
  <2>7. Unison(v)
    <3>1. Accepted(r) \subseteq Peers /\ r.phase[c] # "NONE"
      BY ZenonT(30), <1>2 DEF Accepted, CanVoteEstablish
    <3>2. Together(v)
      BY <2>3, <2>4, <2>6, <3>1 DEF Unison, Together, Connecting, Optimizing, Distributing, Late
    <3>3. Held(v)
      BY ZenonT(30), <2>3, <2>4, <2>6, <3>1 DEF Unison, Held
    <3> QED
      BY ZenonT(30), <3>2, <3>3 DEF Unison
  <2>8. /\ QueryOpen(v)
        /\ \A g \in Groups : SyncOpen(v, g) /\ \A t \in Tags : OperationOpen(v, g, t)
    BY ZenonT(30), <2>3, <2>4, <2>6, MovedOpen DEF Open, Accepted
  <2> QED
    BY ZenonT(30), <2>1, <2>2, <2>3, <2>7, <2>8, CheckEstablishKept
<1> QED
  BY ZenonT(30), <1>1, <1>2

\* A connecting client reports: until then nobody accepted does anything but connect.
LEMMA ReportUnison ==
    ASSUME NEW r, Consistent(r), Unison(r), Open(r), NEW c \in Peers, r.state[c] = "CONNECTING_TO_PEERS",
           NEW st \in {"WAITING_FOR_OTHER_PEERS", "CONNECTING_TO_PEERS_FAILED"},
           NEW w, Consistent(w), w.phase = r.phase, w.query = r.query, w.coll = r.coll, w.sync = r.sync,
           w.state = [r.state EXCEPT ![c] = st],
           NEW z \in CheckP2PConnectionsEstablished(w)
    PROVE  Kept(z, r)
<1>1. r.state \in [Peers -> ConnectionStates]
  BY DEF Consistent, Typed, MasterStates
<1>2. /\ Accepted(w) = Accepted(r) /\ Accepted(r) \subseteq Peers
      /\ w.state[c] = st /\ \A e \in Peers : e # c => w.state[e] = r.state[e]
  BY ZenonT(30), <1>1 DEF Accepted
<1>3. \A e \in Accepted(r) : r.state[e] \in Connecting \cup Late
  BY ZenonT(30) DEF Unison, Together
<1>4. \A e \in Accepted(w) : w.state[e] \in Connecting \cup Late
  BY ZenonT(30), <1>2, <1>3 DEF Connecting, Late
<1>5. \A e \in Accepted(w), t \in Tags : w.coll[e][t] = "NONE"
  BY <1>2, <1>4, NoOperation DEF Connecting, Late
<1>6. Together(w)
  <2>1. \A e \in Peers : w.phase[e] = "NONE" => w.state[e] = "IDLE"
    BY ZenonT(30), <1>2 DEF Unison, Together
  <2> QED
    BY ZenonT(30), <1>4, <1>5, <2>1 DEF Together, Connecting, Optimizing, Distributing, Late
<1>7. Held(w)
  BY ZenonT(30), <1>4 DEF Held, Connecting, Late
<1>8. EstablishOpen(w)
  BY ZenonT(30), <1>2 DEF Open, EstablishOpen
<1>9. /\ QueryOpen(w)
      /\ \A g \in Groups : SyncOpen(w, g) /\ \A t \in Tags : OperationOpen(w, g, t)
  BY ZenonT(30), <1>2, MovedOpen DEF Open
<1>10. /\ Unison(z) /\ EstablishOpen(z) /\ QueryOpen(z) /\ z.sync = r.sync
       /\ \A g \in Groups : SyncOpen(z, g) /\ \A t \in Tags : OperationOpen(z, g, t)
  BY ZenonT(30), <1>4, <1>6, <1>7, <1>8, <1>9, CheckP2PUnison DEF Unison
<1> QED
  BY ZenonT(30), <1>10 DEF Kept, Open

\* handleP2PConnectionsEstablished, for a success and for a failure.
LEMMA P2PConnectionsEstablishedKept ==
    ASSUME Countable, NEW r, Consistent(r), Unison(r), Open(r), NEW c \in Peers, NEW F
    PROVE  /\ \A z \in HandleP2PConnectionsEstablished(r, c, TRUE, {}) : Kept(z, r)
           /\ \A z \in HandleP2PConnectionsEstablished(r, c, FALSE, F) : Kept(z, r)
<1>1. CASE r.state[c] # "CONNECTING_TO_PEERS"
  BY ZenonT(30), <1>1, KickSame, SameKept DEF HandleP2PConnectionsEstablished
<1>2. CASE r.state[c] = "CONNECTING_TO_PEERS"
  <2>1. ASSUME NEW z \in HandleP2PConnectionsEstablished(r, c, TRUE, {}) PROVE Kept(z, r)
    <3> DEFINE w == [r EXCEPT !.state[c] = "WAITING_FOR_OTHER_PEERS"]
    <3>1. Consistent(w)
      BY ZenonT(30), <1>2, ReportConsistent
    <3>2. z \in CheckP2PConnectionsEstablished(w)
      BY ZenonT(30), <1>2, <2>1 DEF HandleP2PConnectionsEstablished
    <3>3. /\ w.phase = r.phase /\ w.query = r.query /\ w.coll = r.coll /\ w.sync = r.sync
          /\ w.state = [r.state EXCEPT ![c] = "WAITING_FOR_OTHER_PEERS"]
      BY ZenonT(30) DEF Consistent, Typed, MasterStates
    <3> HIDE DEF w
    <3> QED
      BY ZenonT(30), <1>2, <3>1, <3>2, <3>3, ReportUnison
  <2>2. ASSUME NEW z \in HandleP2PConnectionsEstablished(r, c, FALSE, F) PROVE Kept(z, r)
    <3> DEFINE u == AddUnreachable(r, c, F)
               g == PeerGroup[c]
    <3>1. Consistent(u) /\ Same(u, r)
      BY ZenonT(30), AddUnreachableConsistent, PlainSame DEF AddUnreachable
    <3>2. CASE MarkP2PConnectionsFailed(r, c, F) = {}
      <4>1. z = Kick(u, c)
        BY ZenonT(30), <1>2, <2>2, <3>2 DEF HandleP2PConnectionsEstablished
      <4> HIDE DEF u
      <4>2. Same(z, r)
        BY ZenonT(30), <3>1, <4>1, KickSame DEF Same
      <4> QED
        BY ZenonT(30), <4>2, SameKept
    <3>3. CASE MarkP2PConnectionsFailed(r, c, F) # {}
      <4>1. PICK w \in MarkP2PConnectionsFailed(r, c, F) : z \in CheckP2PConnectionsEstablished(w)
        BY ZenonT(30), <1>2, <2>2, <3>3 DEF HandleP2PConnectionsEstablished
      <4>2. Consistent(w)
        BY ZenonT(30), <1>2, MarkFailedConsistent
      <4>3. PICK ring : w = [SetRingTopology(u, g, ring, FALSE) EXCEPT
                                 !.state[c] = "CONNECTING_TO_PEERS_FAILED"]
        BY ZenonT(30) DEF MarkP2PConnectionsFailed
      <4> HIDE DEF u, g
      <4>4. /\ w.phase = u.phase /\ w.query = u.query /\ w.coll = u.coll /\ w.sync = u.sync
            /\ w.state = [u.state EXCEPT ![c] = "CONNECTING_TO_PEERS_FAILED"]
        BY ZenonT(30), <3>1, <4>3 DEF SetRingTopology, Consistent, Typed, MasterStates
      <4>5. /\ w.phase = r.phase /\ w.query = r.query /\ w.coll = r.coll /\ w.sync = r.sync
            /\ w.state = [r.state EXCEPT ![c] = "CONNECTING_TO_PEERS_FAILED"]
        BY ZenonT(30), <3>1, <4>4 DEF Same
      <4> QED
        BY ZenonT(30), <1>2, <4>1, <4>2, <4>5, ReportUnison
    <3> QED
      BY ZenonT(30), <3>2, <3>3
  <2> QED
    BY ZenonT(30), <2>1, <2>2
<1> QED
  BY ZenonT(30), <1>1, <1>2

-----------------------------------------------------------------------------
(* Pending peers and topology optimization *)

\* Nothing but the vote on pending peers changes.
SameButQuery(q, r) == q.phase = r.phase /\ q.state = r.state /\ q.coll = r.coll /\ q.sync = r.sync

\* It concerns no other vote.
LEMMA SameButQueryKeeps ==
    ASSUME NEW r, NEW z, SameButQuery(z, r)
    PROVE  /\ Unison(r) => Unison(z)
           /\ EstablishOpen(r) => EstablishOpen(z)
           /\ \A g : SyncOpen(r, g) => SyncOpen(z, g)
           /\ \A g, t : OperationOpen(r, g, t) => OperationOpen(z, g, t)
<1>1. Accepted(z) = Accepted(r) /\ \A g : Members(z, g) = Members(r, g)
  BY ZenonT(30) DEF SameButQuery, Accepted, Members
<1>2. Unison(r) => Unison(z)
  BY ZenonT(30), <1>1 DEF SameButQuery, Unison, Together, Held
<1> QED
  BY ZenonT(30), <1>1, <1>2 DEF SameButQuery, EstablishOpen, SyncOpen, OperationOpen

\* checkQueryPeersPendingConsensus closes the vote it is about.
LEMMA CheckQueryUnison ==
    ASSUME NEW r, Consistent(r)
    PROVE  LET z == CheckQueryPeersPendingConsensus(r)
           IN  SameButQuery(z, r) /\ QueryOpen(z)
<1> DEFINE w == Send(r, [x \in Accepted(r) \X {<<"pending", 0>>} |-> HasPendingPeers(r)])
           z == CheckQueryPeersPendingConsensus(r)
<1>1. Consistent(w) /\ Same(w, r)
  BY ZenonT(30), SendConsistent, PlainSame
<1>2. z = IF QueryPendingPeersConsensus(r) THEN [w EXCEPT !.query = @ \ Accepted(w)] ELSE r
  BY ZenonT(30) DEF CheckQueryPeersPendingConsensus, ResetVoteQueryPendingPeers
<1> HIDE DEF w, z
<1>3. CASE QueryPendingPeersConsensus(r)
  <2>1. SameButQuery(z, w) /\ z.query = w.query \ Accepted(w)
    BY ZenonT(30), <1>1, <1>2, <1>3 DEF SameButQuery, Consistent, Typed, MasterStates
  <2>2. Accepted(z) = Accepted(w)
    BY ZenonT(30), <2>1 DEF SameButQuery, Accepted
  <2>3. QueryOpen(z)
    BY ZenonT(30), <2>1, <2>2 DEF QueryOpen
  <2>4. SameButQuery(z, r)
    BY ZenonT(30), <1>1, <2>1 DEF SameButQuery, Same
  <2> QED
    BY ZenonT(30), <2>3, <2>4 DEF z
<1>4. CASE ~QueryPendingPeersConsensus(r)
  <2>1. z = r
    BY ZenonT(30), <1>2, <1>4
  <2>2. Accepted(r) \subseteq Registered(r)
    BY ZenonT(30) DEF Accepted, Registered
  <2>3. QueryOpen(r)
    BY ZenonT(30), <1>4, <2>2 DEF QueryPendingPeersConsensus, QueryOpen
  <2> QED
    BY ZenonT(30), <2>1, <2>3 DEF SameButQuery, z
<1> QED
  BY ZenonT(30), <1>3, <1>4

\* handleCheckPeersPending.
LEMMA CheckPeersPendingKept ==
    ASSUME NEW r, Consistent(r), Unison(r), Open(r), NEW c \in Peers,
           NEW z \in HandleCheckPeersPending(r, c)
    PROVE  Kept(z, r)
<1>1. CASE ~CanVoteQuery(r, c)
  BY ZenonT(30), <1>1, KickSame, SameKept DEF HandleCheckPeersPending
<1>2. CASE CanVoteQuery(r, c)
  <2> DEFINE v == [r EXCEPT !.query = r.query \cup {c}]
  <2>1. r.query \cup {c} \in SUBSET Accepted(r)
    BY ZenonT(30), <1>2 DEF CanVoteQuery, Accepted, Consistent, Typed, MasterStates, AcceptedMatch
  <2>2. Consistent(v) /\ SameButQuery(v, r)
    <3>1. Consistent(v)
      BY ZenonT(30), <2>1, QueryConsistent
    <3>2. SameButQuery(v, r)
      BY ZenonT(30) DEF SameButQuery, Consistent, Typed, MasterStates
    <3> QED
      BY ZenonT(30), <3>1, <3>2
  <2>3. z = CheckQueryPeersPendingConsensus(v)
    BY ZenonT(30), <1>2 DEF HandleCheckPeersPending
  <2> HIDE DEF v
  <2>4. SameButQuery(z, r) /\ QueryOpen(z)
    BY ZenonT(30), <2>2, <2>3, CheckQueryUnison DEF SameButQuery
  <2> QED
    BY ZenonT(30), <2>4, SameButQueryKeeps DEF Kept, Open, SameButQuery
<1> QED
  BY ZenonT(30), <1>1, <1>2

\* Accepted clients move from one state without operations to another, none of them
\* counting in a vote that has to be closed at once: the votes stay open.
LEMMA PhaseOpen ==
    ASSUME NEW r, NEW z, Open(r),
           z.phase = r.phase, z.query = r.query, z.coll = r.coll,
           \A c \in Accepted(r) : \/ z.state[c] = r.state[c]
                                  \/ z.state[c] \notin {"VOTE_ACCEPT_NEW_PEERS", "VOTE_NO_NEW_PEERS",
                                                        "VOTE_COMPLETE_SHARED_STATE_SYNC"}
    PROVE  Open(z)
<1>1. Accepted(z) = Accepted(r)
  BY ZenonT(30) DEF Accepted
<1>2. EstablishOpen(z)
  BY ZenonT(30), <1>1 DEF Open, EstablishOpen
<1>3. /\ QueryOpen(z)
      /\ \A g \in Groups : SyncOpen(z, g) /\ \A t \in Tags : OperationOpen(z, g, t)
  BY ZenonT(30), <1>1, MovedOpen DEF Open
<1> QED
  BY ZenonT(30), <1>2, <1>3 DEF Open

\* handleOptimizeTopology.
LEMMA OptimizeTopologyKept ==
    ASSUME NEW r, Consistent(r), Unison(r), Open(r), NEW c \in Peers,
           NEW z \in HandleOptimizeTopology(r, c)
    PROVE  Kept(z, r)
<1>1. CASE ~CanVoteOptimize(r, c)
  BY ZenonT(30), <1>1, KickSame, SameKept DEF HandleOptimizeTopology
<1>2. CASE CanVoteOptimize(r, c)
  <2> DEFINE v == VoteOptimizeTopology(r, c)
             m == TransitionToTopologyOptimizationPhase(v)
  <2>1. Consistent(v)
    BY ZenonT(30), <1>2, VoteOptimizeConsistent
  <2>2. z = CheckTopologyOptimizationConsensus(v)
    BY ZenonT(30), <1>2 DEF HandleOptimizeTopology
  <2>3. /\ v.state = [r.state EXCEPT ![c] = "VOTE_OPTIMIZE_TOPOLOGY"]
        /\ v.phase = r.phase /\ v.query = r.query /\ v.coll = r.coll /\ v.sync = r.sync
    BY ZenonT(30) DEF VoteOptimizeTopology, Consistent, Typed, MasterStates
  <2>4. r.state \in [Peers -> ConnectionStates]
    BY ZenonT(30) DEF Consistent, Typed, MasterStates
  <2> HIDE DEF v
  <2>5. /\ Accepted(v) = Accepted(r) /\ c \in Accepted(r) /\ Accepted(r) \subseteq Peers
        /\ r.state[c] \in {"IDLE", "OPTIMIZE_TOPOLOGY_FAILED"} /\ r.phase[c] # "NONE"
        /\ v.state[c] = "VOTE_OPTIMIZE_TOPOLOGY" /\ \A e \in Peers : e # c => v.state[e] = r.state[e]
    BY ZenonT(30), <1>2, <2>3, <2>4 DEF CanVoteOptimize, Accepted
  <2>6. Together(v)
    BY <2>3, <2>5 DEF Unison, Together, Connecting, Optimizing, Distributing, Late
  <2>7. Held(v)
    BY ZenonT(30), <2>3, <2>5 DEF Unison, Held
  <2>8. Open(v)
    BY ZenonT(30), <2>3, <2>5, PhaseOpen
  <2>9. Kept(v, r)
    BY ZenonT(30), <2>3, <2>6, <2>7, <2>8 DEF Kept, Unison
  <2>10. CASE ~OptimizeTopologyConsensus(v)
    BY ZenonT(30), <2>2, <2>9, <2>10 DEF CheckTopologyOptimizationConsensus
  <2>11. CASE OptimizeTopologyConsensus(v)
    <3>1. Consistent(m)
      BY ZenonT(30), <2>1, <2>11, TransitionOptimizeConsistent
    <3>2. \E batch : z = Send(m, batch)
      BY ZenonT(30), <2>2, <2>11 DEF CheckTopologyOptimizationConsensus
    <3>3. /\ m.state = [e \in Peers |-> IF e \in Accepted(v) THEN "OPTIMIZE_TOPOLOGY" ELSE v.state[e]]
          /\ m.phase = v.phase /\ m.query = v.query /\ m.coll = v.coll /\ m.sync = v.sync
      BY ZenonT(30), <2>1 DEF TransitionToTopologyOptimizationPhase, Consistent, Typed, MasterStates
    <3> HIDE DEF m
    <3>4. \A e \in Accepted(v) : v.state[e] = "VOTE_OPTIMIZE_TOPOLOGY"
      BY ZenonT(30), <2>11 DEF OptimizeTopologyConsensus, UnanimousIn, Accepted, Registered
    <3>5. /\ Accepted(m) = Accepted(v) /\ \A e \in Accepted(v) : m.state[e] = "OPTIMIZE_TOPOLOGY"
          /\ \A e \in Peers \ Accepted(v) : m.state[e] = v.state[e]
      BY ZenonT(30), <3>3 DEF Accepted
    <3>6. \A e \in Peers : m.state[e] # "CONNECTING_TO_PEERS"
      BY ZenonT(30), <2>5, <2>6, <3>4, <3>5 DEF Together, Connecting, Late
    <3>7. \A e \in Accepted(v), t \in Tags : v.coll[e][t] = "NONE"
      BY <2>1, <2>5, <3>4, NoOperation
    <3>8. Together(m)
      BY ZenonT(30), <2>6, <3>3, <3>5, <3>6, <3>7 DEF Together, Optimizing, Distributing, Accepted
    <3>9. Held(m)
      BY <3>5 DEF Held
    <3>10. Open(m)
      BY ZenonT(30), <2>8, <3>3, <3>5, PhaseOpen
    <3>11. Kept(m, r)
      BY ZenonT(30), <2>3, <3>3, <3>8, <3>9, <3>10 DEF Kept, Unison
    <3> QED
      BY ZenonT(30), <3>1, <3>2, <3>11, PlainSame, KeptSame
  <2> QED
    BY ZenonT(30), <2>10, <2>11
<1> QED
  BY <1>1, <1>2

\* handleOptimizeTopologyWorkComplete.
LEMMA WorkCompleteKept ==
    ASSUME NEW r, Consistent(r), Unison(r), Open(r), NEW c \in Peers,
           NEW z \in HandleOptimizeTopologyWorkComplete(r, c)
    PROVE  Kept(z, r)
<1>1. CASE ~CanVoteOptimized(r, c)
  BY ZenonT(30), <1>1, KickSame, SameKept DEF HandleOptimizeTopologyWorkComplete
<1>2. CASE CanVoteOptimized(r, c)
  <2> DEFINE v == VoteTopologyOptimizationComplete(r, c)
             m == MarkMissingUnreachable(v)
             e == EndTopologyOptimizationPhase(m)
  <2>1. Consistent(v)
    BY <1>2, VoteOptimizedConsistent
  <2>2. z \in CheckTopologyOptimizationCompletionConsensus(v)
    BY ZenonT(30), <1>2 DEF HandleOptimizeTopologyWorkComplete
  <2>3. /\ v.state = [r.state EXCEPT ![c] = "VOTE_COMPLETE_TOPOLOGY_OPTIMIZATION"]
        /\ v.phase = r.phase /\ v.query = r.query /\ v.coll = r.coll /\ v.sync = r.sync
    BY ZenonT(30) DEF VoteTopologyOptimizationComplete, Consistent, Typed, MasterStates
  <2>4. r.state \in [Peers -> ConnectionStates]
    BY DEF Consistent, Typed, MasterStates
  <2> HIDE DEF v
  <2>5. /\ Accepted(v) = Accepted(r) /\ c \in Accepted(r) /\ Accepted(r) \subseteq Peers
        /\ r.state[c] = "OPTIMIZE_TOPOLOGY" /\ r.phase[c] # "NONE"
        /\ v.state[c] = "VOTE_COMPLETE_TOPOLOGY_OPTIMIZATION"
        /\ \A d \in Peers : d # c => v.state[d] = r.state[d]
    BY ZenonT(30), <1>2, <2>3, <2>4 DEF CanVoteOptimized, Accepted
  <2>6. Together(v)
    BY <2>3, <2>5 DEF Unison, Together, Connecting, Optimizing, Distributing, Late
  <2>7. Held(v)
    BY ZenonT(30), <2>3, <2>5 DEF Unison, Held
  <2>8. Open(v)
    BY ZenonT(30), <2>3, <2>5, PhaseOpen
  <2>9. Kept(v, r)
    BY ZenonT(30), <2>3, <2>6, <2>7, <2>8 DEF Kept, Unison
  <2>10. CASE ~TopologyOptimizationCompleteConsensus(v)
    BY ZenonT(30), <2>2, <2>9, <2>10 DEF CheckTopologyOptimizationCompletionConsensus
  <2>11. CASE TopologyOptimizationCompleteConsensus(v)
    <3>1. Consistent(m) /\ TopologyOptimizationCompleteConsensus(m)
      BY ZenonT(30), <2>1, <2>11, MarkMissingConsistent
    <3>2. Same(m, v)
      BY <2>1, PlainSame DEF MarkMissingUnreachable, Same
    <3>3. \E w \in OptimizeTopologies(e) : \E batch : z = Send(w, batch)
      BY ZenonT(30), <2>2, <2>11 DEF CheckTopologyOptimizationCompletionConsensus
    <3> HIDE DEF m
    <3>4. Consistent(e)
      BY ZenonT(30), <3>1, EndOptimizationConsistent
    <3>5. /\ e.state = [d \in Peers |-> IF d \in Accepted(m) THEN "IDLE" ELSE m.state[d]]
          /\ e.phase = m.phase /\ e.query = m.query /\ e.coll = m.coll /\ e.sync = m.sync
      BY ZenonT(30), <3>1 DEF EndTopologyOptimizationPhase, Consistent, Typed, MasterStates
    <3> HIDE DEF e
    <3>6. Kept(m, r)
      BY ZenonT(30), <2>9, <3>2, KeptSame
    <3>7. \A d \in Accepted(m) : m.state[d] = "VOTE_COMPLETE_TOPOLOGY_OPTIMIZATION"
      BY ZenonT(30), <3>1 DEF TopologyOptimizationCompleteConsensus, UnanimousIn, Accepted, Registered
    <3>8. /\ Accepted(e) = Accepted(m) /\ Accepted(m) \subseteq Peers
          /\ \A d \in Accepted(m) : e.state[d] = "IDLE"
          /\ \A d \in Peers \ Accepted(m) : e.state[d] = m.state[d]
      BY ZenonT(30), <3>5 DEF Accepted
    <3>9. c \in Accepted(m)
      BY ZenonT(30), <2>5, <3>2 DEF Same, Accepted
    <3>10. \A d \in Peers : e.state[d] # "CONNECTING_TO_PEERS"
      BY <3>6, <3>7, <3>8, <3>9 DEF Kept, Unison, Together, Connecting, Late
    <3>11. \A d \in Accepted(m), t \in Tags : m.coll[d][t] = "NONE"
      BY <3>1, <3>7, <3>8, NoOperation
    <3>12. Together(e)
      BY ZenonT(30), <3>5, <3>6, <3>8, <3>10, <3>11 DEF Kept, Unison, Together, Optimizing, Distributing, Accepted
    <3>13. Held(e)
      BY ZenonT(30), <3>8 DEF Held
    <3>14. Open(e)
      BY ZenonT(30), <3>5, <3>6, <3>8, PhaseOpen DEF Kept
    <3>15. Kept(e, r)
      BY ZenonT(30), <3>5, <3>6, <3>12, <3>13, <3>14 DEF Kept, Unison
    <3>16. ASSUME NEW w \in OptimizeTopologies(e), NEW batch PROVE Same(Send(w, batch), e)
      <4>1. PICK x \in Topologies :
                w = [e EXCEPT !.ring = x.ring, !.optimal = x.optimal, !.task = x.task]
        BY ZenonT(30), <3>16 DEF OptimizeTopologies
      <4> QED
        BY ZenonT(30), <3>4, <4>1 DEF Same, Send, Consistent, Typed, MasterStates
    <3> QED
      BY ZenonT(30), <3>3, <3>15, <3>16, KeptSame
  <2> QED
    BY <2>10, <2>11
<1> QED
  BY <1>1, <1>2

\* handleReportPeerBandwidth and the topology optimization thread change no client.
LEMMA BandwidthAndSolverSame ==
    ASSUME NEW r, Consistent(r), NEW c, NEW to, NEW g \in Groups
    PROVE  /\ \A z \in HandleReportPeerBandwidth(r, c, to) : Same(z, r)
           /\ Same(StartSolver(r, g), r)
           /\ \A z \in FinishSolver(r, g) : Same(z, r)
<1>1. \A z \in HandleReportPeerBandwidth(r, c, to) : Same(z, r)
  <2>1. \A b : Same([r EXCEPT !.bandwidth = b], r)
    BY ZenonT(30), PlainSame
  <2>2. Same(r, r) /\ Same(Kick(r, c), r)
    BY ZenonT(30), KickSame DEF Same
  <2> QED
    BY ZenonT(30), <2>1, <2>2 DEF HandleReportPeerBandwidth, StorePeerBandwidth
<1>2. Same(StartSolver(r, g), r)
  <2> DEFINE w == GetRingTopology(r, {g}, FALSE)
  <2>1. Consistent(w) /\ Same(w, r)
    BY ZenonT(30), GetRingTopologyConsistent, RingSame
  <2>2. \E x : StartSolver(r, g) = [w EXCEPT !.task[g] = x]
    BY ZenonT(30) DEF StartSolver
  <2> HIDE DEF w
  <2> QED
    BY ZenonT(30), <2>1, <2>2 DEF Same, Consistent, Typed, MasterStates
<1>3. ASSUME NEW z \in FinishSolver(r, g) PROVE Same(z, r)
  <2> DEFINE w == [r EXCEPT !.task[g] = [st |-> "done", base |-> {}]]
  <2>1. Consistent(w) /\ Same(w, r)
    <3>1. Consistent(w)
      BY ZenonT(30), TaskConsistent
    <3>2. Same(w, r)
      BY ZenonT(30) DEF Same, Consistent, Typed, MasterStates
    <3> QED
      BY ZenonT(30), <3>1, <3>2
  <2>2. z = w \/ \E t, o : z = SetRingTopology(w, g, t, o)
    BY <1>3 DEF FinishSolver
  <2> HIDE DEF w
  <2> QED
    BY <2>1, <2>2, RingSame DEF Same
<1> QED
  BY ZenonT(30), <1>1, <1>2, <1>3

-----------------------------------------------------------------------------
(* Steps of one peer group *)

Fixed == Connecting \cup Late \cup Optimizing

\* Only members of g change, and none that takes part in a phase of all clients; what the
\* group's members have voted with and what was elected may change.
GroupStep(z, r, g) ==
    /\ z.phase = r.phase /\ z.query = r.query
    /\ \A c \in Peers \ Members(r, g) : z.state[c] = r.state[c] /\ z.coll[c] = r.coll[c]
    /\ \A c \in Members(r, g) : z.state[c] = r.state[c] \/ {r.state[c], z.state[c]} \cap Fixed = {}
    /\ \A h \in Groups \ {g} : /\ z.sync.mask[h] = r.sync.mask[h]
                               /\ z.sync.next_revision[h] = r.sync.next_revision[h]
    /\ \A v : PeerGroup[v.peer] # g => (v \in z.sync.entries <=> v \in r.sync.entries)

\* The parts of Unison that are about one group.
GroupTogether(z, g) ==
    \A c, e \in Members(z, g) :
        /\ z.state[c] \in Distributing => z.state[e] \in Distributing \cup Late
        /\ \A t \in Tags : /\ z.coll[c][t] \in {"PERFORM", "VOTE_COMPLETE"}
                           /\ z.coll[e][t] \in {"NONE", "VOTE_INITIATE"}
                           => z.state[e] \in Late

GroupHeld(z, g) ==
    \A c \in Members(z, g) :
        /\ z.state[c] = "VOTE_SYNC_SHARED_STATE" => \E v \in z.sync.entries : v.peer = c
        /\ z.state[c] = "DISTRIBUTE_SHARED_STATE" =>
               HoldsElected(c, z.sync.mask[g], z.sync.entries)

\* Unison is unison in every group, and the phases of all clients.
LEMMA UnisonOfGroup ==
    ASSUME NEW r, Unison(r), NEW g
    PROVE  GroupTogether(r, g) /\ GroupHeld(r, g)
<1>1. \A c \in Members(r, g) : c \in Accepted(r) /\ PeerGroup[c] = g
  BY ZenonT(30) DEF Members
<1>2. GroupTogether(r, g)
  BY ZenonT(30), <1>1 DEF Unison, Together, GroupTogether
<1>3. GroupHeld(r, g)
  BY ZenonT(30), <1>1 DEF Unison, Held, GroupHeld
<1> QED
  BY ZenonT(30), <1>2, <1>3

\* A step of one group disturbs no other group and no vote of all clients.
LEMMA GroupStepUnison ==
    ASSUME NEW r, NEW g \in Groups, NEW z, Unison(r), GroupStep(z, r, g),
           GroupTogether(z, g), GroupHeld(z, g)
    PROVE  /\ Unison(z)
           /\ EstablishOpen(r) => EstablishOpen(z)
           /\ QueryOpen(r) => QueryOpen(z)
           /\ \A h \in Groups \ {g} : /\ SyncOpen(r, h) => SyncOpen(z, h)
                                      /\ \A t \in Tags : OperationOpen(r, h, t) => OperationOpen(z, h, t)
<1>1. Accepted(z) = Accepted(r) /\ \A h : Members(z, h) = Members(r, h)
  BY ZenonT(30) DEF GroupStep, Accepted, Members
<1>2. \A c \in Accepted(r) : c \in Peers /\ PeerGroup[c] \in Groups /\ c \in Members(r, PeerGroup[c])
  BY DEF Accepted, Members, Groups
<1>3. \A h : \A c \in Members(r, h) : c \in Accepted(r) /\ PeerGroup[c] = h
  BY ZenonT(30) DEF Members
<1>4. /\ \A c \in Peers : z.state[c] = r.state[c] \/ {r.state[c], z.state[c]} \cap Fixed = {}
      /\ \A c \in Peers : z.state[c] # r.state[c] => c \in Members(r, g)
      /\ \A c \in Peers : PeerGroup[c] # g => z.state[c] = r.state[c] /\ z.coll[c] = r.coll[c]
  BY ZenonT(30), <1>3 DEF GroupStep
<1>5. Together(z)
  <2>1. \A c \in Peers : z.phase[c] = "NONE" => z.state[c] = "IDLE"
    <3>1. \A c \in Peers : r.phase[c] = "NONE" => c \notin Members(r, g)
      BY ZenonT(30) DEF Members, Accepted
    <3> QED
      BY ZenonT(30), <3>1 DEF Unison, Together, GroupStep
  <2>2. \A c \in Peers, e \in Accepted(z) :
            z.state[c] = "CONNECTING_TO_PEERS" => z.state[e] \in Connecting \cup Late
    <3>1. \A c \in Peers : z.state[c] = "CONNECTING_TO_PEERS" => r.state[c] = "CONNECTING_TO_PEERS"
      BY ZenonT(30), <1>4 DEF Fixed, Connecting
    <3>2. \A e \in Peers : r.state[e] \in Connecting \cup Late => z.state[e] = r.state[e]
      BY ZenonT(30), <1>4 DEF Fixed
    <3> QED
      BY ZenonT(30), <1>1, <1>2, <3>1, <3>2 DEF Unison, Together
  <2>3. \A c, e \in Accepted(z) :
            z.state[c] \in Optimizing => z.state[e] \in Optimizing \cup Late
    <3>1. \A c \in Peers : z.state[c] \in Optimizing => r.state[c] \in Optimizing
      BY ZenonT(30), <1>4 DEF Fixed
    <3>2. \A e \in Peers : r.state[e] \in Optimizing \cup Late => z.state[e] = r.state[e]
      BY ZenonT(30), <1>4 DEF Fixed
    <3> QED
      BY ZenonT(30), <1>1, <1>2, <3>1, <3>2 DEF Unison, Together
  <2>4. \A c, e \in Accepted(z) :
            PeerGroup[c] = PeerGroup[e] /\ z.state[c] \in Distributing
                => z.state[e] \in Distributing \cup Late
    <3> SUFFICES ASSUME NEW c \in Accepted(z), NEW e \in Accepted(z),
                        PeerGroup[c] = PeerGroup[e], z.state[c] \in Distributing
                 PROVE  z.state[e] \in Distributing \cup Late
      BY ZenonT(30)
    <3>1. CASE PeerGroup[c] = g
      BY ZenonT(30), <1>1, <1>2, <3>1 DEF GroupTogether
    <3>2. CASE PeerGroup[c] # g
      BY ZenonT(30), <1>1, <1>2, <1>4, <3>2 DEF Unison, Together
    <3> QED
      BY ZenonT(30), <3>1, <3>2
  <2>5. \A c, e \in Accepted(z), t \in Tags :
            /\ PeerGroup[c] = PeerGroup[e]
            /\ z.coll[c][t] \in {"PERFORM", "VOTE_COMPLETE"}
            /\ z.coll[e][t] \in {"NONE", "VOTE_INITIATE"}
            => z.state[e] \in Late
    <3> SUFFICES ASSUME NEW c \in Accepted(z), NEW e \in Accepted(z), NEW t \in Tags,
                        PeerGroup[c] = PeerGroup[e],
                        z.coll[c][t] \in {"PERFORM", "VOTE_COMPLETE"},
                        z.coll[e][t] \in {"NONE", "VOTE_INITIATE"}
                 PROVE  z.state[e] \in Late
      BY ZenonT(30)
    <3>1. CASE PeerGroup[c] = g
      BY ZenonT(30), <1>1, <1>2, <3>1 DEF GroupTogether
    <3>2. CASE PeerGroup[c] # g
      BY ZenonT(30), <1>1, <1>2, <1>4, <3>2 DEF Unison, Together
    <3> QED
      BY ZenonT(30), <3>1, <3>2
  <2> QED
    BY ZenonT(30), <2>1, <2>2, <2>3, <2>4, <2>5 DEF Together
<1>6. Held(z)
  <2> SUFFICES ASSUME NEW c \in Accepted(z)
               PROVE  /\ z.state[c] = "VOTE_SYNC_SHARED_STATE" => \E v \in z.sync.entries : v.peer = c
                      /\ z.state[c] = "DISTRIBUTE_SHARED_STATE" =>
                             HoldsElected(c, z.sync.mask[PeerGroup[c]], z.sync.entries)
    BY ZenonT(30) DEF Held
  <2>1. CASE PeerGroup[c] = g
    BY ZenonT(30), <1>1, <1>2, <2>1 DEF GroupHeld
  <2>2. CASE PeerGroup[c] # g
    <3>1. c \in Accepted(r) /\ z.state[c] = r.state[c] /\ z.sync.mask[PeerGroup[c]] = r.sync.mask[PeerGroup[c]]
      BY ZenonT(30), <1>1, <1>2, <1>4, <2>2 DEF GroupStep
    <3>2. \A v : v.peer = c => (v \in z.sync.entries <=> v \in r.sync.entries)
      BY ZenonT(30), <2>2 DEF GroupStep
    <3>3. \A mask : HoldsElected(c, mask, r.sync.entries) => HoldsElected(c, mask, z.sync.entries)
      BY ZenonT(30), <3>2 DEF HoldsElected
    <3> QED
      BY ZenonT(30), <3>1, <3>2, <3>3 DEF Unison, Held
  <2> QED
    BY ZenonT(30), <2>1, <2>2
<1>7. EstablishOpen(r) => EstablishOpen(z)
  BY ZenonT(30), <1>1, <1>2, <1>4 DEF EstablishOpen, Fixed, Late
<1>8. QueryOpen(r) => QueryOpen(z)
  BY ZenonT(30), <1>1 DEF QueryOpen, GroupStep
<1>9. \A h \in Groups \ {g} : /\ SyncOpen(r, h) => SyncOpen(z, h)
                              /\ \A t \in Tags : OperationOpen(r, h, t) => OperationOpen(z, h, t)
  <2>1. \A h \in Groups \ {g} : \A c \in Members(r, h) : z.state[c] = r.state[c] /\ z.coll[c] = r.coll[c]
    BY ZenonT(30), <1>2, <1>3, <1>4
  <2> QED
    BY ZenonT(30), <1>1, <2>1 DEF SyncOpen, OperationOpen
<1> QED
  BY ZenonT(30), <1>5, <1>6, <1>7, <1>8, <1>9 DEF Unison

-----------------------------------------------------------------------------
(* Shared-state synchronization *)

\* A list in which no key and no hash is found to differ has the entries of the mask.
LEMMA MatchIsEqual ==
    ASSUME NEW mask \in SharedStates, NEW e \in SharedStates, NEW f \in Comparisons(mask, e),
           MaskStatus(f) = "SUCCESSFUL_MATCH"
    PROVE  \A i \in DOMAIN mask \cap DOMAIN e : e[i] = mask[i]
<1> DEFINE Entry == Keys \X (Nat \ {0})
<1>1. mask \in Seq(Entry) /\ e \in Seq(Entry)
  BY ZenonT(30), SharedStatesAssumption
<1>2. DifferentKey(f) = {} /\ DifferentHash(f) = {}
  BY ZenonT(30) DEF MaskStatus
<1>3. f \in [DOMAIN mask -> Findings]
  BY ZenonT(30) DEF Comparisons
<1>4. \A i \in DOMAIN mask : f[i] = "same"
  BY ZenonT(30), <1>2, <1>3 DEF DifferentKey, DifferentHash, Findings
<1>5. \A x, y \in Entry : CompareEntry(x, y) = "same" => x = y
  BY DEF CompareEntry
<1>6. \A i \in DOMAIN mask \cap DOMAIN e : CompareEntry(mask[i], e[i]) = "same"
  BY ZenonT(30), <1>4 DEF Comparisons
<1> HIDE DEF Entry
<1>7. (\A i \in DOMAIN mask : mask[i] \in Entry) /\ (\A i \in DOMAIN e : e[i] \in Entry)
  BY <1>1
<1> QED
  BY ZenonT(30), <1>5, <1>6, <1>7

\* checkMaskSharedStateMismatches changes no client, and leaves a match only to those that
\* hold the mask.
LEMMA CheckMaskEffect ==
    ASSUME NEW r, Consistent(r), NEW g \in Groups, NEW mask \in SharedStates, GroupHeld(r, g),
           \A c \in Members(r, g) : r.state[c] = "VOTE_SYNC_SHARED_STATE",
           NEW found \in ComparisonsOfVotes(r, g, mask)
    PROVE  LET q == CheckMaskSharedStateMismatches(r, g, mask, found)
           IN  /\ q.phase = r.phase /\ q.state = r.state /\ q.query = r.query /\ q.coll = r.coll
               /\ q.sync.entries = r.sync.entries
               /\ q.sync.next_revision = r.sync.next_revision
               /\ q.sync.mask = [r.sync.mask EXCEPT ![g] = mask]
               /\ \A c \in Members(r, g) : q.sync.status[c] = "SUCCESSFUL_MATCH" =>
                      HoldsElected(c, mask, r.sync.entries)
<1> DEFINE votesOf(c) == {v \in ComparedVotes(r, g) : v.peer = c}
           S == [c \in Peers |->
                    IF r.sync.status[c] = "SUCCESSFUL_MATCH" /\ votesOf(c) # {}
                    THEN MaskStatus(found[CHOOSE v \in votesOf(c) : TRUE])
                    ELSE r.sync.status[c]]
           q == CheckMaskSharedStateMismatches(r, g, mask, found)
<1>1. r.sync \in SyncStates /\ r.sync.entries \subseteq Ballot
  BY ZenonT(30) DEF Consistent, Typed, MasterStates, SyncStates
<1>2. \E H, D : q = [r EXCEPT !.sync = [r.sync EXCEPT !.mask[g] = mask, !.hashes[g] = H, !.dirty = D,
                                                     !.status = S]]
  BY ZenonT(30) DEF CheckMaskSharedStateMismatches
<1> HIDE DEF q, S
<1>3. /\ q.phase = r.phase /\ q.state = r.state /\ q.query = r.query /\ q.coll = r.coll
      /\ q.sync.entries = r.sync.entries
      /\ q.sync.next_revision = r.sync.next_revision
      /\ q.sync.mask = [r.sync.mask EXCEPT ![g] = mask]
      /\ q.sync.status = S
  <2>1. PICK H, D : q = [r EXCEPT !.sync = [r.sync EXCEPT !.mask[g] = mask, !.hashes[g] = H,
                                                          !.dirty = D, !.status = S]]
    BY ZenonT(30), <1>2
  <2> DEFINE y == [r.sync EXCEPT !.mask[g] = mask, !.hashes[g] = H, !.dirty = D, !.status = S]
  <2>2. /\ y.entries = r.sync.entries
        /\ y.next_revision = r.sync.next_revision
        /\ y.mask = [r.sync.mask EXCEPT ![g] = mask]
        /\ y.status = S
    BY ZenonT(30), <1>1 DEF SyncStates
  <2>3. q = [r EXCEPT !.sync = y]
    BY ZenonT(30), <2>1
  <2> HIDE DEF y
  <2>4. /\ q.phase = r.phase /\ q.state = r.state /\ q.query = r.query /\ q.coll = r.coll
        /\ q.sync = y
    BY ZenonT(30), <2>3 DEF Consistent, Typed, MasterStates
  <2> QED
    BY ZenonT(30), <2>2, <2>4
<1>4. ASSUME NEW c \in Members(r, g), S[c] = "SUCCESSFUL_MATCH"
      PROVE  HoldsElected(c, mask, r.sync.entries)
  <2>1. c \in Peers /\ PeerGroup[c] = g
    BY ZenonT(30) DEF Members, Accepted
  <2>2. PICK v \in r.sync.entries : v.peer = c
    BY ZenonT(30), <1>4 DEF GroupHeld
  <2>3. r.sync.status[c] = "SUCCESSFUL_MATCH" => v \in votesOf(c)
    BY ZenonT(30), <2>1, <2>2 DEF ComparedVotes
  <2>4. votesOf(c) # {} /\ MaskStatus(found[CHOOSE w \in votesOf(c) : TRUE]) = "SUCCESSFUL_MATCH"
    BY ZenonT(30), <1>4, <2>1, <2>3 DEF S
  <2>5. PICK w \in votesOf(c) : MaskStatus(found[w]) = "SUCCESSFUL_MATCH"
    BY ZenonT(30), <2>4
  <2>6. w \in r.sync.entries /\ w.peer = c /\ found[w] \in Comparisons(mask, w.hashes)
    BY ZenonT(30) DEF ComparedVotes, ComparisonsOfVotes
  <2>7. w \in Ballot /\ w.hashes \in SharedStates
    BY ZenonT(30), <1>1, <2>6 DEF Ballot
  <2>8. \A i \in DOMAIN mask \cap DOMAIN w.hashes : w.hashes[i] = mask[i]
    BY ZenonT(30), <2>5, <2>6, <2>7, MatchIsEqual
  <2> QED
    BY ZenonT(30), <2>6, <2>8 DEF HoldsElected
<1> QED
  BY ZenonT(30), <1>3, <1>4 DEF q

Started(z, g) ==
    /\ Members(z, g) # {}
    /\ \A c \in Members(z, g) : z.state[c] \in {"DISTRIBUTE_SHARED_STATE", "REQUEST_SHARED_STATE"}

\* What checkSyncSharedStateConsensus does: nothing to the clients, or the begin of a round.
SyncEffect(z, r, g) ==
    /\ z.phase = r.phase /\ z.query = r.query /\ z.coll = r.coll
    /\ z.sync.entries = r.sync.entries
    /\ \A h \in Groups \ {g} : /\ z.sync.mask[h] = r.sync.mask[h]
                               /\ z.sync.next_revision[h] = r.sync.next_revision[h]
    /\ \A c \in Peers \ Members(r, g) : z.state[c] = r.state[c]
    /\ \/ /\ z.state = r.state
          /\ z.sync.next_revision[g] = r.sync.next_revision[g]
          /\ \/ z.sync.mask = r.sync.mask
             \/ \A c \in Members(r, g) : r.state[c] = "VOTE_SYNC_SHARED_STATE"
       \/ /\ \A c \in Members(r, g) : r.state[c] = "VOTE_SYNC_SHARED_STATE"
          /\ Started(z, g)
          /\ z.sync.next_revision[g] = r.sync.next_revision[g] + 1
          /\ \A c \in Members(r, g) : z.state[c] = "DISTRIBUTE_SHARED_STATE" =>
                 HoldsElected(c, z.sync.mask[g], z.sync.entries)

\* transitionToSharedStateSyncPhase: the members distribute or request, and a round is counted.
LEMMA TransitionSyncEffect ==
    ASSUME NEW r, Consistent(r), NEW g \in Groups
    PROVE  LET q == TransitionToSharedStateSyncPhase(r, g)
           IN  /\ q.phase = r.phase /\ q.query = r.query /\ q.coll = r.coll
               /\ q.sync.entries = r.sync.entries /\ q.sync.mask = r.sync.mask
               /\ q.sync.next_revision
                      = [r.sync.next_revision EXCEPT ![g] = r.sync.next_revision[g] + 1]
               /\ \A c \in Peers \ Members(r, g) : q.state[c] = r.state[c]
               /\ \A c \in Members(r, g) :
                      /\ q.state[c] \in {"DISTRIBUTE_SHARED_STATE", "REQUEST_SHARED_STATE"}
                      /\ q.state[c] = "DISTRIBUTE_SHARED_STATE"
                             => r.sync.status[c] = "SUCCESSFUL_MATCH"
<1> DEFINE q == TransitionToSharedStateSyncPhase(r, g)
           X == [c \in Peers |->
                    IF c \notin Members(r, g) THEN r.state[c]
                    ELSE IF r.sync.status[c] = "SUCCESSFUL_MATCH" THEN "DISTRIBUTE_SHARED_STATE"
                    ELSE "REQUEST_SHARED_STATE"]
           y == [r.sync EXCEPT !.votes = @ \ InGroup(g), !.next_revision[g] = @ + 1]
<1>1. r.sync \in SyncStates
  BY ZenonT(30) DEF Consistent, Typed, MasterStates
<1>2. /\ y.entries = r.sync.entries /\ y.mask = r.sync.mask
      /\ y.next_revision = [r.sync.next_revision EXCEPT ![g] = r.sync.next_revision[g] + 1]
  BY ZenonT(30), <1>1 DEF SyncStates
<1>3. /\ \A c \in Peers \ Members(r, g) : X[c] = r.state[c]
      /\ \A c \in Members(r, g) :
             /\ X[c] \in {"DISTRIBUTE_SHARED_STATE", "REQUEST_SHARED_STATE"}
             /\ X[c] = "DISTRIBUTE_SHARED_STATE" => r.sync.status[c] = "SUCCESSFUL_MATCH"
  BY ZenonT(30) DEF Members, Accepted
<1>4. q = [r EXCEPT !.state = X, !.sync = y]
  BY ZenonT(30) DEF TransitionToSharedStateSyncPhase, Consistent, Typed, MasterStates
<1> HIDE DEF q, X, y
<1>5. q.phase = r.phase /\ q.query = r.query /\ q.coll = r.coll /\ q.state = X /\ q.sync = y
  BY ZenonT(30), <1>4 DEF Consistent, Typed, MasterStates
<1> QED
  BY ZenonT(30), <1>2, <1>3, <1>5 DEF q

\* The mask is compared; a client with other keys is kicked, or a round begins.
LEMMA DistributeMaskEffect ==
    ASSUME NEW r, Consistent(r), NEW g \in Groups, NEW mask \in SharedStates, GroupHeld(r, g),
           \A c \in Members(r, g) : r.state[c] = "VOTE_SYNC_SHARED_STATE", Members(r, g) # {},
           NEW found \in ComparisonsOfVotes(r, g, mask),
           NEW z \in DistributeMask(r, g, mask, found)
    PROVE  SyncEffect(z, r, g)
<1> DEFINE k == CheckMaskSharedStateMismatches(r, g, mask, found)
           q == TransitionToSharedStateSyncPhase(k, g)
           V == StrategyViolators(q, g)
           kicked == [q EXCEPT !.cut = q.cut \cup V]
           mismatch == {c \in Members(k, g) : k.sync.status[c] = "KEY_SET_MISMATCH"}
           sources == IF Distributors(q, g) = {} THEN {"none"} ELSE Distributors(q, g)
<1>1. Consistent(k)
  BY ZenonT(30), CheckMaskConsistent
<1>2. /\ k.phase = r.phase /\ k.state = r.state /\ k.query = r.query /\ k.coll = r.coll
      /\ k.sync.entries = r.sync.entries
      /\ k.sync.next_revision = r.sync.next_revision
      /\ k.sync.mask = [r.sync.mask EXCEPT ![g] = mask]
      /\ \A c \in Members(r, g) : k.sync.status[c] = "SUCCESSFUL_MATCH" =>
             HoldsElected(c, mask, r.sync.entries)
  BY ZenonT(30), CheckMaskEffect
<1>3. z \in IF mismatch # {} THEN {Kick(k, c) : c \in mismatch}
            ELSE {SendSyncSharedState(kicked, g, d) : d \in sources}
  BY ZenonT(30) DEF DistributeMask
<1> HIDE DEF k
<1>4. Members(k, g) = Members(r, g)
  BY ZenonT(30), <1>2 DEF Members, Accepted
<1>5. r.sync.mask \in [Groups -> SharedStates \cup {<<>>}] /\ r.sync.next_revision \in [Groups -> Nat]
  BY ZenonT(30) DEF Consistent, Typed, MasterStates, SyncStates
<1>6. /\ k.sync.mask[g] = mask
      /\ \A h \in Groups \ {g} : k.sync.mask[h] = r.sync.mask[h]
  BY ZenonT(30), <1>2, <1>5
<1>7. CASE mismatch # {}
  <2>1. PICK c \in mismatch : z = Kick(k, c)
    BY ZenonT(30), <1>3, <1>7
  <2>2. Same(z, k)
    BY ZenonT(30), <1>1, <2>1, KickSame
  <2> QED
    BY ZenonT(30), <1>2, <1>6, <2>2 DEF SyncEffect, Same
<1>8. CASE mismatch = {}
  <2>1. PICK d \in sources : z = SendSyncSharedState(kicked, g, d)
    BY ZenonT(30), <1>3, <1>8
  <2>2. Consistent(q)
    BY ZenonT(30), <1>1, <1>2, <1>4, TransitionSyncConsistent
  <2>3. /\ q.phase = k.phase /\ q.query = k.query /\ q.coll = k.coll
        /\ q.sync.entries = k.sync.entries /\ q.sync.mask = k.sync.mask
        /\ q.sync.next_revision = [k.sync.next_revision EXCEPT ![g] = k.sync.next_revision[g] + 1]
        /\ \A c \in Peers \ Members(k, g) : q.state[c] = k.state[c]
        /\ \A c \in Members(k, g) :
               /\ q.state[c] \in {"DISTRIBUTE_SHARED_STATE", "REQUEST_SHARED_STATE"}
               /\ q.state[c] = "DISTRIBUTE_SHARED_STATE" => k.sync.status[c] = "SUCCESSFUL_MATCH"
    BY ZenonT(30), <1>1, TransitionSyncEffect
  <2> HIDE DEF q, mismatch, sources
  <2>4. q.cut \cup V \in SUBSET Peers
    BY ZenonT(30), <2>2 DEF StrategyViolators, Members, Accepted, Consistent, Typed, MasterStates
  <2>5. Consistent(kicked) /\ Same(kicked, q)
    BY ZenonT(30), <2>2, <2>4, CutConsistent, PlainSame
  <2> HIDE DEF V, kicked
  <2>6. \A batch : Same(Send(kicked, batch), kicked)
    BY ZenonT(30), <2>5, PlainSame
  <2>7. Same(z, kicked)
    BY ZenonT(30), <2>1, <2>6 DEF SendSyncSharedState
  <2>8. Same(z, q)
    BY ZenonT(30), <2>5, <2>7 DEF Same
  <2>9. Members(z, g) = Members(r, g)
    <3>1. z.phase = r.phase
      BY ZenonT(30), <1>2, <2>3, <2>8 DEF Same
    <3> QED
      BY ZenonT(30), <3>1 DEF Members, Accepted
  <2>10. /\ z.sync.next_revision[g] = r.sync.next_revision[g] + 1
         /\ \A h \in Groups \ {g} : z.sync.next_revision[h] = r.sync.next_revision[h]
    <3>1. PICK N \in [Groups -> Nat] : N = r.sync.next_revision
      BY ZenonT(30), <1>5
    <3>2. z.sync.next_revision = [N EXCEPT ![g] = N[g] + 1]
      BY ZenonT(30), <1>2, <2>3, <2>8, <3>1 DEF Same
    <3> QED
      BY ZenonT(30), <3>1, <3>2
  <2>11. Started(z, g)
    BY ZenonT(30), <1>4, <2>3, <2>8, <2>9 DEF Started, Same
  <2>12. \A c \in Members(r, g) : z.state[c] = "DISTRIBUTE_SHARED_STATE" =>
              HoldsElected(c, z.sync.mask[g], z.sync.entries)
    BY ZenonT(30), <1>2, <1>4, <1>6, <2>3, <2>8 DEF Same
  <2>13. /\ z.phase = r.phase /\ z.query = r.query /\ z.coll = r.coll
         /\ z.sync.entries = r.sync.entries
    BY ZenonT(30), <1>2, <2>3, <2>8 DEF Same
  <2>14. \A h \in Groups \ {g} : z.sync.mask[h] = r.sync.mask[h]
    <3>1. z.sync.mask = k.sync.mask
      BY ZenonT(30), <2>3, <2>8 DEF Same
    <3> QED
      BY ZenonT(30), <1>6, <3>1
  <2>15. \A c \in Peers \ Members(r, g) : z.state[c] = r.state[c]
    BY ZenonT(30), <1>2, <1>4, <2>3, <2>8 DEF Same
  <2> QED
    BY ZenonT(30), <1>2, <2>10, <2>11, <2>12, <2>13, <2>14, <2>15 DEF SyncEffect
<1> QED
  BY ZenonT(30), <1>7, <1>8

\* checkSyncSharedStateConsensus, whichever mask is elected.
LEMMA CheckSyncEffect ==
    ASSUME Countable, NEW r, Consistent(r), NEW g \in Groups, GroupHeld(r, g),
           NEW failed, Same(failed, r), NEW z \in CheckSyncSharedStateConsensus(r, g, failed)
    PROVE  SyncEffect(z, r, g)
<1>0. z = r \/ z = failed \/ (SyncSharedStateConsensus(r, g) /\ z \in SharedStateElections(r, g))
  BY ZenonT(30) DEF CheckSyncSharedStateConsensus
<1>1. CASE z = r \/ z = failed
  BY <1>1 DEF SyncEffect, Same
<1>2. CASE SyncSharedStateConsensus(r, g) /\ z \in SharedStateElections(r, g)
  <2>0. PICK mask \in ElectableMasks(r, g) :
            z \in UNION {DistributeMask(r, g, mask, found) : found \in ComparisonsOfVotes(r, g, mask)}
    BY ZenonT(30), <1>2 DEF SharedStateElections
  <2>1. PICK found \in ComparisonsOfVotes(r, g, mask) : z \in DistributeMask(r, g, mask, found)
    BY ZenonT(30), <2>0
  <2>2. mask \in SharedStates
    BY ZenonT(30), ElectableType
  <2>3. \A c \in Members(r, g) : r.state[c] = "VOTE_SYNC_SHARED_STATE"
    BY ZenonT(30), <1>2, SyncVoteUnanimous
  <2>4. Members(r, g) # {}
    <3>1. PICK c \in In(r, {"VOTE_SYNC_SHARED_STATE"}) : PeerGroup[c] = g
      BY ZenonT(30), <1>2 DEF SyncSharedStateConsensus
    <3>2. c \in Peers /\ r.state[c] = "VOTE_SYNC_SHARED_STATE"
      BY ZenonT(30) DEF In, Registered
    <3>3. c \in Accepted(r)
      BY ZenonT(30), <3>2 DEF Consistent, AcceptedMatch, ConnectingStates
    <3> QED
      BY ZenonT(30), <3>1, <3>3 DEF Members
  <2> QED
    BY ZenonT(30), <2>1, <2>2, <2>3, <2>4, DistributeMaskEffect
<1> QED
  BY ZenonT(30), <1>0, <1>1, <1>2

\* checkSyncSharedStateConsensus finds the members without operations, and leaves them in step.
LEMMA CheckSyncUnison ==
    ASSUME Countable, NEW r, Consistent(r), NEW g \in Groups, Unison(r),
           NEW failed, Same(failed, r), NEW z \in CheckSyncSharedStateConsensus(r, g, failed)
    PROVE  /\ Unison(z)
           /\ EstablishOpen(r) => EstablishOpen(z)
           /\ QueryOpen(r) => QueryOpen(z)
           /\ \A h \in Groups : /\ SyncOpen(r, h) => SyncOpen(z, h)
                                /\ \A t \in Tags : OperationOpen(r, h, t) => OperationOpen(z, h, t)
<1>1. GroupTogether(r, g) /\ GroupHeld(r, g)
  BY ZenonT(30), UnisonOfGroup
<1>2. SyncEffect(z, r, g)
  BY ZenonT(30), <1>1, CheckSyncEffect
<1>3. \A h : Members(z, h) = Members(r, h)
  BY ZenonT(30), <1>2 DEF SyncEffect, Members, Accepted
<1>4. \A c \in Members(r, g) : c \in Peers
  BY ZenonT(30) DEF Members, Accepted
<1>5. \A h \in Groups : \A t \in Tags : OperationOpen(r, h, t) => OperationOpen(z, h, t)
  BY ZenonT(30), <1>2, <1>3 DEF OperationOpen, SyncEffect
<1>6. CASE /\ z.state = r.state
           /\ \/ z.sync.mask = r.sync.mask
              \/ \A c \in Members(r, g) : r.state[c] = "VOTE_SYNC_SHARED_STATE"
  <2>1. GroupStep(z, r, g)
    BY ZenonT(30), <1>2, <1>6 DEF SyncEffect, GroupStep
  <2>2. GroupTogether(z, g)
    BY ZenonT(30), <1>1, <1>2, <1>3, <1>6 DEF SyncEffect, GroupTogether
  <2>3. GroupHeld(z, g)
    BY ZenonT(30), <1>1, <1>2, <1>3, <1>6 DEF SyncEffect, GroupHeld
  <2>4. \A h \in Groups : SyncOpen(r, h) => SyncOpen(z, h)
    BY ZenonT(30), <1>3, <1>6 DEF SyncOpen
  <2> QED
    BY ZenonT(30), <1>5, <2>1, <2>2, <2>3, <2>4, GroupStepUnison
<1>7. CASE /\ \A c \in Members(r, g) : r.state[c] = "VOTE_SYNC_SHARED_STATE"
           /\ Started(z, g)
           /\ \A c \in Members(r, g) : z.state[c] = "DISTRIBUTE_SHARED_STATE" =>
                  HoldsElected(c, z.sync.mask[g], z.sync.entries)
  <2>1. GroupStep(z, r, g)
    <3>1. \A c \in Members(r, g) : {r.state[c], z.state[c]} \cap Fixed = {}
      BY ZenonT(30), <1>3, <1>7 DEF Started, Fixed, Connecting, Late, Optimizing
    <3> QED
      BY ZenonT(30), <1>2, <3>1 DEF SyncEffect, GroupStep
  <2>2. \A c \in Members(r, g), t \in Tags : r.coll[c][t] = "NONE"
    BY ZenonT(30), <1>4, <1>7, NoOperation
  <2>3. GroupTogether(z, g)
    <3>1. Members(z, g) = Members(r, g) /\ z.coll = r.coll
      BY ZenonT(30), <1>2, <1>3 DEF SyncEffect
    <3>2. \A c \in Members(z, g) : z.state[c] \in Distributing
      BY ZenonT(30), <1>7 DEF Started, Distributing
    <3> QED
      BY ZenonT(30), <2>2, <3>1, <3>2 DEF GroupTogether
  <2>4. GroupHeld(z, g)
    BY ZenonT(30), <1>3, <1>7 DEF GroupHeld, Started
  <2>5. SyncOpen(z, g)
    BY ZenonT(30), <1>7 DEF SyncOpen, Started
  <2> QED
    BY ZenonT(30), <1>5, <2>1, <2>3, <2>4, <2>5, GroupStepUnison
<1> QED
  BY ZenonT(30), <1>2, <1>6, <1>7 DEF SyncEffect

\* The round of the group is over: its members are idle again, and their votes are forgotten.
SyncClosed(z, r, g) ==
    /\ z.phase = r.phase /\ z.query = r.query /\ z.coll = r.coll
    /\ \A c \in Members(r, g) : r.state[c] = "VOTE_COMPLETE_SHARED_STATE_SYNC"
    /\ \A c \in Members(r, g) : z.state[c] = "IDLE"
    /\ \A c \in Peers \ Members(r, g) : z.state[c] = r.state[c]
    /\ z.sync.next_revision = r.sync.next_revision
    /\ \A h \in Groups \ {g} : z.sync.mask[h] = r.sync.mask[h]
    /\ z.sync.entries = {v \in r.sync.entries : PeerGroup[v.peer] # g}

\* checkSyncSharedStateCompleteConsensus: nothing, or the members are idle and their votes gone.
LEMMA CheckSyncCompleteEffect ==
    ASSUME Countable, NEW r, Consistent(r), NEW g \in Groups
    PROVE  LET z == CheckSyncSharedStateCompleteConsensus(r, g)
           IN  \/ /\ z = r
                  /\ SyncOpen(r, g)
               \/ SyncClosed(z, r, g)
<1> DEFINE z == CheckSyncSharedStateCompleteConsensus(r, g)
           q == EndSharedStateSyncPhase(r, g)
<1>1. CASE SyncSharedStateCompleteConsensus(r, g)
  <2>1. \A c \in Members(r, g) : r.state[c] = "VOTE_COMPLETE_SHARED_STATE_SYNC"
    BY ZenonT(30), <1>1, SyncVoteUnanimous
  <2>2. Consistent(q)
    BY ZenonT(30), <2>1, EndSyncConsistent
  <2>3. \E A, H, U, D, W, P :
            q = [r EXCEPT !.state = [c \in Peers |-> IF c \in Members(r, g) THEN "IDLE" ELSE r.state[c]],
                          !.sync = [r.sync EXCEPT !.mask[g] = <<>>, !.candidates[g] = A,
                                        !.entries = {v \in r.sync.entries : PeerGroup[v.peer] # g},
                                        !.hashes[g] = H, !.status = U, !.dirty = D,
                                        !.votes_complete = P, !.strategy = W]]
    BY ZenonT(60) DEF EndSharedStateSyncPhase
  <2>4. PICK A, H, U, D, W, P :
            q = [r EXCEPT !.state = [c \in Peers |-> IF c \in Members(r, g) THEN "IDLE" ELSE r.state[c]],
                          !.sync = [r.sync EXCEPT !.mask[g] = <<>>, !.candidates[g] = A,
                                        !.entries = {v \in r.sync.entries : PeerGroup[v.peer] # g},
                                        !.hashes[g] = H, !.status = U, !.dirty = D,
                                        !.votes_complete = P, !.strategy = W]]
    BY ZenonT(30), <2>3
  <2> DEFINE X == [c \in Peers |-> IF c \in Members(r, g) THEN "IDLE" ELSE r.state[c]]
             y == [r.sync EXCEPT !.mask[g] = <<>>, !.candidates[g] = A,
                                 !.entries = {v \in r.sync.entries : PeerGroup[v.peer] # g},
                                 !.hashes[g] = H, !.status = U, !.dirty = D,
                                 !.votes_complete = P, !.strategy = W]
  <2>5. q = [r EXCEPT !.state = X, !.sync = y]
    BY ZenonT(30), <2>4
  <2>6. /\ r.sync \in SyncStates
        /\ r.sync.mask \in [Groups -> SharedStates \cup {<<>>}]
    BY ZenonT(30) DEF Consistent, Typed, MasterStates, SyncStates
  <2>7. /\ y.entries = {v \in r.sync.entries : PeerGroup[v.peer] # g}
        /\ y.next_revision = r.sync.next_revision
        /\ y.mask = [r.sync.mask EXCEPT ![g] = <<>>]
    BY ZenonT(30), <2>6 DEF SyncStates
  <2>8. /\ \A c \in Members(r, g) : X[c] = "IDLE"
        /\ \A c \in Peers \ Members(r, g) : X[c] = r.state[c]
    BY ZenonT(30) DEF Members, Accepted
  <2> HIDE DEF X, y, q
  <2>9. q.phase = r.phase /\ q.query = r.query /\ q.coll = r.coll /\ q.state = X /\ q.sync = y
    BY ZenonT(30), <2>5 DEF Consistent, Typed, MasterStates
  <2>10. Same(z, q)
    <3>1. z = Send(q, [x \in Members(q, g) \X {<<"synced", 0>>} |-> TRUE])
      BY ZenonT(30), <1>1 DEF CheckSyncSharedStateCompleteConsensus, q
    <3>2. \A batch : Same(Send(q, batch), q)
      BY ZenonT(30), <2>2, PlainSame
    <3> QED
      BY ZenonT(30), <3>1, <3>2
  <2>11. /\ z.phase = r.phase /\ z.query = r.query /\ z.coll = r.coll /\ z.state = X
         /\ z.sync.next_revision = r.sync.next_revision
         /\ z.sync.entries = {v \in r.sync.entries : PeerGroup[v.peer] # g}
    BY ZenonT(30), <2>7, <2>9, <2>10 DEF Same
  <2>12. \A h \in Groups \ {g} : z.sync.mask[h] = r.sync.mask[h]
    BY ZenonT(30), <2>6, <2>7, <2>9, <2>10 DEF Same
  <2> QED
    BY ZenonT(30), <2>1, <2>8, <2>11, <2>12 DEF SyncClosed
<1>2. CASE ~SyncSharedStateCompleteConsensus(r, g)
  <2>1. z = r
    BY ZenonT(30), <1>2 DEF CheckSyncSharedStateCompleteConsensus
  <2>2. SyncOpen(r, g)
    <3> SUFFICES ASSUME \A c \in Members(r, g) : r.state[c] = "VOTE_COMPLETE_SHARED_STATE_SYNC"
                 PROVE  FALSE
      BY ZenonT(30) DEF SyncOpen
    <3> DEFINE V == {c \in In(r, {"VOTE_COMPLETE_SHARED_STATE_SYNC"}) : PeerGroup[c] = g}
    <3>1. \A c \in Peers \ Accepted(r) : r.state[c] \in ConnectingStates
      BY ZenonT(30) DEF Consistent, AcceptedMatch
    <3>2. V = Members(r, g)
      BY ZenonT(30), <3>1 DEF In, Registered, Members, Accepted, ConnectingStates
    <3>3. r.sync.votes_complete \cap InGroup(g) = V
      BY ZenonT(30) DEF Consistent, VotesMatch, In, Registered, InGroup
    <3> QED
      BY ZenonT(30), <1>2, <3>2, <3>3 DEF SyncSharedStateCompleteConsensus
  <2> QED
    BY ZenonT(30), <2>1, <2>2
<1> QED
  BY ZenonT(30), <1>1, <1>2

\* checkSyncSharedStateCompleteConsensus closes the vote of the group; a round that has just
\* begun is not over.
LEMMA CheckSyncCompleteUnison ==
    ASSUME Countable, NEW r, Consistent(r), NEW g \in Groups, Unison(r)
    PROVE  LET z == CheckSyncSharedStateCompleteConsensus(r, g)
           IN  /\ Unison(z)
               /\ EstablishOpen(r) => EstablishOpen(z)
               /\ QueryOpen(r) => QueryOpen(z)
               /\ SyncOpen(z, g)
               /\ \A h \in Groups : /\ SyncOpen(r, h) => SyncOpen(z, h)
                                    /\ \A t \in Tags : OperationOpen(r, h, t) => OperationOpen(z, h, t)
               /\ z.sync.next_revision = r.sync.next_revision
               /\ Started(r, g) => Started(z, g)
               /\ \A c \in Peers : z.state[c] \in {r.state[c], "IDLE"}
<1> DEFINE z == CheckSyncSharedStateCompleteConsensus(r, g)
<1>1. CASE z = r /\ SyncOpen(r, g)
  BY ZenonT(30), <1>1
<1>2. CASE SyncClosed(z, r, g)
  <2> HIDE DEF z
  <2>1. \A h : Members(z, h) = Members(r, h)
    BY ZenonT(30), <1>2 DEF Members, Accepted, SyncClosed
  <2>2. \A c \in Members(r, g) : c \in Peers
    BY ZenonT(30) DEF Members, Accepted
  <2>3. GroupStep(z, r, g)
    BY ZenonT(30), <1>2 DEF GroupStep, Fixed, Connecting, Late, Optimizing, SyncClosed
  <2>4. \A c \in Members(r, g), t \in Tags : r.coll[c][t] = "NONE"
    BY <1>2, <2>2, NoOperation DEF SyncClosed
  <2>5. GroupTogether(z, g)
    BY ZenonT(30), <1>2, <2>1, <2>4 DEF GroupTogether, Distributing, SyncClosed
  <2>6. GroupHeld(z, g)
    BY ZenonT(30), <1>2, <2>1 DEF GroupHeld, SyncClosed
  <2>7. SyncOpen(z, g)
    BY ZenonT(30), <1>2, <2>1 DEF SyncOpen, SyncClosed
  <2>8. \A h \in Groups : \A t \in Tags : OperationOpen(r, h, t) => OperationOpen(z, h, t)
    BY ZenonT(30), <1>2, <2>1 DEF OperationOpen, SyncClosed
  <2>9. ~Started(r, g)
    BY ZenonT(30), <1>2 DEF Started, SyncClosed
  <2>10. \A c \in Peers : z.state[c] \in {r.state[c], "IDLE"}
    BY ZenonT(30), <1>2 DEF SyncClosed
  <2>11. /\ Unison(z)
         /\ EstablishOpen(r) => EstablishOpen(z)
         /\ QueryOpen(r) => QueryOpen(z)
         /\ \A h \in Groups \ {g} : SyncOpen(r, h) => SyncOpen(z, h)
    BY ZenonT(30), <2>3, <2>5, <2>6, GroupStepUnison
  <2> QED
    BY ZenonT(30), <1>2, <2>7, <2>8, <2>9, <2>10, <2>11 DEF z, SyncClosed
<1>3. (z = r /\ SyncOpen(r, g)) \/ SyncClosed(z, r, g)
  BY ZenonT(30), CheckSyncCompleteEffect
<1> QED
  BY ZenonT(30), <1>1, <1>2, <1>3

\* What a step may do to the revisions: begin with any, and count rounds.
RoundsCounted(z, r) ==
    \A g \in Groups :
        /\ r.sync.next_revision[g] # 0
        /\ z.sync.next_revision[g] # r.sync.next_revision[g]
        => z.sync.next_revision[g] = r.sync.next_revision[g] + 1 /\ Started(z, g)

Advanced(z, r) == Unison(z) /\ Open(z) /\ RoundsCounted(z, r)

\* A step that does not touch the revisions counts none.
LEMMA KeptAdvanced ==
    ASSUME NEW r, NEW z, Kept(z, r)
    PROVE  Advanced(z, r)
BY ZenonT(30) DEF Kept, Advanced, RoundsCounted

\* A step that changes no client may follow.
LEMMA AdvancedSame ==
    ASSUME NEW r, NEW q, NEW z, Advanced(q, r), Same(z, q)
    PROVE  Advanced(z, r)
<1>1. Unison(z) /\ Open(z)
  BY ZenonT(30), SameKeeps DEF Advanced
<1>2. \A g : Members(z, g) = Members(q, g)
  BY ZenonT(30) DEF Same, Members, Accepted
<1> QED
  BY ZenonT(30), <1>1, <1>2 DEF Advanced, RoundsCounted, Started, Same

\* voteDistSharedStateComplete leaves the client among those that distribute.
LEMMA VoteSyncCompleteUnison ==
    ASSUME NEW r, Consistent(r), Unison(r), NEW c \in Peers, CanVoteSyncComplete(r, c)
    PROVE  LET z == VoteDistSharedStateComplete(r, c)
               g == PeerGroup[c]
           IN  /\ Unison(z)
               /\ EstablishOpen(r) => EstablishOpen(z)
               /\ QueryOpen(r) => QueryOpen(z)
               /\ \A h \in Groups \ {g} : SyncOpen(r, h) => SyncOpen(z, h)
               /\ \A h \in Groups : \A t \in Tags : OperationOpen(r, h, t) => OperationOpen(z, h, t)
               /\ z.sync.next_revision = r.sync.next_revision
<1> DEFINE z == VoteDistSharedStateComplete(r, c)
           g == PeerGroup[c]
           y == [r.sync EXCEPT !.votes_complete = @ \cup {c}]
<1>1. r.state \in [Peers -> ConnectionStates] /\ r.sync \in SyncStates /\ g \in Groups
  BY ZenonT(30) DEF Consistent, Typed, MasterStates, Groups
<1>2. y.entries = r.sync.entries /\ y.mask = r.sync.mask /\ y.next_revision = r.sync.next_revision
  BY ZenonT(30), <1>1 DEF SyncStates
<1>3. z = [r EXCEPT !.state[c] = "VOTE_COMPLETE_SHARED_STATE_SYNC", !.sync = y]
  BY ZenonT(30) DEF VoteDistSharedStateComplete, Consistent, Typed, MasterStates
<1> HIDE DEF y, z, g
<1>4. /\ z.phase = r.phase /\ z.query = r.query /\ z.coll = r.coll /\ z.sync = y
      /\ z.state = [r.state EXCEPT ![c] = "VOTE_COMPLETE_SHARED_STATE_SYNC"]
  BY ZenonT(30), <1>3 DEF Consistent, Typed, MasterStates
<1>5. c \in Members(r, g) /\ r.state[c] \in {"DISTRIBUTE_SHARED_STATE", "REQUEST_SHARED_STATE"}
  BY ZenonT(30) DEF CanVoteSyncComplete, Members, Accepted, g
<1>6. z.state[c] = "VOTE_COMPLETE_SHARED_STATE_SYNC" /\ \A e \in Peers \ {c} : z.state[e] = r.state[e]
  BY ZenonT(30), <1>1, <1>4
<1>7. \A h : Members(z, h) = Members(r, h) /\ Members(r, h) \subseteq Peers
  BY ZenonT(30), <1>4 DEF Members, Accepted
<1>8. GroupTogether(r, g) /\ GroupHeld(r, g)
  BY ZenonT(30), UnisonOfGroup
<1>9. GroupStep(z, r, g)
  BY ZenonT(30), <1>2, <1>4, <1>5, <1>6, <1>7 DEF GroupStep, Fixed, Connecting, Late, Optimizing
<1>10. GroupTogether(z, g)
  <2>1. \A e \in Members(r, g) : r.state[e] \in Distributing \cup Late
    BY ZenonT(30), <1>5, <1>8 DEF GroupTogether, Distributing
  <2>2. \A e \in Members(r, g) : z.state[e] \in Distributing \cup Late
    BY ZenonT(30), <1>6, <1>7, <2>1 DEF Distributing
  <2>3. \A e \in Members(r, g) : r.state[e] \in Late => z.state[e] \in Late
    BY ZenonT(30), <1>5, <1>6, <1>7 DEF Late
  <2> QED
    BY ZenonT(30), <1>4, <1>7, <1>8, <2>2, <2>3 DEF GroupTogether
<1>11. GroupHeld(z, g)
  BY ZenonT(30), <1>2, <1>4, <1>6, <1>7, <1>8 DEF GroupHeld
<1>12. \A h \in Groups : \A t \in Tags : OperationOpen(r, h, t) => OperationOpen(z, h, t)
  BY ZenonT(30), <1>4, <1>7 DEF OperationOpen
<1>13. /\ Unison(z)
       /\ EstablishOpen(r) => EstablishOpen(z)
       /\ QueryOpen(r) => QueryOpen(z)
       /\ \A h \in Groups \ {g} : SyncOpen(r, h) => SyncOpen(z, h)
  BY ZenonT(30), <1>1, <1>9, <1>10, <1>11, GroupStepUnison
<1> QED
  BY ZenonT(30), <1>2, <1>4, <1>12, <1>13 DEF z, g

\* handleSyncSharedStateComplete.
LEMMA SyncSharedStateCompleteKept ==
    ASSUME Countable, NEW r, Consistent(r), Unison(r), Open(r), NEW c \in Peers,
           NEW z \in HandleSyncSharedStateComplete(r, c)
    PROVE  Kept(z, r)
<1> DEFINE v == VoteDistSharedStateComplete(r, c)
           g == PeerGroup[c]
<1>1. g \in Groups
  BY ZenonT(30) DEF Groups
<1>2. CASE CanVoteSyncComplete(r, c)
  <2>1. Consistent(v)
    BY ZenonT(30), <1>2, VoteSyncCompleteConsistent
  <2>2. /\ Unison(v) /\ EstablishOpen(v) /\ QueryOpen(v)
        /\ \A h \in Groups \ {g} : SyncOpen(v, h)
        /\ \A h \in Groups : \A t \in Tags : OperationOpen(v, h, t)
        /\ v.sync.next_revision = r.sync.next_revision
    BY ZenonT(30), <1>2, VoteSyncCompleteUnison DEF Open
  <2>3. z = CheckSyncSharedStateCompleteConsensus(v, g)
    BY ZenonT(30), <1>2 DEF HandleSyncSharedStateComplete
  <2> HIDE DEF v, g
  <2>4. /\ Unison(z) /\ EstablishOpen(z) /\ QueryOpen(z)
        /\ SyncOpen(z, g)
        /\ \A h \in Groups \ {g} : SyncOpen(z, h)
        /\ \A h \in Groups : \A t \in Tags : OperationOpen(z, h, t)
        /\ z.sync.next_revision = v.sync.next_revision
    BY ZenonT(30), <1>1, <2>1, <2>2, <2>3, CheckSyncCompleteUnison
  <2> QED
    BY ZenonT(30), <2>2, <2>4 DEF Kept, Open
<1>3. CASE ~CanVoteSyncComplete(r, c)
  <2>1. z = Kick(r, c)
    BY ZenonT(30), <1>3 DEF HandleSyncSharedStateComplete
  <2> QED
    BY ZenonT(30), <2>1, KickSame, SameKept
<1> QED
  BY ZenonT(30), <1>2, <1>3

\* isNewRevisionLegal changes no client, and takes a revision if there is none.
LEMMA RecordRevisionEffect ==
    ASSUME NEW r, Consistent(r), NEW c \in Peers, NEW revision \in Nat
    PROVE  LET q == RecordRevision(r, c, revision)
           IN  /\ q.phase = r.phase /\ q.state = r.state /\ q.query = r.query /\ q.coll = r.coll
               /\ q.sync.entries = r.sync.entries /\ q.sync.mask = r.sync.mask
               /\ \A h \in Groups : \/ q.sync.next_revision[h] = r.sync.next_revision[h]
                                    \/ h = PeerGroup[c] /\ r.sync.next_revision[h] = 0
<1> DEFINE q == RecordRevision(r, c, revision)
           g == PeerGroup[c]
           n == [r.sync.next_revision EXCEPT ![g] = IF @ = 0 THEN revision ELSE @]
           y == [r.sync EXCEPT !.status[c] = IsNewRevisionLegal(r, c, revision),
                               !.next_revision[g] = IF @ = 0 THEN revision ELSE @]
<1>1. r.sync \in SyncStates
  BY ZenonT(30) DEF Consistent, Typed, MasterStates
<1>2. y.entries = r.sync.entries /\ y.mask = r.sync.mask /\ y.next_revision = n
  BY ZenonT(30), <1>1 DEF SyncStates
<1>3. \A h \in Groups : n[h] = r.sync.next_revision[h] \/ (h = g /\ r.sync.next_revision[h] = 0)
  BY ZenonT(30), <1>1 DEF SyncStates
<1>4. q = [r EXCEPT !.sync = y]
  BY ZenonT(30) DEF RecordRevision
<1> HIDE DEF q, n, y
<1>5. q.phase = r.phase /\ q.state = r.state /\ q.query = r.query /\ q.coll = r.coll /\ q.sync = y
  BY ZenonT(30), <1>4 DEF Consistent, Typed, MasterStates
<1> QED
  BY ZenonT(30), <1>2, <1>3, <1>5 DEF q

\* A revision that is taken by a client alone counts no round.
LEMMA RecordRevisionUnison ==
    ASSUME NEW r, Consistent(r), Unison(r), Open(r), NEW c \in Peers, NEW revision \in Nat
    PROVE  Advanced(RecordRevision(r, c, revision), r)
<1> DEFINE q == RecordRevision(r, c, revision)
           g == PeerGroup[c]
<1>1. /\ q.phase = r.phase /\ q.state = r.state /\ q.query = r.query /\ q.coll = r.coll
      /\ q.sync.entries = r.sync.entries /\ q.sync.mask = r.sync.mask
      /\ \A h \in Groups : \/ q.sync.next_revision[h] = r.sync.next_revision[h]
                           \/ h = g /\ r.sync.next_revision[h] = 0
  BY ZenonT(30), RecordRevisionEffect
<1> HIDE DEF q
<1>2. Accepted(q) = Accepted(r) /\ \A h : Members(q, h) = Members(r, h)
  BY ZenonT(30), <1>1 DEF Members, Accepted
<1>3. Unison(q)
  <2>1. Together(q)
    BY ZenonT(30), <1>1, <1>2 DEF Unison, Together
  <2>2. Held(q)
    BY ZenonT(30), <1>1, <1>2 DEF Unison, Held
  <2> QED
    BY ZenonT(30), <2>1, <2>2 DEF Unison
<1>4. Open(q)
  <2>1. EstablishOpen(q) /\ QueryOpen(q)
    BY ZenonT(30), <1>1, <1>2 DEF Open, EstablishOpen, QueryOpen
  <2>2. \A h \in Groups : SyncOpen(q, h)
    BY ZenonT(30), <1>1, <1>2 DEF Open, SyncOpen
  <2>3. \A h \in Groups, t \in Tags : OperationOpen(q, h, t)
    <3> SUFFICES ASSUME NEW h \in Groups, NEW t \in Tags
                 PROVE  OperationOpen(q, h, t)
      BY Zenon
    <3>1. OperationOpen(r, h, t)
      BY ZenonT(30) DEF Open
    <3> QED
      BY ZenonT(30), <1>1, <1>2, <3>1 DEF OperationOpen
  <2> QED
    BY ZenonT(30), <2>1, <2>2, <2>3 DEF Open
<1>5. RoundsCounted(q, r)
  BY ZenonT(30), <1>1 DEF RoundsCounted
<1> QED
  BY ZenonT(30), <1>3, <1>4, <1>5 DEF Advanced, q

\* The vote of a client on the shared state.
VotedSync(v, r, c, hashes) ==
    /\ v.phase = r.phase /\ v.query = r.query /\ v.coll = r.coll
    /\ v.state = [r.state EXCEPT ![c] = "VOTE_SYNC_SHARED_STATE"]
    /\ v.sync.entries = r.sync.entries \cup {[peer |-> c, hashes |-> hashes]}
    /\ v.sync.mask = r.sync.mask
    /\ v.sync.next_revision = r.sync.next_revision

\* A vote on the shared state: the client is not idle any more, and its hashes are kept.
LEMMA VoteSyncEffect ==
    ASSUME NEW r, Consistent(r), NEW c \in Peers, NEW strategy \in Strategies,
           NEW hashes \in SharedStates, CanVoteSync(r, c)
    PROVE  VotedSync(VoteSharedStateMask(VoteSyncSharedState(r, c, strategy), c, hashes), r, c, hashes)
<1> DEFINE w == VoteSyncSharedState(r, c, strategy)
           v == VoteSharedStateMask(w, c, hashes)
           y == [r.sync EXCEPT !.votes = @ \cup {c}, !.strategy[c] = strategy]
<1>1. r.sync \in SyncStates
  BY DEF Consistent, Typed, MasterStates
<1>2. y.entries = r.sync.entries /\ y.mask = r.sync.mask /\ y.next_revision = r.sync.next_revision
  BY <1>1 DEF SyncStates
<1>3. w = [r EXCEPT !.state[c] = "VOTE_SYNC_SHARED_STATE", !.sync = y]
  BY DEF VoteSyncSharedState, Consistent, Typed, MasterStates
<1>4. Consistent(w)
  BY VoteSyncConsistent
<1> HIDE DEF y, w
<1>5. /\ w.phase = r.phase /\ w.query = r.query /\ w.coll = r.coll /\ w.sync = y
      /\ w.state = [r.state EXCEPT ![c] = "VOTE_SYNC_SHARED_STATE"]
  BY <1>3 DEF Consistent, Typed, MasterStates
<1> DEFINE vote == [peer |-> c, hashes |-> hashes]
           K == IF w.sync.strategy[c] = "rx_only" THEN w.sync.candidates[PeerGroup[c]]
                ELSE Append(w.sync.candidates[PeerGroup[c]], vote)
           x == [w.sync EXCEPT !.candidates[PeerGroup[c]] = K, !.entries = @ \cup {vote}]
<1>6. v = [w EXCEPT !.sync = x]
  BY ZenonT(30) DEF VoteSharedStateMask
<1> HIDE DEF K, vote
<1>7. w.sync \in SyncStates
  BY <1>4 DEF Consistent, Typed, MasterStates
<1>8. /\ x.entries = w.sync.entries \cup {vote} /\ x.mask = w.sync.mask
      /\ x.next_revision = w.sync.next_revision
  BY <1>7 DEF SyncStates
<1> HIDE DEF x, v
<1>9. v.phase = w.phase /\ v.query = w.query /\ v.coll = w.coll /\ v.state = w.state /\ v.sync = x
  BY ZenonT(30), <1>4, <1>6 DEF Consistent, Typed, MasterStates
<1> QED
  BY ZenonT(30), <1>2, <1>5, <1>8, <1>9 DEF VotedSync, v, w, vote

\* A vote on the shared state is cast by an idle client, so nobody in the group distributes.
LEMMA VoteSyncUnison ==
    ASSUME NEW r, Consistent(r), Unison(r), Open(r), NEW c \in Peers, NEW strategy \in Strategies,
           NEW hashes \in SharedStates, CanVoteSync(r, c)
    PROVE  Kept(VoteSharedStateMask(VoteSyncSharedState(r, c, strategy), c, hashes), r)
<1> DEFINE v == VoteSharedStateMask(VoteSyncSharedState(r, c, strategy), c, hashes)
           g == PeerGroup[c]
<1>1. /\ v.phase = r.phase /\ v.query = r.query /\ v.coll = r.coll
      /\ v.state = [r.state EXCEPT ![c] = "VOTE_SYNC_SHARED_STATE"]
      /\ v.sync.entries = r.sync.entries \cup {[peer |-> c, hashes |-> hashes]}
      /\ v.sync.mask = r.sync.mask
      /\ v.sync.next_revision = r.sync.next_revision
  <2>1. VotedSync(v, r, c, hashes)
    BY ZenonT(30), VoteSyncEffect
  <2> HIDE DEF v
  <2> QED
    BY ZenonT(30), <2>1 DEF VotedSync
<1> HIDE DEF v, g
<1>2. r.state \in [Peers -> ConnectionStates] /\ g \in Groups
  BY ZenonT(30) DEF Consistent, Typed, MasterStates, Groups, g
<1>3. c \in Members(r, g) /\ r.state[c] = "IDLE"
  BY ZenonT(30) DEF CanVoteSync, Members, Accepted, g
<1>4. v.state[c] = "VOTE_SYNC_SHARED_STATE" /\ \A e \in Peers \ {c} : v.state[e] = r.state[e]
  BY ZenonT(30), <1>1, <1>2
<1>5. \A h : Members(v, h) = Members(r, h) /\ Members(r, h) \subseteq Peers
  BY ZenonT(30), <1>1 DEF Members, Accepted
<1>6. GroupTogether(r, g) /\ GroupHeld(r, g)
  BY ZenonT(30), UnisonOfGroup
<1>7. GroupStep(v, r, g)
  <2>1. \A u : PeerGroup[u.peer] # g => (u \in v.sync.entries <=> u \in r.sync.entries)
    BY <1>1 DEF g
  <2>2. \A e \in Members(r, g) : v.state[e] = r.state[e] \/ {r.state[e], v.state[e]} \cap Fixed = {}
    BY ZenonT(30), <1>3, <1>4, <1>5 DEF Fixed, Connecting, Late, Optimizing
  <2> QED
    BY ZenonT(30), <1>1, <1>3, <1>4, <2>1, <2>2 DEF GroupStep
<1>8. GroupTogether(v, g)
  <2>1. \A e \in Members(r, g) : r.state[e] \notin Distributing
    BY ZenonT(30), <1>3, <1>6 DEF GroupTogether, Distributing, Late
  <2>2. \A e \in Members(r, g) : v.state[e] \notin Distributing
    BY ZenonT(30), <1>4, <1>5, <2>1 DEF Distributing
  <2>3. \A e \in Members(r, g) : r.state[e] \in Late => v.state[e] \in Late
    BY ZenonT(30), <1>3, <1>4, <1>5 DEF Late
  <2> QED
    BY ZenonT(30), <1>1, <1>5, <1>6, <2>2, <2>3 DEF GroupTogether
<1>9. GroupHeld(v, g)
  <2>1. \E u \in v.sync.entries : u.peer = c
    <3> DEFINE vote == [peer |-> c, hashes |-> hashes]
    <3>1. vote \in v.sync.entries /\ vote.peer = c
      BY ZenonT(30), <1>1
    <3> HIDE DEF vote
    <3> QED
      BY ZenonT(30), <3>1
  <2>2. v.sync.mask = r.sync.mask /\ \A u : u \in r.sync.entries => u \in v.sync.entries
    BY ZenonT(30), <1>1
  <2>3. \A e \in Members(v, g) : e \in Members(r, g) /\ e \in Peers
    BY ZenonT(30), <1>5
  <2>4. ASSUME NEW e \in Members(v, g), e # c
        PROVE  /\ v.state[e] = "VOTE_SYNC_SHARED_STATE" => \E u \in v.sync.entries : u.peer = e
               /\ v.state[e] = "DISTRIBUTE_SHARED_STATE" =>
                      HoldsElected(e, v.sync.mask[g], v.sync.entries)
    <3>1. \A mask : HoldsElected(e, mask, r.sync.entries) => HoldsElected(e, mask, v.sync.entries)
      BY ZenonT(30), <2>2 DEF HoldsElected
    <3> QED
      BY ZenonT(30), <1>4, <1>6, <2>2, <2>3, <2>4, <3>1 DEF GroupHeld
  <2> QED
    BY ZenonT(30), <1>4, <2>1, <2>4 DEF GroupHeld
<1>10. SyncOpen(v, g)
  BY ZenonT(30), <1>3, <1>4, <1>5 DEF SyncOpen
<1>11. \A h \in Groups : \A t \in Tags : OperationOpen(r, h, t) => OperationOpen(v, h, t)
  BY ZenonT(30), <1>1, <1>5 DEF OperationOpen
<1>12. /\ Unison(v)
       /\ EstablishOpen(r) => EstablishOpen(v)
       /\ QueryOpen(r) => QueryOpen(v)
       /\ \A h \in Groups \ {g} : SyncOpen(r, h) => SyncOpen(v, h)
  BY ZenonT(30), <1>2, <1>7, <1>8, <1>9, GroupStepUnison
<1> QED
  BY ZenonT(30), <1>1, <1>10, <1>11, <1>12 DEF Kept, Open, v

\* handleSyncSharedState.
LEMMA SyncSharedStateAdvanced ==
    ASSUME Countable, NEW r, Consistent(r), Unison(r), Open(r), NEW c \in Peers, NEW revision \in Nat,
           NEW strategy \in Strategies, NEW hashes \in SharedStates,
           NEW z \in HandleSyncSharedState(r, c, revision, strategy, hashes)
    PROVE  Advanced(z, r)
<1> DEFINE g == PeerGroup[c]
           q == RecordRevision(r, c, revision)
           w == VoteSyncSharedState(q, c, strategy)
           v == VoteSharedStateMask(w, c, hashes)
<1>1. g \in Groups
  BY ZenonT(30) DEF Groups
<1>2. z \in IF c \notin Registered(r) THEN {Kick(r, c)}
            ELSE IF q.sync.status[c] = "REVISION_INCREMENT_VIOLATION" \/ ~CanVoteSync(q, c)
            THEN {Kick(q, c)}
            ELSE CheckSyncSharedStateConsensus(v, g, [v EXCEPT !.cut = v.cut \cup Members(v, g)])
  BY ZenonT(30) DEF HandleSyncSharedState
<1>3. Consistent(q) /\ Advanced(q, r)
  BY ZenonT(30), RecordRevisionConsistent, RecordRevisionUnison
<1>4. \A h \in Groups : q.sync.next_revision[h] = r.sync.next_revision[h] \/ r.sync.next_revision[h] = 0
  BY ZenonT(30), RecordRevisionEffect
<1> HIDE DEF q, g
<1>5. z = Kick(r, c) => Advanced(z, r)
  BY ZenonT(30), KickSame, SameKept, KeptAdvanced
<1>6. z = Kick(q, c) => Advanced(z, r)
  BY ZenonT(30), <1>3, KickSame, AdvancedSame
<1>7. CASE z # Kick(r, c) /\ z # Kick(q, c)
  <2>1. /\ CanVoteSync(q, c)
        /\ z \in CheckSyncSharedStateConsensus(v, g, [v EXCEPT !.cut = v.cut \cup Members(v, g)])
    BY ZenonT(30), <1>2, <1>7
  <2>2. Consistent(w)
    BY ZenonT(30), <1>3, <2>1, VoteSyncConsistent
  <2>3. Consistent(v)
    BY ZenonT(30), <2>2, VoteMaskConsistent
  <2>4. Kept(v, q)
    BY ZenonT(30), <1>3, <2>1, VoteSyncUnison DEF Advanced
  <2> HIDE DEF v, w
  <2>5. \A h \in Groups : v.sync.next_revision[h] = r.sync.next_revision[h] \/ r.sync.next_revision[h] = 0
    BY ZenonT(30), <1>4, <2>4 DEF Kept
  <2>6. Same([v EXCEPT !.cut = v.cut \cup Members(v, g)], v)
    BY ZenonT(30), <2>3, PlainSame
  <2>7. SyncEffect(z, v, g)
    <3>1. GroupHeld(v, g)
      BY ZenonT(30), <2>4, UnisonOfGroup DEF Kept
    <3> QED
      BY ZenonT(30), <1>1, <2>1, <2>3, <2>6, <3>1, CheckSyncEffect
  <2>8. Unison(z) /\ Open(z)
    <3>1. Unison(v) /\ Open(v)
      BY ZenonT(30), <2>4 DEF Kept
    <3>2. /\ Unison(z)
          /\ EstablishOpen(v) => EstablishOpen(z)
          /\ QueryOpen(v) => QueryOpen(z)
          /\ \A h \in Groups : /\ SyncOpen(v, h) => SyncOpen(z, h)
                               /\ \A t \in Tags : OperationOpen(v, h, t) => OperationOpen(z, h, t)
      BY ZenonT(30), <1>1, <2>1, <2>3, <2>6, <3>1, CheckSyncUnison
    <3> QED
      BY ZenonT(30), <3>1, <3>2 DEF Open
  <2>9. RoundsCounted(z, r)
    BY ZenonT(30), <2>5, <2>7 DEF RoundsCounted, SyncEffect
  <2> QED
    BY ZenonT(30), <2>8, <2>9 DEF Advanced
<1> QED
  BY ZenonT(30), <1>5, <1>6, <1>7

=============================================================================
