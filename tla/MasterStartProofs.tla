------------------------- MODULE MasterStartProofs -------------------------
(***************************************************************************)
(* The master begins a synchronization in the step in which its last       *)
(* member votes for it, or the last one that had not voted leaves.         *)
(*                                                                         *)
(* A vote that is open stays open through every operator in which nobody   *)
(* leaves or votes to synchronize (Quiet). The votes and the departures,   *)
(* which may close it, end in the check for consensus, which begins the    *)
(* synchronization when there is something to elect.                       *)
(***************************************************************************)
EXTENDS MasterProofs

\* The provers get more time than by default.
USE SMTT(20)

-----------------------------------------------------------------------------
(* The vote that starts a synchronization *)

\* The members of g have not all voted to synchronize, or one is being kicked, or there is
\* nothing to elect.
StartOpen(r, g) ==
    Members(r, g) # {} =>
        \/ \E c \in Members(r, g) : r.state[c] # "VOTE_SYNC_SHARED_STATE" \/ c \in r.cut
        \/ ~Electable(r, g)

\* Nobody leaves or votes to synchronize, nobody is spared, and no contents are voted with.
Quiet(z, r) ==
    /\ Accepted(r) \subseteq Accepted(z)
    /\ \A c \in Accepted(z) : z.state[c] = "VOTE_SYNC_SHARED_STATE" =>
           c \in Accepted(r) /\ r.state[c] = "VOTE_SYNC_SHARED_STATE"
    /\ r.cut \subseteq z.cut
    /\ \A h \in Groups : z.sync.candidates[h] \in {r.sync.candidates[h], <<>>}

\* Then the vote stays open.
LEMMA QuietOpen ==
    ASSUME NEW r, NEW z, Quiet(z, r), NEW g \in Groups, StartOpen(r, g)
    PROVE  StartOpen(z, g)
<1> SUFFICES ASSUME Members(z, g) # {},
                    \A c \in Members(z, g) : z.state[c] = "VOTE_SYNC_SHARED_STATE" /\ c \notin z.cut,
                    Electable(z, g)
             PROVE  FALSE
  BY ZenonT(30) DEF StartOpen
<1>1. Members(r, g) = Members(z, g)
  BY ZenonT(30) DEF Quiet, Members
<1>2. \A c \in Members(r, g) : r.state[c] = "VOTE_SYNC_SHARED_STATE" /\ c \notin r.cut
  BY ZenonT(30), <1>1 DEF Quiet, Members
<1>3. z.sync.candidates[g] = r.sync.candidates[g]
  BY ZenonT(30) DEF Quiet, Electable
<1>4. Electable(r, g)
  BY ZenonT(30), <1>3 DEF Electable
<1> QED
  BY ZenonT(30), <1>1, <1>2, <1>4 DEF StartOpen

\* Steps may follow each other.
LEMMA QuietTwice ==
    ASSUME NEW r, NEW q, NEW z, Quiet(q, r), Quiet(z, q)
    PROVE  Quiet(z, r)
BY ZenonT(30) DEF Quiet

\* A step may move clients to another state.
LEMMA QuietMove ==
    ASSUME NEW r, NEW z, z.phase = r.phase, z.sync = r.sync, r.cut \subseteq z.cut,
           \A c \in Peers : z.state[c] = r.state[c] \/ z.state[c] # "VOTE_SYNC_SHARED_STATE"
    PROVE  Quiet(z, r)
BY ZenonT(30) DEF Quiet, Accepted

\* Fields the vote does not depend on.
LEMMA QuietFields ==
    ASSUME NEW r, Consistent(r)
    PROVE  /\ Quiet(r, r) /\ Quiet(Delivered(r), r)
           /\ \A batch : Quiet(Send(r, batch), r)
           /\ \A c : Quiet(Kick(r, c), r)
           /\ \A b : Quiet([r EXCEPT !.peer_dropped = b], r)
           /\ \A Q : Quiet([r EXCEPT !.query = Q], r)
           /\ \A b : Quiet([r EXCEPT !.bandwidth = b], r)
           /\ \A U : Quiet([r EXCEPT !.unreachable = U], r)
           /\ \A I : Quiet([r EXCEPT !.prev_info = I], r)
           /\ \A n : Quiet([r EXCEPT !.seq_nr = n], r)
           /\ \A A : Quiet([r EXCEPT !.aborted = A], r)
           /\ \A f : Quiet([r EXCEPT !.coll = f], r)
<1> DEFINE As(z) == z.phase = r.phase /\ z.state = r.state /\ z.sync = r.sync /\ r.cut \subseteq z.cut
<1>1. \A z : As(z) => Quiet(z, r)
  BY ZenonT(30), QuietMove
<1>2. As(r) /\ As(Delivered(r)) /\ \A batch : As(Send(r, batch))
  BY ZenonT(30) DEF Consistent, Typed, MasterStates, Delivered, Send
<1>3. \A c : As(Kick(r, c))
  BY ZenonT(30) DEF Consistent, Typed, MasterStates, Kick
<1>4. /\ \A b : As([r EXCEPT !.peer_dropped = b])
      /\ \A Q : As([r EXCEPT !.query = Q])
      /\ \A b : As([r EXCEPT !.bandwidth = b])
      /\ \A U : As([r EXCEPT !.unreachable = U])
  BY ZenonT(30) DEF Consistent, Typed, MasterStates
<1>5. /\ \A I : As([r EXCEPT !.prev_info = I])
      /\ \A n : As([r EXCEPT !.seq_nr = n])
      /\ \A A : As([r EXCEPT !.aborted = A])
      /\ \A f : As([r EXCEPT !.coll = f])
  BY ZenonT(30) DEF Consistent, Typed, MasterStates
<1> HIDE DEF As
<1> QED
  BY ZenonT(30), <1>1, <1>2, <1>3, <1>4, <1>5

\* The rings and the topology optimization tasks.
LEMMA QuietRings ==
    ASSUME NEW r, Consistent(r)
    PROVE  /\ \A R, O : Quiet([r EXCEPT !.ring = R, !.optimal = O], r)
           /\ \A R, O, T : Quiet([r EXCEPT !.ring = R, !.optimal = O, !.task = T], r)
           /\ \A T : Quiet([r EXCEPT !.task = T], r)
           /\ \A G, i : Quiet(GetRingTopology(r, G, i), r)
           /\ \A g, t, o : Quiet(SetRingTopology(r, g, t, o), r)
<1> DEFINE As(z) == z.phase = r.phase /\ z.state = r.state /\ z.sync = r.sync /\ r.cut \subseteq z.cut
<1>1. \A z : As(z) => Quiet(z, r)
  BY ZenonT(30), QuietMove
<1>2. /\ \A R, O : As([r EXCEPT !.ring = R, !.optimal = O])
      /\ \A R, O, T : As([r EXCEPT !.ring = R, !.optimal = O, !.task = T])
      /\ \A T : As([r EXCEPT !.task = T])
  BY ZenonT(30) DEF Consistent, Typed, MasterStates
<1>3. \A G, i : As(GetRingTopology(r, G, i))
  BY ZenonT(30) DEF Consistent, Typed, MasterStates, GetRingTopology
<1>4. \A g, t, o : As(SetRingTopology(r, g, t, o))
  BY ZenonT(30) DEF Consistent, Typed, MasterStates, SetRingTopology
<1> HIDE DEF As
<1> QED
  BY ZenonT(30), <1>1, <1>2, <1>3, <1>4

\* sendP2PConnectionInformation, sendP2PConnectionsEstablished.
LEMMA QuietInformation ==
    ASSUME NEW r, Consistent(r), NEW i
    PROVE  Quiet(SendP2PConnectionInformation(r, i), r) /\ Quiet(SendP2PConnectionsEstablished(r, i), r)
<1>1. \E G, I, batch : SendP2PConnectionInformation(r, i) =
                           Send([GetRingTopology(r, G, i) EXCEPT !.prev_info = I], batch)
  BY ZenonT(30) DEF SendP2PConnectionInformation
<1>2. \E G, batch : SendP2PConnectionsEstablished(r, i) = Send(GetRingTopology(r, G, FALSE), batch)
  BY ZenonT(30) DEF SendP2PConnectionsEstablished
<1>3. ASSUME NEW G, NEW I, NEW b, NEW batch
      PROVE  LET q == GetRingTopology(r, G, b)
                 p == [q EXCEPT !.prev_info = I]
             IN  Quiet(Send(p, batch), r) /\ Quiet(Send(q, batch), r)
  <2> DEFINE q == GetRingTopology(r, G, b)
             p == [q EXCEPT !.prev_info = I]
             z == Send(p, batch)
  <2>1. Consistent(q) /\ Quiet(q, r)
    BY ZenonT(30), GetRingTopologyConsistent, QuietRings
  <2> HIDE DEF q
  <2>2. z.phase = q.phase /\ z.state = q.state /\ z.sync = q.sync /\ z.cut = q.cut
    BY ZenonT(30), <2>1 DEF Consistent, Typed, MasterStates, Send
  <2>3. Quiet(z, q) /\ Quiet(Send(q, batch), q)
    BY ZenonT(30), <2>1, <2>2, QuietMove, QuietFields
  <2> QED
    BY ZenonT(30), <2>1, <2>3, QuietTwice DEF q
<1>4. Quiet(SendP2PConnectionInformation(r, i), r)
  <2>1. PICK G, I, batch : SendP2PConnectionInformation(r, i) =
                               Send([GetRingTopology(r, G, i) EXCEPT !.prev_info = I], batch)
    BY ZenonT(30), <1>1
  <2>2. Quiet(Send([GetRingTopology(r, G, i) EXCEPT !.prev_info = I], batch), r)
    BY ZenonT(30), <1>3
  <2> QED
    BY ZenonT(30), <2>1, <2>2
<1>5. Quiet(SendP2PConnectionsEstablished(r, i), r)
  <2>1. PICK G, batch : SendP2PConnectionsEstablished(r, i) = Send(GetRingTopology(r, G, FALSE), batch)
    BY ZenonT(30), <1>2
  <2>2. Quiet(Send(GetRingTopology(r, G, FALSE), batch), r)
    BY ZenonT(30), <1>3
  <2> QED
    BY ZenonT(30), <2>1, <2>2
<1> QED
  BY ZenonT(30), <1>4, <1>5

\* checkEstablishP2PConnectionConsensus.
LEMMA QuietEstablish ==
    ASSUME NEW r, Consistent(r)
    PROVE  Quiet(CheckEstablishP2PConnectionConsensus(r), r)
<1>1. ASSUME NEW q, Consistent(q), NEW b \in BOOLEAN,
             IF b THEN AcceptNewPeersConsensus(q) ELSE NoAcceptNewPeersConsensus(q)
      PROVE  Quiet(StartP2PPhase(q, b), q) /\ Consistent(StartP2PPhase(q, b))
  <2> DEFINE p == [q EXCEPT !.peer_dropped = FALSE]
             m == TransitionToP2PEstablishmentPhase(p, b)
  <2>1. Consistent(p)
    BY ZenonT(30), <1>1, DroppedConsistent
  <2>2. p.phase = q.phase /\ p.state = q.state /\ p.sync = q.sync /\ p.cut = q.cut
    BY ZenonT(30), <1>1 DEF Consistent, Typed, MasterStates
  <2>3. StartP2PPhase(q, b) = SendP2PConnectionInformation(m, b)
    BY ZenonT(30) DEF StartP2PPhase
  <2> HIDE DEF p
  <2>4. (AcceptNewPeersConsensus(q) => AcceptNewPeersConsensus(p))
        /\ (NoAcceptNewPeersConsensus(q) => NoAcceptNewPeersConsensus(p))
    BY ZenonT(30), <2>2 DEF AcceptNewPeersConsensus, NoAcceptNewPeersConsensus, UnanimousIn, Registered
  <2>5. Consistent(m)
    BY ZenonT(30), <1>1, <2>1, <2>4, TransitionP2PConsistent
  <2>6. /\ m.phase = p.phase /\ m.sync = p.sync /\ m.cut = p.cut
        /\ \A c \in Peers : m.state[c] \in {"CONNECTING_TO_PEERS", p.state[c]}
    BY ZenonT(30), <2>1 DEF Consistent, Typed, MasterStates, TransitionToP2PEstablishmentPhase
  <2> HIDE DEF m
  <2>7. Quiet(m, q)
    BY ZenonT(30), <2>2, <2>6, QuietMove
  <2>8. Quiet(SendP2PConnectionInformation(m, b), m) /\ Consistent(SendP2PConnectionInformation(m, b))
    BY ZenonT(30), <2>5, QuietInformation, SendP2PConnectionInformationConsistent
  <2> QED
    BY ZenonT(30), <2>3, <2>7, <2>8, QuietTwice
<1> DEFINE a == IF AcceptNewPeersConsensus(r) THEN StartP2PPhase(r, TRUE) ELSE r
           z == CheckEstablishP2PConnectionConsensus(r)
<1>2. z = IF NoAcceptNewPeersConsensus(a) THEN StartP2PPhase(a, FALSE) ELSE a
  BY ZenonT(30) DEF CheckEstablishP2PConnectionConsensus
<1>3. Quiet(a, r) /\ Consistent(a)
  BY ZenonT(30), <1>1, QuietFields
<1> HIDE DEF a, z
<1>4. Quiet(z, a)
  BY ZenonT(30), <1>1, <1>2, <1>3, QuietFields
<1>5. Quiet(z, r)
  BY ZenonT(30), <1>3, <1>4, QuietTwice
<1> QED
  BY ZenonT(30), <1>5 DEF z

\* checkP2PConnectionsEstablished.
LEMMA QuietP2P ==
    ASSUME NEW r, Consistent(r), NEW z \in CheckP2PConnectionsEstablished(r)
    PROVE  Quiet(z, r)
<1> DEFINE waiting == In(r, {"WAITING_FOR_OTHER_PEERS"})
           p       == [r EXCEPT !.peer_dropped = FALSE]
<1>1. Consistent(p)
  BY ZenonT(30), DroppedConsistent
<1>2. p.phase = r.phase /\ p.state = r.state /\ p.sync = r.sync /\ p.cut = r.cut
  BY ZenonT(30) DEF Consistent, Typed, MasterStates
<1>3. \/ z = r
      \/ \E M \in SUBSET waiting, st \in {"IDLE", "CONNECTING_TO_PEERS_FAILED"} :
            \/ z = LeaveP2PPhase(p, M, st)
            \/ \E b : z = SendP2PConnectionsEstablished(LeaveP2PPhase(p, M, st), b)
  <2> DEFINE failure == r.peer_dropped \/ In(r, {"CONNECTING_TO_PEERS_FAILED"}) # {}
             st      == IF failure THEN "CONNECTING_TO_PEERS_FAILED" ELSE "IDLE"
  <2>1. st \in {"IDLE", "CONNECTING_TO_PEERS_FAILED"} /\ waiting \in SUBSET waiting
    BY ZenonT(30)
  <2>2. \/ z = r
        \/ \E M \in SUBSET waiting : z = LeaveP2PPhase(p, M, st)
        \/ z = SendP2PConnectionsEstablished(LeaveP2PPhase(p, waiting, st), ~failure)
    BY ZenonT(30) DEF CheckP2PConnectionsEstablished
  <2> HIDE DEF st, failure, p, waiting
  <2> QED
    BY ZenonT(30), <2>1, <2>2
<1> HIDE DEF p
<1>4. waiting = In(p, {"WAITING_FOR_OTHER_PEERS"})
  BY ZenonT(30), <1>2 DEF In, Registered
<1>5. ASSUME NEW M \in SUBSET waiting, NEW st \in {"IDLE", "CONNECTING_TO_PEERS_FAILED"}
      PROVE  Quiet(LeaveP2PPhase(p, M, st), r) /\ Consistent(LeaveP2PPhase(p, M, st))
  <2> DEFINE q == LeaveP2PPhase(p, M, st)
  <2>1. Consistent(q)
    BY ZenonT(30), <1>1, <1>4, <1>5, LeaveP2PPhaseConsistent
  <2>2. /\ q.sync = p.sync /\ q.cut = p.cut
        /\ q.phase = [c \in Peers |-> IF c \in M THEN "ACCEPTED" ELSE p.phase[c]]
        /\ q.state = [c \in Peers |-> IF c \in M THEN st ELSE p.state[c]]
    BY ZenonT(30), <1>1 DEF LeaveP2PPhase, OnPeerAccepted, Consistent, Typed, MasterStates
  <2> HIDE DEF q
  <2>3. /\ Accepted(r) \subseteq Accepted(q)
        /\ \A c \in Accepted(q) : q.state[c] = "VOTE_SYNC_SHARED_STATE" =>
               c \in Accepted(r) /\ r.state[c] = "VOTE_SYNC_SHARED_STATE"
    <3>1. \A c \in Peers : /\ q.phase[c] = IF c \in M THEN "ACCEPTED" ELSE p.phase[c]
                           /\ q.state[c] = IF c \in M THEN st ELSE p.state[c]
      BY ZenonT(30), <2>2
    <3>2. Accepted(r) \subseteq Accepted(q)
      BY ZenonT(30), <1>2, <3>1 DEF Accepted
    <3>3. ASSUME NEW c \in Accepted(q), q.state[c] = "VOTE_SYNC_SHARED_STATE"
          PROVE  c \in Accepted(r) /\ r.state[c] = "VOTE_SYNC_SHARED_STATE"
      <4>1. c \in Peers /\ q.phase[c] = "ACCEPTED"
        BY ZenonT(30) DEF Accepted
      <4>2. c \notin M
        <5>1. st # "VOTE_SYNC_SHARED_STATE"
          BY ZenonT(30), <1>5
        <5> QED
          BY ZenonT(30), <3>1, <3>3, <4>1, <5>1
      <4>3. p.phase[c] = "ACCEPTED" /\ p.state[c] = "VOTE_SYNC_SHARED_STATE"
        BY ZenonT(30), <3>1, <3>3, <4>1, <4>2
      <4> QED
        BY ZenonT(30), <1>2, <4>1, <4>3 DEF Accepted
    <3> QED
      BY ZenonT(30), <3>2, <3>3
  <2>4. Quiet(q, r)
    BY ZenonT(30), <1>2, <2>2, <2>3 DEF Quiet
  <2> QED
    BY ZenonT(30), <2>1, <2>4 DEF q
<1>6. CASE z = r
  BY ZenonT(30), <1>6, QuietFields
<1>7. CASE z # r
  <2>1. PICK M \in SUBSET waiting, st \in {"IDLE", "CONNECTING_TO_PEERS_FAILED"} :
            \/ z = LeaveP2PPhase(p, M, st)
            \/ \E b : z = SendP2PConnectionsEstablished(LeaveP2PPhase(p, M, st), b)
    BY ZenonT(30), <1>3, <1>7
  <2> DEFINE q == LeaveP2PPhase(p, M, st)
  <2>2. Quiet(q, r) /\ Consistent(q)
    BY ZenonT(30), <1>5
  <2>3. z = q \/ \E b : z = SendP2PConnectionsEstablished(q, b)
    BY ZenonT(30), <2>1
  <2> HIDE DEF q
  <2>4. Quiet(z, q)
    BY ZenonT(30), <2>2, <2>3, QuietFields, QuietInformation
  <2> QED
    BY ZenonT(30), <2>2, <2>4, QuietTwice
<1> QED
  BY ZenonT(30), <1>6, <1>7

\* handleRequestSessionJoin.
LEMMA QuietSessionJoin ==
    ASSUME NEW r, Consistent(r), NEW c \in Peers, NEW z \in HandleRequestSessionJoin(r, c)
    PROVE  Quiet(z, r)
<1>1. CASE c \in Registered(r)
  BY ZenonT(30), <1>1, QuietFields DEF HandleRequestSessionJoin
<1>2. CASE c \notin Registered(r)
  <2> DEFINE p == RegisterClient(r, c)
             a == IF CanRegister(r, c) THEN p ELSE r
  <2>1. /\ p.sync = r.sync /\ p.cut = r.cut
        /\ \A e \in Peers : e # c => p.phase[e] = r.phase[e] /\ p.state[e] \in {r.state[e], "CONNECTING_TO_PEERS"}
        /\ p.state[c] # "VOTE_SYNC_SHARED_STATE"
    <3> DEFINE i == [r EXCEPT !.phase[c] = "REGISTERED", !.state[c] = "IDLE"]
               b == OnPeerAccepted(i, {c})
               v == VoteEstablishP2PConnections(b, c, TRUE)
               m == TransitionToP2PEstablishmentPhase(v, TRUE)
    <3>1. p = IF Registered(r) # {} THEN i ELSE m
      BY ZenonT(30) DEF RegisterClient
    <3> HIDE DEF p
    <3>2. /\ i.sync = r.sync /\ i.cut = r.cut
          /\ i.phase = [r.phase EXCEPT ![c] = "REGISTERED"] /\ i.state = [r.state EXCEPT ![c] = "IDLE"]
          /\ Typed(i)
      <4>1. /\ i.sync = r.sync /\ i.cut = r.cut
            /\ i.phase = [r.phase EXCEPT ![c] = "REGISTERED"] /\ i.state = [r.state EXCEPT ![c] = "IDLE"]
        BY ZenonT(30) DEF Consistent, Typed, MasterStates
      <4>2. Typed(i)
        BY ZenonT(30) DEF Consistent, Typed, MasterStates, Phases, ConnectionStates
      <4> QED
        BY ZenonT(30), <4>1, <4>2
    <3>3. /\ r.phase \in [Peers -> Phases] /\ r.state \in [Peers -> ConnectionStates]
      BY ZenonT(30) DEF Consistent, Typed, MasterStates
    <3> HIDE DEF i
    <3>4. /\ b.sync = i.sync /\ b.cut = i.cut /\ b.state = i.state
          /\ b.phase = [e \in Peers |-> IF e \in {c} THEN "ACCEPTED" ELSE i.phase[e]]
      BY ZenonT(30), <3>2 DEF OnPeerAccepted, Typed, MasterStates
    <3>5. /\ m.sync = b.sync /\ m.cut = b.cut /\ m.phase = b.phase
          /\ m.state = [e \in Peers |-> IF e \in Registered(v) THEN "CONNECTING_TO_PEERS" ELSE v.state[e]]
          /\ v.phase = b.phase
          /\ v.state = [b.state EXCEPT ![c] = "VOTE_ACCEPT_NEW_PEERS"]
      BY ZenonT(30), <3>2 DEF OnPeerAccepted, VoteEstablishP2PConnections,
                              TransitionToP2PEstablishmentPhase, Typed, MasterStates
    <3> HIDE DEF b, v, m
    <3>6. c \in Registered(v)
      BY ZenonT(30), <3>4, <3>5 DEF Registered
    <3>7. CASE Registered(r) # {}
      BY ZenonT(30), <3>1, <3>2, <3>3, <3>7
    <3>8. CASE Registered(r) = {}
      <4>1. p = m
        BY ZenonT(30), <3>1, <3>8
      <4>2. p.sync = r.sync /\ p.cut = r.cut /\ p.phase = b.phase
        BY ZenonT(30), <3>2, <3>4, <3>5, <4>1
      <4>3. \A e \in Peers : e # c => b.phase[e] = r.phase[e] /\ v.state[e] = r.state[e]
        BY SMTT(30), <3>2, <3>3, <3>4, <3>5
      <4>4. \A e \in Peers : e # c => p.state[e] \in {r.state[e], "CONNECTING_TO_PEERS"}
        BY ZenonT(30), <3>5, <4>1, <4>3
      <4>5. p.state[c] = "CONNECTING_TO_PEERS"
        BY ZenonT(30), <3>5, <3>6, <4>1
      <4> QED
        BY ZenonT(30), <4>2, <4>3, <4>4, <4>5
    <3> QED
      BY ZenonT(30), <3>7, <3>8
  <2>2. Consistent(p)
    BY ZenonT(30), <1>2, RegisterClientConsistent
  <2> HIDE DEF p
  <2>3. c \notin Accepted(r)
    BY ZenonT(30), <1>2 DEF Registered, Accepted
  <2>4. /\ Accepted(r) \subseteq Accepted(p)
        /\ \A e \in Accepted(p) : p.state[e] = "VOTE_SYNC_SHARED_STATE" =>
               e \in Accepted(r) /\ r.state[e] = "VOTE_SYNC_SHARED_STATE"
    BY ZenonT(30), <2>1, <2>3 DEF Accepted
  <2>5. Quiet(p, r)
    BY ZenonT(30), <2>1, <2>4 DEF Quiet
  <2>6. Quiet(a, r) /\ Consistent(a)
    BY ZenonT(30), <2>2, <2>5, QuietFields
  <2>7. \E batch : LET w == Send(a, batch)
                   IN  z \in {SendP2PConnectionInformation(w, TRUE), CheckEstablishP2PConnectionConsensus(w)}
    BY ZenonT(30), <1>2 DEF HandleRequestSessionJoin, p
  <2> HIDE DEF a
  <2>8. PICK batch : LET w == Send(a, batch)
                     IN  z \in {SendP2PConnectionInformation(w, TRUE), CheckEstablishP2PConnectionConsensus(w)}
    BY ZenonT(30), <2>7
  <2> DEFINE w == Send(a, batch)
  <2>9. Consistent(w) /\ Quiet(w, a)
    BY ZenonT(30), <2>6, SendConsistent, QuietFields
  <2>10. z \in {SendP2PConnectionInformation(w, TRUE), CheckEstablishP2PConnectionConsensus(w)}
    BY ZenonT(30), <2>8
  <2> HIDE DEF w
  <2>11. Quiet(z, w)
    BY ZenonT(30), <2>9, <2>10, QuietInformation, QuietEstablish
  <2> QED
    BY ZenonT(30), <2>6, <2>9, <2>11, QuietTwice
<1> QED
  BY ZenonT(30), <1>1, <1>2

\* handleEstablishP2PConnections.
LEMMA QuietEstablishVote ==
    ASSUME NEW r, Consistent(r), NEW c \in Peers, NEW accept \in BOOLEAN,
           NEW z \in HandleEstablishP2PConnections(r, c, accept)
    PROVE  Quiet(z, r)
<1>1. CASE ~CanVoteEstablish(r, c)
  BY ZenonT(30), <1>1, QuietFields DEF HandleEstablishP2PConnections
<1>2. CASE CanVoteEstablish(r, c)
  <2> DEFINE v == VoteEstablishP2PConnections(r, c, accept)
  <2>1. Consistent(v)
    BY ZenonT(30), <1>2, VoteEstablishConsistent
  <2>2. /\ v.phase = r.phase /\ v.sync = r.sync /\ v.cut = r.cut
        /\ \A e \in Peers : v.state[e] = r.state[e] \/ v.state[e] # "VOTE_SYNC_SHARED_STATE"
    BY ZenonT(30) DEF VoteEstablishP2PConnections, Consistent, Typed, MasterStates
  <2>3. z = CheckEstablishP2PConnectionConsensus(v)
    BY ZenonT(30), <1>2 DEF HandleEstablishP2PConnections
  <2> HIDE DEF v
  <2> QED
    BY ZenonT(30), <2>1, <2>2, <2>3, QuietMove, QuietEstablish, QuietTwice
<1> QED
  BY ZenonT(30), <1>1, <1>2

\* handleP2PConnectionsEstablished.
LEMMA QuietReport ==
    ASSUME Countable, NEW r, Consistent(r), NEW c \in Peers, NEW success \in BOOLEAN, NEW F,
           NEW z \in HandleP2PConnectionsEstablished(r, c, success, F)
    PROVE  Quiet(z, r)
<1> DEFINE u == AddUnreachable(r, c, F)
           marked == IF success THEN {[r EXCEPT !.state[c] = "WAITING_FOR_OTHER_PEERS"]}
                     ELSE MarkP2PConnectionsFailed(r, c, F)
<1>1. \/ z = Kick(r, c)
      \/ z = Kick(u, c)
      \/ r.state[c] = "CONNECTING_TO_PEERS" /\ \E q \in marked : z \in CheckP2PConnectionsEstablished(q)
  BY ZenonT(30) DEF HandleP2PConnectionsEstablished
<1>2. Consistent(u) /\ Quiet(u, r)
  <2>1. Consistent(u)
    BY ZenonT(30), AddUnreachableConsistent
  <2>2. u.phase = r.phase /\ u.state = r.state /\ u.sync = r.sync /\ u.cut = r.cut
    BY ZenonT(30) DEF AddUnreachable, Consistent, Typed, MasterStates
  <2> HIDE DEF u
  <2> QED
    BY ZenonT(30), <2>1, <2>2, QuietMove
<1>3. ASSUME NEW q \in marked, r.state[c] = "CONNECTING_TO_PEERS" PROVE Quiet(q, r) /\ Consistent(q)
  <2>1. CASE success
    <3>1. q = [r EXCEPT !.state[c] = "WAITING_FOR_OTHER_PEERS"]
      BY ZenonT(30), <1>3, <2>1
    <3>2. Consistent(q)
      BY ZenonT(30), <1>3, <3>1, ReportConsistent
    <3>3. /\ q.phase = r.phase /\ q.sync = r.sync /\ q.cut = r.cut
          /\ \A e \in Peers : q.state[e] = r.state[e] \/ q.state[e] # "VOTE_SYNC_SHARED_STATE"
      BY ZenonT(30), <3>1 DEF Consistent, Typed, MasterStates
    <3> QED
      BY ZenonT(30), <3>2, <3>3, QuietMove
  <2>2. CASE ~success
    <3>1. q \in MarkP2PConnectionsFailed(r, c, F)
      BY ZenonT(30), <1>3, <2>2
    <3>2. Consistent(q)
      BY ZenonT(30), <1>3, <3>1, MarkFailedConsistent
    <3>3. \E t : q = [SetRingTopology(u, PeerGroup[c], t, FALSE) EXCEPT !.state[c] = "CONNECTING_TO_PEERS_FAILED"]
      BY ZenonT(30), <3>1 DEF MarkP2PConnectionsFailed
    <3> HIDE DEF u, marked
    <3>4. PICK t : q = [SetRingTopology(u, PeerGroup[c], t, FALSE) EXCEPT !.state[c] = "CONNECTING_TO_PEERS_FAILED"]
      BY ZenonT(30), <3>3
    <3>5. /\ q.phase = u.phase /\ q.sync = u.sync /\ q.cut = u.cut
          /\ q.state = [u.state EXCEPT ![c] = "CONNECTING_TO_PEERS_FAILED"]
          /\ u.state \in [Peers -> ConnectionStates]
      BY ZenonT(30), <1>2, <3>4 DEF SetRingTopology, Consistent, Typed, MasterStates
    <3>6. \A e \in Peers : q.state[e] = u.state[e] \/ q.state[e] # "VOTE_SYNC_SHARED_STATE"
      BY ZenonT(30), <3>5
    <3>7. Quiet(q, u)
      BY ZenonT(30), <3>5, <3>6, QuietMove
    <3> QED
      BY ZenonT(30), <1>2, <3>2, <3>7, QuietTwice
  <2> QED
    BY ZenonT(30), <2>1, <2>2
<1> HIDE DEF u, marked
<1>4. Quiet(Kick(r, c), r) /\ Quiet(Kick(u, c), u)
  BY ZenonT(30), <1>2, QuietFields
<1>5. Quiet(Kick(u, c), r)
  BY ZenonT(30), <1>2, <1>4, QuietTwice
<1>6. CASE r.state[c] = "CONNECTING_TO_PEERS" /\ \E q \in marked : z \in CheckP2PConnectionsEstablished(q)
  <2>1. PICK q \in marked : z \in CheckP2PConnectionsEstablished(q)
    BY ZenonT(30), <1>6
  <2>2. Quiet(q, r) /\ Consistent(q)
    BY ZenonT(30), <1>3, <1>6
  <2>3. Quiet(z, q)
    BY ZenonT(30), <2>1, <2>2, QuietP2P
  <2> QED
    BY ZenonT(30), <2>2, <2>3, QuietTwice
<1> QED
  BY ZenonT(30), <1>1, <1>4, <1>5, <1>6

\* checkQueryPeersPendingConsensus.
LEMMA QuietQuery ==
    ASSUME NEW r, Consistent(r)
    PROVE  Quiet(CheckQueryPeersPendingConsensus(r), r)
<1> DEFINE w == Send(r, [x \in Accepted(r) \X {<<"pending", 0>>} |-> HasPendingPeers(r)])
<1>1. Consistent(w) /\ Quiet(w, r)
  BY ZenonT(30), SendConsistent, QuietFields
<1>2. \E Q : CheckQueryPeersPendingConsensus(r) \in {r, [w EXCEPT !.query = Q]}
  BY ZenonT(30) DEF CheckQueryPeersPendingConsensus, ResetVoteQueryPendingPeers
<1> HIDE DEF w
<1>3. \A Q : Quiet([w EXCEPT !.query = Q], w)
  BY ZenonT(30), <1>1, QuietFields
<1>4. \A Q : Quiet([w EXCEPT !.query = Q], r)
  BY ZenonT(30), <1>1, <1>3, QuietTwice
<1>5. Quiet(r, r)
  BY ZenonT(30), QuietFields
<1> QED
  BY ZenonT(30), <1>2, <1>4, <1>5

\* handleCheckPeersPending.
LEMMA QuietPeersPending ==
    ASSUME NEW r, Consistent(r), NEW c \in Peers, NEW z \in HandleCheckPeersPending(r, c)
    PROVE  Quiet(z, r)
<1>1. CASE ~CanVoteQuery(r, c)
  BY ZenonT(30), <1>1, QuietFields DEF HandleCheckPeersPending
<1>2. CASE CanVoteQuery(r, c)
  <2> DEFINE Q == r.query \cup {c}
             v == [r EXCEPT !.query = Q]
  <2>1. Q \in SUBSET Accepted(r)
    BY ZenonT(30), <1>2 DEF CanVoteQuery, Consistent, Typed, MasterStates, AcceptedMatch, Accepted
  <2>2. z = CheckQueryPeersPendingConsensus(v)
    BY ZenonT(30), <1>2 DEF HandleCheckPeersPending
  <2> HIDE DEF Q
  <2>3. Consistent(v) /\ Quiet(v, r)
    BY ZenonT(30), <2>1, QueryConsistent, QuietFields
  <2> HIDE DEF v
  <2> QED
    BY ZenonT(30), <2>2, <2>3, QuietQuery, QuietTwice
<1> QED
  BY ZenonT(30), <1>1, <1>2

\* handleOptimizeTopology.
LEMMA QuietOptimize ==
    ASSUME NEW r, Consistent(r), NEW c \in Peers, NEW z \in HandleOptimizeTopology(r, c)
    PROVE  Quiet(z, r)
<1>1. CASE ~CanVoteOptimize(r, c)
  BY ZenonT(30), <1>1, QuietFields DEF HandleOptimizeTopology
<1>2. CASE CanVoteOptimize(r, c)
  <2> DEFINE v == VoteOptimizeTopology(r, c)
             m == TransitionToTopologyOptimizationPhase(v)
  <2>1. Consistent(v)
    BY ZenonT(30), <1>2, VoteOptimizeConsistent
  <2>2. /\ v.phase = r.phase /\ v.sync = r.sync /\ v.cut = r.cut
        /\ \A e \in Peers : v.state[e] = r.state[e] \/ v.state[e] # "VOTE_SYNC_SHARED_STATE"
    BY ZenonT(30) DEF VoteOptimizeTopology, Consistent, Typed, MasterStates
  <2>3. z = v \/ (OptimizeTopologyConsensus(v) /\ \E batch : z = Send(m, batch))
    BY ZenonT(30), <1>2 DEF HandleOptimizeTopology, CheckTopologyOptimizationConsensus
  <2> HIDE DEF v
  <2>4. /\ m.phase = v.phase /\ m.sync = v.sync /\ m.cut = v.cut
        /\ \A e \in Peers : m.state[e] \in {v.state[e], "OPTIMIZE_TOPOLOGY"}
    BY ZenonT(30), <2>1 DEF TransitionToTopologyOptimizationPhase, Consistent, Typed, MasterStates
  <2>5. OptimizeTopologyConsensus(v) => Consistent(m)
    BY ZenonT(30), <2>1, TransitionOptimizeConsistent
  <2> HIDE DEF m
  <2>6. Quiet(v, r) /\ Quiet(m, v)
    BY ZenonT(30), <2>2, <2>4, QuietMove
  <2>7. Quiet(m, r)
    BY ZenonT(30), <2>6, QuietTwice
  <2>8. OptimizeTopologyConsensus(v) => \A batch : Quiet(Send(m, batch), m)
    BY ZenonT(30), <2>5, QuietFields
  <2>9. OptimizeTopologyConsensus(v) => \A batch : Quiet(Send(m, batch), r)
    BY ZenonT(30), <2>7, <2>8, QuietTwice
  <2> QED
    BY ZenonT(30), <2>3, <2>6, <2>9
<1> QED
  BY ZenonT(30), <1>1, <1>2

\* handleOptimizeTopologyWorkComplete.
LEMMA QuietWorkComplete ==
    ASSUME NEW r, Consistent(r), NEW c \in Peers, NEW z \in HandleOptimizeTopologyWorkComplete(r, c)
    PROVE  Quiet(z, r)
<1>1. CASE ~CanVoteOptimized(r, c)
  BY ZenonT(30), <1>1, QuietFields DEF HandleOptimizeTopologyWorkComplete
<1>2. CASE CanVoteOptimized(r, c)
  <2> DEFINE v == VoteTopologyOptimizationComplete(r, c)
             m == MarkMissingUnreachable(v)
             e == EndTopologyOptimizationPhase(m)
  <2>1. Consistent(v)
    BY ZenonT(30), <1>2, VoteOptimizedConsistent
  <2>2. /\ v.phase = r.phase /\ v.sync = r.sync /\ v.cut = r.cut
        /\ \A d \in Peers : v.state[d] = r.state[d] \/ v.state[d] # "VOTE_SYNC_SHARED_STATE"
    BY ZenonT(30) DEF VoteTopologyOptimizationComplete, Consistent, Typed, MasterStates
  <2>3. \/ z = v
        \/ /\ TopologyOptimizationCompleteConsensus(v)
           /\ \E R, O, T, batch : z = Send([e EXCEPT !.ring = R, !.optimal = O, !.task = T], batch)
    <3>1. z \in CheckTopologyOptimizationCompletionConsensus(v)
      BY ZenonT(30), <1>2 DEF HandleOptimizeTopologyWorkComplete
    <3> HIDE DEF v
    <3>2. \/ z = v
          \/ /\ TopologyOptimizationCompleteConsensus(v)
             /\ \E w \in OptimizeTopologies(e) : \E batch : z = Send(w, batch)
      BY ZenonT(30), <3>1 DEF CheckTopologyOptimizationCompletionConsensus
    <3> HIDE DEF e
    <3>3. \A w \in OptimizeTopologies(e) : \E R, O, T : w = [e EXCEPT !.ring = R, !.optimal = O, !.task = T]
      BY ZenonT(30) DEF OptimizeTopologies
    <3> QED
      BY ZenonT(30), <3>2, <3>3
  <2> HIDE DEF v
  <2>4. Quiet(v, r)
    BY ZenonT(30), <2>2, QuietMove
  <2>5. CASE z = v
    BY ZenonT(30), <2>4, <2>5
  <2>6. CASE z # v
    <3>1. TopologyOptimizationCompleteConsensus(v)
      BY ZenonT(30), <2>3, <2>6
    <3>2. PICK R, O, T, batch : z = Send([e EXCEPT !.ring = R, !.optimal = O, !.task = T], batch)
      BY ZenonT(30), <2>3, <2>6
    <3>3. Consistent(m) /\ TopologyOptimizationCompleteConsensus(m)
      BY ZenonT(30), <2>1, <3>1, MarkMissingConsistent
    <3>4. Quiet(m, v)
      BY ZenonT(30), <2>1, QuietFields DEF MarkMissingUnreachable
    <3> HIDE DEF m
    <3>5. Consistent(e)
      BY ZenonT(30), <3>3, EndOptimizationConsistent
    <3>6. /\ e.phase = m.phase /\ e.sync = m.sync /\ e.cut = m.cut
          /\ \A d \in Peers : e.state[d] \in {m.state[d], "IDLE"}
      BY ZenonT(30), <3>3 DEF EndTopologyOptimizationPhase, Consistent, Typed, MasterStates
    <3> HIDE DEF e
    <3>7. Quiet(e, m)
      BY ZenonT(30), <3>6, QuietMove
    <3>8. z.phase = e.phase /\ z.state = e.state /\ z.sync = e.sync /\ z.cut = e.cut
      BY ZenonT(30), <3>2, <3>5 DEF Send, Consistent, Typed, MasterStates
    <3>9. Quiet(z, e)
      BY ZenonT(30), <3>8, QuietMove
    <3> QED
      BY ZenonT(30), <2>4, <3>4, <3>7, <3>9, QuietTwice
  <2> QED
    BY ZenonT(30), <2>5, <2>6
<1> QED
  BY ZenonT(30), <1>1, <1>2

\* handleReportPeerBandwidth and the topology optimization thread.
LEMMA QuietSolver ==
    ASSUME NEW r, Consistent(r), NEW c, NEW to, NEW g \in Groups
    PROVE  /\ \A z \in HandleReportPeerBandwidth(r, c, to) : Quiet(z, r)
           /\ Quiet(StartSolver(r, g), r)
           /\ \A z \in FinishSolver(r, g) : Quiet(z, r)
<1>1. \A z \in HandleReportPeerBandwidth(r, c, to) : Quiet(z, r)
  BY ZenonT(30), QuietFields DEF HandleReportPeerBandwidth, StorePeerBandwidth
<1>2. Quiet(StartSolver(r, g), r)
  <2> DEFINE w == GetRingTopology(r, {g}, FALSE)
  <2>1. Consistent(w) /\ Quiet(w, r)
    BY ZenonT(30), GetRingTopologyConsistent, QuietRings
  <2>2. \E T : StartSolver(r, g) = [w EXCEPT !.task = T]
    BY ZenonT(30) DEF StartSolver
  <2> HIDE DEF w
  <2>3. Quiet(StartSolver(r, g), w)
    BY ZenonT(30), <2>1, <2>2, QuietRings
  <2> QED
    BY ZenonT(30), <2>1, <2>3, QuietTwice
<1>3. ASSUME NEW z \in FinishSolver(r, g) PROVE Quiet(z, r)
  <2> DEFINE w == [r EXCEPT !.task[g] = [st |-> "done", base |-> {}]]
  <2>1. Consistent(w)
    BY ZenonT(30), TaskConsistent
  <2>2. \E T : w = [r EXCEPT !.task = T]
    BY ZenonT(30)
  <2>3. z = w \/ \E t, o : z = SetRingTopology(w, g, t, o)
    BY <1>3 DEF FinishSolver
  <2> HIDE DEF w
  <2>4. Quiet(w, r)
    BY ZenonT(30), <2>2, QuietRings
  <2>5. Quiet(z, w)
    <3>1. Quiet(w, w) /\ \A t, o : Quiet(SetRingTopology(w, g, t, o), w)
      BY ZenonT(30), <2>1, QuietRings, QuietFields
    <3> QED
      BY ZenonT(30), <2>3, <3>1
  <2> QED
    BY ZenonT(30), <2>4, <2>5, QuietTwice
<1> QED
  BY ZenonT(30), <1>1, <1>2, <1>3

\* checkSyncSharedStateCompleteConsensus: the members are idle, and their contents forgotten.
LEMMA QuietSyncComplete ==
    ASSUME Countable, NEW r, Consistent(r), NEW g \in Groups
    PROVE  Quiet(CheckSyncSharedStateCompleteConsensus(r, g), r)
<1> DEFINE q == EndSharedStateSyncPhase(r, g)
<1>1. SyncSharedStateCompleteConsensus(r, g) => Consistent(q)
  BY ZenonT(30), SyncVoteUnanimous, EndSyncConsistent
<1>2. /\ q.phase = r.phase /\ q.cut = r.cut
      /\ \A c \in Peers : q.state[c] \in {r.state[c], "IDLE"}
  BY ZenonT(30) DEF EndSharedStateSyncPhase, Consistent, Typed, MasterStates
<1>3. q.sync.candidates = [r.sync.candidates EXCEPT ![g] = <<>>]
  <2>1. r.sync \in SyncStates
    BY ZenonT(30) DEF Consistent, Typed, MasterStates
  <2>2. \E X, M, E, H, U, D, P, W :
            q = [r EXCEPT !.state = X,
                          !.sync = [r.sync EXCEPT !.mask[g] = M, !.candidates[g] = <<>>, !.entries = E,
                                        !.hashes[g] = H, !.status = U, !.dirty = D,
                                        !.votes_complete = P, !.strategy = W]]
    BY ZenonT(60) DEF EndSharedStateSyncPhase
  <2> HIDE DEF q
  <2>3. PICK X, M, E, H, U, D, P, W :
            q = [r EXCEPT !.state = X,
                          !.sync = [r.sync EXCEPT !.mask[g] = M, !.candidates[g] = <<>>, !.entries = E,
                                        !.hashes[g] = H, !.status = U, !.dirty = D,
                                        !.votes_complete = P, !.strategy = W]]
    BY ZenonT(30), <2>2
  <2> DEFINE y == [r.sync EXCEPT !.mask[g] = M, !.candidates[g] = <<>>, !.entries = E,
                                 !.hashes[g] = H, !.status = U, !.dirty = D,
                                 !.votes_complete = P, !.strategy = W]
  <2>4. y.candidates = [r.sync.candidates EXCEPT ![g] = <<>>]
    BY ZenonT(30), <2>1 DEF SyncStates
  <2>5. q = [r EXCEPT !.state = X, !.sync = y]
    BY ZenonT(30), <2>3
  <2> HIDE DEF y
  <2>6. q.sync = y
    BY ZenonT(30), <2>5 DEF Consistent, Typed, MasterStates
  <2> QED
    BY ZenonT(30), <2>4, <2>6
<1>4. r.sync.candidates \in [Groups -> Seq(Ballot)]
  BY ZenonT(30) DEF Consistent, Typed, MasterStates, SyncStates
<1>5. \/ CheckSyncSharedStateCompleteConsensus(r, g) = r
      \/ /\ SyncSharedStateCompleteConsensus(r, g)
         /\ \E batch : CheckSyncSharedStateCompleteConsensus(r, g) = Send(q, batch)
  BY ZenonT(30) DEF CheckSyncSharedStateCompleteConsensus
<1> HIDE DEF q
<1>6. \A h \in Groups : q.sync.candidates[h] \in {r.sync.candidates[h], <<>>}
  BY ZenonT(30), <1>3, <1>4
<1>7. Quiet(q, r)
  BY ZenonT(30), <1>2, <1>6 DEF Quiet, Accepted
<1>8. SyncSharedStateCompleteConsensus(r, g) => \A batch : Quiet(Send(q, batch), q)
  BY ZenonT(30), <1>1, QuietFields
<1>9. SyncSharedStateCompleteConsensus(r, g) => \A batch : Quiet(Send(q, batch), r)
  BY ZenonT(30), <1>7, <1>8, QuietTwice
<1>10. Quiet(r, r)
  BY ZenonT(30), QuietFields
<1> QED
  BY ZenonT(30), <1>5, <1>9, <1>10

\* handleSyncSharedStateComplete.
LEMMA QuietSynchronized ==
    ASSUME Countable, NEW r, Consistent(r), NEW c \in Peers, NEW z \in HandleSyncSharedStateComplete(r, c)
    PROVE  Quiet(z, r)
<1>1. CASE ~CanVoteSyncComplete(r, c)
  BY ZenonT(30), <1>1, QuietFields DEF HandleSyncSharedStateComplete
<1>2. CASE CanVoteSyncComplete(r, c)
  <2> DEFINE v == VoteDistSharedStateComplete(r, c)
  <2>1. Consistent(v) /\ PeerGroup[c] \in Groups
    BY ZenonT(30), <1>2, VoteSyncCompleteConsistent DEF Groups
  <2>2. /\ v.phase = r.phase /\ v.cut = r.cut /\ v.sync.candidates = r.sync.candidates
        /\ \A e \in Peers : v.state[e] = r.state[e] \/ v.state[e] # "VOTE_SYNC_SHARED_STATE"
    BY ZenonT(30) DEF VoteDistSharedStateComplete, Consistent, Typed, MasterStates, SyncStates
  <2>3. z = CheckSyncSharedStateCompleteConsensus(v, PeerGroup[c])
    BY ZenonT(30), <1>2 DEF HandleSyncSharedStateComplete
  <2> HIDE DEF v
  <2>4. Quiet(v, r)
    BY ZenonT(30), <2>2 DEF Quiet, Accepted
  <2>5. Quiet(z, v)
    BY ZenonT(30), <2>1, <2>3, QuietSyncComplete
  <2> QED
    BY ZenonT(30), <2>4, <2>5, QuietTwice
<1> QED
  BY ZenonT(30), <1>1, <1>2

\* checkCollectiveCommsInitiateConsensus, checkCollectiveCommsCompleteConsensus and
\* abortCollectiveCommsOperation.
LEMMA QuietCollectives ==
    ASSUME Countable, NEW r, Consistent(r), NEW g \in Groups, NEW T \in SUBSET Tags
    PROVE  /\ Quiet(CheckCollectiveCommsInitiateConsensus(r, g, T), r)
           /\ Quiet(CheckCollectiveCommsCompleteConsensus(r, g, T), r)
           /\ Quiet(AbortCollectiveCommsOperation(r, g, T), r)
<1>1. Quiet(CheckCollectiveCommsInitiateConsensus(r, g, T), r)
  <2> DEFINE ready == Unanimous(r, g, T, "VOTE_INITIATE")
             q == TransitionToPerformCollectiveCommsPhase(r, g, ready)
  <2>1. ready \in SUBSET Tags /\ \A c \in Members(r, g), t \in ready : r.coll[c][t] = "VOTE_INITIATE"
    BY ZenonT(30) DEF Unanimous
  <2>2. \E n, batch : CheckCollectiveCommsInitiateConsensus(r, g, T) = Send([q EXCEPT !.seq_nr = n], batch)
    BY ZenonT(30) DEF CheckCollectiveCommsInitiateConsensus
  <2> HIDE DEF ready
  <2>3. Consistent(q)
    BY ZenonT(30), <2>1, PerformConsistent
  <2>4. Quiet(q, r)
    BY ZenonT(30), QuietFields DEF TransitionToPerformCollectiveCommsPhase, SetColl
  <2> HIDE DEF q
  <2>5. PICK n, batch : CheckCollectiveCommsInitiateConsensus(r, g, T) = Send([q EXCEPT !.seq_nr = n], batch)
    BY ZenonT(30), <2>2
  <2> DEFINE z == Send([q EXCEPT !.seq_nr = n], batch)
  <2>6. z.phase = q.phase /\ z.state = q.state /\ z.sync = q.sync /\ z.cut = q.cut
    BY ZenonT(30), <2>3 DEF Send, Consistent, Typed, MasterStates
  <2>7. Quiet(z, q)
    BY ZenonT(30), <2>6, QuietMove
  <2>8. Quiet(z, r)
    BY ZenonT(30), <2>4, <2>7, QuietTwice
  <2> QED
    BY ZenonT(30), <2>5, <2>8
<1>2. Quiet(CheckCollectiveCommsCompleteConsensus(r, g, T), r)
  <2> DEFINE ready == Unanimous(r, g, T, "VOTE_COMPLETE")
             p == SendCollectiveCommsAbortPackets(r, g, ready \ r.aborted[g], FALSE)
             q == TransitionToCollectiveCommsCompletePhase(p, g, ready)
  <2>1. \E batch : CheckCollectiveCommsCompleteConsensus(r, g, T) = Send(q, batch)
    BY ZenonT(30) DEF CheckCollectiveCommsCompleteConsensus
  <2> HIDE DEF ready
  <2>2. Consistent(p)
    BY ZenonT(30), AbortPacketsConsistent
  <2>3. Quiet(p, r)
    BY ZenonT(30), QuietFields DEF SendCollectiveCommsAbortPackets
  <2> HIDE DEF p
  <2> DEFINE f == [c \in Peers |-> [t \in Tags |->
                      IF c \in Members(p, g) /\ t \in ready THEN "NONE" ELSE p.coll[c][t]]]
             F == [c \in Peers |->
                      IF ready # {} /\ c \in Members(p, g) /\ \A t \in Tags : f[c][t] = "NONE"
                      THEN "IDLE" ELSE p.state[c]]
             A == [p.aborted EXCEPT ![g] = p.aborted[g] \ ready]
  <2>4. q = [p EXCEPT !.coll = f, !.state = F, !.aborted = A]
    BY <2>2 DEF TransitionToCollectiveCommsCompletePhase, SetColl, Consistent, Typed, MasterStates
  <2>5. PICK batch : CheckCollectiveCommsCompleteConsensus(r, g, T) = Send(q, batch)
    BY ZenonT(30), <2>1
  <2> DEFINE z == Send(q, batch)
  <2>6. \A c \in Peers : F[c] \in {p.state[c], "IDLE"}
    BY ZenonT(30)
  <2> HIDE DEF q, f, F, A
  <2>7. z.phase = p.phase /\ z.state = F /\ z.sync = p.sync /\ z.cut = p.cut
    BY ZenonT(30), <2>2, <2>4 DEF Send, Consistent, Typed, MasterStates
  <2> HIDE DEF z
  <2>8. Quiet(z, p)
    BY ZenonT(30), <2>6, <2>7, QuietMove
  <2>9. Quiet(z, r)
    BY ZenonT(30), <2>3, <2>8, QuietTwice
  <2> QED
    BY ZenonT(30), <2>5, <2>9 DEF z
<1>3. Quiet(AbortCollectiveCommsOperation(r, g, T), r)
  <2>1. \E A, batch : AbortCollectiveCommsOperation(r, g, T) = Send([r EXCEPT !.aborted = A], batch)
    BY ZenonT(30) DEF AbortCollectiveCommsOperation, SendCollectiveCommsAbortPackets
  <2>2. PICK A, batch : AbortCollectiveCommsOperation(r, g, T) = Send([r EXCEPT !.aborted = A], batch)
    BY ZenonT(30), <2>1
  <2> DEFINE z == Send([r EXCEPT !.aborted = A], batch)
  <2>3. z.phase = r.phase /\ z.state = r.state /\ z.sync = r.sync /\ z.cut = r.cut
    BY ZenonT(30) DEF Send, Consistent, Typed, MasterStates
  <2>4. Quiet(z, r)
    BY ZenonT(30), <2>3, QuietMove
  <2> QED
    BY ZenonT(30), <2>2, <2>4
<1> QED
  BY ZenonT(30), <1>1, <1>2, <1>3

\* handleCollectiveCommsInitiate.
LEMMA QuietInitiate ==
    ASSUME Countable, NEW r, Consistent(r), NEW c \in Peers, NEW t \in Tags,
           NEW z \in HandleCollectiveCommsInitiate(r, c, t)
    PROVE  Quiet(z, r)
<1>1. CASE ~CanVoteInitiate(r, c, t)
  BY ZenonT(30), <1>1, QuietFields DEF HandleCollectiveCommsInitiate
<1>2. CASE CanVoteInitiate(r, c, t)
  <2> DEFINE v == VoteCollectiveCommsInitiate(r, c, t)
  <2>1. Consistent(v) /\ PeerGroup[c] \in Groups /\ {t} \in SUBSET Tags
    BY ZenonT(30), <1>2, VoteInitiateConsistent DEF Groups
  <2>2. /\ v.phase = r.phase /\ v.sync = r.sync /\ v.cut = r.cut
        /\ \A e \in Peers : v.state[e] = r.state[e] \/ v.state[e] # "VOTE_SYNC_SHARED_STATE"
    BY ZenonT(30) DEF VoteCollectiveCommsInitiate, Consistent, Typed, MasterStates
  <2>3. z = CheckCollectiveCommsInitiateConsensus(v, PeerGroup[c], {t})
    BY ZenonT(30), <1>2 DEF HandleCollectiveCommsInitiate
  <2> HIDE DEF v
  <2>4. Quiet(v, r)
    BY ZenonT(30), <2>2, QuietMove
  <2>5. Quiet(z, v)
    BY ZenonT(30), <2>1, <2>3, QuietCollectives
  <2> QED
    BY ZenonT(30), <2>4, <2>5, QuietTwice
<1> QED
  BY ZenonT(30), <1>1, <1>2

\* handleCollectiveCommsComplete.
LEMMA QuietComplete ==
    ASSUME Countable, NEW r, Consistent(r), NEW c \in Peers, NEW t \in Tags, NEW was_aborted,
           NEW z \in HandleCollectiveCommsComplete(r, c, t, was_aborted)
    PROVE  Quiet(z, r)
<1>1. CASE ~CanVoteComplete(r, c, t)
  BY ZenonT(30), <1>1, QuietFields DEF HandleCollectiveCommsComplete
<1>2. CASE CanVoteComplete(r, c, t)
  <2> DEFINE v == VoteCollectiveCommsComplete(r, c, t)
             a == AbortCollectiveCommsOperation(v, PeerGroup[c], {t})
             q == IF was_aborted THEN a ELSE v
  <2>1. Consistent(v) /\ PeerGroup[c] \in Groups /\ {t} \in SUBSET Tags
    BY ZenonT(30), <1>2, VoteCompleteConsistent DEF Groups
  <2>2. v.phase = r.phase /\ v.state = r.state /\ v.sync = r.sync /\ v.cut = r.cut
    BY ZenonT(30) DEF VoteCollectiveCommsComplete, Consistent, Typed, MasterStates
  <2>3. z = CheckCollectiveCommsCompleteConsensus(q, PeerGroup[c], {t})
    BY ZenonT(30), <1>2 DEF HandleCollectiveCommsComplete
  <2> HIDE DEF v
  <2>4. Quiet(v, r)
    BY ZenonT(30), <2>2, QuietMove
  <2>5. Quiet(a, v) /\ Consistent(a) /\ Quiet(v, v)
    BY ZenonT(30), <2>1, QuietCollectives, AbortConsistent, QuietFields
  <2> HIDE DEF a
  <2>6. Quiet(q, v) /\ Consistent(q)
    BY ZenonT(30), <2>1, <2>5
  <2> HIDE DEF q
  <2>7. Quiet(z, q)
    BY ZenonT(30), <2>1, <2>3, <2>6, QuietCollectives
  <2> QED
    BY ZenonT(30), <2>4, <2>6, <2>7, QuietTwice
<1> QED
  BY ZenonT(30), <1>1, <1>2

\* The operations a departure may have held up.
LEMMA QuietRecheck ==
    ASSUME Countable, NEW r, Consistent(r), NEW g \in Groups
    PROVE  Quiet(RecheckCollectives(r, g), r)
<1> DEFINE T == GetOngoingCollectiveCommsOpTags(r, g)
           a == CheckCollectiveCommsInitiateConsensus(r, g, T)
           b == CheckCollectiveCommsCompleteConsensus(a, g, T)
           U == {t \in T : IsCollectiveOperationRunning(b, g, t)}
<1>1. T \in SUBSET Tags
  BY ZenonT(30) DEF GetOngoingCollectiveCommsOpTags
<1>2. RecheckCollectives(r, g) = AbortCollectiveCommsOperation(b, g, U)
  BY ZenonT(30) DEF RecheckCollectives
<1> HIDE DEF T
<1>3. Consistent(a) /\ Quiet(a, r)
  BY ZenonT(30), <1>1, CheckInitiateConsistent, QuietCollectives
<1> HIDE DEF a
<1>4. Consistent(b) /\ Quiet(b, a)
  BY ZenonT(30), <1>1, <1>3, CheckCompleteConsistent, QuietCollectives
<1>5. U \in SUBSET Tags
  BY ZenonT(30), <1>1
<1> HIDE DEF b, U
<1>6. Quiet(AbortCollectiveCommsOperation(b, g, U), b)
  BY ZenonT(30), <1>4, <1>5, QuietCollectives
<1> QED
  BY ZenonT(30), <1>2, <1>3, <1>4, <1>6, QuietTwice

-----------------------------------------------------------------------------
(* The election *)

\* Clients and candidates are the same.
SameBallots(q, r) ==
    /\ q.phase = r.phase /\ q.state = r.state /\ q.cut = r.cut
    /\ q.sync.candidates = r.sync.candidates

\* checkMaskSharedStateMismatches changes what is known of the contents, not who voted with them.
LEMMA QuietCheckMask ==
    ASSUME NEW r, Consistent(r), NEW g \in Groups, NEW mask, NEW found
    PROVE  SameBallots(CheckMaskSharedStateMismatches(r, g, mask, found), r)
<1> DEFINE q == CheckMaskSharedStateMismatches(r, g, mask, found)
<1>1. r.sync \in SyncStates
  BY ZenonT(30) DEF Consistent, Typed, MasterStates
<1>2. \E H, D, U : q = [r EXCEPT !.sync = [r.sync EXCEPT !.mask[g] = mask, !.hashes[g] = H,
                                                         !.dirty = D, !.status = U]]
  BY ZenonT(60) DEF CheckMaskSharedStateMismatches
<1> HIDE DEF q
<1>3. PICK H, D, U : q = [r EXCEPT !.sync = [r.sync EXCEPT !.mask[g] = mask, !.hashes[g] = H,
                                                           !.dirty = D, !.status = U]]
  BY ZenonT(30), <1>2
<1> DEFINE y == [r.sync EXCEPT !.mask[g] = mask, !.hashes[g] = H, !.dirty = D, !.status = U]
<1>4. y.candidates = r.sync.candidates
  BY ZenonT(30), <1>1 DEF SyncStates
<1>5. q = [r EXCEPT !.sync = y]
  BY ZenonT(30), <1>3
<1> HIDE DEF y
<1>6. q.phase = r.phase /\ q.state = r.state /\ q.cut = r.cut /\ q.sync = y
  BY ZenonT(30), <1>5 DEF Consistent, Typed, MasterStates
<1>7. SameBallots(q, r)
  BY ZenonT(30), <1>4, <1>6 DEF SameBallots
<1> QED
  BY ZenonT(30), <1>7 DEF q

\* A mask that has been compared ends the vote: a member is kicked, or all members leave it.
LEMMA DistributeMaskStarts ==
    ASSUME NEW r, Consistent(r), NEW g \in Groups, NEW mask \in SharedStates,
           \A c \in Members(r, g) : r.state[c] = "VOTE_SYNC_SHARED_STATE",
           NEW found \in ComparisonsOfVotes(r, g, mask),
           NEW z \in DistributeMask(r, g, mask, found)
    PROVE  Quiet(z, r) /\ StartOpen(z, g)
<1> DEFINE w == CheckMaskSharedStateMismatches(r, g, mask, found)
           mismatch == {c \in Members(w, g) : w.sync.status[c] = "KEY_SET_MISMATCH"}
           q == TransitionToSharedStateSyncPhase(w, g)
           C == q.cut \cup StrategyViolators(q, g)
           kicked == [q EXCEPT !.cut = C]
<1>1. Consistent(w)
  BY ZenonT(30), CheckMaskConsistent
<1>2. SameBallots(w, r)
  BY ZenonT(30), QuietCheckMask
<1>3. \/ \E c \in mismatch : z = Kick(w, c)
      \/ \E d : z = SendSyncSharedState(kicked, g, d)
  BY ZenonT(30) DEF DistributeMask
<1>4. Quiet(w, r) /\ Members(w, g) = Members(r, g)
  <2> HIDE DEF w
  <2> QED
    BY ZenonT(30), <1>2 DEF SameBallots, Quiet, Accepted, Members
<1>5. ASSUME NEW c \in mismatch, z = Kick(w, c) PROVE Quiet(z, r) /\ StartOpen(z, g)
  <2>1. c \in Members(w, g)
    BY ZenonT(30), <1>5
  <2> HIDE DEF w, mismatch
  <2>2. z.phase = w.phase /\ c \in z.cut
    BY ZenonT(30), <1>1, <1>5 DEF Kick, Consistent, Typed, MasterStates
  <2>3. c \in Members(z, g)
    BY ZenonT(30), <2>1, <2>2 DEF Members, Accepted
  <2>4. Quiet(z, w)
    BY ZenonT(30), <1>1, <1>5, QuietFields
  <2> QED
    BY ZenonT(30), <1>4, <2>2, <2>3, <2>4, QuietTwice DEF StartOpen
<1>6. ASSUME NEW d, z = SendSyncSharedState(kicked, g, d) PROVE Quiet(z, r) /\ StartOpen(z, g)
  <2>1. \E batch : z = Send(kicked, batch)
    BY ZenonT(30), <1>6 DEF SendSyncSharedState
  <2> HIDE DEF w, mismatch
  <2>2. /\ q.phase = w.phase /\ q.cut = w.cut
        /\ q.sync = [w.sync EXCEPT !.votes = w.sync.votes \ InGroup(g), !.next_revision[g] = w.sync.next_revision[g] + 1]
        /\ q.state = [c \in Peers |-> IF c \notin Members(w, g) THEN w.state[c]
                                      ELSE IF w.sync.status[c] = "SUCCESSFUL_MATCH" THEN "DISTRIBUTE_SHARED_STATE"
                                      ELSE "REQUEST_SHARED_STATE"]
        /\ q \in MasterStates({q.out})
    <3>1. Consistent(q)
      BY ZenonT(30), <1>1, <1>2, <1>4, TransitionSyncConsistent DEF SameBallots
    <3>2. q \in MasterStates({q.out})
      BY ZenonT(30), <3>1 DEF Consistent, Typed
    <3>3. /\ q.phase = w.phase /\ q.cut = w.cut
          /\ q.sync = [w.sync EXCEPT !.votes = w.sync.votes \ InGroup(g), !.next_revision[g] = w.sync.next_revision[g] + 1]
          /\ q.state = [c \in Peers |-> IF c \notin Members(w, g) THEN w.state[c]
                                        ELSE IF w.sync.status[c] = "SUCCESSFUL_MATCH" THEN "DISTRIBUTE_SHARED_STATE"
                                        ELSE "REQUEST_SHARED_STATE"]
      <4>1. w \in MasterStates({w.out})
        BY ZenonT(30), <1>1 DEF Consistent, Typed
      <4> QED
        BY SMTT(30), <4>1 DEF TransitionToSharedStateSyncPhase, MasterStates, SyncStates
    <3> QED
      BY ZenonT(30), <3>2, <3>3
  <2>3. q.sync.candidates = w.sync.candidates
    BY ZenonT(30), <1>1, <2>2 DEF Consistent, Typed, MasterStates, SyncStates
  <2> HIDE DEF q, C
  <2>4. /\ \A c \in Members(w, g) : q.state[c] # "VOTE_SYNC_SHARED_STATE"
        /\ \A c \in Peers : q.state[c] = w.state[c] \/ q.state[c] # "VOTE_SYNC_SHARED_STATE"
    BY ZenonT(30), <2>2 DEF Members, Accepted
  <2>5. z.phase = q.phase /\ z.state = q.state /\ z.sync = q.sync /\ z.cut = C
    BY ZenonT(30), <2>1, <2>2 DEF Send, MasterStates
  <2>6. w.cut \subseteq z.cut
    BY ZenonT(30), <2>2, <2>5 DEF C
  <2>7. Quiet(z, w) /\ Members(z, g) = Members(w, g)
    <3>0. z.phase = w.phase
      BY ZenonT(30), <2>2, <2>5
    <3>1. Accepted(z) = Accepted(w) /\ Members(z, g) = Members(w, g)
      BY ZenonT(30), <3>0 DEF Accepted, Members
    <3>2. z.sync.candidates = w.sync.candidates
      BY ZenonT(30), <2>3, <2>5
    <3>3. \A c \in Accepted(z) : z.state[c] = "VOTE_SYNC_SHARED_STATE" => w.state[c] = "VOTE_SYNC_SHARED_STATE"
      BY ZenonT(30), <2>4, <2>5 DEF Accepted
    <3> QED
      BY ZenonT(30), <2>6, <3>1, <3>2, <3>3 DEF Quiet
  <2>8. StartOpen(z, g)
    BY ZenonT(30), <2>4, <2>5, <2>7 DEF StartOpen
  <2> QED
    BY ZenonT(30), <1>4, <2>7, <2>8, QuietTwice
<1> QED
  BY ZenonT(30), <1>3, <1>5, <1>6

\* checkSyncSharedStateConsensus closes the vote of the group, provided that its caller does
\* when the election fails.
LEMMA CheckSyncStarts ==
    ASSUME Countable, NEW r, Consistent(r), NEW g \in Groups, NEW failed,
           ElectionMayFail(r, g) => Quiet(failed, r) /\ StartOpen(failed, g),
           NEW z \in CheckSyncSharedStateConsensus(r, g, failed)
    PROVE  Quiet(z, r) /\ StartOpen(z, g)
<1>1. CASE ~SyncSharedStateConsensus(r, g)
  <2>1. z = r
    BY ZenonT(30), <1>1 DEF CheckSyncSharedStateConsensus
  <2>2. StartOpen(r, g)
    <3> SUFFICES ASSUME Members(r, g) # {}, \A c \in Members(r, g) : r.state[c] = "VOTE_SYNC_SHARED_STATE"
                 PROVE  FALSE
      BY ZenonT(30) DEF StartOpen
    <3> DEFINE V == {c \in In(r, {"VOTE_SYNC_SHARED_STATE"}) : PeerGroup[c] = g}
    <3>1. \A c \in Peers \ Accepted(r) : r.state[c] \in ConnectingStates
      BY ZenonT(30) DEF Consistent, AcceptedMatch
    <3>2. V = Members(r, g)
      BY ZenonT(30), <3>1 DEF In, Registered, Members, Accepted, ConnectingStates
    <3>3. r.sync.votes \cap InGroup(g) = V
      BY ZenonT(30) DEF Consistent, VotesMatch, In, Registered, InGroup
    <3> QED
      BY ZenonT(30), <1>1, <3>2, <3>3 DEF SyncSharedStateConsensus
  <2> QED
    BY ZenonT(30), <2>1, <2>2, QuietFields
<1>2. CASE SyncSharedStateConsensus(r, g)
  <2>1. \A c \in Members(r, g) : r.state[c] = "VOTE_SYNC_SHARED_STATE"
    BY ZenonT(30), <1>2, SyncVoteUnanimous
  <2>2. z \in SharedStateElections(r, g) \/ (ElectionMayFail(r, g) /\ z = failed)
    BY ZenonT(30), <1>2 DEF CheckSyncSharedStateConsensus
  <2>3. ASSUME z \in SharedStateElections(r, g) PROVE Quiet(z, r) /\ StartOpen(z, g)
    <3>1. PICK mask \in ElectableMasks(r, g) :
              z \in UNION {DistributeMask(r, g, mask, found) : found \in ComparisonsOfVotes(r, g, mask)}
      BY ZenonT(30), <2>3 DEF SharedStateElections
    <3>2. PICK found \in ComparisonsOfVotes(r, g, mask) : z \in DistributeMask(r, g, mask, found)
      BY ZenonT(30), <3>1
    <3>3. mask \in SharedStates
      BY ZenonT(30), <3>1, ElectableType
    <3> QED
      BY ZenonT(30), <2>1, <3>2, <3>3, DistributeMaskStarts
  <2> QED
    BY ZenonT(30), <2>2, <2>3
<1> QED
  BY ZenonT(30), <1>1, <1>2

\* handleSyncSharedState: only the client's own group gets a candidate.
LEMMA SyncSharedStateStarts ==
    ASSUME Countable, NEW r, Consistent(r), NEW c \in Peers, NEW revision \in Nat,
           NEW strategy \in Strategies, NEW hashes \in SharedStates,
           NEW z \in HandleSyncSharedState(r, c, revision, strategy, hashes),
           \A h \in Groups : StartOpen(r, h)
    PROVE  \A h \in Groups : StartOpen(z, h)
<1> DEFINE g == PeerGroup[c]
           w == RecordRevision(r, c, revision)
           u == VoteSyncSharedState(w, c, strategy)
           v == VoteSharedStateMask(u, c, hashes)
           failed == [v EXCEPT !.cut = v.cut \cup Members(v, g)]
<1>0. g \in Groups
  BY ZenonT(30) DEF Groups
<1>1. Consistent(w) /\ SameBallots(w, r)
  <2>1. Consistent(w)
    BY ZenonT(30), RecordRevisionConsistent
  <2>2. SameBallots(w, r)
    BY ZenonT(30) DEF RecordRevision, SameBallots, Consistent, Typed, MasterStates, SyncStates
  <2> QED
    BY ZenonT(30), <2>1, <2>2
<1>2. \/ z = Kick(r, c)
      \/ z = Kick(w, c)
      \/ CanVoteSync(w, c) /\ z \in CheckSyncSharedStateConsensus(v, g, failed)
  BY ZenonT(30) DEF HandleSyncSharedState
<1> HIDE DEF w
<1>3. Quiet(w, r)
  BY ZenonT(30), <1>1 DEF SameBallots, Quiet, Accepted
<1>4. \A h \in Groups : StartOpen(w, h)
  BY ZenonT(30), <1>3, QuietOpen
<1>5. Quiet(Kick(r, c), r) /\ Quiet(Kick(w, c), w)
  BY ZenonT(30), <1>1, QuietFields
<1>6. CASE z = Kick(r, c) \/ z = Kick(w, c)
  BY ZenonT(30), <1>4, <1>5, <1>6, QuietOpen
<1>7. CASE CanVoteSync(w, c) /\ z \in CheckSyncSharedStateConsensus(v, g, failed)
  <2>1. Consistent(u)
    BY ZenonT(30), <1>1, <1>7, VoteSyncConsistent
  <2>2. /\ u.phase = w.phase /\ u.cut = w.cut /\ u.sync.candidates = w.sync.candidates
        /\ u.state = [w.state EXCEPT ![c] = "VOTE_SYNC_SHARED_STATE"]
    BY ZenonT(30), <1>1 DEF VoteSyncSharedState, Consistent, Typed, MasterStates, SyncStates
  <2> HIDE DEF u
  <2>3. Consistent(v)
    BY ZenonT(30), <2>1, VoteMaskConsistent
  <2>4. /\ v.phase = u.phase /\ v.cut = u.cut /\ v.state = u.state
        /\ \A h \in Groups : h # g => v.sync.candidates[h] = u.sync.candidates[h]
    BY ZenonT(30), <2>1 DEF VoteSharedStateMask, Consistent, Typed, MasterStates, SyncStates
  <2>5. w.state \in [Peers -> ConnectionStates]
    BY ZenonT(30), <1>1 DEF Consistent, Typed, MasterStates
  <2> HIDE DEF v
  <2>6. ASSUME NEW h \in Groups, h # g PROVE StartOpen(v, h)
    <3>1. Members(v, h) = Members(w, h) /\ \A e \in Members(v, h) : v.state[e] = w.state[e]
      <4>1. v.phase = w.phase /\ v.state = [w.state EXCEPT ![c] = "VOTE_SYNC_SHARED_STATE"]
        BY ZenonT(30), <2>2, <2>4
      <4>2. Members(v, h) = Members(w, h)
        BY ZenonT(30), <4>1 DEF Members, Accepted
      <4>3. \A e \in Members(v, h) : e \in Peers /\ e # c
        BY ZenonT(30), <2>6 DEF Members, Accepted
      <4>4. \A e \in Peers : e # c => v.state[e] = w.state[e]
        BY ZenonT(30), <2>5, <4>1
      <4> QED
        BY ZenonT(30), <4>2, <4>3, <4>4
    <3>2. v.cut = w.cut /\ v.sync.candidates[h] = w.sync.candidates[h]
      BY ZenonT(30), <2>2, <2>4, <2>6
    <3>3. Electable(v, h) <=> Electable(w, h)
      BY ZenonT(30), <3>2 DEF Electable
    <3> QED
      BY ZenonT(30), <1>4, <3>1, <3>2, <3>3 DEF StartOpen
  <2>7. Quiet(failed, v) /\ StartOpen(failed, g)
    <3>1. failed.phase = v.phase /\ failed.state = v.state /\ failed.sync = v.sync
          /\ failed.cut = v.cut \cup Members(v, g)
      BY ZenonT(30), <2>3 DEF Consistent, Typed, MasterStates
    <3> HIDE DEF failed
    <3>2. Quiet(failed, v)
      BY ZenonT(30), <3>1, QuietMove
    <3>3. Members(failed, g) = Members(v, g)
      BY ZenonT(30), <3>1 DEF Members, Accepted
    <3> QED
      BY ZenonT(30), <3>1, <3>2, <3>3 DEF StartOpen
  <2> HIDE DEF failed
  <2>8. Quiet(z, v) /\ StartOpen(z, g)
    BY ZenonT(30), <1>0, <1>7, <2>3, <2>7, CheckSyncStarts
  <2>9. \A h \in Groups : h # g => StartOpen(z, h)
    BY ZenonT(30), <2>6, <2>8, QuietOpen
  <2> QED
    BY ZenonT(30), <2>8, <2>9
<1> QED
  BY ZenonT(30), <1>2, <1>6, <1>7

\* An election among candidates of which none is empty has a result.  That the largest number of
\* votes exists follows from the theory of finite sets, at the end of MasterUnisonProofs.
Decisive == \A r : \A g \in Groups : Consistent(r) /\ Electable(r, g) => ~ElectionMayFail(r, g)

\* onClientDisconnect repeats the vote of the client's group, and leaves the others alone.
LEMMA DisconnectStarts ==
    ASSUME Countable, Decisive, NEW r, Consistent(r), NEW c \in Peers, NEW z \in OnClientDisconnect(r, c),
           \A h \in Groups : StartOpen(r, h)
    PROVE  \A h \in Groups : StartOpen(z, h)
<1> DEFINE g == PeerGroup[c]
           C == r.cut \ {c}
           left == [r EXCEPT !.cut = C]
           u == UnregisterClient(left, c)
           a == CheckEstablishP2PConnectionConsensus(u)
           b == [a EXCEPT !.peer_dropped = TRUE]
<1>1. g \in Groups /\ C \in SUBSET Peers
  BY ZenonT(30) DEF Groups, Consistent, Typed, MasterStates
<1>2. \/ z = left /\ c \notin Registered(r)
      \/ \E q \in CheckP2PConnectionsEstablished(b) :
            LET w == CheckQueryPeersPendingConsensus(q)
            IN  \E p \in CheckSyncSharedStateConsensus(w, g, w) :
                    z = RecheckCollectives(CheckSyncSharedStateCompleteConsensus(p, g), g)
  BY ZenonT(60) DEF OnClientDisconnect
<1>3. left.phase = r.phase /\ left.state = r.state /\ left.sync = r.sync /\ left.cut = r.cut \ {c}
  BY ZenonT(30) DEF Consistent, Typed, MasterStates
<1>4. Consistent(left)
  BY ZenonT(30), <1>1, CutConsistent
<1> HIDE DEF left, C
<1>5. CASE z = left /\ c \notin Registered(r)
  <2> SUFFICES ASSUME NEW h \in Groups PROVE StartOpen(left, h)
    BY ZenonT(30), <1>5
  <2>1. Members(left, h) = Members(r, h) /\ c \notin Members(r, h)
    BY ZenonT(30), <1>3, <1>5 DEF Members, Accepted, Registered
  <2>2. Electable(left, h) <=> Electable(r, h)
    BY ZenonT(30), <1>3 DEF Electable
  <2> QED
    BY ZenonT(30), <1>3, <2>1, <2>2 DEF StartOpen
<1>6. CASE \E q \in CheckP2PConnectionsEstablished(b) :
            LET w == CheckQueryPeersPendingConsensus(q)
            IN  \E p \in CheckSyncSharedStateConsensus(w, g, w) :
                    z = RecheckCollectives(CheckSyncSharedStateCompleteConsensus(p, g), g)
  <2>1. PICK q \in CheckP2PConnectionsEstablished(b) :
            LET w == CheckQueryPeersPendingConsensus(q)
            IN  \E p \in CheckSyncSharedStateConsensus(w, g, w) :
                    z = RecheckCollectives(CheckSyncSharedStateCompleteConsensus(p, g), g)
    BY ZenonT(30), <1>6
  <2> DEFINE w == CheckQueryPeersPendingConsensus(q)
  <2>2. PICK p \in CheckSyncSharedStateConsensus(w, g, w) :
            z = RecheckCollectives(CheckSyncSharedStateCompleteConsensus(p, g), g)
    BY ZenonT(30), <2>1
  <2> DEFINE d == CheckSyncSharedStateCompleteConsensus(p, g)
  <2>3. Consistent(u)
    BY ZenonT(30), <1>4, UnregisterConsistent
  <2>4. /\ u.phase = [left.phase EXCEPT ![c] = "NONE"] /\ u.state = [left.state EXCEPT ![c] = "IDLE"]
        /\ u.cut = left.cut /\ u.sync.candidates = left.sync.candidates
    BY ZenonT(30), <1>4 DEF UnregisterClient, Consistent, Typed, MasterStates, SyncStates
  <2>5. left.phase \in [Peers -> Phases] /\ left.state \in [Peers -> ConnectionStates]
    BY ZenonT(30), <1>4 DEF Consistent, Typed, MasterStates
  <2> HIDE DEF u
  <2>6. ASSUME NEW h \in Groups, h # g PROVE StartOpen(u, h)
    <3>1. /\ Members(u, h) = Members(r, h) /\ c \notin Members(r, h)
          /\ \A e \in Members(r, h) : u.state[e] = r.state[e]
      <4>1. \A e \in Peers : e # c => u.phase[e] = r.phase[e] /\ u.state[e] = r.state[e]
        BY ZenonT(30), <1>3, <2>4, <2>5
      <4>2. c \notin Members(r, h) /\ c \notin Members(u, h)
        BY ZenonT(30), <2>6 DEF Members
      <4>3. \A e : e \in Members(u, h) <=> e \in Members(r, h)
        BY ZenonT(30), <4>1, <4>2 DEF Members, Accepted
      <4>4. \A e \in Members(r, h) : e \in Peers /\ e # c
        BY ZenonT(30), <4>2 DEF Members, Accepted
      <4> QED
        BY ZenonT(30), <4>1, <4>2, <4>3, <4>4
    <3>2. Electable(u, h) <=> Electable(r, h)
      BY ZenonT(30), <1>3, <2>4 DEF Electable
    <3> QED
      BY ZenonT(30), <1>3, <2>4, <3>1, <3>2 DEF StartOpen
  <2>7. Consistent(a) /\ Quiet(a, u)
    BY ZenonT(30), <2>3, CheckEstablishConsistent, QuietEstablish
  <2> HIDE DEF a
  <2>8. Consistent(b) /\ Quiet(b, a)
    BY ZenonT(30), <2>7, DroppedConsistent, QuietFields
  <2> HIDE DEF b
  <2>9. Consistent(q) /\ Quiet(q, b)
    BY ZenonT(30), <2>8, CheckP2PEstablishedConsistent, QuietP2P
  <2>10. Consistent(w) /\ Quiet(w, q)
    BY ZenonT(30), <2>9, CheckQueryConsistent, QuietQuery
  <2> HIDE DEF w
  <2>11. Quiet(w, u)
    <3>1. Quiet(b, u)
      BY ZenonT(30), <2>7, <2>8, QuietTwice
    <3>2. Quiet(q, u)
      BY ZenonT(30), <2>9, <3>1, QuietTwice
    <3> QED
      BY ZenonT(30), <2>10, <3>2, QuietTwice
  <2>12. ElectionMayFail(w, g) => Quiet(w, w) /\ StartOpen(w, g)
    <3>1. ElectionMayFail(w, g) => ~Electable(w, g)
      BY ZenonT(30), <1>1, <2>10 DEF Decisive
    <3> QED
      BY ZenonT(30), <2>10, <3>1, QuietFields DEF StartOpen
  <2>13. Quiet(p, w) /\ StartOpen(p, g)
    BY ZenonT(30), <1>1, <2>10, <2>12, CheckSyncStarts
  <2>14. Consistent(p)
    BY ZenonT(30), <1>1, <2>10, CheckSyncConsistent
  <2>15. Consistent(d) /\ Quiet(d, p)
    BY ZenonT(30), <1>1, <2>14, CheckSyncCompleteConsistent, QuietSyncComplete
  <2>16. z = RecheckCollectives(d, g)
    BY ZenonT(30), <2>2
  <2> HIDE DEF d
  <2>17. Quiet(z, d)
    BY ZenonT(30), <1>1, <2>15, <2>16, QuietRecheck
  <2>18. Quiet(z, p)
    BY ZenonT(30), <2>15, <2>17, QuietTwice
  <2>19. \A h \in Groups : h # g => StartOpen(p, h)
    BY ZenonT(30), <2>6, <2>11, <2>13, QuietOpen
  <2>20. \A h \in Groups : StartOpen(p, h)
    BY ZenonT(30), <2>13, <2>19
  <2> QED
    BY ZenonT(30), <2>18, <2>20, QuietOpen
<1> QED
  BY ZenonT(30), <1>2, <1>5, <1>6

-----------------------------------------------------------------------------
(* The specification *)

\* Every vote to synchronize is open.
StartInv == Inv /\ \A g \in Groups : StartOpen(s, g)

\* Nobody has voted at the beginning.
LEMMA InitStart == Init => StartInv
<1> SUFFICES ASSUME Init PROVE \A g \in Groups : StartOpen(s, g)
  BY ZenonT(30), InitInv DEF StartInv
<1>1. \A g : Members(s, g) = {}
  BY ZenonT(30) DEF Init, EmptyMaster, Accepted, Members
<1> QED
  BY ZenonT(30), <1>1 DEF StartOpen

\* Delivering the packets of a handler changes no client.
LEMMA StepStarts ==
    ASSUME NEW S, \A z \in S : Consistent(z), \A z \in S : \A g \in Groups : StartOpen(z, g), Step(S)
    PROVE  \A g \in Groups : StartOpen(s', g)
<1>1. PICK z \in S : s' = Delivered(z)
  BY ZenonT(30) DEF Step
<1>2. Quiet(s', z)
  BY ZenonT(30), <1>1, QuietFields
<1> QED
  BY ZenonT(30), <1>2, QuietOpen

\* Every action closes the vote it completes, because the handler it runs does.
LEMMA NextStarts == Countable /\ Decisive /\ StartInv /\ [Next]_vars => \A g \in Groups : StartOpen(s', g)
<1> DEFINE Opens(S) == \A z \in S : \A g \in Groups : StartOpen(z, g)
<1> SUFFICES ASSUME Countable, Decisive, StartInv, [Next]_vars PROVE \A g \in Groups : StartOpen(s', g)
  BY ZenonT(30)
<1>1. Consistent(s) /\ \A g \in Groups : StartOpen(s, g)
  BY ZenonT(30) DEF StartInv, Inv
<1>2. ASSUME NEW c \in Peers, NEW S, \A z \in S : Consistent(z), Opens(S), Receive(c, S)
      PROVE  \A g \in Groups : StartOpen(s', g)
  BY ZenonT(30), <1>2, StepStarts DEF Receive
<1>3. ASSUME NEW S, \A z \in S : Quiet(z, s) PROVE Opens(S)
  BY ZenonT(30), <1>1, <1>3, QuietOpen
<1> HIDE DEF Opens
<1>4. ASSUME NEW c \in Peers, RequestSessionJoin(c) PROVE \A g \in Groups : StartOpen(s', g)
  <2>1. \A z \in HandleRequestSessionJoin(s, c) : Consistent(z)
    BY ZenonT(30), <1>1, RequestSessionJoinConsistent
  <2>2. Opens(HandleRequestSessionJoin(s, c))
    BY ZenonT(30), <1>1, <1>3, QuietSessionJoin
  <2> QED
    BY ZenonT(30), <1>2, <1>4, <2>1, <2>2 DEF RequestSessionJoin
<1>5. ASSUME NEW c \in Peers, RequestEstablishP2PConnections(c) PROVE \A g \in Groups : StartOpen(s', g)
  <2>1. PICK accept \in BOOLEAN : Receive(c, HandleEstablishP2PConnections(s, c, accept))
    BY ZenonT(30), <1>5 DEF RequestEstablishP2PConnections
  <2>2. \A z \in HandleEstablishP2PConnections(s, c, accept) : Consistent(z)
    BY ZenonT(30), <1>1, EstablishP2PConnectionsConsistent
  <2>3. Opens(HandleEstablishP2PConnections(s, c, accept))
    BY ZenonT(30), <1>1, <1>3, QuietEstablishVote
  <2> QED
    BY ZenonT(30), <1>2, <2>1, <2>2, <2>3
<1>6. ASSUME NEW c \in Peers, P2PConnectionsEstablished(c) PROVE \A g \in Groups : StartOpen(s', g)
  <2>1. PICK b \in BOOLEAN, F \in SUBSET (Peers \ {c}) :
            Receive(c, HandleP2PConnectionsEstablished(s, c, b, F)) /\ (b => F = {})
    BY ZenonT(30), <1>6 DEF P2PConnectionsEstablished
  <2>2. \A z \in HandleP2PConnectionsEstablished(s, c, b, F) : Consistent(z)
    BY ZenonT(30), <1>1, <2>1, P2PConnectionsEstablishedConsistent
  <2>3. Opens(HandleP2PConnectionsEstablished(s, c, b, F))
    BY ZenonT(30), <1>1, <1>3, QuietReport
  <2> QED
    BY ZenonT(30), <1>2, <2>1, <2>2, <2>3
<1>7. ASSUME NEW c \in Peers, CheckPeersPending(c) PROVE \A g \in Groups : StartOpen(s', g)
  <2>1. \A z \in HandleCheckPeersPending(s, c) : Consistent(z)
    BY ZenonT(30), <1>1, CheckPeersPendingConsistent
  <2>2. Opens(HandleCheckPeersPending(s, c))
    BY ZenonT(30), <1>1, <1>3, QuietPeersPending
  <2> QED
    BY ZenonT(30), <1>2, <1>7, <2>1, <2>2 DEF CheckPeersPending
<1>8. ASSUME NEW c \in Peers, OptimizeTopology(c) PROVE \A g \in Groups : StartOpen(s', g)
  <2>1. \A z \in HandleOptimizeTopology(s, c) : Consistent(z)
    BY ZenonT(30), <1>1, OptimizeTopologyConsistent
  <2>2. Opens(HandleOptimizeTopology(s, c))
    BY ZenonT(30), <1>1, <1>3, QuietOptimize
  <2> QED
    BY ZenonT(30), <1>2, <1>8, <2>1, <2>2 DEF OptimizeTopology
<1>9. ASSUME NEW c \in Peers, ReportPeerBandwidth(c) PROVE \A g \in Groups : StartOpen(s', g)
  <2>1. PICK to \in Peers : Receive(c, HandleReportPeerBandwidth(s, c, to))
    BY ZenonT(30), <1>9 DEF ReportPeerBandwidth
  <2>2. \A z \in HandleReportPeerBandwidth(s, c, to) : Consistent(z)
    BY ZenonT(30), <1>1, ReportBandwidthConsistent
  <2>3. PeerGroup[c] \in Groups
    BY ZenonT(30) DEF Groups
  <2>4. Opens(HandleReportPeerBandwidth(s, c, to))
    BY ZenonT(30), <1>1, <1>3, <2>3, QuietSolver
  <2> QED
    BY ZenonT(30), <1>2, <2>1, <2>2, <2>4
<1>10. ASSUME NEW c \in Peers, OptimizeTopologyWorkComplete(c) PROVE \A g \in Groups : StartOpen(s', g)
  <2>1. \A z \in HandleOptimizeTopologyWorkComplete(s, c) : Consistent(z)
    BY ZenonT(30), <1>1, WorkCompleteConsistent
  <2>2. Opens(HandleOptimizeTopologyWorkComplete(s, c))
    BY ZenonT(30), <1>1, <1>3, QuietWorkComplete
  <2> QED
    BY ZenonT(30), <1>2, <1>10, <2>1, <2>2 DEF OptimizeTopologyWorkComplete
<1>11. ASSUME NEW c \in Peers, SyncSharedState(c) PROVE \A g \in Groups : StartOpen(s', g)
  <2>1. PICK revision \in 0..MaxRevision, strategy \in Strategies, hashes \in SharedStates :
            Receive(c, HandleSyncSharedState(s, c, revision, strategy, hashes))
    BY ZenonT(30), <1>11 DEF SyncSharedState
  <2>2. revision \in Nat
    BY <2>1
  <2>3. \A z \in HandleSyncSharedState(s, c, revision, strategy, hashes) : Consistent(z)
    BY ZenonT(30), <1>1, <2>2, SyncSharedStateConsistent
  <2>4. Opens(HandleSyncSharedState(s, c, revision, strategy, hashes))
    BY ZenonT(30), <1>1, <2>2, SyncSharedStateStarts DEF Opens
  <2> QED
    BY ZenonT(30), <1>2, <2>1, <2>3, <2>4
<1>12. ASSUME NEW c \in Peers, SyncSharedStateComplete(c) PROVE \A g \in Groups : StartOpen(s', g)
  <2>1. \A z \in HandleSyncSharedStateComplete(s, c) : Consistent(z)
    BY ZenonT(30), <1>1, SyncSharedStateCompleteConsistent
  <2>2. Opens(HandleSyncSharedStateComplete(s, c))
    BY ZenonT(30), <1>1, <1>3, QuietSynchronized
  <2> QED
    BY ZenonT(30), <1>2, <1>12, <2>1, <2>2 DEF SyncSharedStateComplete
<1>13. ASSUME NEW c \in Peers, CollectiveCommsInitiate(c) PROVE \A g \in Groups : StartOpen(s', g)
  <2>1. PICK t \in Tags : Receive(c, HandleCollectiveCommsInitiate(s, c, t))
    BY ZenonT(30), <1>13 DEF CollectiveCommsInitiate
  <2>2. \A z \in HandleCollectiveCommsInitiate(s, c, t) : Consistent(z)
    BY ZenonT(30), <1>1, CollectiveCommsInitiateConsistent
  <2>3. Opens(HandleCollectiveCommsInitiate(s, c, t))
    BY ZenonT(30), <1>1, <1>3, QuietInitiate
  <2> QED
    BY ZenonT(30), <1>2, <2>1, <2>2, <2>3
<1>14. ASSUME NEW c \in Peers, CollectiveCommsComplete(c) PROVE \A g \in Groups : StartOpen(s', g)
  <2>1. PICK t \in Tags, b \in BOOLEAN : Receive(c, HandleCollectiveCommsComplete(s, c, t, b))
    BY ZenonT(30), <1>14 DEF CollectiveCommsComplete
  <2>2. \A z \in HandleCollectiveCommsComplete(s, c, t, b) : Consistent(z)
    BY ZenonT(30), <1>1, CollectiveCommsCompleteConsistent
  <2>3. Opens(HandleCollectiveCommsComplete(s, c, t, b))
    BY ZenonT(30), <1>1, <1>3, QuietComplete
  <2> QED
    BY ZenonT(30), <1>2, <2>1, <2>2, <2>3
<1>15. ASSUME NEW c \in Peers, Cut(c) PROVE \A g \in Groups : StartOpen(s', g)
  <2>1. Quiet(s', s)
    BY ZenonT(30), <1>1, <1>15, QuietFields DEF Cut
  <2> QED
    BY ZenonT(30), <1>1, <2>1, QuietOpen
<1>16. ASSUME NEW c \in Peers, ClientDisconnect(c) PROVE \A g \in Groups : StartOpen(s', g)
  <2>1. \A z \in OnClientDisconnect(s, c) : Consistent(z)
    BY ZenonT(30), <1>1, DisconnectConsistent
  <2>2. \A z \in OnClientDisconnect(s, c) : \A g \in Groups : StartOpen(z, g)
    BY ZenonT(30), <1>1, DisconnectStarts
  <2> QED
    BY ZenonT(30), <1>16, <2>1, <2>2, StepStarts DEF ClientDisconnect
<1>17. ASSUME NEW g \in Groups, Moonshot(g) PROVE \A h \in Groups : StartOpen(s', h)
  <2>1. \A z \in {StartSolver(s, g)} : Consistent(z) /\ Quiet(z, s)
    BY ZenonT(30), <1>1, SolverConsistent, QuietSolver
  <2>2. \A z \in FinishSolver(s, g) : Consistent(z) /\ Quiet(z, s)
    BY ZenonT(30), <1>1, SolverConsistent, QuietSolver
  <2>3. Opens({StartSolver(s, g)}) /\ Opens(FinishSolver(s, g))
    BY ZenonT(30), <1>3, <2>1, <2>2
  <2> QED
    BY ZenonT(30), <1>17, <2>1, <2>2, <2>3, StepStarts DEF Moonshot, Opens
<1>18. ASSUME UNCHANGED vars PROVE \A g \in Groups : StartOpen(s', g)
  BY ZenonT(30), <1>1, <1>18 DEF vars
<1>19. ASSUME NEW c \in Peers, Packet(c) PROVE \A g \in Groups : StartOpen(s', g)
  BY ZenonT(30), <1>4, <1>5, <1>6, <1>7, <1>8, <1>9, <1>10, <1>11, <1>12, <1>13, <1>14, <1>19 DEF Packet
<1> QED
  BY ZenonT(30), <1>15, <1>16, <1>17, <1>18, <1>19 DEF Next

=============================================================================
