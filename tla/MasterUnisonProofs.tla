------------------------- MODULE MasterUnisonProofs -------------------------
(***************************************************************************)
(* The master keeps its clients in step and answers every vote during      *)
(* collective operations and when connections are lost.  The theorems      *)
(* about the master are at the end.                                        *)
(***************************************************************************)
EXTENDS MasterPhasesProofs, MasterStartProofs

\* The provers get more time than by default.
USE SMTT(20)

-----------------------------------------------------------------------------
(* Collective operations *)

\* The vote of a group on the begin or on the end of an operation is open.
CollOpen(r, g, t, st) == Members(r, g) # {} => \E c \in Members(r, g) : r.coll[c][t] # st

Polls == {"VOTE_INITIATE", "VOTE_COMPLETE"}

\* An operation has two votes.
LEMMA OperationOpenPolls ==
    ASSUME NEW r, NEW g, NEW t
    PROVE  OperationOpen(r, g, t) <=> \A st \in Polls : CollOpen(r, g, t, st)
BY ZenonT(30) DEF OperationOpen, CollOpen, Polls

\* Abort packets and flags change no client.
LEMMA AbortSame ==
    ASSUME NEW r, Consistent(r), NEW g \in Groups, NEW T \in SUBSET Tags
    PROVE  Same(AbortCollectiveCommsOperation(r, g, T), r)
<1> DEFINE A == [r.aborted EXCEPT ![g] = r.aborted[g] \cup T]
           q == [r EXCEPT !.aborted = A]
<1>1. A \in [Groups -> SUBSET Tags]
  BY ZenonT(30) DEF Consistent, Typed, MasterStates
<1>2. AbortCollectiveCommsOperation(r, g, T)
        = SendCollectiveCommsAbortPackets(q, g, T \ r.aborted[g], TRUE)
  BY ZenonT(30) DEF AbortCollectiveCommsOperation, Consistent, Typed, MasterStates
<1> HIDE DEF A
<1>3. Consistent(q) /\ Same(q, r)
  BY ZenonT(30), <1>1, AbortedConsistent, PlainSame
<1> HIDE DEF q
<1>4. \A batch : Same(Send(q, batch), q)
  BY ZenonT(30), <1>3, PlainSame
<1>5. Same(SendCollectiveCommsAbortPackets(q, g, T \ r.aborted[g], TRUE), q)
  BY ZenonT(30), <1>4 DEF SendCollectiveCommsAbortPackets
<1> QED
  BY ZenonT(30), <1>2, <1>3, <1>5 DEF Same

\* What the checks of operations have in common: the operations in ready move from one point
\* to another for all members, and running members may become idle.
CollEffect(z, r, g, ready, st) ==
    /\ z.phase = r.phase /\ z.query = r.query /\ z.sync = r.sync
    /\ \A c \in Peers \ Members(r, g) : z.state[c] = r.state[c] /\ z.coll[c] = r.coll[c]
    /\ \A c \in Members(r, g) :
           /\ \/ z.state[c] = r.state[c]
              \/ r.state[c] = "COLLECTIVE_COMMUNICATIONS_RUNNING" /\ z.state[c] = "IDLE"
           /\ \A t \in Tags : z.coll[c][t] = IF t \in ready THEN st ELSE r.coll[c][t]

\* checkCollectiveCommsInitiateConsensus.
LEMMA CheckInitiateEffect ==
    ASSUME Countable, NEW r, Consistent(r), NEW g \in Groups, NEW T \in SUBSET Tags
    PROVE  CollEffect(CheckCollectiveCommsInitiateConsensus(r, g, T), r, g,
                      Unanimous(r, g, T, "VOTE_INITIATE"), "PERFORM")
<1> DEFINE ready == Unanimous(r, g, T, "VOTE_INITIATE")
           z == CheckCollectiveCommsInitiateConsensus(r, g, T)
           q == TransitionToPerformCollectiveCommsPhase(r, g, ready)
           n == q.seq_nr + Cardinality(ready)
           p == [q EXCEPT !.seq_nr = n]
           seq_nr(t) == r.seq_nr + Cardinality({u \in ready : u < t})
           f == [c \in Peers |-> [t \in Tags |->
                    IF c \in Members(r, g) /\ t \in ready THEN "PERFORM" ELSE r.coll[c][t]]]
<1>1. z = Send(p, [x \in Running(q, g) \X ({"commence"} \X ready) |-> seq_nr(x[2][2])])
  BY ZenonT(30) DEF CheckCollectiveCommsInitiateConsensus
<1>2. ready \in SUBSET Tags /\ \A c \in Members(r, g), t \in ready : r.coll[c][t] = "VOTE_INITIATE"
  BY ZenonT(30) DEF Unanimous
<1>3. Cardinality(ready) \in Nat
  BY ZenonT(30), <1>2 DEF Countable
<1> HIDE DEF ready
<1>4. Consistent(q)
  BY ZenonT(30), <1>2, PerformConsistent
<1>5. q = [r EXCEPT !.coll = f]
  BY ZenonT(30) DEF TransitionToPerformCollectiveCommsPhase, SetColl, Consistent, Typed, MasterStates
<1>6. r.coll \in [Peers -> [Tags -> CollStates]]
  BY ZenonT(30) DEF Consistent, Typed, MasterStates
<1>7. /\ \A c \in Peers \ Members(r, g) : f[c] = r.coll[c]
      /\ \A c \in Members(r, g), t \in Tags : f[c][t] = IF t \in ready THEN "PERFORM" ELSE r.coll[c][t]
  BY ZenonT(30), <1>6 DEF Members, Accepted
<1> HIDE DEF q, f
<1>8. q.phase = r.phase /\ q.query = r.query /\ q.sync = r.sync /\ q.state = r.state /\ q.coll = f
  BY ZenonT(30), <1>5 DEF Consistent, Typed, MasterStates
<1>9. n \in Nat
  BY <1>3, <1>4 DEF Consistent, Typed, MasterStates
<1> HIDE DEF n
<1>10. Consistent(p) /\ Same(p, q)
  BY ZenonT(30), <1>4, <1>9, SeqNrConsistent, PlainSame
<1> HIDE DEF p
<1>11. \A batch : Same(Send(p, batch), p)
  BY ZenonT(30), <1>10, PlainSame
<1>12. Same(z, p)
  BY ZenonT(30), <1>1, <1>11
<1> HIDE DEF z
<1>13. CollEffect(z, r, g, ready, "PERFORM")
  BY <1>7, <1>8, <1>10, <1>12 DEF CollEffect, Same
<1> QED
  BY ZenonT(30), <1>13 DEF z, ready

\* checkCollectiveCommsCompleteConsensus.
LEMMA CheckCompleteEffect ==
    ASSUME NEW r, Consistent(r), NEW g \in Groups, NEW T \in SUBSET Tags
    PROVE  CollEffect(CheckCollectiveCommsCompleteConsensus(r, g, T), r, g,
                      Unanimous(r, g, T, "VOTE_COMPLETE"), "NONE")
<1> DEFINE ready == Unanimous(r, g, T, "VOTE_COMPLETE")
           z == CheckCollectiveCommsCompleteConsensus(r, g, T)
           p == SendCollectiveCommsAbortPackets(r, g, ready \ r.aborted[g], FALSE)
           q == TransitionToCollectiveCommsCompletePhase(p, g, ready)
           told == {c \in Members(q, g) :
                       q.state[c] \in {"IDLE", "COLLECTIVE_COMMUNICATIONS_RUNNING"}}
           f == [c \in Peers |-> [t \in Tags |->
                    IF c \in Members(p, g) /\ t \in ready THEN "NONE" ELSE p.coll[c][t]]]
           X == [c \in Peers |->
                    IF ready # {} /\ c \in Members(p, g) /\ \A t \in Tags : f[c][t] = "NONE"
                    THEN "IDLE" ELSE p.state[c]]
           A == [p.aborted EXCEPT ![g] = p.aborted[g] \ ready]
<1>1. z = Send(q, [x \in told \X ({"complete"} \X ready) |-> TRUE])
  BY ZenonT(30) DEF CheckCollectiveCommsCompleteConsensus
<1>2. ready \in SUBSET Tags /\ \A c \in Members(r, g), t \in ready : r.coll[c][t] = "VOTE_COMPLETE"
  BY ZenonT(30) DEF Unanimous
<1> HIDE DEF ready
<1>3. Consistent(p)
  BY ZenonT(30), AbortPacketsConsistent
<1>4. Same(p, r)
  <2>1. \A batch : Same(Send(r, batch), r)
    BY ZenonT(30), PlainSame
  <2> QED
    BY ZenonT(30), <2>1 DEF SendCollectiveCommsAbortPackets
<1> HIDE DEF p
<1>5. Members(p, g) = Members(r, g)
  BY ZenonT(30), <1>4 DEF Members, Accepted, Same
<1>6. Consistent(q)
  BY ZenonT(30), <1>2, <1>3, <1>4, <1>5, CompleteConsistent DEF Same
<1>7. q = [p EXCEPT !.coll = f, !.state = X, !.aborted = A]
  BY <1>3 DEF TransitionToCollectiveCommsCompletePhase, SetColl, Consistent, Typed, MasterStates
<1>8. r.coll \in [Peers -> [Tags -> CollStates]]
  BY ZenonT(30) DEF Consistent, Typed, MasterStates
<1>9. /\ \A c \in Peers \ Members(r, g) : f[c] = r.coll[c]
      /\ \A c \in Members(r, g), t \in Tags : f[c][t] = IF t \in ready THEN "NONE" ELSE r.coll[c][t]
  BY ZenonT(30), <1>4, <1>5, <1>8 DEF Members, Accepted, Same
<1> HIDE DEF q, f
<1>10. \A c \in Peers : X[c] = IF ready # {} /\ c \in Members(r, g) /\ \A t \in Tags : f[c][t] = "NONE"
                               THEN "IDLE" ELSE r.state[c]
  BY ZenonT(30), <1>4, <1>5 DEF Same
<1> HIDE DEF X, A
<1>11. q.phase = p.phase /\ q.query = p.query /\ q.sync = p.sync /\ q.state = X /\ q.coll = f
  BY ZenonT(30), <1>3, <1>7 DEF Consistent, Typed, MasterStates
<1>12. \A c \in Members(r, g) : ready # {} => r.state[c] = "COLLECTIVE_COMMUNICATIONS_RUNNING"
  BY ZenonT(30), <1>2 DEF Consistent, OperationsMatch, Members, Accepted
<1>13. Same(z, q)
  <2>1. \A batch : Same(Send(q, batch), q)
    BY ZenonT(30), <1>6, PlainSame
  <2> QED
    BY ZenonT(30), <1>1, <2>1
<1> HIDE DEF z
<1>14. z.phase = r.phase /\ z.query = r.query /\ z.sync = r.sync /\ z.state = X /\ z.coll = f
  BY ZenonT(30), <1>4, <1>11, <1>13 DEF Same
<1>15. CollEffect(z, r, g, ready, "NONE")
  <2>1. \A c \in Peers \ Members(r, g) : X[c] = r.state[c]
    BY ZenonT(30), <1>10
  <2>2. \A c \in Members(r, g) :
            X[c] = r.state[c] \/ (r.state[c] = "COLLECTIVE_COMMUNICATIONS_RUNNING" /\ X[c] = "IDLE")
    BY ZenonT(30), <1>10, <1>12 DEF Members, Accepted
  <2> QED
    BY ZenonT(30), <1>9, <1>14, <2>1, <2>2 DEF CollEffect
<1> QED
  BY ZenonT(30), <1>15 DEF z, ready

\* The members are in step, and no vote is closed.
CollPreserved(z, r, g, ready) ==
    /\ Unison(z)
    /\ EstablishOpen(r) => EstablishOpen(z)
    /\ QueryOpen(r) => QueryOpen(z)
    /\ \A h \in Groups : SyncOpen(r, h) => SyncOpen(z, h)
    /\ \A h \in Groups \ {g} : \A t \in Tags : OperationOpen(r, h, t) => OperationOpen(z, h, t)
    /\ \A t \in Tags, p \in Polls : t \in ready \/ CollOpen(r, g, t, p) => CollOpen(z, g, t, p)
    /\ z.sync.next_revision = r.sync.next_revision
    /\ \A h \in Groups : Started(r, h) => Started(z, h)

\* Operations that move for all members at once leave the members in step and close no vote.
LEMMA CollEffectUnison ==
    ASSUME NEW r, Unison(r), NEW g \in Groups, NEW ready \in SUBSET Tags,
           NEW st \in {"PERFORM", "NONE"}, NEW z, CollEffect(z, r, g, ready, st)
    PROVE  CollPreserved(z, r, g, ready)
<1>1. \A h : Members(z, h) = Members(r, h) /\ Members(r, h) \subseteq Peers
  BY DEF CollEffect, Members, Accepted
<1>2. GroupTogether(r, g) /\ GroupHeld(r, g)
  BY ZenonT(30), UnisonOfGroup
<1>3. \A c \in Members(r, g) :
          \/ z.state[c] = r.state[c]
          \/ r.state[c] = "COLLECTIVE_COMMUNICATIONS_RUNNING" /\ z.state[c] = "IDLE"
  BY ZenonT(30) DEF CollEffect
<1>4. \A c \in Members(r, g), t \in Tags : z.coll[c][t] = IF t \in ready THEN st ELSE r.coll[c][t]
  BY ZenonT(30) DEF CollEffect
<1>5. GroupStep(z, r, g)
  <2>1. \A c \in Members(r, g) : z.state[c] = r.state[c] \/ {r.state[c], z.state[c]} \cap Fixed = {}
    BY ZenonT(30), <1>3 DEF Fixed, Connecting, Late, Optimizing
  <2> QED
    BY ZenonT(30), <2>1 DEF CollEffect, GroupStep
<1>6. GroupTogether(z, g)
  <2>1. \A c \in Members(r, g) : /\ z.state[c] \in Distributing => r.state[c] \in Distributing
                                 /\ r.state[c] \in Distributing \cup Late => z.state[c] = r.state[c]
    BY ZenonT(30), <1>3 DEF Distributing, Late
  <2>2. ASSUME NEW c \in Members(r, g), NEW e \in Members(r, g), z.state[c] \in Distributing
        PROVE  z.state[e] \in Distributing \cup Late
    BY ZenonT(30), <1>2, <2>1, <2>2 DEF GroupTogether
  <2>3. ASSUME NEW c \in Members(r, g), NEW e \in Members(r, g), NEW t \in Tags,
               z.coll[c][t] \in {"PERFORM", "VOTE_COMPLETE"}, z.coll[e][t] \in {"NONE", "VOTE_INITIATE"}
        PROVE  z.state[e] \in Late
    <3>1. t \notin ready
      BY ZenonT(30), <1>4, <2>3
    <3>2. r.state[e] \in Late
      BY ZenonT(30), <1>2, <1>4, <2>3, <3>1 DEF GroupTogether
    <3> QED
      BY ZenonT(30), <2>1, <3>2
  <2> QED
    BY ZenonT(30), <1>1, <2>2, <2>3 DEF GroupTogether
<1>7. GroupHeld(z, g)
  <2>1. z.sync = r.sync
    BY ZenonT(30) DEF CollEffect
  <2> QED
    BY ZenonT(30), <1>1, <1>2, <1>3, <2>1 DEF GroupHeld
<1>8. \A c \in Peers : \/ z.state[c] = r.state[c]
                       \/ r.state[c] = "COLLECTIVE_COMMUNICATIONS_RUNNING" /\ z.state[c] = "IDLE"
  BY ZenonT(30), <1>3 DEF CollEffect
<1>9. \A h \in Groups : SyncOpen(r, h) => SyncOpen(z, h)
  BY ZenonT(30), <1>1, <1>8 DEF SyncOpen
<1>10. \A h \in Groups : Started(r, h) => Started(z, h)
  BY ZenonT(30), <1>1, <1>8 DEF Started
<1>11. \A t \in Tags, p \in Polls : t \in ready \/ CollOpen(r, g, t, p) => CollOpen(z, g, t, p)
  BY ZenonT(30), <1>1, <1>4 DEF CollOpen, Polls
<1>12. /\ Unison(z)
       /\ EstablishOpen(r) => EstablishOpen(z)
       /\ QueryOpen(r) => QueryOpen(z)
       /\ \A h \in Groups \ {g} : \A t \in Tags : OperationOpen(r, h, t) => OperationOpen(z, h, t)
  BY ZenonT(30), <1>5, <1>6, <1>7, GroupStepUnison
<1> QED
  BY ZenonT(30), <1>9, <1>10, <1>11, <1>12 DEF CollEffect, CollPreserved

\* Both checks, for any set of tags: the votes they are about are closed if they were
\* unanimous.
LEMMA CheckCollectivesUnison ==
    ASSUME Countable, NEW r, Consistent(r), Unison(r), NEW g \in Groups, NEW T \in SUBSET Tags,
           NEW z, NEW poll \in Polls,
           \/ poll = "VOTE_INITIATE" /\ z = CheckCollectiveCommsInitiateConsensus(r, g, T)
           \/ poll = "VOTE_COMPLETE" /\ z = CheckCollectiveCommsCompleteConsensus(r, g, T)
    PROVE  /\ Consistent(z) /\ Unison(z)
           /\ EstablishOpen(r) => EstablishOpen(z)
           /\ QueryOpen(r) => QueryOpen(z)
           /\ \A h \in Groups : SyncOpen(r, h) => SyncOpen(z, h)
           /\ \A h \in Groups \ {g} : \A t \in Tags : OperationOpen(r, h, t) => OperationOpen(z, h, t)
           /\ \A t \in Tags, p \in Polls : CollOpen(r, g, t, p) => CollOpen(z, g, t, p)
           /\ \A t \in T : CollOpen(z, g, t, poll)
           /\ z.sync.next_revision = r.sync.next_revision
           /\ \A h \in Groups : Started(r, h) => Started(z, h)
<1> DEFINE ready == Unanimous(r, g, T, poll)
<1>1. ready \in SUBSET Tags
  BY ZenonT(30) DEF Unanimous
<1>2. PICK st \in {"PERFORM", "NONE"} : CollEffect(z, r, g, ready, st)
  BY ZenonT(30), CheckInitiateEffect, CheckCompleteEffect
<1>3. \A t \in T : t \in ready \/ CollOpen(r, g, t, poll)
  BY ZenonT(30) DEF Unanimous, CollOpen
<1>4. Consistent(z)
  BY ZenonT(30), CheckInitiateConsistent, CheckCompleteConsistent
<1> HIDE DEF ready
<1>5. CollPreserved(z, r, g, ready)
  BY ZenonT(30), <1>1, <1>2, CollEffectUnison
<1> QED
  BY ZenonT(30), <1>3, <1>4, <1>5 DEF CollPreserved

\* voteCollectiveCommsInitiate: nobody in the group is in the operation already, because the
\* client that votes is not.
LEMMA VoteInitiateUnison ==
    ASSUME NEW r, Consistent(r), Unison(r), Open(r), NEW c \in Peers, NEW t \in Tags,
           CanVoteInitiate(r, c, t)
    PROVE  LET v == VoteCollectiveCommsInitiate(r, c, t)
               g == PeerGroup[c]
           IN  /\ Unison(v) /\ EstablishOpen(v) /\ QueryOpen(v)
               /\ \A h \in Groups : SyncOpen(v, h)
               /\ \A h \in Groups \ {g} : \A u \in Tags : OperationOpen(v, h, u)
               /\ \A u \in Tags, p \in Polls : u # t \/ p # "VOTE_INITIATE" => CollOpen(v, g, u, p)
               /\ v.sync = r.sync
<1> DEFINE v == VoteCollectiveCommsInitiate(r, c, t)
           g == PeerGroup[c]
           f == [r.coll EXCEPT ![c] = [r.coll[c] EXCEPT ![t] = "VOTE_INITIATE"]]
           X == [r.state EXCEPT ![c] = "COLLECTIVE_COMMUNICATIONS_RUNNING"]
<1>1. /\ r.state \in [Peers -> ConnectionStates] /\ r.coll \in [Peers -> [Tags -> CollStates]]
      /\ g \in Groups
  BY ZenonT(30) DEF Consistent, Typed, MasterStates, Groups
<1>2. v = [r EXCEPT !.state = X, !.coll = f]
  BY ZenonT(30) DEF VoteCollectiveCommsInitiate, Consistent, Typed, MasterStates
<1>3. /\ f[c][t] = "VOTE_INITIATE"
      /\ \A u \in Tags : u # t => f[c][u] = r.coll[c][u]
      /\ \A e \in Peers : e # c => f[e] = r.coll[e]
      /\ X[c] = "COLLECTIVE_COMMUNICATIONS_RUNNING" /\ \A e \in Peers : e # c => X[e] = r.state[e]
  BY ZenonT(30), <1>1
<1> HIDE DEF f, X, v, g
<1>4. v.phase = r.phase /\ v.query = r.query /\ v.sync = r.sync /\ v.state = X /\ v.coll = f
  BY ZenonT(30), <1>2 DEF Consistent, Typed, MasterStates
<1>5. /\ c \in Members(r, g) /\ r.state[c] \in {"IDLE", "COLLECTIVE_COMMUNICATIONS_RUNNING"}
      /\ r.coll[c][t] = "NONE"
  BY ZenonT(30) DEF CanVoteInitiate, Members, Accepted, g
<1>6. \A h : Members(v, h) = Members(r, h) /\ Members(r, h) \subseteq Peers
  BY ZenonT(30), <1>4 DEF Members, Accepted
<1>7. GroupTogether(r, g) /\ GroupHeld(r, g)
  BY ZenonT(30), UnisonOfGroup
<1>8. GroupStep(v, r, g)
  <2>1. \A e \in Members(r, g) : v.state[e] = r.state[e] \/ {r.state[e], v.state[e]} \cap Fixed = {}
    BY ZenonT(30), <1>3, <1>4, <1>5, <1>6 DEF Fixed, Connecting, Late, Optimizing
  <2> QED
    BY ZenonT(30), <1>3, <1>4, <1>5, <2>1 DEF GroupStep
<1>9. GroupTogether(v, g)
  <2>1. \A e \in Members(r, g) : r.state[e] \notin Distributing
    BY ZenonT(30), <1>5, <1>7 DEF GroupTogether, Distributing, Late
  <2>2. \A e \in Members(r, g) : v.state[e] \notin Distributing
    BY ZenonT(30), <1>3, <1>4, <1>6, <2>1 DEF Distributing
  <2>3. \A e \in Members(r, g) : r.state[e] \in Late => e # c /\ v.state[e] \in Late
    BY ZenonT(30), <1>3, <1>4, <1>5, <1>6 DEF Late
  <2>4. ASSUME NEW a \in Members(r, g), NEW e \in Members(r, g), NEW u \in Tags,
               v.coll[a][u] \in {"PERFORM", "VOTE_COMPLETE"}, v.coll[e][u] \in {"NONE", "VOTE_INITIATE"}
        PROVE  v.state[e] \in Late
    <3>1. r.coll[a][u] \in {"PERFORM", "VOTE_COMPLETE"}
      BY ZenonT(30), <1>3, <1>4, <1>6, <2>4
    <3>2. r.coll[e][u] \in {"NONE", "VOTE_INITIATE"}
      BY ZenonT(30), <1>3, <1>4, <1>5, <1>6, <2>4
    <3>3. r.state[e] \in Late
      BY ZenonT(30), <1>7, <3>1, <3>2 DEF GroupTogether
    <3> QED
      BY ZenonT(30), <2>3, <3>3
  <2> QED
    BY ZenonT(30), <1>6, <2>2, <2>4 DEF GroupTogether
<1>10. GroupHeld(v, g)
  BY ZenonT(30), <1>3, <1>4, <1>6, <1>7 DEF GroupHeld
<1>11. SyncOpen(v, g)
  BY ZenonT(30), <1>3, <1>4, <1>5, <1>6 DEF SyncOpen
<1>12. \A u \in Tags, p \in Polls : u # t \/ p # "VOTE_INITIATE" => CollOpen(v, g, u, p)
  <2>1. \A u \in Tags, p \in Polls : CollOpen(r, g, u, p)
    BY ZenonT(30), <1>1, OperationOpenPolls DEF Open
  <2>2. \A e \in Members(r, g), u \in Tags : u # t => v.coll[e][u] = r.coll[e][u]
    BY ZenonT(30), <1>3, <1>4, <1>6
  <2>3. v.coll[c][t] = "VOTE_INITIATE"
    BY ZenonT(30), <1>3, <1>4
  <2> QED
    BY <1>5, <1>6, <2>1, <2>2, <2>3 DEF CollOpen, Polls
<1>13. /\ Unison(v)
       /\ EstablishOpen(r) => EstablishOpen(v)
       /\ QueryOpen(r) => QueryOpen(v)
       /\ \A h \in Groups \ {g} : /\ SyncOpen(r, h) => SyncOpen(v, h)
                                  /\ \A u \in Tags : OperationOpen(r, h, u) => OperationOpen(v, h, u)
  BY ZenonT(30), <1>1, <1>8, <1>9, <1>10, GroupStepUnison
<1>14. /\ Unison(v) /\ EstablishOpen(v) /\ QueryOpen(v)
       /\ \A h \in Groups : SyncOpen(v, h)
       /\ \A h \in Groups \ {g} : \A u \in Tags : OperationOpen(v, h, u)
  BY ZenonT(30), <1>11, <1>13 DEF Open
<1> QED
  BY ZenonT(30), <1>4, <1>12, <1>14 DEF v, g

\* handleCollectiveCommsInitiate.
LEMMA CollectiveCommsInitiateKept ==
    ASSUME Countable, NEW r, Consistent(r), Unison(r), Open(r), NEW c \in Peers, NEW t \in Tags,
           NEW z \in HandleCollectiveCommsInitiate(r, c, t)
    PROVE  Kept(z, r)
<1> DEFINE v == VoteCollectiveCommsInitiate(r, c, t)
           g == PeerGroup[c]
<1>1. g \in Groups /\ {t} \in SUBSET Tags /\ "VOTE_INITIATE" \in Polls
  BY ZenonT(30) DEF Groups, Polls
<1>2. CASE CanVoteInitiate(r, c, t)
  <2>1. Consistent(v)
    BY ZenonT(30), <1>2, VoteInitiateConsistent
  <2>2. /\ Unison(v) /\ EstablishOpen(v) /\ QueryOpen(v)
        /\ \A h \in Groups : SyncOpen(v, h)
        /\ \A h \in Groups \ {g} : \A u \in Tags : OperationOpen(v, h, u)
        /\ \A u \in Tags, p \in Polls : u # t \/ p # "VOTE_INITIATE" => CollOpen(v, g, u, p)
        /\ v.sync = r.sync
    BY ZenonT(30), <1>2, VoteInitiateUnison
  <2>3. z = CheckCollectiveCommsInitiateConsensus(v, g, {t})
    BY ZenonT(30), <1>2 DEF HandleCollectiveCommsInitiate
  <2> HIDE DEF v, g
  <2>4. /\ Unison(z)
        /\ EstablishOpen(v) => EstablishOpen(z)
        /\ QueryOpen(v) => QueryOpen(z)
        /\ \A h \in Groups : SyncOpen(v, h) => SyncOpen(z, h)
        /\ \A h \in Groups \ {g} : \A u \in Tags : OperationOpen(v, h, u) => OperationOpen(z, h, u)
        /\ \A u \in Tags, p \in Polls : CollOpen(v, g, u, p) => CollOpen(z, g, u, p)
        /\ \A u \in {t} : CollOpen(z, g, u, "VOTE_INITIATE")
        /\ z.sync.next_revision = v.sync.next_revision
    BY ZenonT(60), <1>1, <2>1, <2>2, <2>3, CheckCollectivesUnison
  <2>5. \A u \in Tags, p \in Polls : CollOpen(z, g, u, p)
    BY <2>2, <2>4
  <2>6. \A u \in Tags : OperationOpen(z, g, u)
    BY ZenonT(30), <2>5, OperationOpenPolls
  <2> QED
    BY ZenonT(30), <2>2, <2>4, <2>6 DEF Kept, Open
<1>3. CASE ~CanVoteInitiate(r, c, t)
  <2>1. z = Kick(r, c)
    BY ZenonT(30), <1>3 DEF HandleCollectiveCommsInitiate
  <2> QED
    BY ZenonT(30), <2>1, KickSame, SameKept
<1> QED
  BY ZenonT(30), <1>2, <1>3

\* voteCollectiveCommsComplete: the client stays in the operation.
LEMMA VoteCompleteUnison ==
    ASSUME NEW r, Consistent(r), Unison(r), Open(r), NEW c \in Peers, NEW t \in Tags,
           CanVoteComplete(r, c, t)
    PROVE  LET v == VoteCollectiveCommsComplete(r, c, t)
               g == PeerGroup[c]
           IN  /\ Unison(v) /\ EstablishOpen(v) /\ QueryOpen(v)
               /\ \A h \in Groups : SyncOpen(v, h)
               /\ \A h \in Groups \ {g} : \A u \in Tags : OperationOpen(v, h, u)
               /\ \A u \in Tags, p \in Polls : u # t \/ p # "VOTE_COMPLETE" => CollOpen(v, g, u, p)
               /\ v.sync = r.sync
<1> DEFINE v == VoteCollectiveCommsComplete(r, c, t)
           g == PeerGroup[c]
           f == [r.coll EXCEPT ![c] = [r.coll[c] EXCEPT ![t] = "VOTE_COMPLETE"]]
<1>1. /\ r.state \in [Peers -> ConnectionStates] /\ r.coll \in [Peers -> [Tags -> CollStates]]
      /\ g \in Groups
  BY DEF Consistent, Typed, MasterStates, Groups
<1>2. v = [r EXCEPT !.coll = f]
  BY ZenonT(30) DEF VoteCollectiveCommsComplete, Consistent, Typed, MasterStates
<1>3. /\ f[c][t] = "VOTE_COMPLETE"
      /\ \A u \in Tags : u # t => f[c][u] = r.coll[c][u]
      /\ \A e \in Peers : e # c => f[e] = r.coll[e]
  BY ZenonT(30), <1>1
<1> HIDE DEF f, v, g
<1>4. v.phase = r.phase /\ v.query = r.query /\ v.sync = r.sync /\ v.state = r.state /\ v.coll = f
  BY ZenonT(30), <1>2 DEF Consistent, Typed, MasterStates
<1>5. c \in Members(r, g) /\ r.coll[c][t] = "PERFORM"
  BY ZenonT(30) DEF CanVoteComplete, Members, Accepted, g
<1>6. \A h : Members(v, h) = Members(r, h) /\ Members(r, h) \subseteq Peers
  BY ZenonT(30), <1>4 DEF Members, Accepted
<1>7. GroupTogether(r, g) /\ GroupHeld(r, g)
  BY ZenonT(30), UnisonOfGroup
<1>8. GroupStep(v, r, g)
  BY ZenonT(30), <1>3, <1>4, <1>5 DEF GroupStep
<1>9. GroupTogether(v, g)
  <2>1. ASSUME NEW a \in Members(r, g), NEW e \in Members(r, g), NEW u \in Tags,
               v.coll[a][u] \in {"PERFORM", "VOTE_COMPLETE"}, v.coll[e][u] \in {"NONE", "VOTE_INITIATE"}
        PROVE  v.state[e] \in Late
    <3>1. r.coll[a][u] \in {"PERFORM", "VOTE_COMPLETE"}
      BY ZenonT(30), <1>3, <1>4, <1>5, <1>6, <2>1
    <3>2. r.coll[e][u] \in {"NONE", "VOTE_INITIATE"}
      BY ZenonT(30), <1>3, <1>4, <1>6, <2>1
    <3>3. r.state[e] \in Late
      BY ZenonT(30), <1>7, <3>1, <3>2 DEF GroupTogether
    <3> QED
      BY ZenonT(30), <1>4, <3>3
  <2> QED
    BY ZenonT(30), <1>4, <1>6, <1>7, <2>1 DEF GroupTogether
<1>10. GroupHeld(v, g)
  BY ZenonT(30), <1>4, <1>6, <1>7 DEF GroupHeld
<1>11. \A h \in Groups : SyncOpen(v, h)
  BY ZenonT(30), <1>4, <1>6 DEF SyncOpen, Open
<1>12. \A u \in Tags, p \in Polls : u # t \/ p # "VOTE_COMPLETE" => CollOpen(v, g, u, p)
  <2>1. \A u \in Tags, p \in Polls : CollOpen(r, g, u, p)
    BY ZenonT(30), <1>1, OperationOpenPolls DEF Open
  <2>2. \A e \in Members(r, g), u \in Tags : u # t => v.coll[e][u] = r.coll[e][u]
    BY ZenonT(30), <1>3, <1>4, <1>6
  <2>3. v.coll[c][t] = "VOTE_COMPLETE"
    BY ZenonT(30), <1>3, <1>4
  <2> QED
    BY <1>5, <1>6, <2>1, <2>2, <2>3 DEF CollOpen, Polls
<1>13. /\ Unison(v)
       /\ EstablishOpen(r) => EstablishOpen(v)
       /\ QueryOpen(r) => QueryOpen(v)
       /\ \A h \in Groups \ {g} : \A u \in Tags : OperationOpen(r, h, u) => OperationOpen(v, h, u)
  BY ZenonT(30), <1>1, <1>8, <1>9, <1>10, GroupStepUnison
<1>14. /\ Unison(v) /\ EstablishOpen(v) /\ QueryOpen(v)
       /\ \A h \in Groups \ {g} : \A u \in Tags : OperationOpen(v, h, u)
  BY ZenonT(30), <1>13 DEF Open
<1> QED
  BY ZenonT(30), <1>4, <1>11, <1>12, <1>14 DEF v, g

\* handleCollectiveCommsComplete, aborted or not.
LEMMA CollectiveCommsCompleteKept ==
    ASSUME Countable, NEW r, Consistent(r), Unison(r), Open(r), NEW c \in Peers, NEW t \in Tags,
           NEW was_aborted, NEW z \in HandleCollectiveCommsComplete(r, c, t, was_aborted)
    PROVE  Kept(z, r)
<1> DEFINE v == VoteCollectiveCommsComplete(r, c, t)
           g == PeerGroup[c]
           a == AbortCollectiveCommsOperation(v, g, {t})
<1>1. g \in Groups /\ {t} \in SUBSET Tags /\ "VOTE_COMPLETE" \in Polls
  BY ZenonT(30) DEF Groups, Polls
<1>2. CASE CanVoteComplete(r, c, t)
  <2>1. Consistent(v)
    BY ZenonT(30), <1>2, VoteCompleteConsistent
  <2>2. /\ Unison(v) /\ EstablishOpen(v) /\ QueryOpen(v)
        /\ \A h \in Groups : SyncOpen(v, h)
        /\ \A h \in Groups \ {g} : \A u \in Tags : OperationOpen(v, h, u)
        /\ \A u \in Tags, p \in Polls : u # t \/ p # "VOTE_COMPLETE" => CollOpen(v, g, u, p)
        /\ v.sync = r.sync
    BY ZenonT(30), <1>2, VoteCompleteUnison
  <2>3. \/ z = CheckCollectiveCommsCompleteConsensus(a, g, {t})
        \/ z = CheckCollectiveCommsCompleteConsensus(v, g, {t})
    BY ZenonT(30), <1>2 DEF HandleCollectiveCommsComplete
  <2> HIDE DEF v, g
  <2>4. Consistent(a) /\ Same(a, v)
    BY ZenonT(30), <1>1, <2>1, AbortConsistent, AbortSame
  <2> HIDE DEF a
  <2>5. PICK w \in {a, v} : z = CheckCollectiveCommsCompleteConsensus(w, g, {t})
    BY ZenonT(30), <2>3
  <2>6. Consistent(w) /\ Same(w, v)
    BY ZenonT(30), <2>1, <2>4 DEF Same
  <2>7. \A u, p : CollOpen(v, g, u, p) => CollOpen(w, g, u, p)
    BY ZenonT(30), <2>6 DEF CollOpen, Same, Members, Accepted
  <2>8. /\ Unison(w) /\ EstablishOpen(w) /\ QueryOpen(w)
        /\ \A h \in Groups : SyncOpen(w, h)
        /\ \A h \in Groups \ {g} : \A u \in Tags : OperationOpen(w, h, u)
        /\ w.sync = r.sync
    BY ZenonT(30), <2>2, <2>6, SameKeeps DEF Same
  <2>9. /\ Unison(z)
        /\ EstablishOpen(w) => EstablishOpen(z)
        /\ QueryOpen(w) => QueryOpen(z)
        /\ \A h \in Groups : SyncOpen(w, h) => SyncOpen(z, h)
        /\ \A h \in Groups \ {g} : \A u \in Tags : OperationOpen(w, h, u) => OperationOpen(z, h, u)
        /\ \A u \in Tags, p \in Polls : CollOpen(w, g, u, p) => CollOpen(z, g, u, p)
        /\ \A u \in {t} : CollOpen(z, g, u, "VOTE_COMPLETE")
        /\ z.sync.next_revision = w.sync.next_revision
    BY ZenonT(60), <1>1, <2>5, <2>6, <2>8, CheckCollectivesUnison
  <2>10. \A u \in Tags, p \in Polls : CollOpen(z, g, u, p)
    BY <2>2, <2>7, <2>9
  <2>11. \A u \in Tags : OperationOpen(z, g, u)
    BY <2>10, OperationOpenPolls
  <2> QED
    BY ZenonT(30), <2>8, <2>9, <2>11 DEF Kept, Open
<1>3. CASE ~CanVoteComplete(r, c, t)
  <2>1. z = Kick(r, c)
    BY ZenonT(30), <1>3 DEF HandleCollectiveCommsComplete
  <2> QED
    BY <2>1, KickSame, SameKept
<1> QED
  BY ZenonT(30), <1>2, <1>3

-----------------------------------------------------------------------------
(* The loss of a connection *)

\* What is checked again about the operations of a group leaves all their votes open.
Rechecked(z, r, g) ==
    /\ Unison(z)
    /\ EstablishOpen(r) => EstablishOpen(z)
    /\ QueryOpen(r) => QueryOpen(z)
    /\ \A h \in Groups : SyncOpen(r, h) => SyncOpen(z, h)
    /\ \A h \in Groups \ {g} : \A t \in Tags : OperationOpen(r, h, t) => OperationOpen(z, h, t)
    /\ \A t \in Tags : OperationOpen(z, g, t)
    /\ z.sync.next_revision = r.sync.next_revision
    /\ Started(r, g) => Started(z, g)

\* The operations of a departed client's group: the votes that its departure decides are acted on.
LEMMA RecheckUnison ==
    ASSUME Countable, NEW r, Consistent(r), Unison(r), NEW g \in Groups
    PROVE  Rechecked(RecheckCollectives(r, g), r, g)
<1> DEFINE T == GetOngoingCollectiveCommsOpTags(r, g)
           a == CheckCollectiveCommsInitiateConsensus(r, g, T)
           b == CheckCollectiveCommsCompleteConsensus(a, g, T)
           U == {t \in T : IsCollectiveOperationRunning(b, g, t)}
           z == RecheckCollectives(r, g)
<1>1. z = AbortCollectiveCommsOperation(b, g, U)
  BY ZenonT(30) DEF RecheckCollectives
<1>2. T \in SUBSET Tags
  BY ZenonT(30) DEF GetOngoingCollectiveCommsOpTags
<1>3. \A t \in Tags \ T, p \in Polls : CollOpen(r, g, t, p)
  <2>1. Members(r, g) \subseteq LocalWorld(r, g, TRUE)
    BY ZenonT(30) DEF Members, Accepted, LocalWorld, Registered
  <2>2. \A t \in Tags \ T, c \in Members(r, g) : r.coll[c][t] = "NONE"
    BY ZenonT(30), <2>1 DEF GetOngoingCollectiveCommsOpTags
  <2> QED
    BY ZenonT(30), <2>2 DEF CollOpen, Polls
<1>4. "VOTE_INITIATE" \in Polls /\ "VOTE_COMPLETE" \in Polls
  BY ZenonT(30) DEF Polls
<1> HIDE DEF T, z
<1>5. a = CheckCollectiveCommsInitiateConsensus(r, g, T)
  BY ZenonT(30)
<1> HIDE DEF a
<1>6. b = CheckCollectiveCommsCompleteConsensus(a, g, T)
  BY ZenonT(30)
<1> HIDE DEF b
<1>7. /\ Consistent(a) /\ Unison(a)
      /\ EstablishOpen(r) => EstablishOpen(a)
      /\ QueryOpen(r) => QueryOpen(a)
      /\ \A h \in Groups : SyncOpen(r, h) => SyncOpen(a, h)
      /\ \A h \in Groups \ {g} : \A t \in Tags : OperationOpen(r, h, t) => OperationOpen(a, h, t)
      /\ \A t \in Tags, p \in Polls : CollOpen(r, g, t, p) => CollOpen(a, g, t, p)
      /\ \A t \in T : CollOpen(a, g, t, "VOTE_INITIATE")
      /\ a.sync.next_revision = r.sync.next_revision
      /\ \A h \in Groups : Started(r, h) => Started(a, h)
  BY ZenonT(60), <1>2, <1>4, <1>5, CheckCollectivesUnison
<1>8. /\ Consistent(b) /\ Unison(b)
      /\ EstablishOpen(a) => EstablishOpen(b)
      /\ QueryOpen(a) => QueryOpen(b)
      /\ \A h \in Groups : SyncOpen(a, h) => SyncOpen(b, h)
      /\ \A h \in Groups \ {g} : \A t \in Tags : OperationOpen(a, h, t) => OperationOpen(b, h, t)
      /\ \A t \in Tags, p \in Polls : CollOpen(a, g, t, p) => CollOpen(b, g, t, p)
      /\ \A t \in T : CollOpen(b, g, t, "VOTE_COMPLETE")
      /\ b.sync.next_revision = a.sync.next_revision
      /\ \A h \in Groups : Started(a, h) => Started(b, h)
  BY ZenonT(60), <1>2, <1>4, <1>6, <1>7, CheckCollectivesUnison
<1>9. \A t \in Tags, p \in Polls : CollOpen(b, g, t, p)
  <2>1. \A t \in T, p \in Polls : CollOpen(b, g, t, p)
    BY ZenonT(30), <1>2, <1>7, <1>8 DEF Polls
  <2>2. \A t \in Tags \ T, p \in Polls : CollOpen(b, g, t, p)
    BY ZenonT(30), <1>3, <1>7, <1>8
  <2> QED
    BY ZenonT(30), <2>1, <2>2
<1>10. \A t \in Tags : OperationOpen(b, g, t)
  BY ZenonT(30), <1>9, OperationOpenPolls
<1>11. U \in SUBSET Tags
  BY ZenonT(30), <1>2
<1> HIDE DEF U
<1>12. Same(z, b)
  BY ZenonT(30), <1>1, <1>8, <1>11, AbortSame
<1>13. Started(b, g) => Started(z, g)
  BY ZenonT(30), <1>12 DEF Started, Same, Members, Accepted
<1>14. Rechecked(b, r, g)
  BY ZenonT(30), <1>7, <1>8, <1>10 DEF Rechecked
<1>15. /\ Unison(b) => Unison(z)
       /\ EstablishOpen(b) => EstablishOpen(z)
       /\ QueryOpen(b) => QueryOpen(z)
       /\ \A h : SyncOpen(b, h) => SyncOpen(z, h)
       /\ \A h, t : OperationOpen(b, h, t) => OperationOpen(z, h, t)
       /\ z.sync = b.sync
  BY ZenonT(30), <1>12, SameKeeps DEF Same
<1>16. Rechecked(z, r, g)
  BY ZenonT(30), <1>13, <1>14, <1>15 DEF Rechecked
<1> QED
  BY ZenonT(30), <1>16 DEF z

\* unregisterClient concerns the client's group only; the client is idle until it is
\* registered again.
LEMMA UnregisterUnison ==
    ASSUME NEW r, Consistent(r), Unison(r), Open(r), NEW c \in Peers
    PROVE  LET z == UnregisterClient(r, c)
           IN  /\ Unison(z)
               /\ \A h \in Groups \ {PeerGroup[c]} :
                      SyncOpen(z, h) /\ \A t \in Tags : OperationOpen(z, h, t)
               /\ z.sync.next_revision = r.sync.next_revision
<1> DEFINE z == UnregisterClient(r, c)
           P == [r.phase EXCEPT ![c] = "NONE"]
           X == [r.state EXCEPT ![c] = "IDLE"]
           f == [r.coll EXCEPT ![c] = [t \in Tags |-> "NONE"]]
           y == [r.sync EXCEPT !.votes = r.sync.votes \ {c},
                               !.strategy = [r.sync.strategy EXCEPT ![c] = "none"],
                               !.votes_complete = r.sync.votes_complete \ {c}]
<1>1. /\ r.phase \in [Peers -> Phases] /\ r.state \in [Peers -> ConnectionStates]
      /\ r.coll \in [Peers -> [Tags -> CollStates]] /\ r.sync \in SyncStates
  BY ZenonT(30) DEF Consistent, Typed, MasterStates
<1>2. y.entries = r.sync.entries /\ y.mask = r.sync.mask /\ y.next_revision = r.sync.next_revision
  BY ZenonT(30), <1>1 DEF SyncStates
<1>3. /\ P[c] = "NONE" /\ X[c] = "IDLE"
      /\ \A e \in Peers : e # c => P[e] = r.phase[e] /\ X[e] = r.state[e] /\ f[e] = r.coll[e]
  BY ZenonT(30), <1>1
<1>4. z.phase = P /\ z.state = X /\ z.coll = f /\ z.sync = y
  BY ZenonT(30), <1>1 DEF UnregisterClient, Consistent, Typed, MasterStates, SyncStates
<1> HIDE DEF z, P, X, f, y
<1>5. Accepted(z) = Accepted(r) \ {c} /\ Accepted(r) \subseteq Peers
  BY ZenonT(30), <1>3, <1>4 DEF Accepted
<1>6. \A e \in Accepted(z) : e # c /\ e \in Accepted(r) /\ z.state[e] = r.state[e] /\ z.coll[e] = r.coll[e]
  BY ZenonT(30), <1>3, <1>4, <1>5
<1>7. Together(z)
  <2>1. \A e \in Peers : z.phase[e] = "NONE" => z.state[e] = "IDLE"
    BY ZenonT(30), <1>3, <1>4 DEF Unison, Together
  <2>2. \A e \in Peers : z.state[e] = "CONNECTING_TO_PEERS" => r.state[e] = "CONNECTING_TO_PEERS"
    BY ZenonT(30), <1>3, <1>4
  <2> QED
    BY ZenonT(30), <1>6, <2>1, <2>2 DEF Unison, Together
<1>8. Held(z)
  BY ZenonT(30), <1>2, <1>4, <1>6 DEF Unison, Held
<1>9. \A h \in Groups \ {PeerGroup[c]} : Members(z, h) = Members(r, h)
  BY ZenonT(30), <1>5 DEF Members
<1>10. \A h \in Groups : \A e \in Members(z, h) : z.state[e] = r.state[e] /\ z.coll[e] = r.coll[e]
  BY ZenonT(30), <1>6 DEF Members
<1>11. \A h \in Groups \ {PeerGroup[c]} :
           SyncOpen(z, h) /\ \A t \in Tags : OperationOpen(z, h, t)
  BY <1>9, <1>10 DEF Open, SyncOpen, OperationOpen
<1> QED
  BY ZenonT(30), <1>2, <1>4, <1>7, <1>8, <1>11 DEF Unison, z

\* onClientDisconnect: each check closes the votes it is about, and the later ones leave them
\* closed.  A round that the departure begins is still in its first step at the end.
LEMMA DisconnectAdvanced ==
    ASSUME Countable, NEW r, Consistent(r), Unison(r), Open(r), NEW c \in Peers, NEW z \in OnClientDisconnect(r, c)
    PROVE  Advanced(z, r)
<1> DEFINE g == PeerGroup[c]
           k == [r EXCEPT !.cut = r.cut \ {c}]
           u == UnregisterClient(k, c)
           e == CheckEstablishP2PConnectionConsensus(u)
           d == [e EXCEPT !.peer_dropped = TRUE]
           rest(q) == LET w == CheckQueryPeersPendingConsensus(q)
                      IN  {RecheckCollectives(CheckSyncSharedStateCompleteConsensus(p, g), g) :
                               p \in CheckSyncSharedStateConsensus(w, g, w)}
           Others(q) == \A h \in Groups \ {g} : SyncOpen(q, h) /\ \A t \in Tags : OperationOpen(q, h, t)
<1>1. g \in Groups
  BY ZenonT(30) DEF Groups
<1>2. z \in IF c \notin Registered(r) THEN {k}
            ELSE UNION {rest(q) : q \in CheckP2PConnectionsEstablished(d)}
  BY ZenonT(30) DEF OnClientDisconnect
<1>3. Consistent(k) /\ Same(k, r)
  <2>1. r.cut \ {c} \in SUBSET Peers
    BY ZenonT(30) DEF Consistent, Typed, MasterStates
  <2> QED
    BY ZenonT(30), <2>1, CutConsistent, PlainSame
<1> HIDE DEF k
<1>4. Kept(k, r)
  BY ZenonT(30), <1>3, SameKept
<1>5. CASE c \notin Registered(r)
  BY ZenonT(30), <1>2, <1>4, <1>5, KeptAdvanced
<1>6. CASE c \in Registered(r)
  <2>1. Consistent(u)
    BY ZenonT(30), <1>3, UnregisterConsistent
  <2>2. Unison(u) /\ Others(u) /\ u.sync.next_revision = r.sync.next_revision
    BY ZenonT(30), <1>3, <1>4, UnregisterUnison DEF Kept
  <2> HIDE DEF u
  <2>3. Consistent(e)
    BY ZenonT(30), <2>1, CheckEstablishConsistent
  <2>4. e.sync = u.sync
    BY ZenonT(30), <2>1, CheckEstablishEffect
  <2>5. Unison(e) /\ EstablishOpen(e) /\ Others(e)
    BY ZenonT(30), <2>1, <2>2, CheckEstablishUnison
  <2> HIDE DEF e
  <2>6. Consistent(d) /\ Same(d, e) /\ d.peer_dropped
    <3>1. d.peer_dropped
      BY ZenonT(30), <2>3 DEF Consistent, Typed, MasterStates
    <3> QED
      BY ZenonT(30), <2>3, <3>1, DroppedConsistent, PlainSame
  <2> HIDE DEF d
  <2>7. Unison(d) /\ EstablishOpen(d) /\ Others(d) /\ d.sync = e.sync
    BY ZenonT(30), <2>5, <2>6, SameKeeps DEF Same
  <2>8. PICK q \in CheckP2PConnectionsEstablished(d) : z \in rest(q)
    BY ZenonT(30), <1>2, <1>6
  <2>9. Consistent(q)
    BY ZenonT(30), <2>6, CheckP2PEstablishedConsistent
  <2>10. Unison(q) /\ EstablishOpen(q) /\ Others(q) /\ q.sync = d.sync
    BY ZenonT(30), <2>6, <2>7, CheckP2PUnison
  <2> DEFINE w == CheckQueryPeersPendingConsensus(q)
  <2>11. Consistent(w)
    BY ZenonT(30), <2>9, CheckQueryConsistent
  <2>12. SameButQuery(w, q) /\ QueryOpen(w)
    BY ZenonT(30), <2>9, CheckQueryUnison
  <2>13. PICK p \in CheckSyncSharedStateConsensus(w, g, w) :
             z = RecheckCollectives(CheckSyncSharedStateCompleteConsensus(p, g), g)
    BY ZenonT(30), <2>8
  <2> HIDE DEF w
  <2>14. Unison(w) /\ EstablishOpen(w) /\ Others(w) /\ w.sync = q.sync
    BY ZenonT(30), <2>10, <2>12, SameButQueryKeeps DEF SameButQuery
  <2>15. Consistent(p)
    BY ZenonT(30), <1>1, <2>11, CheckSyncConsistent
  <2>16. SyncEffect(p, w, g)
    BY ZenonT(30), <1>1, <2>11, <2>14, UnisonOfGroup, CheckSyncEffect DEF Same
  <2>17. Unison(p) /\ EstablishOpen(p) /\ QueryOpen(p) /\ Others(p)
    BY ZenonT(30), <1>1, <2>11, <2>12, <2>14, CheckSyncUnison DEF Same
  <2> DEFINE y == CheckSyncSharedStateCompleteConsensus(p, g)
  <2>18. Consistent(y)
    BY ZenonT(30), <1>1, <2>15, CheckSyncCompleteConsistent
  <2>19. /\ Unison(y) /\ EstablishOpen(y) /\ QueryOpen(y) /\ Others(y) /\ SyncOpen(y, g)
         /\ y.sync.next_revision = p.sync.next_revision
         /\ Started(p, g) => Started(y, g)
    BY ZenonT(30), <1>1, <2>15, <2>17, CheckSyncCompleteUnison
  <2>20. z = RecheckCollectives(y, g)
    BY ZenonT(30), <2>13
  <2> HIDE DEF y
  <2>21. Rechecked(z, y, g)
    BY ZenonT(30), <1>1, <2>18, <2>19, <2>20, RecheckUnison
  <2> HIDE DEF g
  <2>22. Unison(z) /\ Open(z)
    BY ZenonT(30), <2>19, <2>21 DEF Rechecked, Open
  <2>23. RoundsCounted(z, r)
    <3>1. w.sync.next_revision = r.sync.next_revision
      BY ZenonT(30), <2>2, <2>4, <2>7, <2>10, <2>14
    <3>2. z.sync.next_revision = p.sync.next_revision /\ (Started(p, g) => Started(z, g))
      BY ZenonT(30), <2>19, <2>21 DEF Rechecked
    <3>3. /\ \A h \in Groups \ {g} : p.sync.next_revision[h] = w.sync.next_revision[h]
          /\ \/ p.sync.next_revision[g] = w.sync.next_revision[g]
             \/ p.sync.next_revision[g] = w.sync.next_revision[g] + 1 /\ Started(p, g)
      BY ZenonT(30), <2>16 DEF SyncEffect
    <3> QED
      BY ZenonT(30), <3>1, <3>2, <3>3 DEF RoundsCounted
  <2> QED
    BY ZenonT(30), <2>22, <2>23 DEF Advanced
<1> QED
  BY ZenonT(30), <1>5, <1>6

-----------------------------------------------------------------------------
(* The specification *)

\* Clients in step and open votes keep each other: a member can be told that an operation
\* begins, or is over, together with the others only because the votes on it were open.
UnisonInv == Inv /\ Unison(s) /\ Open(s)

\* Without clients there is nothing to keep in step.
LEMMA InitUnison == Init => UnisonInv
<1> SUFFICES ASSUME Init PROVE Unison(s) /\ Open(s)
  BY ZenonT(30), InitInv DEF UnisonInv
<1>1. s = EmptyMaster
  BY ZenonT(30) DEF Init
<1>2. \A c \in Peers : s.state[c] = "IDLE" /\ s.phase[c] = "NONE"
  BY ZenonT(30), <1>1 DEF EmptyMaster
<1>3. Accepted(s) = {} /\ \A g : Members(s, g) = {}
  BY ZenonT(30), <1>2 DEF Accepted, Members
<1> QED
  BY ZenonT(30), <1>2, <1>3 DEF Unison, Together, Held, Open, EstablishOpen, QueryOpen, SyncOpen, OperationOpen

\* Delivering the packets of a handler changes no client.
LEMMA StepAdvanced ==
    ASSUME NEW S, \A z \in S : Consistent(z) /\ Advanced(z, s), Step(S)
    PROVE  Advanced(s', s)
<1>1. PICK z \in S : s' = Delivered(z)
  BY ZenonT(30) DEF Step
<1>2. Same(s', z)
  BY ZenonT(30), <1>1, PlainSame
<1> QED
  BY ZenonT(30), <1>2, AdvancedSame

\* Every action keeps the clients in step, closes the votes that are decided and counts the
\* rounds, because the handler it runs does.
LEMMA NextAdvanced == Countable /\ UnisonInv /\ [Next]_vars => Advanced(s', s)
<1> SUFFICES ASSUME Countable, UnisonInv, [Next]_vars PROVE Advanced(s', s)
  BY ZenonT(30)
<1>1. Consistent(s) /\ Unison(s) /\ Open(s)
  BY ZenonT(30) DEF UnisonInv, Inv
<1>2. ASSUME NEW c \in Peers, NEW S, \A z \in S : Consistent(z), \A z \in S : Advanced(z, s), Receive(c, S)
      PROVE  Advanced(s', s)
  BY ZenonT(30), <1>2, StepAdvanced DEF Receive
<1>3. ASSUME NEW S, \A z \in S : Same(z, s) PROVE \A z \in S : Advanced(z, s)
  BY ZenonT(30), <1>1, <1>3, SameKept, KeptAdvanced
<1>4. ASSUME NEW c \in Peers, RequestSessionJoin(c) PROVE Advanced(s', s)
  <2>1. \A z \in HandleRequestSessionJoin(s, c) : Consistent(z)
    BY ZenonT(30), <1>1, RequestSessionJoinConsistent
  <2>2. \A z \in HandleRequestSessionJoin(s, c) : Advanced(z, s)
    BY ZenonT(30), <1>1, RequestSessionJoinKept, KeptAdvanced
  <2> QED
    BY ZenonT(30), <1>2, <1>4, <2>1, <2>2 DEF RequestSessionJoin
<1>5. ASSUME NEW c \in Peers, RequestEstablishP2PConnections(c) PROVE Advanced(s', s)
  <2>1. \A accept \in BOOLEAN : \A z \in HandleEstablishP2PConnections(s, c, accept) : Consistent(z)
    BY ZenonT(30), <1>1, EstablishP2PConnectionsConsistent
  <2>2. \A accept \in BOOLEAN : \A z \in HandleEstablishP2PConnections(s, c, accept) : Advanced(z, s)
    BY ZenonT(30), <1>1, EstablishP2PConnectionsKept, KeptAdvanced
  <2> QED
    BY ZenonT(30), <1>2, <1>5, <2>1, <2>2 DEF RequestEstablishP2PConnections
<1>6. ASSUME NEW c \in Peers, P2PConnectionsEstablished(c) PROVE Advanced(s', s)
  <2>1. PICK b \in BOOLEAN, F \in SUBSET (Peers \ {c}) :
            Receive(c, HandleP2PConnectionsEstablished(s, c, b, F)) /\ (b => F = {})
    BY ZenonT(30), <1>6 DEF P2PConnectionsEstablished
  <2>2. \A z \in HandleP2PConnectionsEstablished(s, c, b, F) : Consistent(z)
    BY ZenonT(30), <1>1, <2>1, P2PConnectionsEstablishedConsistent
  <2>3. \A z \in HandleP2PConnectionsEstablished(s, c, b, F) : Kept(z, s)
    BY ZenonT(30), <1>1, <2>1, P2PConnectionsEstablishedKept
  <2>4. \A z \in HandleP2PConnectionsEstablished(s, c, b, F) : Advanced(z, s)
    BY ZenonT(30), <2>3, KeptAdvanced
  <2> QED
    BY ZenonT(30), <1>2, <2>1, <2>2, <2>4
<1>7. ASSUME NEW c \in Peers, CheckPeersPending(c) PROVE Advanced(s', s)
  <2>1. \A z \in HandleCheckPeersPending(s, c) : Consistent(z)
    BY <1>1, CheckPeersPendingConsistent
  <2>2. \A z \in HandleCheckPeersPending(s, c) : Advanced(z, s)
    BY <1>1, CheckPeersPendingKept, KeptAdvanced
  <2> QED
    BY ZenonT(30), <1>2, <1>7, <2>1, <2>2 DEF CheckPeersPending
<1>8. ASSUME NEW c \in Peers, OptimizeTopology(c) PROVE Advanced(s', s)
  <2>1. \A z \in HandleOptimizeTopology(s, c) : Consistent(z)
    BY <1>1, OptimizeTopologyConsistent
  <2>2. \A z \in HandleOptimizeTopology(s, c) : Advanced(z, s)
    BY <1>1, OptimizeTopologyKept, KeptAdvanced
  <2> QED
    BY ZenonT(30), <1>2, <1>8, <2>1, <2>2 DEF OptimizeTopology
<1>9. ASSUME NEW c \in Peers, ReportPeerBandwidth(c) PROVE Advanced(s', s)
  <2>1. PICK to \in Peers : Receive(c, HandleReportPeerBandwidth(s, c, to))
    BY ZenonT(30), <1>9 DEF ReportPeerBandwidth
  <2>2. \A z \in HandleReportPeerBandwidth(s, c, to) : Consistent(z)
    BY ZenonT(30), <1>1, ReportBandwidthConsistent
  <2>3. PeerGroup[c] \in Groups
    BY ZenonT(30) DEF Groups
  <2>4. \A z \in HandleReportPeerBandwidth(s, c, to) : Advanced(z, s)
    BY ZenonT(30), <1>1, <1>3, <2>3, BandwidthAndSolverSame
  <2> QED
    BY ZenonT(30), <1>2, <2>1, <2>2, <2>4
<1>10. ASSUME NEW c \in Peers, OptimizeTopologyWorkComplete(c) PROVE Advanced(s', s)
  <2>1. \A z \in HandleOptimizeTopologyWorkComplete(s, c) : Consistent(z)
    BY <1>1, WorkCompleteConsistent
  <2>2. \A z \in HandleOptimizeTopologyWorkComplete(s, c) : Advanced(z, s)
    BY <1>1, WorkCompleteKept, KeptAdvanced
  <2> QED
    BY ZenonT(30), <1>2, <1>10, <2>1, <2>2 DEF OptimizeTopologyWorkComplete
<1>11. ASSUME NEW c \in Peers, SyncSharedState(c) PROVE Advanced(s', s)
  <2>1. PICK revision \in 0..MaxRevision, strategy \in Strategies, hashes \in SharedStates :
            Receive(c, HandleSyncSharedState(s, c, revision, strategy, hashes))
    BY ZenonT(30), <1>11 DEF SyncSharedState
  <2>2. revision \in Nat
    BY <2>1
  <2>3. \A z \in HandleSyncSharedState(s, c, revision, strategy, hashes) : Consistent(z)
    BY ZenonT(30), <1>1, <2>2, SyncSharedStateConsistent
  <2>4. \A z \in HandleSyncSharedState(s, c, revision, strategy, hashes) : Advanced(z, s)
    BY ZenonT(30), <1>1, <2>2, SyncSharedStateAdvanced
  <2> QED
    BY ZenonT(30), <1>2, <2>1, <2>3, <2>4
<1>12. ASSUME NEW c \in Peers, SyncSharedStateComplete(c) PROVE Advanced(s', s)
  <2>1. \A z \in HandleSyncSharedStateComplete(s, c) : Consistent(z)
    BY ZenonT(30), <1>1, SyncSharedStateCompleteConsistent
  <2>2. \A z \in HandleSyncSharedStateComplete(s, c) : Advanced(z, s)
    BY ZenonT(30), <1>1, SyncSharedStateCompleteKept, KeptAdvanced
  <2> QED
    BY ZenonT(30), <1>2, <1>12, <2>1, <2>2 DEF SyncSharedStateComplete
<1>13. ASSUME NEW c \in Peers, CollectiveCommsInitiate(c) PROVE Advanced(s', s)
  <2>1. \A t \in Tags : \A z \in HandleCollectiveCommsInitiate(s, c, t) : Consistent(z)
    BY ZenonT(30), <1>1, CollectiveCommsInitiateConsistent
  <2>2. \A t \in Tags : \A z \in HandleCollectiveCommsInitiate(s, c, t) : Advanced(z, s)
    BY ZenonT(30), <1>1, CollectiveCommsInitiateKept, KeptAdvanced
  <2> QED
    BY ZenonT(30), <1>2, <1>13, <2>1, <2>2 DEF CollectiveCommsInitiate
<1>14. ASSUME NEW c \in Peers, CollectiveCommsComplete(c) PROVE Advanced(s', s)
  <2>1. PICK t \in Tags, b \in BOOLEAN : Receive(c, HandleCollectiveCommsComplete(s, c, t, b))
    BY ZenonT(30), <1>14 DEF CollectiveCommsComplete
  <2>2. \A z \in HandleCollectiveCommsComplete(s, c, t, b) : Consistent(z)
    BY ZenonT(30), <1>1, CollectiveCommsCompleteConsistent
  <2>3. \A z \in HandleCollectiveCommsComplete(s, c, t, b) : Advanced(z, s)
    BY ZenonT(30), <1>1, CollectiveCommsCompleteKept, KeptAdvanced
  <2> QED
    BY ZenonT(30), <1>2, <2>1, <2>2, <2>3
<1>15. ASSUME NEW c \in Peers, Cut(c) PROVE Advanced(s', s)
  <2>1. Same(s', s)
    BY ZenonT(30), <1>1, <1>15, KickSame DEF Cut
  <2> QED
    BY ZenonT(30), <1>1, <2>1, SameKept, KeptAdvanced
<1>16. ASSUME NEW c \in Peers, ClientDisconnect(c) PROVE Advanced(s', s)
  <2>1. \A z \in OnClientDisconnect(s, c) : Consistent(z) /\ Advanced(z, s)
    BY ZenonT(30), <1>1, DisconnectConsistent, DisconnectAdvanced
  <2> QED
    BY ZenonT(30), <1>16, <2>1, StepAdvanced DEF ClientDisconnect
<1>17. ASSUME NEW g \in Groups, Moonshot(g) PROVE Advanced(s', s)
  <2>1. \A z \in {StartSolver(s, g)} : Consistent(z) /\ Advanced(z, s)
    BY ZenonT(30), <1>1, <1>3, SolverConsistent, BandwidthAndSolverSame
  <2>2. \A z \in FinishSolver(s, g) : Consistent(z) /\ Advanced(z, s)
    BY ZenonT(30), <1>1, <1>3, SolverConsistent, BandwidthAndSolverSame
  <2> QED
    BY ZenonT(30), <1>17, <2>1, <2>2, StepAdvanced DEF Moonshot
<1>18. ASSUME UNCHANGED vars PROVE Advanced(s', s)
  <2>1. Same(s', s)
    BY ZenonT(30), <1>18 DEF vars, Same
  <2> QED
    BY ZenonT(30), <1>1, <2>1, SameKept, KeptAdvanced
<1>19. ASSUME NEW c \in Peers, Packet(c) PROVE Advanced(s', s)
  BY ZenonT(30), <1>4, <1>5, <1>6, <1>7, <1>8, <1>9, <1>10, <1>11, <1>12, <1>13, <1>14, <1>19 DEF Packet
<1> QED
  BY ZenonT(30), <1>15, <1>16, <1>17, <1>18, <1>19 DEF Next

\* So the invariant is inductive.
LEMMA NextUnison == Countable /\ UnisonInv /\ [Next]_vars => UnisonInv'
<1> SUFFICES ASSUME Countable, UnisonInv, [Next]_vars PROVE UnisonInv'
  BY ZenonT(30)
<1>1. Inv'
  BY ZenonT(30), NextInv DEF UnisonInv
<1>2. Unison(s') /\ Open(s')
  BY ZenonT(30), NextAdvanced DEF Advanced
<1> QED
  BY ZenonT(30), <1>1, <1>2 DEF UnisonInv, Unison, Together, Held, Open, EstablishOpen, QueryOpen, SyncOpen,
                    OperationOpen, Accepted, Members

-----------------------------------------------------------------------------
(* The theorems *)

INSTANCE FiniteSetTheorems
INSTANCE WellFoundedInduction

\* There are finitely many peers and tags.
LEMMA PeersAndTagsCountable == Countable
<1>1. ASSUME NEW T \in SUBSET Tags
      PROVE  Cardinality(T) \in Nat
  BY ZenonT(30), TagsAssumption, FS_Subset, FS_CardinalityType
<1>2. ASSUME NEW P \in SUBSET Peers
      PROVE  Cardinality(P) \in Nat
  BY ZenonT(30), PeersAssumption, FS_Subset, FS_CardinalityType
<1>3. ASSUME NEW P \in SUBSET Peers, NEW Q \in SUBSET P, Cardinality(Q) = Cardinality(P)
      PROVE  Q = P
  BY ZenonT(30), <1>3, PeersAssumption, FS_Subset
<1> QED
  BY ZenonT(30), <1>1, <1>2, <1>3 DEF Countable

\* No step leads out of the consistent states,
LEMMA InvStep == Inv /\ [Next]_vars => Inv'
BY ZenonT(30), NextInv, PeersAndTagsCountable

\* nor out of those with the clients in step and every vote open.
LEMMA UnisonStep == UnisonInv /\ [Next]_vars => UnisonInv'
BY ZenonT(30), NextUnison, PeersAndTagsCountable

\* A nonempty set of numbers up to n has a largest one.
LEMMA LargestExists ==
    ASSUME NEW n \in Nat, NEW T \in SUBSET (0..n), T # {}
    PROVE  \E x \in T : \A y \in T : y <= x
<1> DEFINE U == {n - x : x \in T}
           R == OpToRel(<, Nat)
<1>1. U \subseteq Nat /\ U # {}
  <2>1. \A x \in T : n - x \in Nat
    OBVIOUS
  <2> QED
    BY ZenonT(30), <2>1
<1>2. IsWellFoundedOn(R, Nat)
  BY ZenonT(30), NatLessThanWellFounded
<1> HIDE DEF R
<1>3. PICK u \in U : \A y \in U : ~(<<y, u>> \in R)
  BY ZenonT(30), <1>1, <1>2, WFMin
<1>4. \A y \in U : ~(y < u)
  BY ZenonT(30), <1>1, <1>3 DEF R, OpToRel
<1>5. PICK x \in T : u = n - x
  BY <1>3
<1>6. \A y \in T : ~(n - y < n - x)
  BY ZenonT(30), <1>4, <1>5
<1>7. \A y \in T : y <= x
  BY <1>6
<1> QED
  BY <1>7

\* The number of votes a list has is bounded by the number of candidates.
LEMMA BallotsCounted ==
    ASSUME NEW r, Consistent(r), NEW g \in Groups, NEW l
    PROVE  /\ Len(r.sync.candidates[g]) \in Nat
           /\ Cardinality(Ballots(r, g, l)) \in 0..Len(r.sync.candidates[g])
<1> DEFINE n == Len(r.sync.candidates[g])
           B == Ballots(r, g, l)
<1>1. r.sync.candidates[g] \in Seq(Ballot)
  BY ZenonT(30) DEF Consistent, Typed, MasterStates, SyncStates
<1>2. n \in Nat /\ B \in SUBSET (1..n)
  BY <1>1 DEF Ballots
<1> HIDE DEF n, B
<1>3. IsFiniteSet(1..n) /\ Cardinality(1..n) = n
  BY <1>2, FS_Interval
<1>4. IsFiniteSet(B) /\ Cardinality(B) <= n
  BY ZenonT(30), <1>2, <1>3, FS_Subset
<1>5. Cardinality(B) \in Nat
  BY ZenonT(30), <1>4, FS_CardinalityType
<1>6. Cardinality(B) \in 0..n
  BY <1>2, <1>4, <1>5
<1> QED
  BY ZenonT(30), <1>2, <1>6 DEF n, B

\* electSharedStateMask finds a mask whenever there is a candidate.
LEMMA ElectionDecides == Decisive
<1> SUFFICES ASSUME NEW r, NEW g \in Groups, Consistent(r), Electable(r, g)
             PROVE  ElectableMasks(r, g) # {} /\ <<>> \notin ElectableMasks(r, g)
  BY ZenonT(30) DEF Decisive, ElectionMayFail
<1> DEFINE K == r.sync.candidates[g]
           lists == {K[i].hashes : i \in DOMAIN K}
           P(l) == Priority(r, g, l)
           top == {l \in lists : \A m \in lists : P(m) <= P(l)}
           V(l) == Cardinality(Ballots(r, g, l))
           n == Len(K)
<1>1. K \in Seq(Ballot)
  BY ZenonT(30) DEF Consistent, Typed, MasterStates, SyncStates
<1>2. lists # {} /\ <<>> \notin lists
  <2>1. K # <<>> /\ \A i \in DOMAIN K : K[i].hashes # <<>>
    BY ZenonT(30) DEF Electable
  <2> HIDE DEF K
  <2>2. 1 \in DOMAIN K
    BY <1>1, <2>1
  <2> QED
    BY ZenonT(30), <2>1, <2>2
<1>3. ElectableMasks(r, g) = {l \in top : \A m \in top : V(m) <= V(l)}
  BY ZenonT(30) DEF ElectableMasks
<1>4. \A l : P(l) \in {-2, -1, 0, 1}
  BY ZenonT(30) DEF Priority
<1>5. n \in Nat /\ \A l : V(l) \in 0..n
  BY ZenonT(30), BallotsCounted
<1> HIDE DEF K, lists, P, V, n
<1>6. top # {}
  BY <1>2, <1>4
<1> HIDE DEF top
<1>7. \E l \in top : \A m \in top : V(m) <= V(l)
  <2> DEFINE T == {V(l) : l \in top}
  <2>1. T \in SUBSET (0..n) /\ T # {}
    BY ZenonT(30), <1>5, <1>6
  <2> HIDE DEF T
  <2>2. PICK x \in T : \A y \in T : y <= x
    BY ZenonT(30), <1>5, <2>1, LargestExists
  <2> QED
    BY ZenonT(30), <2>2 DEF T
<1>8. top \subseteq lists
  BY ZenonT(30) DEF top
<1> QED
  BY ZenonT(30), <1>2, <1>3, <1>7, <1>8

\* The vote to synchronize is answered in every reachable state.
LEMMA StartStep == StartInv /\ [Next]_vars => StartInv'
<1> SUFFICES ASSUME StartInv, [Next]_vars PROVE StartInv'
  OBVIOUS
<1>1. Inv'
  BY ZenonT(30), NextInv, PeersAndTagsCountable DEF StartInv
<1>2. \A g \in Groups : StartOpen(s', g)
  BY ZenonT(30), NextStarts, PeersAndTagsCountable, ElectionDecides
<1> QED
  BY ZenonT(30), <1>1, <1>2 DEF StartInv, StartOpen, Members, Accepted, Electable

\* The fields of CCoIPMasterState and CCoIPMasterHandler keep their types whatever the
\* clients send and whenever connections are lost.
THEOREM TypeCorrect == Spec => []TypeOK
<1>1. Inv => TypeOK
  BY ZenonT(30) DEF Inv, Consistent, Typed, TypeOK
<1> QED
  BY <1>1, InitInv, InvStep, PTL DEF Spec

\* The six vote sets say what the connection states say, so no "This is a bug" branch of
\* the vote functions is reachable.
THEOREM VoteSetsCorrect == Spec => []VotesMatchStates
<1>1. Inv => VotesMatchStates
  BY ZenonT(30) DEF Inv, Consistent, VotesMatchStates
<1> QED
  BY <1>1, InitInv, InvStep, PTL DEF Spec

\* A client is in COLLECTIVE_COMMUNICATIONS_RUNNING exactly while it has operations.
THEOREM RunningCorrect == Spec => []RunningWhileOperations
<1>1. Inv => RunningWhileOperations
  BY ZenonT(30) DEF Inv, Consistent, RunningWhileOperations
<1> QED
  BY <1>1, InitInv, InvStep, PTL DEF Spec

\* Clients that are not accepted take part in p2p establishment only, and the bandwidth
\* store knows the accepted clients and no others.
THEOREM RegisteredCorrect == Spec => []RegisteredOnlyConnects
<1>1. Inv => RegisteredOnlyConnects
  BY ZenonT(30) DEF Inv, Consistent, RegisteredOnlyConnects
<1> QED
  BY <1>1, InitInv, InvStep, PTL DEF Spec

\* While one client optimizes the topology or connects, so do all others, for any number of
\* clients in any number of groups.
THEOREM PhasesCorrect == Spec => []PhasesInUnison
<1>1. UnisonInv => PhasesInUnison
  <2> SUFFICES ASSUME UnisonInv PROVE PhasesInUnison
    OBVIOUS
  <2>1. Together(s)
    BY DEF UnisonInv, Unison
  <2>2. \A c \in In(s, {"CONNECTING_TO_PEERS"}) : c \in Peers /\ s.state[c] = "CONNECTING_TO_PEERS"
    BY ZenonT(30) DEF In, Registered
  <2> QED
    BY ZenonT(30), <2>1, <2>2 DEF PhasesInUnison, Together, Connecting, Optimizing
<1> QED
  BY <1>1, InitUnison, UnisonStep, PTL DEF Spec

\* The members of a group enter and leave a shared-state distribution together.
THEOREM SyncCorrect == Spec => []SyncInUnison
<1>1. UnisonInv => SyncInUnison
  <2> SUFFICES ASSUME UnisonInv PROVE SyncInUnison
    OBVIOUS
  <2>1. Together(s)
    BY DEF UnisonInv, Unison
  <2>2. ASSUME NEW g \in Groups, NEW c \in Members(s, g), NEW e \in Members(s, g),
               s.state[c] \in Distributing
        PROVE  s.state[e] \in Distributing \cup Late
    BY ZenonT(30), <2>1, <2>2 DEF Together, Members
  <2> QED
    BY ZenonT(30), <2>2 DEF SyncInUnison, Distributing
<1> QED
  BY <1>1, InitUnison, UnisonStep, PTL DEF Spec

\* The members of a group enter and leave a collective operation together, whatever they
\* vote and whoever leaves.
THEOREM OperationsCorrect == Spec => []OperationsInUnison
<1>1. UnisonInv => OperationsInUnison
  BY ZenonT(30) DEF UnisonInv, Unison, Together, OperationsInUnison
<1> QED
  BY <1>1, InitUnison, UnisonStep, PTL DEF Spec

\* A client that is a source of the shared state voted with the elected contents.
THEOREM DistributorsCorrect == Spec => []DistributorsHoldElected
<1>1. UnisonInv => DistributorsHoldElected
  BY ZenonT(30) DEF UnisonInv, Unison, Held, DistributorsHoldElected
<1> QED
  BY <1>1, InitUnison, UnisonStep, PTL DEF Spec

\* No decided vote is left unanswered: the packet or the departure that decides it has it
\* acted on. That goes for the vote to synchronize when there is something to elect; votes on the
\* optimization of the topology are not among those NoForgottenVote is about.
THEOREM VotesAnswered == Spec => []NoForgottenVote
<1>1. UnisonInv /\ StartInv => NoForgottenVote
  <2> SUFFICES ASSUME UnisonInv, StartInv PROVE NoForgottenVote
    OBVIOUS
  <2>1. EstablishOpen(s) /\ QueryOpen(s)
    BY ZenonT(30) DEF UnisonInv, Open
  <2>2. \A g \in Groups : SyncOpen(s, g) /\ \A t \in Tags : OperationOpen(s, g, t)
    BY ZenonT(30) DEF UnisonInv, Open
  <2>3. ~Decided({"VOTE_ACCEPT_NEW_PEERS"}) /\ ~Decided({"VOTE_NO_NEW_PEERS"})
    BY ZenonT(30), <2>1 DEF EstablishOpen, Decided
  <2>4. ~(Accepted(s) # {} /\ Accepted(s) \subseteq s.query)
    BY ZenonT(30), <2>1 DEF QueryOpen
  <2>5. \A g \in Groups : StartOpen(s, g)
    BY ZenonT(30) DEF StartInv
  <2> QED
    BY ZenonT(30), <2>2, <2>3, <2>4, <2>5 DEF NoForgottenVote, SyncOpen, OperationOpen, StartOpen
<1> QED
  BY <1>1, InitUnison, UnisonStep, InitStart, StartStep, PTL DEF Spec

\* Revisions count rounds: once set, a group's revision moves by one, at the begin of a
\* round that all its members take part in, and at no other time.
THEOREM RevisionsCorrect == Spec => RevisionsCountRounds
<1>1. UnisonInv /\ [Next]_vars =>
          [\A g \in Groups :
              LET old == s.sync.next_revision[g]
                  new == s'.sync.next_revision[g]
              IN  old # 0 /\ new # old =>
                      /\ new = old + 1
                      /\ Members(s', g) # {}
                      /\ \A c \in Members(s', g) :
                            s'.state[c] \in {"DISTRIBUTE_SHARED_STATE", "REQUEST_SHARED_STATE"}]_vars
  BY ZenonT(30), NextAdvanced, PeersAndTagsCountable DEF Advanced, RoundsCounted, Started
<1> QED
  BY <1>1, InitUnison, UnisonStep, PTL DEF Spec, RevisionsCountRounds

=============================================================================
