------------------------- MODULE MasterSharedState -------------------------
(***************************************************************************)
(* Shared-state synchronization in the master: each client votes with a    *)
(* revision, a strategy and the hashes of its entries; the master elects   *)
(* one list of hashes (the mask), kicks clients with other keys, and tells *)
(* clients with other contents where to fetch the elected ones.            *)
(*                                                                         *)
(* Fields of s.sync:                                                       *)
(*   votes, votes_complete   votes_sync_shared_state(_complete)            *)
(*   strategy                shared_state_sync_strategies                  *)
(*   candidates              shared_state_mask_candidates, in vote order   *)
(*   entries                 shared_state_entries                          *)
(*   mask, hashes            shared_state_mask, shared_state_hashes        *)
(*   status, dirty           shared_state_statuses, shared_state_dirty_keys*)
(*   next_revision           next_shared_state_revision                    *)
(* A list of hashes is a sequence of <<key, hash>>; hash 0 is the value of *)
(* a key with no entry in shared_state_hashes.                             *)
(***************************************************************************)
EXTENDS MasterState

CONSTANTS
    Keys,           \* shared-state keys
    SharedStates,   \* hash lists a client may vote with
    MaxRevision     \* bound on shared-state revisions

ASSUME SharedStatesAssumption == SharedStates \subseteq Seq(Keys \X (Nat \ {0}))

Strategies == {"popular", "rx_only", "tx_only"}

Statuses == {"none", "SUCCESSFUL_MATCH", "KEY_SET_MISMATCH", "CONTENT_HASH_MISMATCH",
             "REVISION_OUTDATED", "REVISION_INCREMENT_VIOLATION"}

EmptySync ==
    [votes |-> {}, votes_complete |-> {},
     strategy   |-> [c \in Peers |-> "none"],
     candidates |-> [g \in Groups |-> <<>>],
     entries    |-> {},
     mask       |-> [g \in Groups |-> <<>>],
     hashes     |-> [g \in Groups |-> [k \in Keys |-> 0]],
     status     |-> [c \in Peers |-> "none"],
     dirty      |-> [c \in Peers |-> {}],
     next_revision |-> [g \in Groups |-> 0]]

InGroup(g) == {c \in Peers : PeerGroup[c] = g}

\* A first positive revision is taken as it is: runs may be resumed.
IsNewRevisionLegal(s, c, revision) ==
    LET next == s.sync.next_revision[PeerGroup[c]]
    IN  IF next = 0 \/ revision = next THEN "SUCCESSFUL_MATCH"
        ELSE IF revision < next THEN "REVISION_OUTDATED"
        ELSE "REVISION_INCREMENT_VIOLATION"

\* Mutant: the newest revision anybody votes with is the next one.
RecordNewestRevision(s, c, revision) ==
    [s EXCEPT !.sync = [s.sync EXCEPT
        !.status[c] = IsNewRevisionLegal(s, c, revision),
        !.next_revision[PeerGroup[c]] = IF @ < revision THEN revision ELSE @]]

RecordRevision(s, c, revision) ==
    [s EXCEPT !.sync = [s.sync EXCEPT
        !.status[c] = IsNewRevisionLegal(s, c, revision),
        !.next_revision[PeerGroup[c]] = IF @ = 0 THEN revision ELSE @]]

CanVoteSync(s, c) == s.phase[c] = "ACCEPTED" /\ s.state[c] = "IDLE"

VoteSyncSharedState(s, c, strategy) ==
    [s EXCEPT !.state[c] = "VOTE_SYNC_SHARED_STATE",
              !.sync = [s.sync EXCEPT !.votes = @ \cup {c}, !.strategy[c] = strategy]]

VoteSharedStateMask(s, c, hashes) ==
    LET vote == [peer |-> c, hashes |-> hashes]
    IN  [s EXCEPT !.sync = [s.sync EXCEPT
            !.candidates[PeerGroup[c]] = IF s.sync.strategy[c] = "rx_only" THEN @ ELSE Append(@, vote),
            !.entries = @ \cup {vote}]]

\* Mutant: waits for clients that are not accepted.
SyncConsensusOfRegistered(s, g) ==
    LET voting == {c \in In(s, {"VOTE_SYNC_SHARED_STATE"}) : PeerGroup[c] = g}
    IN  voting # {} /\ voting = LocalWorld(s, g, TRUE)

SyncSharedStateConsensus(s, g) ==
    LET voting == {c \in In(s, {"VOTE_SYNC_SHARED_STATE"}) : PeerGroup[c] = g}
    IN  /\ voting # {}
        /\ Cardinality(voting) = Cardinality(s.sync.votes \cap InGroup(g))
        /\ Cardinality(voting) = Cardinality(Members(s, g))

-----------------------------------------------------------------------------
(* electSharedStateMask *)

Ballots(s, g, hashes) ==
    {i \in DOMAIN s.sync.candidates[g] : s.sync.candidates[g][i].hashes = hashes}

\* The last voter that is still registered decides on the priority of its list.
Priority(s, g, hashes) ==
    LET voter(i) == s.sync.candidates[g][i].peer
        known    == {i \in Ballots(s, g, hashes) :
                        voter(i) \in Registered(s) /\ s.sync.status[voter(i)] # "none"}
        last     == CHOOSE i \in known : \A j \in known : j <= i
    IN  IF known = {} THEN 0
        ELSE CASE s.sync.status[voter(last)] = "SUCCESSFUL_MATCH"  -> 1
               [] s.sync.status[voter(last)] = "REVISION_OUTDATED" -> -2
               [] OTHER -> -1

\* Highest priority first, then most votes; a tie is broken by hash order.
ElectableMasks(s, g) ==
    LET lists == {s.sync.candidates[g][i].hashes : i \in DOMAIN s.sync.candidates[g]}
        top   == {l \in lists : \A m \in lists : Priority(s, g, m) <= Priority(s, g, l)}
    IN  {l \in top : \A m \in top : Cardinality(Ballots(s, g, m)) <= Cardinality(Ballots(s, g, l))}

-----------------------------------------------------------------------------
(* checkMaskSharedStateMismatches *)

\* What comparing an entry of the mask with one of a list finds.
Findings == {"same", "other_hash", "other_key"}

CompareEntry(m, e) ==
    IF m[1] # e[1] THEN "other_key" ELSE IF m[2] # e[2] THEN "other_hash" ELSE "same"

\* What comparing the mask with list e may find.  Every position of the mask is looked at and
\* none beyond: the end of a longer list does not count, and from the end of a shorter one the
\* comparison goes on in memory that may hold anything.
Comparisons(mask, e) ==
    {f \in [DOMAIN mask -> Findings] :
        \A i \in DOMAIN mask \cap DOMAIN e : f[i] = CompareEntry(mask[i], e[i])}

DifferentKey(f) == {i \in DOMAIN f : f[i] = "other_key"}

\* Contents are compared up to the first different key.
DifferentHash(f) == {i \in DOMAIN f : f[i] = "other_hash" /\ \A j \in DifferentKey(f) : i < j}

\* Mutant: contents are not compared.
MaskStatusByKeys(f) ==
    IF DifferentKey(f) # {} THEN "KEY_SET_MISMATCH" ELSE "SUCCESSFUL_MATCH"

MaskStatus(f) ==
    IF DifferentKey(f) # {} THEN "KEY_SET_MISMATCH"
    ELSE IF DifferentHash(f) # {} THEN "CONTENT_HASH_MISMATCH"
    ELSE "SUCCESSFUL_MATCH"

ComparedVotes(s, g) ==
    {v \in s.sync.entries :
        /\ PeerGroup[v.peer] = g
        /\ s.sync.status[v.peer] \in {"SUCCESSFUL_MATCH", "REVISION_OUTDATED"}}

ComparisonsOfVotes(s, g, mask) ==
    {found \in [ComparedVotes(s, g) -> [DOMAIN mask -> Findings]] :
        \A v \in ComparedVotes(s, g) : found[v] \in Comparisons(mask, v.hashes)}

\* found[v] is what comparing the mask with the list of vote v finds.
CheckMaskSharedStateMismatches(s, g, mask, found) ==
    LET votesOf(c)   == {v \in ComparedVotes(s, g) : v.peer = c}
        differing(V) == UNION {DifferentHash(found[v]) : v \in V}
    IN  [s EXCEPT !.sync = [s.sync EXCEPT
           !.mask[g] = mask,
           !.hashes[g] = [k \in Keys |->
               IF \E i \in differing(ComparedVotes(s, g)) : mask[i][1] = k
               THEN LET i == CHOOSE i \in differing(ComparedVotes(s, g)) : mask[i][1] = k
                    IN  mask[i][2]
               ELSE @[k]],
           !.dirty = [c \in Peers |-> @[c] \cup {mask[i][1] : i \in differing(votesOf(c))}],
           !.status = [c \in Peers |->
               IF @[c] = "SUCCESSFUL_MATCH" /\ votesOf(c) # {}
               THEN MaskStatus(found[CHOOSE v \in votesOf(c) : TRUE]) ELSE @[c]]]]

\* Mutant: a client with other contents is left behind.
TransitionWithoutMismatch(s, g) ==
    [s EXCEPT !.state = [c \in Peers |->
                  IF c \notin Members(s, g) \/ s.sync.status[c] = "CONTENT_HASH_MISMATCH" THEN @[c]
                  ELSE IF s.sync.status[c] = "SUCCESSFUL_MATCH" THEN "DISTRIBUTE_SHARED_STATE"
                  ELSE "REQUEST_SHARED_STATE"],
              !.sync = [s.sync EXCEPT !.votes = @ \ InGroup(g), !.next_revision[g] = @ + 1]]

TransitionToSharedStateSyncPhase(s, g) ==
    [s EXCEPT !.state = [c \in Peers |->
                  IF c \notin Members(s, g) THEN @[c]
                  ELSE IF s.sync.status[c] = "SUCCESSFUL_MATCH" THEN "DISTRIBUTE_SHARED_STATE"
                  ELSE "REQUEST_SHARED_STATE"],
              !.sync = [s.sync EXCEPT !.votes = @ \ InGroup(g), !.next_revision[g] = @ + 1]]

-----------------------------------------------------------------------------
(* The end of the phase *)

CanVoteSyncComplete(s, c) ==
    s.phase[c] = "ACCEPTED" /\ s.state[c] \in {"DISTRIBUTE_SHARED_STATE", "REQUEST_SHARED_STATE"}

\* Mutant: the state of the client is not changed.
VoteDistWithoutState(s, c) == [s EXCEPT !.sync.votes_complete = @ \cup {c}]

VoteDistSharedStateComplete(s, c) ==
    [s EXCEPT !.state[c] = "VOTE_COMPLETE_SHARED_STATE_SYNC", !.sync.votes_complete = @ \cup {c}]

SyncSharedStateCompleteConsensus(s, g) ==
    LET voting == {c \in In(s, {"VOTE_COMPLETE_SHARED_STATE_SYNC"}) : PeerGroup[c] = g}
    IN  /\ Cardinality(voting) = Cardinality(s.sync.votes_complete \cap InGroup(g))
        /\ Cardinality(voting) = Cardinality(Members(s, g))

EndSharedStateSyncPhase(s, g) ==
    [s EXCEPT !.state = [c \in Peers |-> IF c \in Members(s, g) THEN "IDLE" ELSE @[c]],
              !.sync = [s.sync EXCEPT
                  !.mask[g] = <<>>,
                  !.candidates[g] = <<>>,
                  !.entries = {v \in @ : PeerGroup[v.peer] # g},
                  !.hashes[g] = [k \in Keys |-> 0],
                  !.status = [c \in Peers |-> IF PeerGroup[c] = g THEN "none" ELSE @[c]],
                  !.dirty = [c \in Peers |-> IF PeerGroup[c] = g THEN {} ELSE @[c]],
                  !.votes_complete = @ \ InGroup(g),
                  !.strategy = [c \in Peers |-> IF c \in Members(s, g) THEN "none" ELSE @[c]]]]

=============================================================================
