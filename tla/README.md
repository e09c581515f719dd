# PCCL in TLA+

PCCL is a collective-communication library for peers that come and go: a *master*
keeps a list of clients, moves all of them through phases by unanimous votes, and
tells each one which peers to connect to; the *clients* connect to each other in a
ring and all-reduce over it. When a client crashes, the others are meant to go on.

This directory holds TLA+ specifications of that system (master, clients, ring reduce,
the sockets beneath them, the retry loop of the public API), the TLC models that check
them, and machine-checked proofs. Paths below are relative to `src/`.

## 1. The system

| Part | Source | State | Operations | Modelled in |
|---|---|---|---|---|
| Master state | `ccoip/src/cpp/ccoip_master_state.cpp`, `ccoip_master_state.hpp` | phase and connection state per client, vote sets, rings, unreachable peers, collective states per tag, abort flags | vote, consensus check and transition for each phase | `MasterState`, `MasterSharedState` |
| Bandwidth store | `bandwidth_store.cpp` | measured links between addresses, registered peers | register, store, missing entries, unregister | `BandwidthStore` |
| Master handler | `ccoip_master_handler.cpp` | `peer_dropped`, previous connection information, solver tasks | a handler per packet, disconnects, background solver passes | `MasterHandler`, `Master` |
| Topology optimizer | `topolgy_optimizer.cpp`, libtsp | – | find a better tour | choice of a tour in `MasterHandler` |
| Client handler | `ccoip_client_handler.cpp`, `ccoip_client_state.cpp` | p2p connections, ring order, world sizes, running operations | connect, update, query, optimize, synchronize, reduce | `Cluster` |
| Ring reduce | `reduce.cpp` | buffers, chunk positions | reduce and allgather stages, abort polls, restoration | `RingReduce`; its outcome in `Cluster` |
| Public API | `src/pccl.cpp` | – | the calls of a peer loop; `pcclAllReduceMultipleWithRetry` | `Cluster`, `AllReduceRetry` |
| Master connection | `tinysockets/src/queued_client_socket.cpp`, `server_socket.cpp` | receive queue, `running`, locks; receive buffer per client | send, poll by id and tag, receive thread, interrupt; framing, closing | `MasterConnection`, `ServerSocket` |
| P2P connection | `tinysockets/src/multiplexed_socket.cpp`, `mpsc/include/MPSCQueue.hpp` | send queue, receive queue per tag, parked threads | sendBytes, receiveBytes, send and receive thread, interrupt, join | `MultiplexedSocket`, `MPSCQueue` |

**Who talks to whom.** A client sends one packet at a time to the master from its main
thread and blocks until the answer is there; each reduce has a thread of its own that
does the same with packets of its tag, over the same connection. The master has one
server thread that handles one packet or one closed connection after another, and pool
threads that run the topology solver and install a ring whenever they end. Clients talk to
each other over p2p connections, which concurrent reduces share, and directly for shared
state and bandwidth benchmarks.

**What makes it hard.**

- A departure can complete any vote and invalidates every ring and every phase that is
  under way. `onClientDisconnect` has to repeat all checks, in the right order.
- Closing a connection is asynchronous: between a kick, or a crash, and the callback the
  master still counts the client.
- Clients take packets by type. A packet too many is not an error; it answers the next
  question of the same kind, and the client is out of step from then on.
- An operation copies ring and connections when launched and begins when the master
  says so; in between either may have changed.
- Tags and connections are reused: aborts are matched by tag alone, data by tag and
  sequence number, and an aborted operation leaves data behind.
- The shared-state election is repeated when a client is kicked for its keys or leaves,
  while votes of clients that have left are still counted.
- A reduce works in place, in parts that cut elements, and forwards data out of the memory
  into which it receives.
- Threads hand each other memory that is not theirs through a lock-free queue, and sleep
  and wake without a lock.

`PROJECT.json` lists these as hazards, each with the line where it bites and the
properties that would catch it.

## 2. Modules

```
BandwidthStore <- MasterState <- MasterSharedState <- MasterHandler
                                                        |        |
                                    MCMaster -> Master -+        +- Cluster <- MCCluster
                                                  |
                    MasterProofs <- MasterPhasesProofs, MasterStartProofs <- MasterUnisonProofs

AllReduceRetry <- AllReduceRetryProofs
RingReduce     <- RingReduceProofs, MCRingReduce
MPSCQueue      <- MultiplexedSocket <- MultiplexedSocketProofs, MCMultiplexedSocket
ServerSocket   <- MasterConnection  <- MasterConnectionProofs, MCMasterConnection
```

**The master as a value.** `MasterState`, `MasterSharedState` and `MasterHandler` declare
no variables. A master is a record `s` with a field per C++ field, an operator
stands for a C++ function with its name, and a handler is an operator that returns the
set of masters it may make of `s` (a set, because hash-map orders and tour searches are
left open). Packets are collected in `s.out` in the order in which they are sent and
handed on by the modules above. So the same handlers serve two specifications:

- **`Master`** is the master in an environment that may do anything: every client may
  send every packet at any time, and every connection may break at any time. The proofs
  are about this module.
- **`Cluster`** is the master with its clients. `cl[c].pc` names the packet or the work
  the main thread of `c` is blocked on, `cl[c].op[t]` is the thread of the operation with
  tag `t`, and `inbox[c][k]` holds the packets of kind (and tag) `k` that `c` has not taken.
  It uses the handlers of `MasterHandler` as `Master` does, with fewer packets to handle; what is
  shown of `Master` is true of its master by construction.

**Granularity of `Cluster`.** The master handles a packet in one step, as its single server
thread does. A client's packet is handled in the step that sends it: the connection is FIFO,
the sender does nothing but wait, and a send that is delayed on the wire is the same as a
send that happens later. Answers are *not* handled at once; they queue. `s.cut` holds the
connections that are broken or closed but whose close callback has not run. What `Cluster`
takes for granted about connections is what `MasterConnection` checks: `HandledInOrder`
and `TakenInOrder` are the FIFO connection and the inbox with a queue per kind.

**Solver passes.** `StartSolver` and `FinishSolver` are steps of their own. Between them
clients may join, leave, connect and reduce, as the pool thread allows. The tour that
comes back is any tour over the peers it started with that have some measured link.

**Clients.** The application is the peer loop of the Getting Started guide, as a sequence of
calls that all clients make (one of `Loops`); a client that joins enters it where the others
are. A p2p connection is made in one step together with the entry at the peer. An operation
`ReduceSucceeds` only if everybody in its ring is connected to both neighbours and takes part
in the same operation over the same ring; else it is aborted by the master or fails.

**`RingReduce`** is one such operation from the inside: `allReduceAsync` after the master has
begun it, `pipelineRingReduce` with its two phases, and the vote that completes it. A value is
the sequence of what was done to it (the ranks added up, in order, quantization, the
final averaging), so that equal values are bit-identical results whatever the arithmetic
is. Data is sent in parts of `chunk` bytes which may end inside an element. A link is the pair of
multiplexed sockets between neighbours, with the entries under way and whether either side
is closed; it may hold leftovers of an aborted operation at the start. Operations with
fewer elements than ranks, quantized elements that do not fill a byte (refused), and ranks that
reduce in place or not are all among the initial states.

**`MultiplexedSocket`** is what lies beneath a link. Every atomic access of a producer to the lock-free
`MPSCQueue` is a step (reserve, roll back, claim, fill; empty, release), as
are the look at the queue, the announcement that the thread parks and the sleep itself. An
entry refers to memory and to a handle of its sender, who may use both again once it is woken.
On the receiving side an entry is read in two steps, the preamble and the rest, and pushed into
the queue of its tag. The receive thread ends at once when the connection does before an entry. In
the middle of one, and when it finds the socket interrupted, it drains the queues first, next to the
operations that take entries out of them.

**`MasterConnection`** is the `QueuedSocket` of a client with its threads and the
`ServerSocket` of the master. What a thread does with `internal_state->mutex` held is one
step; `running` and `socket_fd`, which are also read without it, are read in steps of their
own. Packets are units on the wire: a length field and data, which `send`, `recv` and libuv
cut anywhere. `ServerSocket` has the parser of `onClientRead` as an operator.

**`AllReduceRetry`** is the loop of `pcclAllReduceMultipleWithRetry` line by line, with
the outcome of each operation, and what a failed await learns about the world size, left
to the environment. The descriptors are part of the initial state: one may be malformed, and
several may have the same tag. What `pcclAllReduceAsync` returns for one depends on that, on
the world size at the time and on the operations under way.

**Mutants.** Next to a definition there may be a variant of it marked `Mutant`: the bug
that a property is there to catch. With the variant in its place TLC finds the property
violated; `PROJECT.json` has one for each property of each run.

## 3. Properties and runs

The master alone (`MCMaster`; anything may arrive at any time):

| Run | Instance | Shows |
|---|---|---|
| `master_phases` | 3 clients, one over loopback that may be turned away; failures to connect until two links have failed; topology optimization; operations under 2 tags | `TypeOK`. `RegisteredOnlyConnects`: clients that are not accepted only connect, and the bandwidth store holds the accepted ones. `VotesMatchStates`: vote sets repeat the connection states. `RunningWhileOperations`. `PhasesInUnison`, `OperationsInUnison`: what concerns all is entered and left by all, latecomers apart (section 4). `NoForgottenVote`: whoever's packet or departure completes a vote, it is acted on in that step; the two votes of topology optimization are left out, see (a) |
| `master_sync` | 2 clients, 4 lists of one or two entries over 2 keys, all strategies, revisions 0 to 2 | `DistributorsHoldElected`: those who distribute voted with the elected entries, as far as their list and the elected one both go. `SyncInUnison`. `NoForgottenVote`, here of the votes to query and of those that start and end a synchronization: with something to elect, the vote that starts it waits for nobody but a member that is being kicked for its keys; see (e) for the rest. `RevisionsCountRounds`: the revision moves by one, when a synchronization begins, and never by a vote |

The cluster (`MCCluster`; 3 clients that follow the protocol, joining at any time):

| Run | Loop and faults | Shows |
|---|---|---|
| `cluster_train` | optimize, reduce, update; no faults, solver passes at any time | `NobodyFails`. `NoStalePacket`: nothing is left over between calls. `ReadyConnected`. `RingAgreement`: operations use one ring. `WaitsInStep`: master and client agree on what the client waits for |
| `cluster_faults` | reduce and update, with a crash during a reduce and two reduces that fail; or query and synchronize, with a crash anywhere in them | `ReduceAgreement`: one outcome for all. `OneOperation`: those who have begun an operation under a tag and not joined it have the same sequence number, by which `RingReduce` tells its data from leftovers. `NoStaleAbort`. `SyncAgreement`: same revision, same contents. `WaitsInStep`. `RunCompletes`: the run ends for every client that does not crash |
| `cluster_connect_fault` | reduce (2 tags), update; one failed connect to a live peer | `RingAgreement` |

The data plane, the sockets and the retry loop:

| Run | Instance | Shows |
|---|---|---|
| `ring_reduce` | rings of 2 and 3; 2 to 6 elements of two bytes in parts of 1 or 3 bytes, not quantized, quantized to a byte or half of one; leftovers; one crash or broken connection | `SuccessIsReduced`: every element has every contribution once, and all hold the same bits. `SourceRestored`: a rank whose reduce fails or is aborted has its source back. `FailsOnlyAfterFault`. `EveryoneReturns` (with an element per rank) |
| `multiplexed_socket` | 2 senders of 2 entries, send queue of 2, receive queues of 1; either side closes at any point | `NoOverwrite`: a claimed slot is empty. `MemoryHeld`: no memory or handle is given back while the send thread refers to it. `DeliveredInOrder`, while the receiving socket runs; see (k). `EverythingDelivered`: no wake-up is lost while nobody closes |
| `master_connection` | 2 threads that send, poll and peek for overlapping kinds; packets of 3 and 4 units; the master kicks the client, either side closes at any point | `NoLostWakeup`: whoever sleeps has nothing to wake up for. `HandledInOrder`: the master gets whole packets, in the order in which the threads took `send_mutex`. `TakenInOrder`: polls return the packets of a kind in the order sent. `EveryCallReturns` |
| `all_reduce_retry` | 4 operations, 3 at a time, any of them malformed or with the tag of another; world of up to 3 | `TypeOK`, `HandlesWithinLimit`, `CompletedOnce`; `NothingPending`: with an operation under way the function returns only if a descriptor is refused, see (l); `Returns` |

**Bounds.** Three clients are the least with which a vote can be complete for two and not
for a third, with which a ring has an order, and with which survivors of a crash can still
disagree; two are enough for `master_sync`, whose kicks, dirty clients and repeated elections
need one voter on each side. Two tags are the least for operations that overlap. `MaxCalls` is
chosen so that a client can join in each kind of call and the loop still comes round;
`MaxSeqNr` and `MaxRevision` bound counters the code does not bound. `FewFailures` ends
exploration after the second failed link; the state in which it fails is still checked. There is
at most one crash in a run, in the calls it is about (`CrashAt`). Peers are not
declared symmetric: rings start in uuid order. In `ring_reduce` three ranks give a chunk that is
received, forwarded and received over; parts of 1 and 3 bytes cut elements of 2 bytes at both
of their places; 2 elements on 3 ranks give an empty chunk. In `multiplexed_socket` the queues
are smaller than what is sent, so that they fill up and wrap. In `master_connection` a length
field has two units, the least that can be cut.

**Fairness.** Threads of live processes keep running, what was sent arrives, and closed
connections are noticed: weak fairness of the threads' steps. They are operating-system threads that wait for
nothing but what their guards say, and libuv calls its close callbacks. In `Cluster`
and `MasterConnection` weak fairness is written with what enables a step spelled out
(`[]<>~Runnable(c) \/ []<><<MainStep(c)>>_vars`) instead of `ENABLED`, which TLC evaluates slowly; the
predicates were compared with `ENABLED` on the same instances. In `MasterConnection` it is
one condition for all threads together: as long as one of them can go on, steps are taken. That is
enough because scripts are finite. Nothing is
assumed about who joins, about solver passes, about faults, or about `recv` on the
wrong descriptor (below).

`CHECK_DEADLOCK FALSE` is given where the system may stop for good: the master alone when all
connections are closed, the cluster with faults, where `RunCompletes` says what stopping has
to look like (`cluster_connect_fault` may also stop as described in (b) below), the sockets when all is sent or closed, and
`ring_reduce` because of (f).

### Disagreements between the code and what it says of itself

Three runs expect a violation; `PROJECT.json` quotes the lines that they contradict.

| Run | What happens |
|---|---|
| `master_stale_abort` | All participants of an aborted operation leave: its abort state stays raised, and the next operation under this tag gets no abort packet, raised or not |
| `ring_reduce_late_abort` | A peer is lost after another has finished its part in place: the operation fails, and the source data is gone |
| `all_reduce_retry_lost` | A failed operation stays counted in `in_flight`; when the limit is used up that way, `pcclSuccess` is returned for operations that were never reduced |

While modelling, TLC also showed the following. The models contain the behaviour; the properties
above are stated, or the instances chosen, so that they say what holds besides it.

- (a) The two votes of topology optimization are not checked when a client leaves
  (`ccoip_master_handler.cpp:1337`): the voters wait until somebody else votes. `NoForgottenVote`
  is about the other votes.
- (b) When the only accepted client goes while another joins, the votes to accept and
  not to accept are both unanimous, over no votes (`ccoip_master_handler.cpp:341`); a joiner that has
  already reported is put back and `pcclConnect` never returns. Or a client is let in alone, a second
  one joins the same establishment, and the first is not told the new world size.
- (c) A crash after a failed establishment makes the master send the failure twice
  (`:1332`); a survivor takes the second for the result of its retry and is one packet
  behind from then on. Crashes are therefore limited to other calls.
- (d) A failed connect leaves an empty pool that counts as a connection at the retry
  (`ccoip_client_handler.cpp:941`); `ReadyConnected` is checked without such faults.
- (e) A departure that completes the vote to synchronize is not answered when there is nothing to elect: no
  voter has put contents up, or the elected list is empty (`checkSyncSharedStateConsensus` returns
  false, and only a packet's handler acts on that). `NoForgottenVote` is about the vote with
  something to elect.
- (f) With fewer elements than ranks a rank may wait for a chunk after its peers have returned:
  `receiveBytesInplace` spins while there is no queue for the tag, without looking for an abort
  (`multiplexed_socket.cpp:618`). `EveryoneReturns` asks for an element per rank.
- (g) `interrupt` wakes the send thread, which may be about to park; the wake is lost and `join`
  never returns (`multiplexed_socket.cpp:713`).
- (h) An entry queued after the drain of the send thread is never written, and its sender
  never woken (`:572`). `EverythingDelivered` is about connections nobody closes.
- (i) An `interrupt` between two `recv` calls makes `receivePacketData` return true with a truncated
  packet, which a poll may return (`queued_client_socket.cpp:295`); a `recv` after it may use
  descriptor 0. `TakenInOrder` asks for whole packets until then.
- (j) A length field that arrives in two reads closes the connection (`server_socket.cpp:456`), and
  the receive buffer of a closed connection is kept (`:490`).
- (k) When the receiving socket ends, `receivePacketData` may push a truncated entry
  (`multiplexed_socket.cpp:560`), and the receive thread drains the queues without the lock
  (`:376`), a second consumer of a single-consumer queue. A call of `receiveBytesInplace` that was past its
  look at `running` may return such an entry, or one out of order, as received; the next call
  fails. The model lets any number of entries be gone then and does not record the last one:
  `DeliveredInOrder` is about what is received while the socket runs.
- (l) `pcclAllReduceMultipleWithRetry` returns at once when it is about to launch a descriptor that
  is malformed or has the tag of an operation under way (`pccl.cpp:399`, `:431`), with others still
  writing to the caller's buffers. `NothingPending` says that this is the only way.
- (m) Lists of shared state with different numbers of entries are only warned of
  (`ccoip_master_state.cpp:1173`): a longer list with the elected one as its beginning counts as a
  match, and behind the end of a shorter one the comparison reads on in memory that may hold
  anything. The model lets every outcome happen there.

Seen by reading only: the departure of a client that is merely registered aborts operations of its group
(`ccoip_master_handler.cpp:1368`); the acknowledgement of a p2p handshake is sent before the
connection is registered (`ccoip_client_handler.cpp:59`); `joinAsyncCollectiveOp` joins a thread with a
mutex held (`ccoip_client_state.cpp:223`); ENOBUFS drops an entry (`multiplexed_socket.cpp:443`); a
receive thread whose `push` waits for room in a full queue waits for ever once the socket is interrupted,
and so does `join` (`:354`); peers with
different `PCCL_MULTIPLEX_CHUNK_SIZE` could overwrite quantized data before it is forwarded
(`reduce.cpp:809`); a comment says that rank r owns chunk r at the end of the first phase, the code
makes it chunk r + 1 (`reduce.cpp:677`); a send timeout in the middle of a packet breaks the framing
of the next (`queued_client_socket.cpp:322`).

## 4. Proofs

For all values of the constants that satisfy their assumptions, TLAPS proves

| Theorem | Statement |
|---|---|
| `MasterUnisonProofs!TypeCorrect` | `Spec => []TypeOK` |
| `MasterUnisonProofs!VoteSetsCorrect` | `Spec => []VotesMatchStates` |
| `MasterUnisonProofs!RunningCorrect` | `Spec => []RunningWhileOperations` |
| `MasterUnisonProofs!RegisteredCorrect` | `Spec => []RegisteredOnlyConnects` |
| `MasterUnisonProofs!PhasesCorrect` | `Spec => []PhasesInUnison` |
| `MasterUnisonProofs!SyncCorrect` | `Spec => []SyncInUnison` |
| `MasterUnisonProofs!OperationsCorrect` | `Spec => []OperationsInUnison` |
| `MasterUnisonProofs!DistributorsCorrect` | `Spec => []DistributorsHoldElected` |
| `MasterUnisonProofs!VotesAnswered` | `Spec => []NoForgottenVote` |
| `MasterUnisonProofs!RevisionsCorrect` | `Spec => RevisionsCountRounds` (an action property) |
| `RingReduceProofs!SourceAlwaysRestored` | `Spec => []SourceRestored` |
| `RingReduceProofs!FailureHasCause` | `Spec => []FailsOnlyAfterFault` |
| `MultiplexedSocketProofs!MemoryStaysHeld` | `Spec => []MemoryHeld` |
| `MultiplexedSocketProofs!SlotsAreFree` | `Spec => []NoOverwrite` |
| `MultiplexedSocketProofs!ReceivedInOrder` | `Spec => []DeliveredInOrder` |
| `MasterConnectionProofs!WakeupsAreSeen` | `Spec => []NoLostWakeup` |
| `AllReduceRetryProofs!RetryTypeCorrect` | `Spec => []TypeOK` |
| `AllReduceRetryProofs!RetryWithinLimit` | `Spec => []HandlesWithinLimit` |
| `AllReduceRetryProofs!RetryCompletedOnce` | `Spec => []CompletedOnce` |
| `AllReduceRetryProofs!RetryNothingPending` | `Spec => []NothingPending` |

**The master's bookkeeping.** `TypeOK`, `VotesMatchStates`, `RunningWhileOperations` and
`RegisteredOnlyConnects` are not inductive one by one: a transition clears a vote set
because it moves all voters, which is right only if the set holds exactly the voters, and
only accepted clients may be voters. And a
client whose state a transition overwrites must not have an operation under way. So they are
proved together, as `Consistent`. A handler is a chain of operators, and the invariant is
stated for a master that still has packets in `out`; each operator gets a lemma that it keeps
that invariant, given what its caller has checked, and a handler's lemma cites those of the
operators it is made of. `MasterProofs` has these lemmas, in the order of the phases, with
those on the disconnect handler and on `Next`, one step per action.

**Clients in step.** On top of `Consistent`, `MasterPhasesProofs` states `Unison` and `Open`.
`Unison` has the properties on phases, distributions and operations, for any two accepted clients
at once, because each needs the others: a client that synchronizes is told apart from one that
optimizes or connects only by its connection state, so a transition that moves all members of a
group must not catch one of them in another phase. It adds that whoever votes on the shared
state has sent hashes (a distributor is drawn from those votes, perhaps after the election was
repeated), and that a client that is not registered has the state it would start with. `Open` says
that in every vote somebody is missing. No handler keeps `Open` in the middle: a vote completes it, and
the check that follows opens it again. The lemmas are therefore of the form "this check keeps
`Unison`, keeps what is open, and opens its own vote", and the lemma on the disconnect handler goes
through its checks in the order of the code, at the end of which every vote
is open again. The operators on shared state and on operations work on one group; `GroupStep`
says what such a step leaves alone, once for all of them. Revisions are followed through every lemma
(`Kept`, `Advanced`), which makes `RevisionsCountRounds` a corollary. `MasterUnisonProofs` has the lemmas on
operations and disconnects and all theorems about the master.

**The vote to synchronize.** That this vote is open needs more than `Open`, because what the check makes of it
depends on the candidates, and it may leave everything as it was. `MasterStartProofs` has three notions.
`StartOpen` is the statement: in a group with something to elect, a member has not voted or is
being kicked. `Quiet` says that a step keeps it because nobody leaves or votes to synchronize, nobody who is
being kicked is spared, and no contents are voted with; most operators are quiet. A departure is not
quiet, and a vote is not; behind each of them the code checks the vote of that group. `Decisive` is what makes
the check act: an election with candidates, none of them empty, has a result. Of finitely many lists
some have the highest priority, and of those some the most votes (`LargestExists`, `ElectionDecides`).
Then either all members move on, or those with other keys are kicked.

The comparisons of cardinalities in the consensus checks use three facts on finite sets. The lemmas
have them as a hypothesis (`Countable`), which the last modules discharge with
the theorems of the library.

**Latecomers.** With four clients, of which one does not follow the protocol, operations and
distributions are not entered and left by *all*. That client reports a failure and votes for p2p
establishment again before it is told how the phase ended.
`transitionToP2PConnectionsEstablishedPhase` then meets it in a voting state and gives up half way: one
client is idle, another still waiting and not accepted. The voter leaves, the idle one
performs an operation (or distributes) alone, a fourth client joins and leaves, and the check of
the p2p phase at that departure accepts the waiting one in the middle of it. The properties
therefore except clients in `Late`, and the proofs show that this is the only exception: that departure
counts as a failure, so the latecomer is told that the phase failed and can do nothing but vote to connect
again, in which state it stays until the others do, too. Two things keep this
apart from a finding about the program. `ccoip_client_handler.cpp` waits for the result before it
votes again. And the model lets every call of the transition stop at any subset of the waiting
clients, while the code stops where the iteration order of `client_info` puts the unexpected
one; the behaviour needs that order to change between two calls, as a rehash may do.

**The ring reduce.** `Inv` says, per rank, that from the first stage until there is a result the
backup is the rank's own contribution and there is no outcome, and that a rank that failed or was aborted
in place has its contribution in the destination; it gives the shape of links and master; and it says that
as long as nothing broke and the operation was not refused, links are open on both ends, nobody has
been harmed and the master has no reason to abort. The last part is what makes failures have a
cause: each way to fail needs a closed link or an abort.

**The send queue.** That a claimed slot is empty is a fact about all slots and all producers at once. For
some n, `head` is n slots ahead of `tail`, and the slots in use are exactly the n from `tail` on, each of
them filled or claimed by exactly one producer; the count is n, plus the producers that have
reserved a slot, plus those that have to give one back, plus the slot that was emptied and not released.
n, the reserved and the emptied together are at most the capacity, hence a slot claimed at `head` is
not among those in use. `MemoryHeld` needs besides that no entry is in the queue twice, that the
entry the thread holds is not in the queue any more, and that the handle is
ready before the entry can be seen.

**The order of what is delivered.** That a receiver has the entries 1 to n of its tag depends on everything an
entry passes. `OrderInv` places every entry that was given a slot: with
the receiver, in its queue, on the wire, in the hands of the send thread, or promised to a slot
that is filled or claimed for it. Of two entries of a tag the earlier one is in a later one of these
places, or ahead in the same one; in the ring of slots that is the distance from `tail`. The parts of it
hold as long as they are meant to: what was received, always; the queues and the wire, as long as the receiving
socket runs; the rest until the connection is closed or the send thread drains the queue, when entries are thrown away.

**The wake-ups.** `NoLostWakeup` is nearly inductive: every step that could make it false (a packet is pushed,
`running` is reset) notifies, with the lock held. Its invariant adds the shape of the threads' records and
that the queue is a sequence, which taking a packet out of its middle needs.

**The retry loop.** That nothing is under way at a return, unless a descriptor was refused, needs to know how the loops get
there. `Loops` says what each of them has established: operations launched up front lie before
the index; in a pass that still counts as the last one (`all_done`) every operation under way
lies at or after the index, so none is left when it ends; a client that is alone has none, so that a launch
that fails for too few peers leaves nothing behind. `Inv`
is `Loops` with the type invariant and the two properties of the handles.

**Assumptions** are those named in the modules that declare the constants: peers and
tags are finite sets, tags are numbers, every set of peers has an order by uuid, hash lists are
lists of keys and positive hashes; queues have a slot, operations a rank,
packets have a length field and data. All are evaluated by TLC in the runs.

**Only model-checked.** Everything about
`Cluster`: its invariants tie the program counters of clients and of the threads of
operations, packets under way and rings to the state of the master, and were not found in a form that is inductive.
`SuccessIsReduced` is about what a recursion over parts and stages computes; `HandledInOrder` and `TakenInOrder` are about
what a recursive parser and a filter make of sequences. Both would need induction over data, which the
installed provers cannot do. The liveness properties (`RunCompletes`, `EveryoneReturns`,
`EverythingDelivered`, `EveryCallReturns`, `Returns`) are outside what the prover can do.

## 5. Not modelled

- Arithmetic: reduce kernels, quantization and averaging of numbers; hashes. Values are histories,
  a hash is a number that identifies contents.
- Byte encoding of packets, socket options, send timeouts, packets of length 0 or above 64 MiB.
- Connecting and listening sockets, blocking sockets, the interrupt and shutdown of servers. The p2p
  handshake is one step in `Cluster`, with one connection per pool. The receive queue of a multiplexed socket
  (`SPSCQueue`) is a sequence.
- `QueuedSocket::closeConnection`, which the client does not call, and its destructor.
- Memory orders: atomic accesses are sequentially consistent.
- `allow_content_inequality`.
- Bandwidth values: a link is measured or it is not; any tour may be the better one.
- Several application threads in one client, interrupting a communicator or the master.
- Faults with two tags or four clients in `Cluster`, whose state spaces are too large for TLC, and crashes
  during topology optimization, where a run stops as in (a).
- Argument checks (those of `pcclAllReduceAsync` are one bit) and attributes of the public API, logging, python bindings, the
  `ccoip_master` executable.

## 6. Running

```
tlc -config MasterSync.cfg MCMaster
tlc -config ClusterFaults.cfg MCCluster
tlc -config RingReduce.cfg MCRingReduce
tlc -config MasterConnection.cfg MCMasterConnection
tlapm MasterUnisonProofs.tla
```

The largest runs take three to four minutes on two cores, the proofs together about fifty; a module of
proofs takes the lemmas of the modules it extends as given.
