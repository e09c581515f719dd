------------------------------ MODULE Cluster ------------------------------
(***************************************************************************)
(* The master and its clients (CCoIPClientHandler, driven by the peer loop *)
(* of the Getting Started guide through the functions of pccl.cpp).        *)
(*                                                                         *)
(* A client's main thread blocks inside one library call at a time; pc     *)
(* names the packet or the work it is blocked on.  Every collective        *)
(* operation has a thread of its own, op[t].  The master takes a packet in *)
(* the step that sends it: the connection is FIFO and the sender only      *)
(* waits, so an earlier send is the same send, delayed.  Packets to a      *)
(* client are queued in its inbox.                                         *)
(*                                                                         *)
(* Fields of cl[c]:                                                        *)
(*   pc       "out": not started; "ready": between calls;                  *)
(*            "crashed", "failed": the process has ended                   *)
(*   loop     the calls of one iteration of the peer loop                  *)
(*   calls    library calls made so far                                    *)
(*   accept   the vote requestAndEstablishP2PConnections was entered with  *)
(*   failed   failed_peers of the last attempt                             *)
(*   tx       p2p_connections_tx: no entry, an empty pool, or open sockets *)
(*   rx       peers with an entry in p2p_connections_rx                    *)
(*   ring     the ring order; world, global: the world sizes               *)
(*   bench    benchmarks still to run                                      *)
(*   todo     tags still to be reduced in this iteration                   *)
(*   data, rev   contents and revision of the shared state                 *)
(***************************************************************************)
EXTENDS MasterHandler

CONSTANTS
    Loops,        \* the peer loops the clients may run, all of them the same one
    MaxCalls,     \* calls after which the run is over
    Data,         \* Data[c]: the shared state c starts with
    Strategy,     \* Strategy[c]: the sync strategy c uses
    MaxCrashes,   \* bound on crashes
    CrashAt,      \* where a client may crash
    MaxConnectFaults,   \* bound on connection attempts to a live peer that fail
    MaxIoFaults   \* bound on reduces that fail between live peers

Calls == {"update", "query", "optimize", "sync", "reduce"}

ASSUME LoopsAssumption == Loops \subseteq Seq(Calls) \ {<<>>}

VARIABLES
    s,        \* the master
    gone,     \* connections the master has closed
    inbox,    \* inbox[c][k]: packets of kind k that c has not taken yet
    cl,       \* the clients
    faults    \* faults that have happened

vars == <<s, gone, inbox, cl, faults>>

NoOp == [st |-> "none", ring |-> <<>>, sockets |-> FALSE, seq |-> 0, wired |-> FALSE,
         success |-> FALSE, told |-> FALSE]

NewClient(c, loop) ==
    [pc |-> "out", loop |-> loop, calls |-> 0, accept |-> TRUE, failed |-> {},
     tx |-> [p \in Peers |-> "none"], rx |-> {}, ring |-> <<>>, world |-> 0, global |-> 0,
     bench |-> {}, todo |-> {}, op |-> [t \in Tags |-> NoOp], data |-> Data[c], rev |-> 0]

Init ==
    /\ s = EmptyMaster
    /\ gone = {}
    /\ inbox = [c \in Peers |-> [k \in Kinds |-> <<>>]]
    /\ \E loop \in Loops : cl = [c \in Peers |-> NewClient(c, loop)]
    /\ faults = [crash |-> 0, connect |-> 0, io |-> 0]

Ended == {"crashed", "failed"}
Live(c) == cl[c].pc \notin Ended \cup {"out"}

-----------------------------------------------------------------------------
(* Packets *)

Got(c, k) == inbox[c][k] # <<>>
Msg(c, k) == Head(inbox[c][k])

Take(box, c, K) == [box EXCEPT ![c] = [k \in Kinds |-> IF k \in K THEN Tail(@[k]) ELSE @[k]]]

Deliver(box, out) ==
    LET batches(c, k) == SelectSeq(out, LAMBDA b : <<c, k>> \in DOMAIN b)
    IN  [c \in Peers |-> [k \in Kinds |->
            box[c][k] \o [i \in DOMAIN batches(c, k) |-> batches(c, k)[i][<<c, k>>]]]]

\* Client c, now in state new, takes the packets K and sends one that the master handles;
\* S is what the handler may make of the master.
Exchange(c, K, new, S) ==
    /\ c \notin gone
    /\ \E r \in S : /\ s' = Delivered(r)
                    /\ inbox' = Deliver(Take(inbox, c, K), r.out)
    /\ cl' = [cl EXCEPT ![c] = new]
    /\ UNCHANGED gone

\* Client c takes the packets K and sends nothing.
Local(c, K, new) ==
    /\ inbox' = Take(inbox, c, K)
    /\ cl' = [cl EXCEPT ![c] = new]
    /\ UNCHANGED <<s, gone>>

\* The process ends, and its connections with it.
End(c, pc) ==
    /\ cl' = [cl EXCEPT ![c].pc = pc]
    /\ s' = IF c \in gone THEN s ELSE Kick(s, c)
    /\ UNCHANGED <<gone, inbox>>

-----------------------------------------------------------------------------
(* Joining, and establishing p2p connections *)

Join(c) ==
    /\ cl[c].pc = "out"
    /\ Exchange(c, {}, [cl[c] EXCEPT !.pc = "session"], HandleRequestSessionJoin(s, c))
    /\ UNCHANGED faults

Joined(c) ==
    /\ cl[c].pc = "session" /\ Got(c, <<"session", 0>>)
    /\ IF Msg(c, <<"session", 0>>)
       THEN Local(c, {<<"session", 0>>}, [cl[c] EXCEPT !.pc = "info"]) /\ UNCHANGED faults
       ELSE End(c, "failed") /\ UNCHANGED faults

\* requestAndEstablishP2PConnections up to its first wait.
RequestEstablish(c, K, new, accept) ==
    Exchange(c, K, [new EXCEPT !.pc = "info", !.accept = accept],
             HandleEstablishP2PConnections(s, c, accept))

\* establishP2PConnections connects to the listed peers it has no entry for, one after
\* another up to the first failure (the f-th; 0: none), and drops all that are not listed.
\* A joiner enters the peer loop where the others are.
Connect(c, f) ==
    LET m      == Msg(c, <<"info", 0>>)
        listed == IF m.unchanged THEN {p \in Peers : cl[c].tx[p] # "none"} ELSE Range(m.peers)
        new    == SelectSeq(m.peers, LAMBDA p : cl[c].tx[p] = "none")
        opened == {new[i] : i \in {j \in DOMAIN new : f = 0 \/ j < f}}
        failed == IF f = 0 THEN {} ELSE {new[f]}
        made   == {cl[p].calls : p \in Accepted(s)}
    IN  /\ cl[c].pc = "info" /\ Got(c, <<"info", 0>>)
        /\ f \in {0} \cup DOMAIN new
        /\ \A p \in opened : Live(p)
        /\ \A p \in failed : Live(p) => faults.connect < MaxConnectFaults
        /\ faults' = [faults EXCEPT !.connect = @ + Cardinality({p \in failed : Live(p)})]
        /\ cl' = [p \in Peers |->
                     IF p = c
                     THEN [cl[c] EXCEPT !.pc = "report", !.failed = failed, !.calls = Max({@} \cup made),
                                        !.world = m.world, !.global = m.global,
                                        !.rx = IF m.unchanged THEN @ ELSE @ \cap listed,
                                        !.tx = [q \in Peers |-> IF q \in opened THEN "open"
                                                                ELSE IF q \in failed THEN "empty"
                                                                ELSE IF q \in listed THEN @[q]
                                                                ELSE "none"]]
                     ELSE [cl[p] EXCEPT !.rx = IF p \in opened THEN @ \cup {c} ELSE @]]
        /\ inbox' = Take(inbox, c, {<<"info", 0>>})
        /\ UNCHANGED <<s, gone>>

ReportConnected(c) ==
    /\ cl[c].pc = "report"
    /\ Exchange(c, {}, [cl[c] EXCEPT !.pc = "established"],
                HandleP2PConnectionsEstablished(s, c, cl[c].failed = {}, cl[c].failed))
    /\ UNCHANGED faults

\* Mutant: a client keeps the ring it has.
EstablishedKeepsRing(c) ==
    LET k == <<"established", 0>>
        m == Msg(c, k)
    IN  /\ cl[c].pc = "established" /\ Got(c, k)
        /\ IF m.success THEN Local(c, {k}, [cl[c] EXCEPT !.pc = "ready", !.ring = IF @ = <<>> THEN m.ring ELSE @])
           ELSE RequestEstablish(c, {k}, cl[c], cl[c].accept)
        /\ UNCHANGED faults

\* Retried for as long as the master says so; success after a reported failure is an error.
Established(c) ==
    LET k == <<"established", 0>>
        m == Msg(c, k)
    IN  /\ cl[c].pc = "established" /\ Got(c, k)
        /\ CASE ~m.success -> RequestEstablish(c, {k}, cl[c], cl[c].accept) /\ UNCHANGED faults
             [] m.success /\ cl[c].failed # {} -> End(c, "failed") /\ UNCHANGED faults
             [] OTHER -> Local(c, {k}, [cl[c] EXCEPT !.pc = "ready", !.ring = m.ring]) /\ UNCHANGED faults

-----------------------------------------------------------------------------
(* The peer loop *)

Call(c) == cl[c].loop[(cl[c].calls % Len(cl[c].loop)) + 1]
Called(c) == [cl[c] EXCEPT !.calls = @ + 1]
Calling(c, call) == cl[c].pc = "ready" /\ cl[c].calls < MaxCalls /\ Call(c) = call

UpdateTopology(c) ==
    Calling(c, "update") /\ RequestEstablish(c, {}, Called(c), TRUE) /\ UNCHANGED faults

ArePeersPending(c) ==
    /\ Calling(c, "query")
    /\ Exchange(c, {}, [cl[c] EXCEPT !.pc = "pending"], HandleCheckPeersPending(s, c))
    /\ UNCHANGED faults

\* The loop updates the topology when there is somebody to let in.
PeersPending(c) ==
    LET k == <<"pending", 0>>
    IN  /\ cl[c].pc = "pending" /\ Got(c, k)
        /\ IF Msg(c, k) THEN RequestEstablish(c, {k}, Called(c), TRUE)
           ELSE Local(c, {k}, [Called(c) EXCEPT !.pc = "ready"])
        /\ UNCHANGED faults

-----------------------------------------------------------------------------
(* Topology optimization *)

OptimizeTopology(c) ==
    /\ Calling(c, "optimize")
    /\ IF cl[c].global > 1
       THEN Exchange(c, {}, [Called(c) EXCEPT !.pc = "optimize"], HandleOptimizeTopology(s, c))
       ELSE Local(c, {}, Called(c))
    /\ UNCHANGED faults

BeginBenchmarks(c) ==
    LET k == <<"optimize", 0>>
    IN  /\ cl[c].pc = "optimize" /\ Got(c, k)
        /\ Local(c, {k}, [cl[c] EXCEPT !.pc = "benchmark", !.bench = Msg(c, k)])
        /\ UNCHANGED faults

\* Busy peers are retried, so a benchmark fails only when the peer is gone.
Benchmark(c) ==
    /\ cl[c].pc = "benchmark"
    /\ \E e \in cl[c].bench :
           LET new == [cl[c] EXCEPT !.bench = @ \ {e}]
           IN  IF Live(e[2]) THEN Exchange(c, {}, new, HandleReportPeerBandwidth(s, c, e[2]))
               ELSE Local(c, {}, new)
    /\ UNCHANGED faults

OptimizeTopologyWorkComplete(c) ==
    /\ cl[c].pc = "benchmark" /\ cl[c].bench = {}
    /\ Exchange(c, {}, [cl[c] EXCEPT !.pc = "optimized"], HandleOptimizeTopologyWorkComplete(s, c))
    /\ UNCHANGED faults

\* Mutant: the optimized topology is used at once, with the ring of the packet.
TopologyOptimizedStays(c) ==
    LET k == <<"optimized", 0>>
    IN  /\ cl[c].pc = "optimized" /\ Got(c, k)
        /\ Local(c, {k}, [cl[c] EXCEPT !.ring = <<>>, !.pc = "ready"])
        /\ UNCHANGED faults

\* The packet's ring is never filled in; the true one comes with the new connections.
TopologyOptimized(c) ==
    LET k == <<"optimized", 0>>
    IN  /\ cl[c].pc = "optimized" /\ Got(c, k)
        /\ RequestEstablish(c, {k}, [cl[c] EXCEPT !.ring = <<>>], FALSE)
        /\ UNCHANGED faults

-----------------------------------------------------------------------------
(* Shared-state synchronization *)

SyncSharedState(c) ==
    /\ Calling(c, "sync")
    /\ Exchange(c, {}, [Called(c) EXCEPT !.pc = "sync"],
                HandleSyncSharedState(s, c, cl[c].rev, Strategy[c], cl[c].data))
    /\ UNCHANGED faults

\* What c holds after it has fetched the keys K from d.
Fetched(c, d, K) ==
    [i \in DOMAIN cl[c].data |->
        IF cl[c].data[i][1] \notin K THEN cl[c].data[i]
        ELSE CHOOSE e \in Range(cl[d].data) : e[1] = cl[c].data[i][1]]

\* An outdated client fetches from the distributor, which serves others for as long as it
\* is in syncSharedState itself; the call fails when it does not, or on a wrong hash.
FetchSharedState(c) ==
    LET k == <<"sync", 0>>
        m == Msg(c, k)
        serves == m.from # "none" /\ cl[m.from].pc \in {"sync", "distribute", "synced"}
        data == Fetched(c, m.from, m.keys)
        right == \A i \in DOMAIN data : data[i][1] \in m.keys => data[i][2] = m.hashes[data[i][1]]
    IN  /\ cl[c].pc = "sync" /\ Got(c, k)
        /\ CASE ~m.outdated ->
                    Local(c, {k}, [cl[c] EXCEPT !.pc = "distribute"]) /\ UNCHANGED faults
             [] m.outdated /\ serves /\ right ->
                    /\ Local(c, {k}, [cl[c] EXCEPT !.pc = "distribute", !.data = data,
                                                   !.rev = cl[m.from].rev])
                    /\ UNCHANGED faults
             [] OTHER -> End(c, "failed") /\ UNCHANGED faults

SharedStateComplete(c) ==
    /\ cl[c].pc = "distribute"
    /\ Exchange(c, {}, [cl[c] EXCEPT !.pc = "synced"], HandleSyncSharedStateComplete(s, c))
    /\ UNCHANGED faults

\* The application counts the revision up for the next synchronization.
SharedStateSynced(c) ==
    LET k == <<"synced", 0>>
    IN  /\ cl[c].pc = "synced" /\ Got(c, k)
        /\ Local(c, {k}, [cl[c] EXCEPT !.pc = "ready", !.rev = @ + 1])
        /\ UNCHANGED faults

-----------------------------------------------------------------------------
(* Collective operations *)

\* The neighbours of c in ring r.
After(r, c)  == r[NextIndex(r, CHOOSE i \in DOMAIN r : r[i] = c)]
Before(r, c) == r[PrevIndex(r, CHOOSE i \in DOMAIN r : r[i] = c)]

InRing(r, c) == Len(r) > 1 /\ c \in Range(r)

\* The connections an operation may use are copied when it is launched.
HasSockets(c, r) == InRing(r, c) => cl[c].tx[After(r, c)] = "open" /\ Before(r, c) \in cl[c].rx

\* pcclAllReduceAsync for every tag; alone in its group a client has nothing to reduce.
AllReduceAsync(c) ==
    LET todo == IF cl[c].todo = {} THEN Tags ELSE cl[c].todo
        new  == [NoOp EXCEPT !.st = "initiate", !.ring = cl[c].ring, !.sockets = HasSockets(c, cl[c].ring)]
        op   == [t \in Tags |-> IF t \in todo THEN new ELSE NoOp]
    IN  /\ Calling(c, "reduce")
        /\ IF cl[c].world < 2 THEN Local(c, {}, [Called(c) EXCEPT !.todo = {}])
           ELSE Local(c, {}, [cl[c] EXCEPT !.pc = "await", !.todo = todo, !.op = op])
        /\ UNCHANGED faults

Op(c, t, st) == Live(c) /\ cl[c].op[t].st = st
WithOp(c, t, o) == [cl[c] EXCEPT !.op[t] = o]

InitiateReduce(c, t) ==
    /\ Op(c, t, "initiate")
    /\ Exchange(c, {}, WithOp(c, t, [cl[c].op[t] EXCEPT !.st = "commence"]),
                HandleCollectiveCommsInitiate(s, c, t))
    /\ UNCHANGED faults

\* c can send to d.
Open(c, d) == Live(c) /\ Live(d) /\ cl[c].tx[d] = "open" /\ c \in cl[d].rx

Wired(c, r) == InRing(r, c) /\ Open(c, After(r, c)) /\ Open(Before(r, c), c)

CommenceReduce(c, t) ==
    LET k == <<"commence", t>>
        wired == Wired(c, cl[c].op[t].ring)
    IN  /\ Op(c, t, "commence") /\ Got(c, k)
        /\ Local(c, {k}, WithOp(c, t, [cl[c].op[t] EXCEPT !.st = "reduce", !.seq = Msg(c, k),
                                                          !.wired = wired]))
        /\ UNCHANGED faults

\* Everybody in the ring takes part in the same operation over the same ring.
Engaged(c, t) ==
    LET o == cl[c].op[t]
    IN  \A p \in Range(o.ring) :
            LET q == cl[p].op[t]
            IN  q.wired /\ q.seq = o.seq /\ q.ring = o.ring /\ q.st \notin {"initiate", "commence"}

\* Mutant: a failure is not reported to the master.
ReduceEndsQuietly(c, t, success, told) ==
    LET o == cl[c].op[t]
        K == IF told THEN {<<"abort", t>>} ELSE {}
    IN  Exchange(c, K, WithOp(c, t, [o EXCEPT !.st = "complete", !.success = success, !.told = told]),
                 HandleCollectiveCommsComplete(s, c, t, FALSE))

\* pipelineRingReduce ends, and the outcome is reported.
ReduceEnds(c, t, success, told) ==
    LET o == cl[c].op[t]
        K == IF told THEN {<<"abort", t>>} ELSE {}
    IN  Exchange(c, K, WithOp(c, t, [o EXCEPT !.st = "complete", !.success = success, !.told = told]),
                 HandleCollectiveCommsComplete(s, c, t, ~success /\ Len(o.ring) > 1))

ReduceSucceeds(c, t) ==
    /\ Op(c, t, "reduce") /\ cl[c].op[t].wired /\ Engaged(c, t)
    /\ ReduceEnds(c, t, TRUE, FALSE)
    /\ UNCHANGED faults

\* The master's abort packet is noticed between two pieces of data.
ReduceAborted(c, t) ==
    /\ Op(c, t, "reduce") /\ cl[c].op[t].wired /\ Got(c, <<"abort", t>>)
    /\ ReduceEnds(c, t, FALSE, TRUE)
    /\ UNCHANGED faults

\* A reduce without a ring fails at once, one that has lost a neighbour sooner or later.
ReduceFails(c, t) ==
    LET sound == Wired(c, cl[c].op[t].ring)
    IN  /\ Op(c, t, "reduce") /\ cl[c].op[t].sockets
        /\ sound => faults.io < MaxIoFaults
        /\ faults' = [faults EXCEPT !.io = IF sound THEN @ + 1 ELSE @]
        /\ ReduceEnds(c, t, FALSE, FALSE)

\* runReduceStage takes a socket of a neighbour's pool without asking whether there is a
\* pool, or a socket in it: the exception, or the division by zero, ends the process.
ReduceWithoutSocket(c, t) ==
    /\ Op(c, t, "reduce") /\ ~cl[c].op[t].sockets
    /\ End(c, "failed")
    /\ UNCHANGED faults

\* The thread waits for the abort packet, raised or not, and for the end of the operation.
ReduceComplete(c, t) ==
    LET o == cl[c].op[t]
        K == {<<"complete", t>>} \cup (IF o.told THEN {} ELSE {<<"abort", t>>})
        aborted == o.told \/ Msg(c, <<"abort", t>>)
    IN  /\ Op(c, t, "complete") /\ \A k \in K : Got(c, k)
        /\ Local(c, K, WithOp(c, t, [o EXCEPT !.st = IF o.success /\ ~aborted THEN "ok" ELSE "failed"]))
        /\ UNCHANGED faults

\* pcclAwaitAsyncReduce, in the order of the tags.  A failed operation asks for new p2p
\* connections, which is refused while another operation has not been joined.
AwaitAsyncReduce(c) ==
    LET joined == {t \in Tags : cl[c].op[t].st = "none"}
        t    == CHOOSE u \in Tags \ joined : \A v \in Tags \ joined : u <= v
        ok   == cl[c].op[t].st = "ok"
        last == joined = Tags \ {t}
        rest == IF ok THEN cl[c].todo \ {t} ELSE cl[c].todo
        new  == [WithOp(c, t, NoOp) EXCEPT !.todo = rest,
                                           !.pc = IF last THEN "ready" ELSE @,
                                           !.calls = IF last /\ rest = {} THEN @ + 1 ELSE @]
    IN  /\ cl[c].pc = "await"
        /\ cl[c].op[t].st \in {"ok", "failed"}
        /\ IF last /\ ~ok THEN RequestEstablish(c, {}, new, FALSE) ELSE Local(c, {}, new)
        /\ UNCHANGED faults

-----------------------------------------------------------------------------
(* The environment and the specification *)

Crash(c) ==
    /\ cl[c].pc \in CrashAt
    /\ faults.crash < MaxCrashes
    /\ faults' = [faults EXCEPT !.crash = @ + 1]
    /\ End(c, "crashed")

\* A client whose connection the master has closed finds out at its next send or receive.
NoticeClosed(c) == Live(c) /\ c \in gone /\ End(c, "failed") /\ UNCHANGED faults

ClientDisconnect(c) ==
    /\ c \in s.cut
    /\ \E r \in OnClientDisconnect(s, c) : s' = Delivered(r) /\ inbox' = Deliver(inbox, r.out)
    /\ gone' = gone \cup {c}
    /\ UNCHANGED <<cl, faults>>

Moonshot(g) ==
    /\ \/ s.task[g].st = "scheduled" /\ s' = StartSolver(s, g)
       \/ s.task[g].st = "running" /\ s' \in FinishSolver(s, g)
    /\ UNCHANGED <<gone, inbox, cl, faults>>

OpStep(c, t) ==
    \/ InitiateReduce(c, t) \/ CommenceReduce(c, t)
    \/ ReduceSucceeds(c, t) \/ ReduceAborted(c, t) \/ ReduceFails(c, t)
    \/ ReduceWithoutSocket(c, t) \/ ReduceComplete(c, t)

MainStep(c) ==
    \/ Joined(c)
    \/ \E f \in 0..2 : Connect(c, f)
    \/ ReportConnected(c) \/ Established(c)
    \/ UpdateTopology(c) \/ ArePeersPending(c) \/ PeersPending(c)
    \/ OptimizeTopology(c) \/ BeginBenchmarks(c) \/ Benchmark(c)
    \/ OptimizeTopologyWorkComplete(c) \/ TopologyOptimized(c)
    \/ SyncSharedState(c) \/ FetchSharedState(c) \/ SharedStateComplete(c) \/ SharedStateSynced(c)
    \/ AllReduceAsync(c) \/ AwaitAsyncReduce(c)
    \/ NoticeClosed(c)

\* Registered while the others were busy: the next update lets c in.
Waiting(c) == /\ cl[c].pc = "info" /\ ~Got(c, <<"info", 0>>)
              /\ s.phase[c] = "REGISTERED" /\ s.state[c] = "IDLE"

\* The run is over: every client has made all calls, has ended, or is waiting to be let in.
Finished ==
    \A c \in Peers :
        \/ cl[c].pc \in Ended /\ c \in gone
        \/ cl[c].pc = "ready" /\ cl[c].calls = MaxCalls
        \/ cl[c].pc = "out"
        \/ Waiting(c)

Next ==
    \/ Finished /\ UNCHANGED vars
    \/ \E c \in Peers : Join(c) \/ MainStep(c) \/ ClientDisconnect(c) \/ Crash(c)
    \/ \E c \in Peers, t \in Tags : OpStep(c, t)
    \/ \E g \in Groups : Moonshot(g)

\* The main thread of c has something to do: it runs, is told that the master has closed
\* its connection, or has the packet it waits for.
Runnable(c) ==
    LET pc == cl[c].pc
        pending == {t \in Tags : cl[c].op[t].st # "none"}
    IN  /\ Live(c)
        /\ \/ c \in gone \/ pc \in {"report", "benchmark", "distribute"}
           \/ <<pc, 0>> \in Kinds /\ Got(c, <<pc, 0>>)
           \/ pc = "ready" /\ cl[c].calls < MaxCalls
           \/ pc = "await" /\ \E t \in pending : /\ \A u \in pending : t <= u
                                                 /\ cl[c].op[t].st \in {"ok", "failed"}

\* So has the thread of operation t; it does not wait for a sound connection to fail.
OpRunnable(c, t) ==
    LET o == cl[c].op[t]
    IN  /\ Live(c)
        /\ \/ o.st = "initiate" /\ c \notin gone
           \/ o.st = "commence" /\ Got(c, <<"commence", t>>)
           \/ o.st = "reduce" /\ ~o.sockets
           \/ /\ o.st = "reduce" /\ c \notin gone
              /\ \/ o.wired /\ (Engaged(c, t) \/ Got(c, <<"abort", t>>))
                 \/ ~Wired(c, o.ring)
           \/ o.st = "complete" /\ Got(c, <<"complete", t>>) /\ (o.told \/ Got(c, <<"abort", t>>))

\* The threads of a client that has joined keep running, and the server thread of the
\* master is told of every closed connection: c is in s.cut from then until the master
\* takes the step ClientDisconnect(c).  This is weak fairness of these steps, with what
\* enables a step written out.
Fairness ==
    \A c \in Peers : /\ []<>~Runnable(c) \/ []<><<MainStep(c)>>_vars
                     /\ \A t \in Tags : []<>~OpRunnable(c, t) \/ []<><<OpStep(c, t)>>_vars
                     /\ []<>(c \notin s.cut)

Spec == Init /\ [][Next]_vars /\ Fairness

-----------------------------------------------------------------------------
(* Properties *)

\* No library call fails, and no client is kicked, in a run without faults: whenever a
\* client joins, the votes it takes part in fit those of the others.
NobodyFails == \A c \in Peers : cl[c].pc # "failed"

\* One operation has one outcome: joinAsyncReduce does not report success to one client
\* and failure to another that is still a member.
ReduceAgreement ==
    \A t \in Tags, c, d \in Peers :
        /\ PeerGroup[c] = PeerGroup[d]
        /\ cl[c].op[t].st = "ok" /\ cl[d].op[t].st = "failed" /\ cl[c].op[t].seq = cl[d].op[t].seq
        => d \in gone \cup s.cut

\* Tags are reused, and what a reduce sends is told from what an earlier one has left behind by
\* the sequence number: members that have commenced an operation under a tag, and not yet joined
\* it, have the same one. Nobody commences the next one, or a retry, while a member is still in
\* the last, whoever has failed, crashed or been told of the end later than others.
OneOperation ==
    LET begun == {"reduce", "complete", "ok", "failed"}
    IN  \A t \in Tags, c, d \in Peers \ (gone \cup s.cut) :
            /\ PeerGroup[c] = PeerGroup[d]
            /\ cl[c].op[t].st \in begun /\ cl[d].op[t].st \in begun
            => cl[c].op[t].seq = cl[d].op[t].seq

\* Clients that pipelineRingReduce the same operation do it over the same ring, and both
\* are in it.
RingAgreement ==
    \A t \in Tags, c, d \in Peers :
        LET o == cl[c].op[t]
            p == cl[d].op[t]
        IN  (o.st = "reduce" /\ p.st = "reduce" /\ o.seq = p.seq /\ PeerGroup[c] = PeerGroup[d])
               => o.ring = p.ring /\ {c, d} \subseteq Range(o.ring)

\* What a client may be to the master while its main thread is blocked on a packet.
Expected ==
    [info        |-> {"VOTE_ACCEPT_NEW_PEERS", "VOTE_NO_NEW_PEERS"},
     established |-> {"WAITING_FOR_OTHER_PEERS", "CONNECTING_TO_PEERS_FAILED"},
     optimize    |-> {"VOTE_OPTIMIZE_TOPOLOGY"},
     optimized   |-> {"VOTE_COMPLETE_TOPOLOGY_OPTIMIZATION"},
     sync        |-> {"VOTE_SYNC_SHARED_STATE"},
     synced      |-> {"VOTE_COMPLETE_SHARED_STATE_SYNC"}]

\* A client that waits for a packet that has not been sent waits for what the master
\* believes it is waiting for: the two sides of the protocol do not drift apart.
WaitsInStep ==
    \A c \in Peers \ (gone \cup s.cut) :
        cl[c].pc \in DOMAIN Expected /\ ~Got(c, <<cl[c].pc, 0>>)
            => s.state[c] \in Expected[cl[c].pc] \/ Waiting(c)

\* Abort packets are matched by tag alone, and tags are reused: one that is still queued
\* always belongs to the operation that has commenced under its tag.
NoStaleAbort ==
    \A c \in Peers, t \in Tags :
        LET st == cl[c].op[t].st
            begun == st \notin {"none", "initiate"} /\ (st = "commence" => Got(c, <<"commence", t>>))
        IN  Live(c) /\ Got(c, <<"abort", t>>) => begun

\* Packets are taken by type, so one nobody waited for would answer a later call: between
\* two calls there is none.
NoStalePacket ==
    \A c \in Peers : cl[c].pc = "ready" => \A k \in PlainKinds \X {0} : ~Got(c, k)

\* After pcclConnect, pcclUpdateTopology and pcclOptimizeTopology a client is in the ring
\* it was told of and can send to its successor, if that is alive.
ReadyConnected ==
    \A c \in Peers : (cl[c].pc = "ready" /\ Len(cl[c].ring) > 1) =>
        /\ c \in Range(cl[c].ring)
        /\ LET d == After(cl[c].ring, c) IN Live(d) => Open(c, d)

\* Clients that have completed the same synchronization hold the same shared state,
\* whichever contents were elected and whoever joined in between.
SyncAgreement ==
    \A c, d \in Peers :
        /\ PeerGroup[c] = PeerGroup[d]
        /\ cl[c].pc = "ready" /\ cl[d].pc = "ready"
        /\ cl[c].rev = cl[d].rev /\ cl[c].rev > 0
        => cl[c].data = cl[d].data

\* The run ends: nobody waits forever for a packet, a vote or a peer.
RunCompletes == <>[]Finished

=============================================================================
