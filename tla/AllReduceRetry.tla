--------------------------- MODULE AllReduceRetry ---------------------------
(***************************************************************************)
(* pcclAllReduceMultipleWithRetry: reduce Count buffers with at most       *)
(* MaxInFlight operations under way, and retry what fails.                 *)
(*                                                                         *)
(* The operations themselves are the environment: awaiting one returns     *)
(* success or failure.  world is the world size the client was last told,  *)
(* which a failed await may lower: it asks the master for new connections, *)
(* unless another operation has not been joined yet.  The descriptors are  *)
(* the caller's: one may be malformed, and two may have the same tag.      *)
(***************************************************************************)
EXTENDS Integers, FiniteSets

CONSTANTS
    Count,        \* number of descriptors
    MaxInFlight,  \* max_in_flight
    Tags,         \* tags of operations
    MaxWorld      \* bound on the world size at the call

ASSUME CountAssumption == Count \in Nat \ {0} /\ MaxInFlight \in Nat \ {0} /\ MaxWorld \in Nat \ {0}

VARIABLES
    pc,                \* the loop the function is in
    i,                 \* the index of that loop
    reduce_handles,    \* indices with a handle
    completed_ops,
    in_flight,
    all_done,
    local_world_size,  \* the function's copy of the world size
    world,             \* PCCL_ATTRIBUTE_PEER_GROUP_WORLD_SIZE
    descriptors,       \* what the function was called with; it never changes
    result             \* what the function has returned

vars == <<pc, i, reduce_handles, completed_ops, in_flight, all_done, local_world_size, world,
          descriptors, result>>

Ops == 1..Count

\* valid: pcclAllReduceAsync finds nothing wrong with the types and the count.
Descriptors == [Ops -> [valid : BOOLEAN, tag : Tags]]

Init ==
    /\ descriptors \in Descriptors
    /\ pc = "enter" /\ i = 1
    /\ reduce_handles = {} /\ completed_ops = {} /\ in_flight = 0
    /\ all_done = TRUE
    /\ world \in 1..MaxWorld /\ local_world_size = world
    /\ result = "none"

Return(r) ==
    /\ pc' = "returned" /\ result' = r
    /\ UNCHANGED <<i, reduce_handles, completed_ops, in_flight, all_done, local_world_size, world>>

\* allReduceAsync does not start an operation under a tag that is in use.
TagInUse(o) == \E h \in reduce_handles : descriptors[h].tag = descriptors[o].tag

\* What pcclAllReduceAsync returns for operation o: it looks at the descriptor, then at the
\* world size of the client (not at the function's copy of it), then at the tag.
LaunchResult(o) ==
    IF ~descriptors[o].valid THEN "InvalidArgument"
    ELSE IF world < 2 THEN "TooFewPeers"
    ELSE IF TagInUse(o) THEN "InvalidArgument"
    ELSE "Success"

\* One more pass over the descriptors, or what follows the loop.
NextPass(worldSize) ==
    /\ pc' = IF worldSize > 1 THEN "pass" ELSE "left"
    /\ i' = 1
    /\ all_done' = TRUE

Enter ==
    /\ pc = "enter"
    /\ IF local_world_size < 2 THEN Return("TooFewPeers")
       ELSE pc' = "launch" /\ UNCHANGED <<i, reduce_handles, completed_ops, in_flight, all_done,
                                          local_world_size, world, result>>

\* The loop that launches operations up front.
Launch ==
    /\ pc = "launch"
    /\ IF i \in Ops /\ in_flight < MaxInFlight
       THEN /\ LaunchResult(i) = "Success"
            /\ reduce_handles' = reduce_handles \cup {i}
            /\ in_flight' = in_flight + 1
            /\ i' = i + 1
            /\ UNCHANGED <<pc, all_done>>
       ELSE NextPass(local_world_size) /\ UNCHANGED <<reduce_handles, in_flight>>
    /\ UNCHANGED <<completed_ops, local_world_size, world, result>>

\* Mutants: the limit, or what has completed, is not looked at.
SkippedWhenCompleted == i \notin reduce_handles /\ i \in completed_ops

SkippedAtLimit == i \notin reduce_handles /\ in_flight >= MaxInFlight

\* An operation that is over, or has to wait for another to end.
Skipped == i \notin reduce_handles /\ (i \in completed_ops \/ in_flight >= MaxInFlight)

\* Mutant: the end of the descriptors is not looked at.
SkipPastEnd ==
    /\ pc = "pass" /\ Skipped
    /\ i' = i + 1
    /\ UNCHANGED <<pc, reduce_handles, completed_ops, in_flight, all_done, local_world_size, world, result>>

Skip ==
    /\ pc = "pass" /\ i \in Ops /\ Skipped
    /\ i' = i + 1
    /\ UNCHANGED <<pc, reduce_handles, completed_ops, in_flight, all_done, local_world_size, world, result>>

\* PCCL_ERR_PROPAGATE, in either loop: the function returns at once, whatever is under way.
LaunchFails ==
    /\ \/ pc = "launch" /\ i \in Ops /\ in_flight < MaxInFlight
       \/ pc = "pass" /\ i \in Ops /\ ~Skipped /\ i \notin reduce_handles
    /\ LaunchResult(i) # "Success"
    /\ Return(LaunchResult(i))

\* Mutant: the pass counts as the last one although operations have been left behind.
VisitAllDone ==
    LET launched == reduce_handles \cup {i}
        n        == IF i \in reduce_handles THEN in_flight ELSE in_flight + 1
        more     == n < MaxInFlight /\ ~(Ops \subseteq launched \cup completed_ops)
    IN  /\ pc = "pass" /\ i \in Ops /\ ~Skipped
        /\ i \notin reduce_handles => LaunchResult(i) = "Success"
        /\ reduce_handles' = launched
        /\ in_flight' = n
        /\ IF more THEN i' = i + 1 /\ pc' = pc ELSE pc' = "await" /\ i' = i
        /\ UNCHANGED <<all_done, completed_ops, local_world_size, world, result>>

\* Launch the operation if it has no handle; wait for it unless more can be launched.
Visit ==
    LET launched == reduce_handles \cup {i}
        n        == IF i \in reduce_handles THEN in_flight ELSE in_flight + 1
        more     == n < MaxInFlight /\ ~(Ops \subseteq launched \cup completed_ops)
    IN  /\ pc = "pass" /\ i \in Ops /\ ~Skipped
        /\ i \notin reduce_handles => LaunchResult(i) = "Success"
        /\ reduce_handles' = launched
        /\ in_flight' = n
        /\ IF more THEN all_done' = FALSE /\ i' = i + 1 /\ pc' = pc
           ELSE pc' = "await" /\ UNCHANGED <<i, all_done>>
        /\ UNCHANGED <<completed_ops, local_world_size, world, result>>

\* Mutant: the operation is not recorded as completed.
AwaitForgets ==
    /\ pc = "await"
    /\ reduce_handles' = reduce_handles \ {i}
    /\ in_flight' = in_flight - 1
    /\ local_world_size' = world
    /\ pc' = "pass" /\ i' = i + 1
    /\ UNCHANGED <<completed_ops, all_done, world, result>>

AwaitSucceeds ==
    /\ pc = "await"
    /\ reduce_handles' = reduce_handles \ {i}
    /\ completed_ops' = completed_ops \cup {i}
    /\ in_flight' = in_flight - 1
    /\ local_world_size' = world
    /\ pc' = "pass" /\ i' = i + 1
    /\ UNCHANGED <<all_done, world, result>>

\* A failed await while nothing else is under way may find that peers have left.
WorldAfterFailure(rest) == IF rest = {} THEN 1..world ELSE {world}

\* The handle is dropped, but in_flight still counts it.
AwaitFails ==
    /\ pc = "await"
    /\ reduce_handles' = reduce_handles \ {i}
    /\ world' \in WorldAfterFailure(reduce_handles')
    /\ local_world_size' = world'
    /\ pc' = "drain" /\ i' = 1 /\ all_done' = FALSE
    /\ UNCHANGED <<completed_ops, in_flight, result>>

\* After a failure all other operations are awaited, before the next pass begins.
Drain ==
    /\ pc = "drain"
    /\ CASE i \in reduce_handles ->
               /\ \/ completed_ops' = completed_ops \cup {i} /\ world' = world
                  \/ completed_ops' = completed_ops /\ world' \in WorldAfterFailure(reduce_handles \ {i})
               /\ reduce_handles' = reduce_handles \ {i}
               /\ in_flight' = in_flight - 1
               /\ i' = i + 1
               /\ UNCHANGED <<pc, all_done>>
         [] i \in Ops \ reduce_handles ->
               i' = i + 1 /\ UNCHANGED <<pc, all_done, reduce_handles, completed_ops, in_flight, world>>
         [] OTHER ->
               NextPass(local_world_size) /\ UNCHANGED <<reduce_handles, completed_ops, in_flight, world>>
    /\ UNCHANGED <<local_world_size, result>>

EndPass ==
    /\ pc = "pass" /\ i \notin Ops
    /\ IF all_done THEN pc' = "left" /\ i' = 1 /\ UNCHANGED all_done ELSE NextPass(local_world_size)
    /\ UNCHANGED <<reduce_handles, completed_ops, in_flight, local_world_size, world, result>>

\* Alone, the function waits for what is still under way and gives up.
Leave ==
    /\ pc = "left"
    /\ pc' = "returned"
    /\ IF local_world_size = 1 THEN result' = "TooFewPeers" /\ reduce_handles' = {}
       ELSE result' = "Success" /\ UNCHANGED reduce_handles
    /\ UNCHANGED <<i, completed_ops, in_flight, all_done, local_world_size, world>>

Next ==
    /\ \/ Enter \/ Launch \/ Skip \/ LaunchFails \/ Visit \/ AwaitSucceeds \/ AwaitFails
       \/ Drain \/ EndPass \/ Leave
       \/ pc = "returned" /\ UNCHANGED vars
    /\ UNCHANGED descriptors

\* Operations end, one way or another: the master aborts those that cannot.
Spec == Init /\ [][Next]_vars /\ WF_vars(Next)

-----------------------------------------------------------------------------
(* Properties *)

\* The function's variables have the types of the C++ ones.
TypeOK ==
    /\ pc \in {"enter", "launch", "pass", "await", "drain", "left", "returned"}
    /\ i \in 1..(Count + 1)
    /\ reduce_handles \in SUBSET Ops /\ completed_ops \in SUBSET Ops
    /\ in_flight \in 0..MaxInFlight
    /\ all_done \in BOOLEAN
    /\ local_world_size \in 1..MaxWorld /\ world \in 1..MaxWorld
    /\ descriptors \in Descriptors
    /\ result \in {"none", "InvalidArgument", "TooFewPeers", "Success"}

\* in_flight never wraps around below zero, and no more than max_in_flight operations are
\* under way: it counts at least the operations that have a handle.
HandlesWithinLimit == Cardinality(reduce_handles) <= in_flight /\ in_flight <= MaxInFlight

\* An operation that has succeeded is not launched again: its receive buffer, which may be
\* the send buffer, would be reduced twice.
CompletedOnce == completed_ops \cap reduce_handles = {}

\* The function does not return with an operation under way, which would go on writing to
\* the caller's buffers, unless the caller has handed it a descriptor that pcclAllReduceAsync
\* refuses: a malformed one, or one with the tag of an operation under way.  In particular it
\* does not when peers leave between a failure and a retry.
NothingPending ==
    result # "none" /\ reduce_handles # {} =>
        result = "InvalidArgument" /\ (~descriptors[i].valid \/ TagInUse(i))

\* However many operations fail, the function returns.
Returns == <>(result # "none")

\* pcclSuccess means that every operation has been reduced.
SuccessMeansReduced == result = "Success" => completed_ops = Ops

=============================================================================
