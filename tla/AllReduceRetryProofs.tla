------------------------ MODULE AllReduceRetryProofs ------------------------
(***************************************************************************)
(* pcclAllReduceMultipleWithRetry for any number of operations and any     *)
(* limit.  That nothing is under way at a return, unless a descriptor was  *)
(* refused, needs to know how the loops get there: a pass that may end the *)
(* function has awaited every operation it has left behind, and a client   *)
(* that is alone has none.                                                 *)
(***************************************************************************)
EXTENDS AllReduceRetry, FiniteSetTheorems, TLAPS

\* The provers get more time than by default.
USE SMTT(20)

\* What each loop has established when it is entered, and keeps.
Loops ==
    /\ pc = "enter" => (reduce_handles = {} /\ local_world_size = world)
    /\ pc \in {"enter", "launch"} => completed_ops = {}
    /\ pc = "launch" => (world >= 2 /\ local_world_size >= 2 /\ \A o \in reduce_handles : o < i)
    /\ pc = "await" => i \in reduce_handles
    /\ (pc \in {"pass", "await"} /\ all_done = TRUE) => \A o \in reduce_handles : i <= o
    /\ (pc = "left" /\ local_world_size # 1) => reduce_handles = {}
    /\ world < 2 => reduce_handles = {}
    /\ result # "none" => pc = "returned"
    /\ (pc = "returned" /\ reduce_handles # {}) =>
           result = "InvalidArgument" /\ (~descriptors[i].valid \/ TagInUse(i))

\* The inductive invariant.
Inv == TypeOK /\ HandlesWithinLimit /\ CompletedOnce /\ Loops

\* A handle more or less is one operation more or less under way.
LEMMA HandleCounts ==
    ASSUME NEW S \in SUBSET Ops, NEW o \in Ops
    PROVE  /\ Cardinality(S) \in Nat
           /\ o \notin S => Cardinality(S \cup {o}) = Cardinality(S) + 1
           /\ o \in S => Cardinality(S) >= 1 /\ Cardinality(S \ {o}) = Cardinality(S) - 1
<1>1. IsFiniteSet(Ops)
  BY CountAssumption, FS_Interval DEF Ops
<1>2. IsFiniteSet(S)
  BY <1>1, FS_Subset
<1>3. Cardinality(S) \in Nat /\ Cardinality(S \ {o}) \in Nat
  BY <1>2, FS_CardinalityType, FS_RemoveElement
<1>4. o \notin S => Cardinality(S \cup {o}) = Cardinality(S) + 1
  BY <1>2, FS_AddElement
<1>5. o \in S => Cardinality(S \ {o}) = Cardinality(S) - 1
  BY <1>2, FS_RemoveElement
<1> QED
  BY <1>3, <1>4, <1>5

\* The function starts with no handle and nothing counted.
LEMMA RetryInit == Init => Inv
<1> SUFFICES ASSUME Init PROVE Inv
  OBVIOUS
<1>1. Cardinality(reduce_handles) = 0
  BY FS_EmptySet DEF Init
<1> QED
  BY <1>1, CountAssumption DEF Init, Inv, TypeOK, HandlesWithinLimit, CompletedOnce, Loops, Ops

\* Every step of the function keeps the invariant.
LEMMA RetryNext == Inv /\ [Next]_vars => Inv'
<1> SUFFICES ASSUME Inv, [Next]_vars PROVE Inv'
  OBVIOUS
<1>d. descriptors' = descriptors
  BY DEF Next, vars
<1>e. descriptors \in Descriptors
  BY DEF Inv, TypeOK
<1>a. /\ Cardinality(reduce_handles) \in Nat
      /\ i \in Ops /\ i \notin reduce_handles =>
             Cardinality(reduce_handles \cup {i}) = Cardinality(reduce_handles) + 1
      /\ i \in reduce_handles =>
             /\ Cardinality(reduce_handles) >= 1
             /\ Cardinality(reduce_handles \ {i}) = Cardinality(reduce_handles) - 1
  <2>1. reduce_handles \in SUBSET Ops
    BY DEF Inv, TypeOK
  <2>2. 1 \in Ops
    BY CountAssumption DEF Ops
  <2>3. Cardinality(reduce_handles) \in Nat
    BY ZenonT(30), <2>1, <2>2, HandleCounts
  <2> QED
    BY <2>1, <2>3, HandleCounts
<1>b. Cardinality({}) = 0
  BY FS_EmptySet
<1>c. i \in reduce_handles => reduce_handles \cup {i} = reduce_handles
  OBVIOUS
<1> USE CountAssumption, <1>d DEF Inv
<1>1. CASE Enter
  <2>1. CASE local_world_size < 2
    BY <1>1, <2>1 DEF Enter, Return, TypeOK, HandlesWithinLimit, CompletedOnce, Loops
  <2>2. CASE ~(local_world_size < 2)
    <3>1. world >= 2 /\ local_world_size >= 2
      BY <1>1, <2>2 DEF Enter, TypeOK, Loops
    <3> QED
      BY <1>1, <2>2, <3>1 DEF Enter, TypeOK, HandlesWithinLimit, CompletedOnce, Loops
  <2> QED
    BY <2>1, <2>2
<1>2. CASE Launch
  <2>1. CASE i \in Ops /\ in_flight < MaxInFlight
    <3>1. i \notin reduce_handles
      BY <1>2 DEF Launch, Loops, TypeOK, Ops
    <3>2. i' = i + 1 /\ in_flight' = in_flight + 1 /\ reduce_handles' = reduce_handles \cup {i}
      BY <1>2, <2>1 DEF Launch
    <3>3. TypeOK'
      BY <1>2, <2>1, <3>2 DEF Launch, TypeOK, Ops
    <3>4. HandlesWithinLimit' /\ CompletedOnce'
      BY <1>2, <1>a, <2>1, <3>1, <3>2 DEF Launch, TypeOK, HandlesWithinLimit, CompletedOnce, Loops
    <3>5. \A o \in reduce_handles' : o < i'
      BY <1>2, <3>2 DEF Launch, Loops, TypeOK, Ops
    <3>6. pc = "launch" /\ UNCHANGED <<pc, completed_ops, local_world_size, world, result>>
      BY <1>2, <2>1 DEF Launch
    <3>7. Loops'
      BY <3>5, <3>6 DEF Loops, TypeOK
    <3> QED
      BY <3>3, <3>4, <3>7
  <2>2. CASE ~(i \in Ops /\ in_flight < MaxInFlight)
    <3>1. pc' = "pass" /\ i' = 1 /\ all_done' = TRUE
      BY <1>2, <2>2 DEF Launch, NextPass, Loops, TypeOK
    <3>2. \A o \in reduce_handles : 1 <= o
      BY DEF TypeOK, Ops
    <3> QED
      BY <1>2, <2>2, <3>1, <3>2 DEF Launch, TypeOK, HandlesWithinLimit, CompletedOnce, Loops
  <2> QED
    BY <2>1, <2>2
<1>3. CASE Skip
  BY <1>3 DEF Skip, Skipped, TypeOK, HandlesWithinLimit, CompletedOnce, Loops, Ops
<1>4. CASE LaunchFails
  <2>1. LaunchResult(i) \in {"InvalidArgument", "TooFewPeers", "Success"}
    BY DEF LaunchResult
  <2>2. LaunchResult(i) = "TooFewPeers" => world < 2
    BY DEF LaunchResult
  <2>3. LaunchResult(i) = "InvalidArgument" => ~descriptors[i].valid \/ TagInUse(i)
    BY ZenonT(30) DEF LaunchResult
  <2>4. /\ pc' = "returned" /\ result' = LaunchResult(i) /\ LaunchResult(i) # "Success"
        /\ UNCHANGED <<i, reduce_handles, completed_ops, in_flight, all_done, local_world_size, world>>
    BY <1>4 DEF LaunchFails, Return
  <2>5. reduce_handles' # {} => result' = "InvalidArgument" /\ (~descriptors'[i'].valid \/ TagInUse(i)')
    <3>1. TagInUse(i)' = TagInUse(i)
      BY <2>4 DEF TagInUse
    <3>2. reduce_handles # {} => LaunchResult(i) = "InvalidArgument"
      BY <2>1, <2>2, <2>4 DEF Loops
    <3> QED
      BY <2>3, <2>4, <3>1, <3>2
  <2>6. TypeOK'
    BY <2>1, <2>4 DEF TypeOK
  <2> QED
    BY <2>4, <2>5, <2>6 DEF HandlesWithinLimit, CompletedOnce, Loops, TypeOK
<1>5. CASE Visit
  <2>1. /\ i \in Ops /\ pc = "pass"
        /\ reduce_handles' = reduce_handles \cup {i} /\ completed_ops' = completed_ops
        /\ ~Skipped
    BY <1>5 DEF Visit
  <2>w. world >= 2
    <3>1. CASE i \in reduce_handles
      BY <3>1 DEF Loops, TypeOK
    <3>2. CASE i \notin reduce_handles
      <4>1. LaunchResult(i) = "Success"
        BY ZenonT(30), <1>5, <3>2 DEF Visit
      <4> QED
        BY <4>1 DEF LaunchResult, TypeOK
    <3> QED
      BY <3>1, <3>2
  <2>n. in_flight' = IF i \in reduce_handles THEN in_flight ELSE in_flight + 1
    BY ZenonT(30), <1>5 DEF Visit
  <2>2. /\ in_flight' \in 0..MaxInFlight
        /\ Cardinality(reduce_handles') <= in_flight'
    <3>1. CASE i \in reduce_handles
      BY <1>c, <2>1, <2>n, <3>1 DEF TypeOK, HandlesWithinLimit
    <3>2. CASE i \notin reduce_handles
      BY <1>a, <2>1, <2>n, <3>2 DEF Skipped, TypeOK, HandlesWithinLimit
    <3> QED
      BY <3>1, <3>2
  <2>3. /\ UNCHANGED <<local_world_size, world, result>>
        /\ \/ all_done' = FALSE /\ i' = i + 1 /\ pc' = "pass"
           \/ pc' = "await" /\ i' = i /\ all_done' = all_done
    BY <1>5, Zenon DEF Visit
  <2>4. TypeOK'
    <3>1. all_done' \in BOOLEAN
      BY <2>3, Zenon DEF TypeOK
    <3>2. i' \in 1..(Count + 1)
      BY <2>1, <2>3 DEF Ops
    <3> QED
      BY <2>1, <2>2, <2>3, <3>1, <3>2 DEF TypeOK
  <2>5. HandlesWithinLimit' /\ CompletedOnce'
    BY <2>1, <2>2, <2>3 DEF Skipped, TypeOK, HandlesWithinLimit, CompletedOnce
  <2>6. Loops'
    BY <2>1, <2>3, <2>w DEF TypeOK, Loops, Ops
  <2> QED
    BY <2>4, <2>5, <2>6
<1>6. CASE AwaitSucceeds
  <2>1. i \in reduce_handles /\ i \in Ops
    BY <1>6 DEF AwaitSucceeds, Loops, TypeOK
  <2>2. HandlesWithinLimit' /\ in_flight' \in 0..MaxInFlight
    BY <1>6, <1>a, <2>1 DEF AwaitSucceeds, TypeOK, HandlesWithinLimit
  <2>3. TypeOK'
    BY <1>6, <2>1, <2>2 DEF AwaitSucceeds, TypeOK, Ops
  <2>4. CompletedOnce' /\ Loops'
    BY <1>6, <2>1 DEF AwaitSucceeds, TypeOK, CompletedOnce, Loops, Ops
  <2> QED
    BY <2>2, <2>3, <2>4
<1>7. CASE AwaitFails
  <2>1. i \in reduce_handles /\ i \in Ops
    BY <1>7 DEF AwaitFails, Loops, TypeOK
  <2>2. world' \in 1..MaxWorld /\ (world' < 2 => world < 2 \/ reduce_handles' = {})
    BY <1>7 DEF AwaitFails, WorldAfterFailure, TypeOK
  <2>3. TypeOK'
    <3>1. /\ local_world_size' = world' /\ pc' = "drain" /\ i' = 1
          /\ reduce_handles' = reduce_handles \ {i}
          /\ UNCHANGED <<completed_ops, in_flight, result>>
      BY <1>7 DEF AwaitFails
    <3>2. all_done' \in BOOLEAN
      BY ZenonT(30), <1>7 DEF AwaitFails
    <3> QED
      BY <2>2, <3>1, <3>2 DEF TypeOK
  <2>4. HandlesWithinLimit'
    BY <1>7, <1>a, <2>1 DEF AwaitFails, TypeOK, HandlesWithinLimit
  <2>5. CompletedOnce' /\ Loops'
    BY <1>7, <2>1, <2>2 DEF AwaitFails, TypeOK, CompletedOnce, Loops
  <2> QED
    BY <2>3, <2>4, <2>5
<1>8. CASE Drain
  <2>1. CASE i \in reduce_handles
    <3>1. i \in Ops /\ i' = i + 1 /\ in_flight' = in_flight - 1 /\ reduce_handles' = reduce_handles \ {i}
      BY <1>8, <2>1 DEF Drain, TypeOK, Ops
    <3>2. /\ world' \in 1..MaxWorld /\ (world' < 2 => world < 2 \/ reduce_handles' = {})
          /\ completed_ops' \in {completed_ops, completed_ops \cup {i}}
      BY <1>8, <2>1 DEF Drain, WorldAfterFailure, TypeOK, Ops
    <3>3. HandlesWithinLimit' /\ in_flight' \in 0..MaxInFlight
      BY <1>a, <2>1, <3>1 DEF TypeOK, HandlesWithinLimit
    <3>4. pc' = pc /\ all_done' = all_done /\ pc = "drain" /\ UNCHANGED <<local_world_size, result>>
      BY <1>8, <2>1 DEF Drain, Ops, TypeOK
    <3>5. TypeOK'
      BY <3>1, <3>2, <3>3, <3>4 DEF TypeOK, Ops
    <3>6. CompletedOnce' /\ Loops'
      BY <3>1, <3>2, <3>4 DEF TypeOK, CompletedOnce, Loops
    <3> QED
      BY <3>3, <3>5, <3>6
  <2>2. CASE i \in Ops \ reduce_handles
    BY <1>8, <2>2 DEF Drain, TypeOK, HandlesWithinLimit, CompletedOnce, Loops, Ops
  <2>3. CASE i \notin Ops
    <3>1. /\ NextPass(local_world_size) /\ pc = "drain"
          /\ UNCHANGED <<reduce_handles, completed_ops, in_flight, world, local_world_size, result>>
      BY <1>8, <2>3 DEF Drain, TypeOK
    <3>2. \A o \in reduce_handles : 1 <= o
      BY DEF TypeOK, Ops
    <3>3. local_world_size > 1 \/ local_world_size = 1
      BY DEF TypeOK
    <3> QED
      BY <3>1, <3>2, <3>3 DEF NextPass, TypeOK, HandlesWithinLimit, CompletedOnce, Loops
  <2> QED
    BY <2>1, <2>2, <2>3
<1>9. CASE EndPass
  <2>1. CASE all_done = TRUE
    <3>1. reduce_handles = {}
      BY <1>9, <2>1 DEF EndPass, Loops, TypeOK, Ops
    <3>2. pc' = "left" /\ i' = 1 /\ all_done' = TRUE
      BY <1>9, <2>1 DEF EndPass
    <3> QED
      BY <1>9, <2>1, <3>1, <3>2 DEF EndPass, TypeOK, HandlesWithinLimit, CompletedOnce, Loops
  <2>2. CASE all_done = FALSE
    <3>1. NextPass(local_world_size)
      BY <1>9, <2>2 DEF EndPass
    <3>2. \A o \in reduce_handles : 1 <= o
      BY DEF TypeOK, Ops
    <3>3. local_world_size > 1 \/ local_world_size = 1
      BY DEF TypeOK
    <3> QED
      BY <1>9, <3>1, <3>2, <3>3 DEF EndPass, NextPass, TypeOK, HandlesWithinLimit, CompletedOnce, Loops
  <2> QED
    BY ZenonT(30), <2>1, <2>2 DEF TypeOK
<1>10. CASE Leave
  <2>1. reduce_handles' = {} /\ in_flight' = in_flight
    BY <1>10 DEF Leave, Loops
  <2>2. HandlesWithinLimit'
    BY <1>b, <2>1 DEF TypeOK, HandlesWithinLimit
  <2> QED
    BY <1>10, <2>1, <2>2 DEF Leave, TypeOK, CompletedOnce, Loops
<1>11. CASE UNCHANGED vars
  BY <1>11 DEF vars, TypeOK, HandlesWithinLimit, CompletedOnce, Loops, TagInUse
<1> QED
  BY <1>1, <1>2, <1>3, <1>4, <1>5, <1>6, <1>7, <1>8, <1>9, <1>10, <1>11 DEF Next

\* The function's variables keep their types: i does not run past the descriptors, and
\* in_flight, an unsigned counter, does not wrap around.
THEOREM RetryTypeCorrect == Spec => []TypeOK
<1>1. Inv => TypeOK
  BY DEF Inv
<1> QED
  BY <1>1, RetryInit, RetryNext, PTL DEF Spec

\* At most max_in_flight operations are under way, and in_flight counts at least those.
THEOREM RetryWithinLimit == Spec => []HandlesWithinLimit
<1>1. Inv => HandlesWithinLimit
  BY DEF Inv
<1> QED
  BY <1>1, RetryInit, RetryNext, PTL DEF Spec

\* An operation that has succeeded is never launched again.
THEOREM RetryCompletedOnce == Spec => []CompletedOnce
<1>1. Inv => CompletedOnce
  BY DEF Inv
<1> QED
  BY <1>1, RetryInit, RetryNext, PTL DEF Spec

\* However many operations fail and peers leave, no operation is under way when the function
\* returns, unless pcclAllReduceAsync has refused a descriptor of the caller: the function
\* returns at once then, and what it has launched goes on.
THEOREM RetryNothingPending == Spec => []NothingPending
<1>1. Inv => NothingPending
  BY DEF Inv, Loops, NothingPending
<1> QED
  BY <1>1, RetryInit, RetryNext, PTL DEF Spec

=============================================================================
