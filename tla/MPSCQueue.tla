------------------------------ MODULE MPSCQueue ------------------------------
(***************************************************************************)
(* The bounded queue with many producers and one consumer of               *)
(* src/tinysockets/mpsc/include/MPSCQueue.hpp. Every operator is one       *)
(* atomic access to it; enqueue and dequeue are made of several.           *)
(***************************************************************************)
EXTENDS Naturals

CONSTANTS Capacity, NoEntry

ASSUME CapacityAssumption == Capacity \in Nat \ {0}

\* head_ counts on for ever and is used modulo max_ only.
EmptyQueue ==
    [count |-> 0, head |-> 0, tail |-> 0, slots |-> [i \in 0..Capacity - 1 |-> NoEntry]]

\* Mutant of Full: one entry too many.
FullLate(q) == q.count > Capacity

\* enqueue: count_ is raised to reserve a slot, and lowered again when there is none.
Full(q) == q.count >= Capacity
Reserve(q) == [q EXCEPT !.count = @ + 1]
RollBack(q) == [q EXCEPT !.count = @ - 1]

\* enqueue: the index of the slot, and the exchange that fills it.
Claim(q) == [q EXCEPT !.head = (@ + 1) % Capacity]
Put(q, i, entry) == [q EXCEPT !.slots[i] = entry]

\* dequeue: the exchange that empties the slot at tail_, and the end of the reservation.
Front(q) == q.slots[q.tail]
Take(q) == [q EXCEPT !.slots[q.tail] = NoEntry, !.tail = (@ + 1) % Capacity]
Release(q) == [q EXCEPT !.count = @ - 1]

=============================================================================
