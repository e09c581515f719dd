---------------------------- MODULE ServerSocket ----------------------------
(***************************************************************************)
(* How the master's ServerSocket cuts the bytes of a client into packets.  *)
(*                                                                         *)
(* A packet p goes over the wire as Header units, its length field, and    *)
(* Size[p] units of data, the first of which holds the packet id.  A read  *)
(* returns any number of units.  What is kept per client between two reads *)
(* is the RecvBuffer: the expected length (NoLength: -1 in the code) and   *)
(* the data received so far.                                               *)
(***************************************************************************)
EXTENDS Integers, SequencesExt, FiniteSetsExt

CONSTANTS
    Packets,    \* the packets of both directions
    Header,     \* units of the length field
    Size,       \* Size[p]: units of the data of p
    Rejected    \* packets whose handler kicks the client

ASSUME PacketsAssumption ==
    /\ Header \in Nat \ {0}
    /\ Size \in [Packets -> Nat \ {0}]
    /\ Rejected \subseteq Packets

NoLength == -1

LengthField(p) == [i \in 1..Header |-> <<p, "length", i>>]
Data(p)        == [i \in 1..Size[p] |-> <<p, "data", i>>]
Wire(p)        == LengthField(p) \o Data(p)

\* The number a length field holds, were it the one of a packet.
Length(units) ==
    IF \E p \in Packets : units = LengthField(p)
    THEN Size[units[1][1]]
    ELSE 1000

EmptyBuffer == [expected |-> NoLength, buffer |-> <<>>]

\* One round of the loop of onClientRead.  r.rest: what has not been parsed of this read;
\* r.packets: the data the read callbacks were invoked with, the first r.answered of them
\* while answers could be sent; r.closing: the connection has been closed, by a callback or
\* because the length field is not in one piece.  Only the latter ends the loop.
ParseNext(r) ==
    LET unknown  == r.expected = NoLength
        expected == IF unknown THEN Length(SubSeq(r.rest, 1, Header)) ELSE r.expected
        rest     == IF unknown THEN SubSeq(r.rest, Header + 1, Len(r.rest)) ELSE r.rest
        n        == Min({Len(rest), expected - Len(r.buffer)})
        buffer   == r.buffer \o SubSeq(rest, 1, n)
        full     == Len(buffer) = expected
        kicked   == full /\ \E p \in Rejected : buffer = Data(p)
    IN  CASE r.rest = <<>> -> r
          [] r.rest # <<>> /\ unknown /\ Len(r.rest) < Header ->
                 [r EXCEPT !.rest = <<>>, !.closing = TRUE]
          [] OTHER ->
                 [rest     |-> SubSeq(rest, n + 1, Len(rest)),
                  expected |-> IF full THEN NoLength ELSE expected,
                  buffer   |-> IF full THEN <<>> ELSE buffer,
                  packets  |-> IF full THEN Append(r.packets, buffer) ELSE r.packets,
                  answered |-> IF full /\ ~r.closing /\ ~kicked THEN r.answered + 1 ELSE r.answered,
                  closing  |-> r.closing \/ kicked]

\* The loop: every round takes at least one unit.
OnClientRead(b, units) ==
    LET parsed[n \in 0..Len(units)] ==
            IF n = 0 THEN [rest |-> units, expected |-> b.expected, buffer |-> b.buffer,
                           packets |-> <<>>, answered |-> 0, closing |-> FALSE]
            ELSE ParseNext(parsed[n - 1])
    IN  parsed[Len(units)]

=============================================================================
