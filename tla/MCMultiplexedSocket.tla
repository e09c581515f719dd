------------------------- MODULE MCMultiplexedSocket -------------------------
(***************************************************************************)
(* Instances of MultiplexedSocket for TLC: two operations share a          *)
(* connection, whose queues are smaller than what they send.               *)
(***************************************************************************)
EXTENDS MultiplexedSocket

CONSTANTS t1, t2

MCTags == {t1, t2}

=============================================================================
