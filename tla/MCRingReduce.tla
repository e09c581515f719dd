---------------------------- MODULE MCRingReduce ----------------------------
(***************************************************************************)
(* Instances of RingReduce for TLC: rings of up to three, with chunks of   *)
(* different sizes and none, elements that are cut by the parts they are   *)
(* sent in, and quantization to a byte and to half a byte.                 *)
(***************************************************************************)
EXTENDS RingReduce

Operation(world, total, quant, chunk) ==
    [world |-> world, total |-> total, bits |-> 16, quant |-> quant, chunk |-> chunk]

MCOps ==
    {Operation(2, 3, 16, 3), Operation(2, 3, 4, 3),
     Operation(3, 2, 16, 3), Operation(3, 4, 8, 1), Operation(3, 6, 4, 1)}

=============================================================================
