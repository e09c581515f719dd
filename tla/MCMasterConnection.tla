------------------------ MODULE MCMasterConnection -------------------------
(***************************************************************************)
(* Two threads of a client, as in an all-reduce: one initiates, waits for  *)
(* the commencement, looks for an abort and waits for the next; the other  *)
(* sends a vote for which the client is kicked.                            *)
(***************************************************************************)
EXTENDS MasterConnection

CONSTANTS main, op

MCThreads == {main, op}

Down == {"commence", "abort", "abort2"}
MCPackets == {"initiate", "vote"} \cup Down

MCSize == [p \in MCPackets |-> IF p \in {"initiate", "commence"} THEN 2 ELSE 1]
MCKind == [p \in MCPackets |-> IF p = "abort2" THEN "abort" ELSE p]

MCReplies ==
    [p \in MCPackets |-> CASE p = "initiate" -> <<"abort", "commence", "abort2">>
                           [] OTHER          -> <<>>]

send(p) == [do |-> "send", what |-> p]
poll(k) == [do |-> "poll", what |-> k]
peek(k) == [do |-> "peek", what |-> k]

MCScript ==
    [t \in MCThreads |-> IF t = op THEN <<send("initiate"), poll("commence"), peek("abort"), poll("abort")>>
                         ELSE <<send("vote"), poll("info")>>]
=============================================================================
