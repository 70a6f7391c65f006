-------------------------- MODULE MCPgReplayReads --------------------------
(* Instances of PgReplayReads for TLC.                                     *)
EXTENDS PgReplayReads, TLC

\* A payload of its own for each key.
MCRecordId == [p \in Payloads |-> p]

OneAppendPerChain ==
    {[op |-> "append", coll |-> c, key |-> k, payload |-> k, version |-> 0, was |-> {}] :
        c \in Linked, k \in Keys}

WorkerSymmetry == Permutations(Workers)
=============================================================================
