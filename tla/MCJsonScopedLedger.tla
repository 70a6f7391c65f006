------------------------- MODULE MCJsonScopedLedger -------------------------
(* Instances of JsonScopedLedger for TLC.                                  *)
EXTENDS JsonScopedLedger, TLC

CONSTANTS t1, t2, e1, e2

MCRecordId == [p \in Payloads |-> p]

OneEngine == t1 :> e1 @@ t2 :> e1

WriteCall(op, c, k, p, v) ==
    [op |-> op, coll |-> c, key |-> k, payload |-> p, version |-> v, was |-> {}]

MCCalls ==
    {WriteCall("append", c, k, p, 0) : c \in Linked, k \in Keys, p \in Payloads}
    \cup {WriteCall("append", c, 1, 1, 0) : c \in Mutable}
    \cup {WriteCall("cas", c, 1, 2, v) : c \in Mutable, v \in 0..1}

ThreadSymmetry == Permutations(Threads)
=============================================================================
