-------------------------- MODULE MCPgScopedLedger --------------------------
(* Instances of PgScopedLedger for TLC.                                    *)
EXTENDS PgScopedLedger, TLC

\* Payload 3 is a second version of the record that payload 1 carries.
MCRecordId == 1 :> 1 @@ 2 :> 2 @@ 3 :> 1

AppendCall(c, k, p) ==
    [op |-> "append", coll |-> c, key |-> k, payload |-> p, version |-> 0, was |-> {}]
CasCall(c, k, p, v, was) ==
    [op |-> "cas", coll |-> c, key |-> k, payload |-> p, version |-> v, was |-> was]

\* The chains: any key and payload of the first, any payload under one key of
\* the second.
ChainCalls ==
    {AppendCall(1, k, p) : k \in Keys, p \in Payloads} \cup {AppendCall(2, 1, p) : p \in Payloads}

\* Two chains written together, as plan and gateway or receipt and event are,
\* and several keys of one chain, as in the backfill of events.
ChainLockSets ==
    {{Chain(c) : c \in Linked} \cup {Canonical(c, k) : c \in Linked} : k \in Keys}
    \cup {{Chain(c)} \cup {Canonical(c, k) : k \in Keys} : c \in Linked}

\* The mutable rows: two first versions of key 1, a row of key 2 that may use
\* the record id of key 1, and compare-and-sets by version and by payload.
MutableCalls ==
    UNION {{AppendCall(c, 1, 1), AppendCall(c, 1, 3), AppendCall(c, 2, 2), AppendCall(c, 2, 3),
            CasCall(c, 1, 3, 1, {}), CasCall(c, 1, 1, 2, {}), CasCall(c, 1, 3, 0, {1})} :
                c \in Mutable}

MutableLockSets == {{Canonical(c, k) : k \in Keys} : c \in Mutable}

WorkerSymmetry == Permutations(Workers)
=============================================================================
