------------------------ MODULE MCSqliteScopedLedger ------------------------
(* Instances of SqliteScopedLedger for TLC.                                *)
EXTENDS SqliteScopedLedger, TLC

\* Payload 3 is a second version of the record that payload 1 carries.
MCRecordId == 1 :> 1 @@ 2 :> 2 @@ 3 :> 1

LegacyRow(c, k, p) == [coll |-> c, key |-> k, payload |-> p]

\* A row that is stored twice, another one after it, and another collection.
MCLegacy == <<LegacyRow(1, 1, 1), LegacyRow(1, 1, 1), LegacyRow(1, 2, 2), LegacyRow(2, 1, 2)>>

AppendCall(c, k, p) == [op |-> "append", coll |-> c, key |-> k, payload |-> p]
SwapCall(c, k, p, v, was) ==
    [op |-> "cas", coll |-> c, key |-> k, payload |-> p, version |-> v, was |-> was]

MCCalls ==
    {AppendCall(1, 1, 1), AppendCall(2, 1, 1), AppendCall(2, 2, 2)}
    \cup UNION {{AppendCall(c, 1, 1), SwapCall(c, 1, 3, 1, {}), SwapCall(c, 1, 1, 0, {3})}
                : c \in Mutable}

ProcessSymmetry == Permutations(Processes)
=============================================================================
