---------------------------- MODULE LedgerCommit ----------------------------
(***************************************************************************)
(* What the scoped ledger promises, whatever the backend (ADR-020, 3-9):   *)
(* each chain-linked collection is ONE log that only grows; a worker that  *)
(* extends a log has it to itself until its transaction ends; and all the  *)
(* logs a transaction extended are published in one step, or none is.      *)
(***************************************************************************)
EXTENDS Sequences

CONSTANTS Workers, Linked, Payloads

VARIABLES
    log,      \* the published log of each collection
    claimed,  \* the collections each worker is extending
    draft     \* what the claimed logs will be if the worker publishes

vars == <<log, claimed, draft>>

Empty == [c \in Linked |-> << >>]

Init ==
    /\ log = Empty
    /\ claimed = [w \in Workers |-> {}]
    /\ draft = [w \in Workers |-> Empty]

Claim(w, C) ==
    /\ \A v \in Workers : C \cap claimed[v] = {}
    /\ claimed' = [claimed EXCEPT ![w] = @ \cup C]
    /\ draft' = [draft EXCEPT ![w] = [c \in Linked |-> IF c \in C THEN log[c] ELSE @[c]]]
    /\ UNCHANGED log

Extend(w, c, p) ==
    /\ c \in claimed[w]
    /\ draft' = [draft EXCEPT ![w][c] = Append(@, p)]
    /\ UNCHANGED <<log, claimed>>

Release(w) ==
    /\ claimed' = [claimed EXCEPT ![w] = {}]
    /\ draft' = [draft EXCEPT ![w] = Empty]

Publish(w) ==
    /\ log' = [c \in Linked |-> IF c \in claimed[w] THEN draft[w][c] ELSE log[c]]
    /\ Release(w)

Discard(w) ==
    /\ Release(w)
    /\ UNCHANGED log

Next ==
    \E w \in Workers :
        \/ \E C \in SUBSET Linked : Claim(w, C)
        \/ \E c \in Linked, p \in Payloads : Extend(w, c, p)
        \/ Publish(w)
        \/ Discard(w)

Spec == Init /\ [][Next]_vars
=============================================================================
