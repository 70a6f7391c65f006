-------------------------- MODULE JsonScopedLedger --------------------------
(***************************************************************************)
(* The JSON engine of the scoped ledger (core_v3/scoped_ledger.py): one    *)
(* sidecar file holds all rows and heads.  A writer takes the RLock of its *)
(* ScopedLedgerEngine, reads the file, works on a copy and replaces the    *)
(* file through a temporary one.  The lock belongs to the ENGINE: two      *)
(* engines on one path (two EvidenceLedger objects, or a ledger and        *)
(* migrate_legacy_scoped_json) have two locks and one temporary file.      *)
(*                                                                         *)
(* The lock references only decide which calls a callback may make, so     *)
(* here a callback makes any calls.  A crash is that of the process.       *)
(***************************************************************************)
EXTENDS ScopedRows

CONSTANTS
    Threads,
    Engines,
    EngineOf,     \* the engine each thread writes through
    Calls,        \* the writes callers issue
    NoThread,
    MaxCalls,     \* bound: calls in one callback
    MaxVersion    \* bound: row_version of a mutable row

ASSUME JsonScopedLedgerAssumption ==
    /\ EngineOf \in [Threads -> Engines]
    /\ NoThread \notin Threads
    /\ Calls \subseteq [op : {"append"}, coll : Collections, key : Keys, payload : Payloads,
                        version : Nat, was : SUBSET Payloads]
                      \cup [op : {"cas"}, coll : Mutable, key : Keys, payload : Payloads,
                            version : Nat, was : SUBSET Payloads]
    /\ MaxCalls \in Nat /\ MaxVersion \in Nat

VARIABLES
    disk,   \* the sidecar file
    tmp,    \* the temporary file
    lock,   \* who has the RLock of each engine
    pc,     \* where each thread is
    copy,   \* the _ScopedStoreState it works on
    left,   \* the calls its callback may still make
    fd      \* what the file it has open for writing is called by now

vars == <<disk, tmp, lock, pc, copy, left, fd>>

Absent == [unread |-> "no such file"]
Truncated == [unread |-> "empty"]
Garbled == [unread |-> "two writes over one another"]
NotJson == {Absent, Truncated, Garbled}

Init ==
    /\ disk = EmptyState
    /\ tmp = Absent
    /\ lock = [e \in Engines |-> NoThread]
    /\ pc = [t \in Threads |-> "idle"]
    /\ copy = [t \in Threads |-> EmptyState]
    /\ left = [t \in Threads |-> 0]
    /\ fd = [t \in Threads |-> "none"]

-----------------------------------------------------------------------------
(***************************************************************************)
(* _json_append and _json_cas on a state: the states they can leave.  A    *)
(* duplicate key, a missing row and a stale expectation leave it as it is; *)
(* nothing checks the record id.                                           *)
(***************************************************************************)
Extended(S, c, row) ==
    [rows |-> S.rows \cup {row},
     heads |-> [S.heads EXCEPT ![c] = [seq |-> row.seq, hash |-> row.hash]]]

Appended(S, cl) ==
    IF At(S.rows, cl.coll, cl.key) # {} THEN {S}
    ELSE IF cl.coll \in Linked
         THEN {Extended(S, cl.coll, LinkedRow(cl.coll, cl.key, cl.payload, S.heads[cl.coll]))}
         ELSE {[S EXCEPT !.rows = @ \cup {StandaloneRow(cl.coll, cl.key, cl.payload, n)}] :
                  n \in NextMutableSequence(S.rows, cl.coll)}

\* An expected version of 0 and an empty expected payload stand for None.
Matching(S, cl) ==
    {r \in At(S.rows, cl.coll, cl.key) :
        /\ cl.version \in {0, r.version}
        /\ cl.was = {} \/ r.payload \in cl.was
        /\ r.version < MaxVersion}

Swapped(S, cl) ==
    LET old == Matching(S, cl)
    IN  {[S EXCEPT !.rows = (@ \ old) \cup {Replaced(r, cl.payload) : r \in old}]}

Effects(S, cl) == IF cl.op = "append" THEN Appended(S, cl) ELSE Swapped(S, cl)

-----------------------------------------------------------------------------
Release(t) ==
    /\ pc' = [pc EXCEPT ![t] = "idle"]
    /\ lock' = [lock EXCEPT ![EngineOf[t]] = NoThread]
    /\ copy' = [copy EXCEPT ![t] = EmptyState]
    /\ left' = [left EXCEPT ![t] = 0]
    /\ fd' = [fd EXCEPT ![t] = "none"]

\* Mutant: the file is read before the lock is taken.
ReadUnlocked(t) ==
    /\ pc[t] = "idle"
    /\ disk \notin NotJson
    /\ lock' = [lock EXCEPT ![EngineOf[t]] = t]
    /\ copy' = [copy EXCEPT ![t] = disk]
    /\ \E p \in {"single", "open"} : pc' = [pc EXCEPT ![t] = p]
    /\ left' = [left EXCEPT ![t] = MaxCalls]
    /\ UNCHANGED <<disk, tmp, fd>>

\* with self._lock: read the file, in run_scoped_transaction or in a single
\* append or compare-and-set.  A garbled file raises and releases the lock.
Enter(t) ==
    /\ pc[t] = "idle"
    /\ lock[EngineOf[t]] = NoThread
    /\ disk \notin NotJson
    /\ lock' = [lock EXCEPT ![EngineOf[t]] = t]
    /\ copy' = [copy EXCEPT ![t] = disk]
    /\ \E p \in {"single", "open"} : pc' = [pc EXCEPT ![t] = p]
    /\ left' = [left EXCEPT ![t] = MaxCalls]
    /\ UNCHANGED <<disk, tmp, fd>>

Call(t) ==
    /\ pc[t] = "open"
    /\ left[t] > 0
    /\ \E cl \in Calls : \E S \in Effects(copy[t], cl) : copy' = [copy EXCEPT ![t] = S]
    /\ left' = [left EXCEPT ![t] = @ - 1]
    /\ UNCHANGED <<disk, tmp, lock, pc, fd>>

\* Outside a transaction the file is written only if the call wrote something.
SingleCall(t) ==
    /\ pc[t] = "single"
    /\ \E cl \in Calls : \E S \in Effects(copy[t], cl) :
          IF S = copy[t]
          THEN Release(t)
          ELSE /\ copy' = [copy EXCEPT ![t] = S]
               /\ pc' = [pc EXCEPT ![t] = "write"]
               /\ UNCHANGED <<lock, left, fd>>
    /\ UNCHANGED <<disk, tmp>>

\* fn returned: _write_json_state, whatever it did.
Return(t) ==
    /\ pc[t] = "open"
    /\ pc' = [pc EXCEPT ![t] = "write"]
    /\ UNCHANGED <<disk, tmp, lock, copy, left, fd>>

\* fn raised: the copy is dropped.
Raise(t) ==
    /\ pc[t] = "open"
    /\ Release(t)
    /\ UNCHANGED <<disk, tmp>>

-----------------------------------------------------------------------------
(***************************************************************************)
(* _write_json_state: open the temporary file (truncated), write it, and   *)
(* rename it over the ledger.  A file that was renamed, or replaced, while *)
(* a thread had it open keeps receiving what that thread writes; the end   *)
(* of a longer text written before may show under what is written now.     *)
(***************************************************************************)

\* Mutant: the ledger file itself is opened and truncated.
OpenLedger(t) ==
    /\ pc[t] = "write"
    /\ disk' = Truncated
    /\ fd' = [fd EXCEPT ![t] = "tmp"]
    /\ tmp' = Truncated
    /\ pc' = [pc EXCEPT ![t] = "fill"]
    /\ UNCHANGED <<lock, copy, left>>

OpenTmp(t) ==
    /\ pc[t] = "write"
    /\ tmp' = Truncated
    /\ fd' = [fd EXCEPT ![t] = "tmp"]
    /\ pc' = [pc EXCEPT ![t] = "fill"]
    /\ UNCHANGED <<disk, lock, copy, left>>

Onto(file, S) == IF file = Truncated THEN {S} ELSE {S, Garbled}

FillTmp(t) ==
    /\ pc[t] = "fill"
    /\ tmp' \in IF fd[t] = "tmp" THEN Onto(tmp, copy[t]) ELSE {tmp}
    /\ disk' \in IF fd[t] = "ledger" THEN Onto(disk, copy[t]) ELSE {disk}
    /\ fd' = [fd EXCEPT ![t] = "none"]
    /\ pc' = [pc EXCEPT ![t] = "rename"]
    /\ UNCHANGED <<lock, copy, left>>

\* No temporary file to rename: FileNotFoundError.
Rename(t) ==
    /\ pc[t] = "rename"
    /\ IF tmp = Absent
       THEN Release(t) /\ UNCHANGED <<disk, tmp>>
       ELSE /\ disk' = tmp
            /\ tmp' = Absent
            /\ pc' = [pc EXCEPT ![t] = "idle"]
            /\ lock' = [lock EXCEPT ![EngineOf[t]] = NoThread]
            /\ copy' = [copy EXCEPT ![t] = EmptyState]
            /\ left' = [left EXCEPT ![t] = 0]
            /\ fd' = [s \in Threads |-> IF fd[s] = "tmp" THEN "ledger"
                                        ELSE IF fd[s] = "ledger" THEN "gone" ELSE fd[s]]

\* The files stay as they are on disk.
Crash ==
    /\ \E t \in Threads : pc[t] # "idle"
    /\ pc' = [t \in Threads |-> "idle"]
    /\ lock' = [e \in Engines |-> NoThread]
    /\ copy' = [t \in Threads |-> EmptyState]
    /\ left' = [t \in Threads |-> 0]
    /\ fd' = [t \in Threads |-> "none"]
    /\ UNCHANGED <<disk, tmp>>

Next ==
    \/ \E t \in Threads :
          \/ Enter(t) \/ Call(t) \/ SingleCall(t) \/ Return(t) \/ Raise(t)
          \/ OpenTmp(t) \/ FillTmp(t) \/ Rename(t)
    \/ Crash

Spec == Init /\ [][Next]_vars

-----------------------------------------------------------------------------
(* Every variable has its type.                                            *)
TypeOK ==
    /\ disk \in (State \cup NotJson) \ {Absent}
    /\ tmp \in State \cup NotJson
    /\ copy \in [Threads -> State]
    /\ lock \in [Engines -> Threads \cup {NoThread}]
    /\ pc \in [Threads -> {"idle", "single", "open", "write", "fill", "rename"}]
    /\ left \in [Threads -> 0..MaxCalls]
    /\ fd \in [Threads -> {"none", "tmp", "ledger", "gone"}]

(***************************************************************************)
(* The ledger file parses and verify_scoped_chain accepts it at every      *)
(* moment, so also after a crash in the middle of a write.                 *)
(***************************************************************************)
DiskVerifies ==
    /\ disk \notin NotJson
    /\ \A c \in Linked : ValidLinkedGroup(disk.rows, c, disk.heads[c])
    /\ \A c \in Mutable : ValidStandalone(disk.rows, c)

(***************************************************************************)
(* With one engine the JSON ledger implements the same abstract ledger as  *)
(* PostgreSQL: the lock of the engine claims every chain at once.          *)
(***************************************************************************)
Abstract == INSTANCE LedgerCommit WITH
    Workers <- Threads,
    log <- [c \in Linked |-> disk.heads[c].hash],
    claimed <- [t \in Threads |-> IF pc[t] = "idle" THEN {} ELSE Linked],
    draft <- [t \in Threads |-> [c \in Linked |-> copy[t].heads[c].hash]]

ImplementsLedgerCommit == Abstract!Spec
=============================================================================
