----------------------------- MODULE ScopedRows -----------------------------
(***************************************************************************)
(* The rows and chain heads of the scoped ledger, for ONE tenant and       *)
(* project: what core_v3/transactions.py and core_v3/scoped_ledger.py      *)
(* compute, shared by the models of the PostgreSQL, SQLite and JSON        *)
(* engines.                                                                *)
(*                                                                         *)
(* Collections and canonical keys are numbers because the code sorts them  *)
(* (the global lock order); a payload is an opaque value and RecordId its  *)
(* *_id field.  SHA-256 is modelled by what it promises: the hash of a     *)
(* record and its predecessor is the predecessor's hash with the record    *)
(* appended, so two hashes are equal only if their whole histories are.    *)
(***************************************************************************)
EXTENDS Integers, Sequences, FiniteSets

CONSTANTS
    Linked,     \* the chain-linked collections (CHAIN_LINKED_COLLECTIONS)
    Mutable,    \* the collections that allow compare-and-set (CAS_ALLOWED)
    Keys,       \* canonical keys; 0 is kept for the chain lock of a collection
    Payloads,   \* record payloads, equal exactly when their payload hashes are
    RecordId    \* payload -> its record id

ASSUME ScopedRowsAssumption ==
    /\ Linked \subseteq Nat
    /\ Mutable \subseteq Nat
    /\ Linked \cap Mutable = {}
    /\ Keys \subseteq Nat \ {0}

Collections == Linked \cup Mutable

Hash == Seq(Payloads)
NoHash == << >>                                       \* None / SQL NULL

chain_record_hash(prev, payload) == Append(prev, payload)

ChainHead == [seq : Nat, hash : Hash]
NoHead == [seq |-> 0, hash |-> NoHash]   \* an absent head row and a fresh (0, NULL) one

Ids == {RecordId[p] : p \in Payloads}
Row == [coll : Collections, key : Keys, id : Ids, payload : Payloads, seq : Nat,
        prev : Hash, hash : Hash, version : Nat]

\* _ScopedStoreState: all rows and heads, as the JSON and SQLite engines keep them.
State == [rows : SUBSET Row, heads : [Linked -> ChainHead]]
EmptyState == [rows |-> {}, heads |-> [c \in Linked |-> NoHead]]

Group(R, c) == {r \in R : r.coll = c}
At(R, c, k) == {r \in Group(R, c) : r.key = k}
SameKey(r, s) == r.coll = s.coll /\ r.key = s.key

\* The rows of R as seen under the rows M, which replace those of the same key.
Over(M, R) == M \cup {r \in R : \A m \in M : ~SameKey(m, r)}

\* Mutant: no unique index on the record id.
ConflictIgnoringRecordId(r, s) ==
    /\ r.coll = s.coll
    /\ r.key = s.key \/ (r.coll \in Linked /\ r.seq = s.seq)

\* The unique indexes of phigraph_scoped_ledger: the primary key, the record id,
\* and the partial index on chain_sequence, which covers linked collections only.
Conflict(r, s) ==
    /\ r.coll = s.coll
    /\ r.key = s.key \/ r.id = s.id \/ (r.coll \in Linked /\ r.seq = s.seq)

(***************************************************************************)
(* _build_row: a linked row continues the head it was given; a standalone  *)
(* row hashes its own payload alone and takes MAX(chain_sequence) + 1.     *)
(***************************************************************************)
StandaloneRow(c, k, p, seq) ==
    [coll |-> c, key |-> k, id |-> RecordId[p], payload |-> p, seq |-> seq,
     prev |-> NoHash, hash |-> chain_record_hash(NoHash, p), version |-> 1]

\* Mutants: the row does not link to the head; it steps back from it.
UnlinkedRow(c, k, p, head) == StandaloneRow(c, k, p, head.seq + 1)
RowBeforeHead(c, k, p, head) == StandaloneRow(c, k, p, head.seq - 1)

LinkedRow(c, k, p, head) ==
    [coll |-> c, key |-> k, id |-> RecordId[p], payload |-> p, seq |-> head.seq + 1,
     prev |-> head.hash, hash |-> chain_record_hash(head.hash, p), version |-> 1]

\* Mutants: the hash stays that of the old payload; the version stays.
ReplacedPayloadOnly(r, p) == [r EXCEPT !.payload = p, !.version = @ + 1]
ReplacedSameVersion(r, p) ==
    [r EXCEPT !.payload = p, !.prev = NoHash, !.hash = chain_record_hash(NoHash, p)]

\* compare_and_set_scoped: the payload and its hash change, the row's id and its
\* place in the collection do not.
Replaced(r, p) ==
    [coll |-> r.coll, key |-> r.key, id |-> r.id, payload |-> p, seq |-> r.seq,
     prev |-> NoHash, hash |-> chain_record_hash(NoHash, p), version |-> r.version + 1]

\* A set of one number: one above the last sequence, 1 in an empty collection.
NextMutableSequence(R, c) ==
    {n \in {1} \cup {r.seq + 1 : r \in Group(R, c)} :
        \A r \in Group(R, c) : r.seq < n}

(***************************************************************************)
(* verify_scoped_chain for one linked collection: the sequences run from 1 *)
(* to the head's without gap or repetition, every row links to the one     *)
(* before it, every stored hash is the recomputed one, and the head is the *)
(* last row (with no rows: _invalid_orphan_head).                          *)
(***************************************************************************)
SequencesContiguous(G, head) ==
    /\ \A r \in G : r.seq \in 1..head.seq
    /\ \A i \in 1..head.seq : \E r \in G : r.seq = i
    /\ \A r, s \in G : r.seq = s.seq => r = s

RowsLinked(G) ==
    /\ \A r \in G : r.hash = chain_record_hash(r.prev, r.payload)
    /\ \A r \in G : r.seq = 1 => r.prev = NoHash
    /\ \A r, s \in G : s.seq = r.seq + 1 => s.prev = r.hash

HeadIsLast(G, head) ==
    /\ head.seq = 0 => head.hash = NoHash
    /\ \A r \in G : r.seq = head.seq => r.hash = head.hash

ValidLinkedGroup(R, c, head) ==
    LET G == Group(R, c)
    IN  SequencesContiguous(G, head) /\ RowsLinked(G) /\ HeadIsLast(G, head)

\* _validate_standalone_row.
ValidStandalone(R, c) ==
    \A r \in Group(R, c) :
        r.prev = NoHash /\ r.hash = chain_record_hash(NoHash, r.payload)

(***************************************************************************)
(* Lock references.  normalize_lock_refs sorts them by collection, then    *)
(* the chain lock before the canonical-key locks, then by key: with the    *)
(* chain lock written as key 0 that is the lexicographic order.            *)
(***************************************************************************)
Lock == [coll : Collections, key : Keys \cup {0}]
Chain(c) == [coll |-> c, key |-> 0]
Canonical(c, k) == [coll |-> c, key |-> k]

Before(l, m) == l.coll < m.coll \/ (l.coll = m.coll /\ l.key < m.key)

\* implicit_write_lock_refs, and what require_write_locks demands of a
\* transaction: the chain lock if the write extends a chain, the key lock always.
WriteLocks(c, k) == {Canonical(c, k)} \cup (IF c \in Linked THEN {Chain(c)} ELSE {})
=============================================================================
