--------------------------- MODULE PgScopedLedger ---------------------------
(***************************************************************************)
(* The PostgreSQL engine of the scoped ledger (core_v3/postgres_scoped.py):*)
(* workers on their own connections run run_scoped_transaction callbacks   *)
(* and standalone writes concurrently, at READ COMMITTED.                  *)
(*                                                                         *)
(* A worker takes its advisory locks one by one in the global order, then  *)
(* runs its calls statement by statement.  What it wrote is private until  *)
(* COMMIT; a chain head it selected FOR UPDATE, and an index entry it      *)
(* inserted, make others wait until it ends.  Rollback stands for an       *)
(* exception in the callback, a lost connection and a crashed process.     *)
(***************************************************************************)
EXTENDS ScopedRows

CONSTANTS
    Workers,
    LockSets,     \* the lock_refs callers pre-declare
    Calls,        \* the writes callers issue
    NoCall,
    MaxCalls,     \* bound: calls in one callback
    MaxVersion    \* bound: row_version of a mutable row

ASSUME PgScopedLedgerAssumption ==
    /\ LockSets \subseteq SUBSET Lock
    /\ Calls \subseteq [op : {"append", "cas"}, coll : Collections, key : Keys,
                        payload : Payloads, version : Nat, was : SUBSET Payloads]
    /\ \A cl \in Calls : cl.op = "cas" => cl.coll \in Mutable
    /\ NoCall \notin Calls
    /\ MaxCalls \in Nat
    /\ MaxVersion \in Nat

VARIABLES
    rows,      \* committed rows of phigraph_scoped_ledger
    heads,     \* committed rows of phigraph_chain_heads
    phase,     \* where each worker is
    declared,  \* its normalised lock_refs
    held,      \* the advisory locks it has
    left,      \* the calls its callback may still make
    call,      \* the call under way
    built,     \* the row it is about to INSERT
    mine,      \* rows it inserted or updated, not committed
    touched,   \* the collections whose head it locked
    tip        \* the heads as it sees them

local == <<phase, declared, held, left, call, built, mine, touched, tip>>
vars == <<rows, heads, local>>

NoHeads == [c \in Linked |-> NoHead]

Init ==
    /\ rows = {}
    /\ heads = NoHeads
    /\ phase = [w \in Workers |-> "idle"]
    /\ declared = [w \in Workers |-> {}]
    /\ held = [w \in Workers |-> {}]
    /\ left = [w \in Workers |-> 0]
    /\ call = [w \in Workers |-> NoCall]
    /\ built = [w \in Workers |-> {}]
    /\ mine = [w \in Workers |-> {}]
    /\ touched = [w \in Workers |-> {}]
    /\ tip = [w \in Workers |-> NoHeads]

-----------------------------------------------------------------------------
(* What a statement of worker w sees: the committed rows under its own.    *)

View(w) == Over(mine[w], rows)

\* Mutant: the second append of a transaction reads the committed head again.
CommittedHeadSeen(w, c) == heads[c]

HeadSeen(w, c) == IF c \in touched[w] THEN tip[w][c] ELSE heads[c]

(***************************************************************************)
(* Who makes worker w wait: the holder of its next advisory lock; the      *)
(* holder of the chain head it selects FOR UPDATE; the inserter of an      *)
(* uncommitted row its INSERT conflicts with; the updater of the row its   *)
(* compare-and-set selects FOR UPDATE.                                     *)
(***************************************************************************)
IsNextLock(w, l) ==
    /\ l \in declared[w] \ held[w]
    /\ \A m \in declared[w] \ held[w] : m = l \/ Before(l, m)

Blocks(v, w) ==
    \/ /\ phase[w] = "locking"
       /\ \E l \in held[v] : IsNextLock(w, l)
    \/ /\ phase[w] = "called"
       /\ call[w].op = "append"
       /\ call[w].coll \in touched[v]
       /\ At(View(w), call[w].coll, call[w].key) = {}
    \/ /\ phase[w] = "called"
       /\ call[w].op = "cas"
       /\ At(mine[v], call[w].coll, call[w].key) # {}
    \/ /\ phase[w] = "selected"
       /\ \E r \in mine[v], new \in built[w] : Conflict(r, new)

Free(w) == \A v \in Workers \ {w} : ~Blocks(v, w)

-----------------------------------------------------------------------------
(* run_scoped_transaction(lock_refs, fn), and a standalone append or       *)
(* compare-and-set, which is a transaction of one call on implicit locks.  *)

Begin(w) ==
    /\ phase[w] = "idle"
    /\ \E L \in LockSets : declared' = [declared EXCEPT ![w] = L]
    /\ phase' = [phase EXCEPT ![w] = "locking"]
    /\ left' = [left EXCEPT ![w] = MaxCalls]
    /\ UNCHANGED <<rows, heads, held, call, built, mine, touched, tip>>

BeginStandalone(w) ==
    /\ phase[w] = "idle"
    /\ \E cl \in Calls :
          /\ declared' = [declared EXCEPT ![w] = WriteLocks(cl.coll, cl.key)]
          /\ call' = [call EXCEPT ![w] = cl]
    /\ phase' = [phase EXCEPT ![w] = "locking"]
    /\ left' = [left EXCEPT ![w] = 0]
    /\ UNCHANGED <<rows, heads, held, built, mine, touched, tip>>

\* Mutant: locks are taken as declared, not in the global order.
AcquireUnsorted(w) ==
    /\ phase[w] = "locking"
    /\ \E l \in declared[w] \ held[w] :
          /\ \A v \in Workers : l \notin held[v]
          /\ held' = [held EXCEPT ![w] = @ \cup {l}]
    /\ UNCHANGED <<rows, heads, phase, declared, left, call, built, mine, touched, tip>>

AcquireLock(w) ==
    /\ phase[w] = "locking"
    /\ Free(w)
    /\ \E l \in Lock :
          /\ IsNextLock(w, l)
          /\ held' = [held EXCEPT ![w] = @ \cup {l}]
    /\ UNCHANGED <<rows, heads, phase, declared, left, call, built, mine, touched, tip>>

AllLocksHeld(w) ==
    /\ phase[w] = "locking"
    /\ held[w] = declared[w]
    /\ phase' = [phase EXCEPT ![w] = IF call[w] = NoCall THEN "open" ELSE "called"]
    /\ UNCHANGED <<rows, heads, declared, held, left, call, built, mine, touched, tip>>

\* A write whose locks were not pre-declared raises UndeclaredLockRef: no call.
Call(w) ==
    /\ phase[w] = "open"
    /\ left[w] > 0
    /\ \E cl \in Calls :
          /\ WriteLocks(cl.coll, cl.key) \subseteq declared[w]
          /\ call' = [call EXCEPT ![w] = cl]
    /\ phase' = [phase EXCEPT ![w] = "called"]
    /\ left' = [left EXCEPT ![w] = @ - 1]
    /\ UNCHANGED <<rows, heads, declared, held, built, mine, touched, tip>>

\* The call returned or raised; the callback goes on (it may catch), or ends.
Returned(w) ==
    /\ phase' = [phase EXCEPT ![w] = "open"]
    /\ call' = [call EXCEPT ![w] = NoCall]

-----------------------------------------------------------------------------
(* append_scoped and append_scoped_once.                                   *)

\* SELECT ... FOR UPDATE finds the key: the identical record is returned,
\* another one raises DuplicateCanonicalKey.  Nothing is written.
AppendExisting(w) ==
    /\ phase[w] = "called"
    /\ call[w].op = "append"
    /\ At(View(w), call[w].coll, call[w].key) # {}
    /\ Returned(w)
    /\ UNCHANGED <<rows, heads, declared, held, left, built, mine, touched, tip>>

\* The key is new: lock or create the chain head, or read MAX(chain_sequence).
AppendSelect(w) ==
    LET cl == call[w]
        c == cl.coll
    IN  /\ phase[w] = "called"
        /\ cl.op = "append"
        /\ At(View(w), c, cl.key) = {}
        /\ Free(w)
        /\ IF c \in Linked
           THEN /\ touched' = [touched EXCEPT ![w] = @ \cup {c}]
                /\ tip' = [tip EXCEPT ![w][c] = HeadSeen(w, c)]
                /\ built' = [built EXCEPT ![w] =
                                {LinkedRow(c, cl.key, cl.payload, HeadSeen(w, c))}]
           ELSE /\ built' = [built EXCEPT ![w] =
                                {StandaloneRow(c, cl.key, cl.payload, n) :
                                    n \in NextMutableSequence(View(w), c)}]
                /\ UNCHANGED <<touched, tip>>
        /\ phase' = [phase EXCEPT ![w] = "selected"]
        /\ UNCHANGED <<rows, heads, declared, held, left, call, mine>>

\* INSERT ... ON CONFLICT DO NOTHING under a savepoint.  A row already there
\* (the same key, or another unique index) ends the call with nothing written;
\* otherwise the new row is in and the head moves to it.
AppendInsert(w) ==
    /\ phase[w] = "selected"
    /\ Free(w)
    /\ \E new \in built[w] :
          IF \E r \in View(w) : Conflict(r, new)
          THEN UNCHANGED <<mine, tip>>
          ELSE /\ mine' = [mine EXCEPT ![w] = @ \cup {new}]
               /\ tip' = IF new.coll \in Linked
                         THEN [tip EXCEPT ![w][new.coll] =
                                  [seq |-> new.seq, hash |-> new.hash]]
                         ELSE tip
    /\ built' = [built EXCEPT ![w] = {}]
    /\ Returned(w)
    /\ UNCHANGED <<rows, heads, declared, held, left, touched>>

-----------------------------------------------------------------------------
(* compare_and_set_scoped.                                                 *)

\* An expected version of 0 and an empty expected payload stand for None.
Expected(cl, r) ==
    /\ cl.version \in {0, r.version}
    /\ cl.was = {} \/ r.payload \in cl.was
    /\ r.version < MaxVersion

\* ScopedRecordNotFound or VersionConflict leave everything as it was.
CompareAndSet(w) ==
    LET cl == call[w]
        old == {r \in At(View(w), cl.coll, cl.key) : Expected(cl, r)}
    IN  /\ phase[w] = "called"
        /\ cl.op = "cas"
        /\ Free(w)
        /\ mine' = [mine EXCEPT ![w] =
                      {m \in @ : \A r \in old : ~SameKey(m, r)}
                         \cup {Replaced(r, cl.payload) : r \in old}]
        /\ Returned(w)
        /\ UNCHANGED <<rows, heads, declared, held, left, built, touched, tip>>

-----------------------------------------------------------------------------
(* The end of a transaction: its locks, row locks and connection go.       *)

Ended(w) ==
    /\ phase' = [phase EXCEPT ![w] = "idle"]
    /\ declared' = [declared EXCEPT ![w] = {}]
    /\ held' = [held EXCEPT ![w] = {}]
    /\ left' = [left EXCEPT ![w] = 0]
    /\ call' = [call EXCEPT ![w] = NoCall]
    /\ built' = [built EXCEPT ![w] = {}]
    /\ mine' = [mine EXCEPT ![w] = {}]
    /\ touched' = [touched EXCEPT ![w] = {}]
    /\ tip' = [tip EXCEPT ![w] = NoHeads]

\* Mutant: the commit rewrites the collections it touched, as write_all does.
CommitOwnRowsOnly(w) ==
    /\ phase[w] = "open"
    /\ rows' = mine[w] \cup {r \in rows : r.coll \notin touched[w]}
    /\ heads' = [c \in Linked |-> HeadSeen(w, c)]
    /\ Ended(w)

Commit(w) ==
    /\ phase[w] = "open"
    /\ rows' = View(w)
    /\ heads' = [c \in Linked |-> HeadSeen(w, c)]
    /\ Ended(w)

Rollback(w) ==
    /\ phase[w] # "idle"
    /\ Ended(w)
    /\ UNCHANGED <<rows, heads>>

-----------------------------------------------------------------------------
Step(w) ==
    \/ AllLocksHeld(w)
    \/ AppendExisting(w)
    \/ AppendSelect(w)
    \/ AppendInsert(w)
    \/ CompareAndSet(w)
    \/ Commit(w)

Next ==
    \E w \in Workers :
        Begin(w) \/ BeginStandalone(w) \/ AcquireLock(w) \/ Call(w) \/ Step(w) \/ Rollback(w)

Spec == Init /\ [][Next]_vars

(***************************************************************************)
(* A process that is up runs on, its callback is finite (MaxCalls), and    *)
(* PostgreSQL grants a queued advisory lock to its waiters in turn.        *)
(* Nothing obliges a caller to begin, or a transaction to fail.            *)
(***************************************************************************)
Fairness == \A w \in Workers : WF_vars(Step(w)) /\ SF_vars(AcquireLock(w))

FairSpec == Spec /\ Fairness

-----------------------------------------------------------------------------
(* Every variable has its type.                                            *)
TypeOK ==
    /\ rows \subseteq Row
    /\ heads \in [Linked -> ChainHead]
    /\ phase \in [Workers -> {"idle", "locking", "open", "called", "selected"}]
    /\ declared \in [Workers -> SUBSET Lock]
    /\ held \in [Workers -> SUBSET Lock]
    /\ left \in [Workers -> Nat]
    /\ call \in [Workers -> Calls \cup {NoCall}]
    /\ built \in [Workers -> SUBSET Row]
    /\ mine \in [Workers -> SUBSET Row]
    /\ touched \in [Workers -> SUBSET Linked]
    /\ tip \in [Workers -> [Linked -> ChainHead]]

(***************************************************************************)
(* verify_scoped_chain would accept every committed state: concurrent      *)
(* appends of different keys to one collection never fork, skip or repeat  *)
(* a place in its chain (ADR-020, 4; test plan S3).                        *)
(***************************************************************************)
ChainVerifies ==
    /\ \A c \in Linked : ValidLinkedGroup(rows, c, heads[c])
    /\ \A c \in Mutable : ValidStandalone(rows, c)

(***************************************************************************)
(* However many workers race on a canonical key or a record id, one row is *)
(* committed for it (S2, S4, S6).                                          *)
(***************************************************************************)
OneRowPerKeyAndRecord ==
    \A r, s \in rows :
        r.coll = s.coll /\ (r.key = s.key \/ r.id = s.id) => r = s

(***************************************************************************)
(* No set of workers waits for itself: the pre-declared locks, taken in    *)
(* one global order, also keep the row locks of the database from closing  *)
(* a cycle (ADR-020, 7; S8).                                               *)
(***************************************************************************)
NoWaitCycle ==
    ~\E S \in SUBSET Workers :
        S # {} /\ \A w \in S : \E v \in S \ {w} : Blocks(v, w)

(***************************************************************************)
(* A worker that waits for an advisory lock holds only earlier ones, and   *)
(* no two workers hold the same one.                                       *)
(***************************************************************************)
LocksTakenInOrder ==
    /\ \A w \in Workers : \A l \in held[w], m \in declared[w] \ held[w] : Before(l, m)
    /\ \A v, w \in Workers : held[v] \cap held[w] # {} => v = w

(***************************************************************************)
(* A committed row of a chain-linked collection is there for ever, as it   *)
(* was.                                                                    *)
(***************************************************************************)
LinkedRowsAreImmutable ==
    [][\A r \in rows : r.coll \in Linked => r \in rows']_rows

(***************************************************************************)
(* No silent last-writer-wins: a committed mutable row is replaced only by *)
(* one of a later version that kept its place (S9).                        *)
(***************************************************************************)
NoLostUpdate ==
    [][\A r \in rows, s \in rows' :
          SameKey(r, s) /\ r # s => s.version > r.version /\ s.id = r.id /\ s.seq = r.seq]_rows

(***************************************************************************)
(* Every transaction that begins ends: nobody waits for ever.              *)
(***************************************************************************)
TransactionsEnd == \A w \in Workers : phase[w] # "idle" ~> phase[w] = "idle"

(***************************************************************************)
(* The engine implements the abstract ledger: the hash of a chain head IS  *)
(* the log of its collection.                                              *)
(***************************************************************************)
Abstract == INSTANCE LedgerCommit WITH
    log <- [c \in Linked |-> heads[c].hash],
    claimed <- touched,
    draft <- [w \in Workers |-> [c \in Linked |-> tip[w][c].hash]]

ImplementsLedgerCommit == Abstract!Spec
=============================================================================
