--------------------------- MODULE PgReplayReads ---------------------------
(***************************************************************************)
(* The readers of the PostgreSQL engine, beside the GRDI transactions that *)
(* write (grdi/service.py): a replay transaction reads the records of a    *)
(* plan one SELECT after the other (grdi/replay.py, _load_chain_rows) and, *)
(* like the cut-over script, get_replay_report and the operator's verify,  *)
(* calls verify_scoped_chain, which opens a connection of its OWN and      *)
(* reads first the rows of every chain, then the heads.  At READ COMMITTED *)
(* each statement has its own snapshot: only the advisory locks of the     *)
(* caller keep what it reads in one piece.                                 *)
(*                                                                         *)
(* GRDI writes through run_scoped_transaction only, so BeginStandalone is  *)
(* not a step here.  One verification runs at a time (a bound).            *)
(***************************************************************************)
EXTENDS PgScopedLedger

CONSTANTS
    Sources,      \* envelopes, decisions, plans, receipts, outcomes
    Plans,        \* of them, the collection execution_requests
    Reports,      \* the collection replay_reports
    Comparisons,  \* the collection historical_comparisons
    NoOne         \* a verification called outside any transaction

ASSUME PgReplayReadsAssumption ==
    /\ Linked = Sources \cup {Reports, Comparisons}
    /\ Plans \in Sources
    /\ Reports \notin Sources
    /\ Comparisons \notin Sources \cup {Reports}
    /\ NoOne \notin Workers

VARIABLES
    owner,    \* whose callback waits for the verification, or NoOne
    todo,     \* the collections the current pass has still to read
    found,    \* the rows its first pass read
    verdict,  \* "none", "rows" and "heads" (the two passes), "valid", "invalid"
    seen      \* what each session has read of each collection

verifier == <<owner, todo, found, verdict>>
allVars == <<vars, verifier, seen>>

(***************************************************************************)
(* The lock sets of grdi/ledger_ops.py.  Every operation that appends to   *)
(* sources locks their chains and the keys it writes (the keys of the      *)
(* parents it reads are left out).  A comparison locks the chain of the    *)
(* reports too; a replay does not lock the chain of the comparisons.       *)
(***************************************************************************)
SourceLocks(C, k) == {Chain(c) : c \in C} \cup {Canonical(c, k) : c \in C}

\* Mutant: replay_locks alone, without the chains of the sources.
PlanAndReportsOnly(k) == {Canonical(Plans, k), Chain(Reports)}

\* create_replay_report builds the report twice: on replay_snapshot_locks, and,
\* to persist it, on the lock of its manifest hash too.
SnapshotLocks(k) == {Chain(c) : c \in Sources \cup {Reports}} \cup {Canonical(Plans, k)}
PersistLocks(k) == SnapshotLocks(k) \cup {Canonical(Reports, k)}

\* Mutant: comparison_snapshot_locks without the chain of the reports.
ComparisonsChainOnly(k) ==
    {Chain(Comparisons), Canonical(Reports, k), Canonical(Comparisons, k)}

ComparisonLocks(k) ==
    {Chain(Reports), Chain(Comparisons), Canonical(Reports, k), Canonical(Comparisons, k)}

GrdiLockSets ==
    {SourceLocks(C, k) : C \in (SUBSET Sources) \ {{}}, k \in Keys}
    \cup {SnapshotLocks(k) : k \in Keys} \cup {PersistLocks(k) : k \in Keys}
    \cup {ComparisonLocks(k) : k \in Keys}

\* GRDI's transactions are all that runs here.
ASSUME GrdiLocksAssumption == LockSets = GrdiLockSets

Replaying(w) == \E k \in Keys : declared[w] \in {SnapshotLocks(k), PersistLocks(k)}
Comparing(w) == \E k \in Keys : declared[w] = ComparisonLocks(k)

\* A replay writes its report and a comparison its comparison: what else they
\* lock they only read.
WritesItsOwn(w) ==
    call'[w] # NoCall =>
        /\ Replaying(w) => call'[w].coll = Reports
        /\ Comparing(w) => call'[w].coll = Comparisons

-----------------------------------------------------------------------------
NothingFound == [c \in Linked |-> {}]

ReadersInit ==
    /\ Init
    /\ owner = NoOne
    /\ todo = {}
    /\ found = NothingFound
    /\ verdict = "none"
    /\ seen = [w \in Workers |-> NothingFound]

\* A callback waits for the verification it called.
GrdiWork(w) ==
    /\ owner # w
    /\ Begin(w) \/ AcquireLock(w) \/ (Call(w) /\ WritesItsOwn(w)) \/ Step(w) \/ Rollback(w)
    /\ seen' = IF phase'[w] = "idle" THEN [seen EXCEPT ![w] = NothingFound] ELSE seen
    /\ UNCHANGED verifier

\* session.get_scoped, session.list_scoped: one SELECT on the worker's connection.
SessionRead(w) ==
    /\ phase[w] = "open"
    /\ owner # w
    /\ Replaying(w)
    /\ \E c \in Sources : seen' = [seen EXCEPT ![w][c] = @ \cup {Group(View(w), c)}]
    /\ UNCHANGED <<vars, verifier>>

VerifyBegin ==
    /\ verdict = "none"
    /\ owner' \in {NoOne} \cup {w \in Workers : phase[w] = "open" /\ Replaying(w)}
    /\ verdict' = "rows"
    /\ todo' = Linked
    /\ UNCHANGED <<vars, found, seen>>

First(S) == {c \in S : \A d \in S : c <= d}

VerifyRows ==
    /\ verdict = "rows"
    /\ \E c \in First(todo) :
          /\ found' = [found EXCEPT ![c] = Group(rows, c)]
          /\ todo' = IF todo = {c} THEN Linked ELSE todo \ {c}
          /\ verdict' = IF todo = {c} THEN "heads" ELSE "rows"
    /\ UNCHANGED <<vars, owner, seen>>

\* The heads of the groups that have rows come first, then the orphan heads.
VerifyHead ==
    LET grouped == {c \in todo : found[c] # {}}
    IN  /\ verdict = "heads"
        /\ \E c \in First(IF grouped = {} THEN todo ELSE grouped) :
              LET ok == ValidLinkedGroup(found[c], c, heads[c])
              IN  /\ todo' = IF ok THEN todo \ {c} ELSE {}
                  /\ verdict' = IF ~ok THEN "invalid"
                                ELSE IF todo = {c} THEN "valid" ELSE "heads"
        /\ UNCHANGED <<vars, owner, found, seen>>

\* It returned, or raised; the callback goes on.
VerifyEnd ==
    /\ verdict \in {"valid", "invalid"}
    /\ owner' = NoOne
    /\ found' = NothingFound
    /\ verdict' = "none"
    /\ UNCHANGED <<vars, todo, seen>>

ReadersNext ==
    \/ \E w \in Workers : GrdiWork(w) \/ SessionRead(w)
    \/ VerifyBegin
    \/ VerifyRows
    \/ VerifyHead
    \/ VerifyEnd

ReadersSpec == ReadersInit /\ [][ReadersNext]_allVars

-----------------------------------------------------------------------------
(***************************************************************************)
(* A replay never records a false "ledger_chain invalid": while it holds   *)
(* its locks nothing it verifies moves, not even the chain it has not      *)
(* locked (build_report, and create_replay_report which persists the state *)
(* for good under the manifest hash).                                      *)
(***************************************************************************)
ReplayVerifies == owner \in Workers => verdict # "invalid"

(***************************************************************************)
(* The records a replay read one by one, and the chains whose heads it     *)
(* puts in the manifest, are one state of the ledger: no record was added  *)
(* between the first read and the verification.                            *)
(***************************************************************************)
ManifestIsOneState ==
    \A w \in Workers, c \in Sources :
        \A R \in seen[w][c] :
            /\ R = Group(rows, c)
            /\ owner = w /\ verdict = "valid" => found[c] = R

(***************************************************************************)
(* verify_scoped_chain accepts a ledger on which workers only ever append  *)
(* (test plan S3).                                                         *)
(***************************************************************************)
VerifyAcceptsAppends == verdict # "invalid"
=============================================================================
