---------------------- MODULE SqliteScopedLedgerProofs ----------------------
(***************************************************************************)
(* What TLAPS proves of SqliteScopedLedger for every set of processes,     *)
(* collections, keys, payloads, calls and legacy rows.                     *)
(***************************************************************************)
EXTENDS SqliteScopedLedger, ScopedRowsProofs, TLAPS

Writing == {"open", "migrate"}

\* An insertion into a chain, unless an index refuses it.
LEMMA LinkedInserted ==
    ASSUME NEW S \in State, NEW c \in Linked, NEW k \in Keys, NEW p \in Payloads,
           NEW T, T = Inserted(S, LinkedRow(c, k, p, S.heads[c]))
    PROVE  T \in State /\ (T = S \/ Chained(S, T))
<1> DEFINE row == LinkedRow(c, k, p, S.heads[c])
<1>1. S.heads \in [Linked -> ChainHead] /\ S.rows \in SUBSET Row
    BY DEF State
<1>2. row \in Row /\ row.coll = c
    BY <1>1, CollectionsApart, BuiltRowsAreRows DEF LinkedRow
<1>3. [seq |-> row.seq, hash |-> row.hash] \in ChainHead
    BY <1>2 DEF Row, ChainHead
<1>4. T = Inserted(S, row)
    OBVIOUS
<1> HIDE DEF row
<1>5. CASE Refused(S, row)
  <2>1. T = S
    BY <1>4, <1>5 DEF Inserted
  <2> QED
    BY <2>1
<1>6. CASE ~ Refused(S, row)
  <2> DEFINE R == S.rows \cup {row}
             H == [d \in Linked |->
               IF d = row.coll THEN [seq |-> row.seq, hash |-> row.hash] ELSE S.heads[d]]
  <2>0. T = [rows |-> R, heads |-> H]
    BY <1>4, <1>6 DEF Inserted
  <2> HIDE DEF R, H
  <2>1. T.rows = R /\ T.heads = H
    BY <2>0
  <2> USE DEF R, H
  <2>2. T.heads = [S.heads EXCEPT ![c] = [seq |-> row.seq, hash |-> row.hash]]
    BY <1>1, <1>2, <2>1
  <2>3. T.heads \in [Linked -> ChainHead] /\ T.rows \in SUBSET Row
    BY <1>1, <1>2, <1>3, <2>1
  <2>4. T \in State
    BY <2>0, <2>1, <2>3 DEF State
  <2>5. Chained(S, T)
    BY <2>1, <2>2 DEF Chained, row
  <2> QED
    BY <2>4, <2>5
<1> QED
    BY <1>5, <1>6

\* An insertion into a collection without a chain leaves every head.
LEMMA StandaloneInserted ==
    ASSUME NEW S \in State, NEW c \in Mutable, NEW k \in Keys, NEW p \in Payloads, NEW n \in Nat,
           NEW T, T = Inserted(S, StandaloneRow(c, k, p, n))
    PROVE  T \in State /\ (T = S \/ StoodAlone(S, T))
<1> DEFINE row == StandaloneRow(c, k, p, n)
<1>1. S.heads \in [Linked -> ChainHead] /\ S.rows \in SUBSET Row
    BY DEF State
<1>2. row \in Row /\ row.coll = c
    BY CollectionsApart, BuiltRowsAreRows DEF StandaloneRow
<1>3. T = Inserted(S, row)
    OBVIOUS
<1> HIDE DEF row
<1>4. CASE Refused(S, row)
  <2>1. T = S
    BY <1>3, <1>4 DEF Inserted
  <2> QED
    BY <2>1
<1>5. CASE ~ Refused(S, row)
  <2> DEFINE R == S.rows \cup {row}
             H == [d \in Linked |->
               IF d = row.coll THEN [seq |-> row.seq, hash |-> row.hash] ELSE S.heads[d]]
  <2>0. T = [rows |-> R, heads |-> H]
    BY <1>3, <1>5 DEF Inserted
  <2> HIDE DEF R, H
  <2>1. T.rows = R /\ T.heads = H
    BY <2>0
  <2> USE DEF R, H
  <2>2. \A d \in Linked : d # row.coll
    BY <1>2, CollectionsApart
  <2>3. T.heads = S.heads
    BY <1>1, <2>1, <2>2
  <2>4. T \in State
    BY <1>1, <1>2, <2>0, <2>1, <2>3 DEF State
  <2>5. StoodAlone(S, T)
    BY <2>1, <2>3 DEF StoodAlone, row
  <2> QED
    BY <2>4, <2>5
<1> QED
    BY <1>4, <1>5

\* A compare-and-set replaces the rows it finds, of a mutable collection.
LEMMA SwappedReplaces ==
    ASSUME NEW S \in State, NEW cl, cl.coll \in Mutable, cl.payload \in Payloads,
           NEW T, T = Swapped(S, cl)
    PROVE  T \in State /\ Replacing(S, T)
<1>1. S.heads \in [Linked -> ChainHead] /\ S.rows \in SUBSET Row
    BY DEF State
<1>2. PICK old \in SUBSET At(S.rows, cl.coll, cl.key) :
          T = [S EXCEPT !.rows = (@ \ old) \cup {Replaced(r, cl.payload) : r \in old}]
    BY DEF Swapped
<1>3. T.rows = (S.rows \ old) \cup {Replaced(r, cl.payload) : r \in old} /\ T.heads = S.heads
    BY <1>2 DEF State
<1>4. old \in SUBSET {r \in S.rows : r.coll \in Mutable}
    BY DEF At, Group
<1>5. \A r \in old : Replaced(r, cl.payload) \in Row
  <2>1. \A r \in old : r \in Row /\ r.coll \in Collections /\ r.key \in Keys
    BY <1>1, <1>4 DEF Row
  <2> QED
    BY <2>1, BuiltRowsAreRows
<1>6. T \in State
    BY <1>1, <1>2, <1>3, <1>5 DEF State
<1> QED
    BY <1>3, <1>4, <1>6 DEF Replacing

\* The three calls, and the migration of a legacy row, write in one of these ways.
LEMMA CallsWrite ==
    ASSUME NEW S \in State, NEW cl \in Calls, NEW T \in Effects(S, cl)
    PROVE  T \in State /\ Written(S, T)
<1>1. \/ /\ cl.op = "append" /\ cl.coll \in Collections
         /\ cl.key \in Keys /\ cl.payload \in Payloads
      \/ cl.op = "cas" /\ cl.coll \in Mutable /\ cl.payload \in Payloads
    BY SqliteScopedLedgerAssumption DEF SqliteScopedLedgerAssumption
<1>2. CASE cl.op = "append"
  <2>1. T = S \/ \E row \in NewRow(S, cl) : T = Inserted(S, row)
    BY <1>2 DEF Effects, Appended
  <2>2. CASE T = S
    BY <2>2 DEF Written
  <2>3. CASE T # S /\ cl.coll \in Linked
    <3>1. T = Inserted(S, LinkedRow(cl.coll, cl.key, cl.payload, S.heads[cl.coll]))
        BY <2>1, <2>3 DEF NewRow
    <3> QED
        BY <1>1, <1>2, <2>3, <3>1, LinkedInserted DEF Written
  <2>4. CASE T # S /\ cl.coll \notin Linked
    <3>1. cl.coll \in Mutable
        BY <1>1, <1>2, <2>4 DEF Collections
    <3>2. PICK n \in NextMutableSequence(S.rows, cl.coll) :
              T = Inserted(S, StandaloneRow(cl.coll, cl.key, cl.payload, n))
        BY <2>1, <2>4 DEF NewRow
    <3>3. n \in Nat
      <4>1. \A r \in S.rows : r.seq \in Nat
        BY DEF State, Row
      <4> QED
        BY <4>1 DEF NextMutableSequence, Group
    <3> QED
        BY <1>1, <1>2, <3>1, <3>2, <3>3, StandaloneInserted DEF Written
  <2> QED
    BY <2>2, <2>3, <2>4
<1>3. CASE cl.op = "cas"
  <2>1. T = Swapped(S, cl)
    BY <1>3 DEF Effects
  <2> QED
    BY <1>1, <1>3, <2>1, SwappedReplaces DEF Written
<1> QED
    BY <1>1, <1>2, <1>3

\* Legacy rows are of chain-linked collections.
LEMMA LegacyTyped ==
    ASSUME NEW i \in DOMAIN Legacy
    PROVE  Legacy[i].coll \in Linked /\ Legacy[i].key \in Keys /\ Legacy[i].payload \in Payloads
<1> DEFINE Old == [coll : Linked, key : Keys, payload : Payloads]
<1>1. Legacy \in Seq(Old)
    BY SqliteScopedLedgerAssumption DEF SqliteScopedLedgerAssumption
<1> HIDE DEF Old
<1>2. Legacy[i] \in Old
    BY <1>1
<1> QED
    BY <1>2 DEF Old

\* The migration of a legacy row inserts it, if there is no row like it yet.
LEMMA MigrationWrites ==
    ASSUME NEW S \in State, NEW i \in DOMAIN Legacy, NEW T \in Migrated(S, Legacy[i])
    PROVE  /\ T \in State /\ Written(S, T)
           /\ \E r \in At(T.rows, Legacy[i].coll, Legacy[i].key) : r.payload = Legacy[i].payload
<1> DEFINE old == Legacy[i]
           row == LinkedRow(old.coll, old.key, old.payload, S.heads[old.coll])
<1>1. old.coll \in Linked /\ old.key \in Keys /\ old.payload \in Payloads
    BY LegacyTyped
<1>2. CASE At(S.rows, old.coll, old.key) = {}
  <2>1. T = Inserted(S, row) /\ T # S
    BY <1>2 DEF Migrated
  <2>2. T \in State /\ (T = S \/ Chained(S, T))
    BY <1>1, <2>1, LinkedInserted
  <2>3. row \in T.rows
    BY <2>1 DEF Inserted
  <2>4. row.coll = old.coll /\ row.key = old.key /\ row.payload = old.payload
    BY DEF LinkedRow
  <2> QED
    BY <2>2, <2>3, <2>4 DEF Written, At, Group
<1>3. CASE At(S.rows, old.coll, old.key) # {}
  <2>1. T = S /\ \A r \in At(S.rows, old.coll, old.key) : r.payload = old.payload
    BY <1>3 DEF Migrated
  <2> QED
    BY <1>3, <2>1 DEF Written
<1> QED
    BY <1>2, <1>3
-----------------------------------------------------------------------------
(***************************************************************************)
(* Types.                                                                  *)
(***************************************************************************)
\* A state without rows and heads.
LEMMA EmptyTyped == EmptyState \in State
BY DEF EmptyState, State, NoHead, ChainHead, NoHash, Hash

\* The variables start within their types.
LEMMA InitTyped == Init => TypeOK
BY EmptyTyped DEF Init, TypeOK

\* What is left of a transaction or verification that ends.
LEMMA EndedTyped ==
    ASSUME TypeOK, NEW p \in Processes, Ended(p)
    PROVE  /\ reserved' \in Processes \cup {NoProcess} /\ work' \in [Processes -> State]
           /\ left' \in [Processes -> Nat] /\ todo' \in [Processes -> SUBSET Nat]
           /\ seen' \in [Processes -> SUBSET Row] /\ disturbed' \in [Processes -> BOOLEAN]
           /\ todo'[p] = {} /\ \A q \in Processes : q # p => todo'[q] = todo[q]
<1>1. reserved' \in Processes \cup {NoProcess}
    BY DEF Ended, TypeOK
<1>2. work' \in [Processes -> State]
    BY EmptyTyped DEF Ended, TypeOK
<1>3. /\ left' \in [Processes -> Nat] /\ todo' \in [Processes -> SUBSET Nat]
      /\ seen' \in [Processes -> SUBSET Row]
    BY DEF Ended, TypeOK
<1>4. disturbed' \in [Processes -> BOOLEAN]
    BY DEF Ended, TypeOK
<1>5. todo'[p] = {} /\ \A q \in Processes : q # p => todo'[q] = todo[q]
    BY DEF Ended, TypeOK
<1> QED
    BY <1>1, <1>2, <1>3, <1>4, <1>5

\* No step of any process takes a variable out of its type.
LEMMA StepTyped == TypeOK /\ [Next]_vars => TypeOK'
<1> SUFFICES ASSUME TypeOK, [Next]_vars PROVE TypeOK'
    OBVIOUS
<1> USE DEF Goto, schemaVars, txnVars
<1>1. ASSUME NEW p \in Processes,
             FindVersion(p) \/ DropIndex(p) \/ CreateIndex(p) \/ RecordVersion(p)
      PROVE  TypeOK'
  <2>1. CASE FindVersion(p)
    BY <2>1 DEF FindVersion, TypeOK
  <2>2. CASE DropIndex(p)
    BY <2>2 DEF DropIndex, TypeOK
  <2>3. CASE CreateIndex(p)
    BY <2>3 DEF CreateIndex, TypeOK
  <2>4. CASE RecordVersion(p)
    BY <2>4 DEF RecordVersion, TypeOK
  <2> QED
    BY <1>1, <2>1, <2>2, <2>3, <2>4
<1>2. ASSUME NEW p \in Processes, BeginTransaction(p) PROVE TypeOK'
  <2>1. left' \in [Processes -> Nat]
    BY <1>2, SqliteScopedLedgerAssumption DEF BeginTransaction, TypeOK, SqliteScopedLedgerAssumption
  <2> QED
    BY <1>2, <2>1 DEF BeginTransaction, Begin, TypeOK
<1>3. ASSUME NEW p \in Processes, Call(p) PROVE TypeOK'
  <2>1. PICK cl \in Calls : \E S \in Effects(work[p], cl) : work' = [work EXCEPT ![p] = S]
    BY <1>3 DEF Call
  <2>2. work[p] \in State
    BY DEF TypeOK
  <2>3. work' \in [Processes -> State]
    BY <2>1, <2>2, CallsWrite DEF TypeOK
  <2>4. left' \in [Processes -> Nat]
    BY <1>3 DEF Call, TypeOK
  <2> QED
    BY <1>3, <2>3, <2>4 DEF Call, TypeOK
<1>4. ASSUME NEW p \in Processes, Commit(p) PROVE TypeOK'
  <2>1. work[p] \in State
    BY DEF TypeOK
  <2> QED
    BY <1>4, <2>1, EndedTyped DEF Commit, TypeOK
<1>5. ASSUME NEW p \in Processes,
             Rollback(p) \/ Crash(p) \/ VerifyStandalone(p) \/ VerifyRaises(p)
      PROVE  TypeOK'
  <2>1. Ended(p) /\ UNCHANGED <<db, index, recorded>>
    BY <1>5 DEF Rollback, Crash, VerifyStandalone, VerifyRaises
  <2>2. \E where \in {"idle", "closed"} : pc' = [pc EXCEPT ![p] = where]
    BY <1>5 DEF Rollback, Crash, VerifyStandalone, VerifyRaises
  <2> QED
    BY <2>1, <2>2, EndedTyped DEF TypeOK
<1>6. ASSUME NEW p \in Processes, BeginMigration(p) PROVE TypeOK'
  <2>1. DOMAIN Legacy \subseteq Nat
    <3>1. Legacy \in Seq([coll : Linked, key : Keys, payload : Payloads])
        BY SqliteScopedLedgerAssumption DEF SqliteScopedLedgerAssumption
    <3> QED
        BY <3>1
  <2>2. todo' \in [Processes -> SUBSET Nat]
    BY <1>6, <2>1 DEF BeginMigration, TypeOK
  <2> QED
    BY <1>6, <2>2 DEF BeginMigration, Begin, TypeOK
<1>7. ASSUME NEW p \in Processes, MigrateRow(p) PROVE TypeOK'
  <2>1. PICK i \in todo[p] : /\ \E S \in Migrated(work[p], Legacy[i]) : work' = [work EXCEPT ![p] = S]
                             /\ todo' = [todo EXCEPT ![p] = @ \ {i}]
    BY <1>7 DEF MigrateRow
  <2>2. work[p] \in State /\ i \in DOMAIN Legacy
    BY <1>7 DEF MigrateRow, TypeOK
  <2>3. work' \in [Processes -> State]
    BY <2>1, <2>2, MigrationWrites DEF TypeOK
  <2> QED
    BY <1>7, <2>1, <2>3 DEF MigrateRow, TypeOK
<1>8. ASSUME NEW p \in Processes, BeginVerify(p) PROVE TypeOK'
    BY <1>8, ScopedRowsAssumption DEF BeginVerify, TypeOK, ScopedRowsAssumption
<1>9. ASSUME NEW p \in Processes, VerifyRows(p) PROVE TypeOK'
  <2>1. PICK c \in todo[p] :
          /\ seen' = [seen EXCEPT ![p] = @ \cup Group(db.rows, c)]
          /\ todo' = [todo EXCEPT ![p] = IF @ = {c} THEN Linked ELSE @ \ {c}]
          /\ Goto(p, IF todo[p] = {c} THEN "heads" ELSE "rows")
    BY <1>9 DEF VerifyRows
  <2>2. Group(db.rows, c) \subseteq Row
    BY DEF Group, TypeOK, State
  <2>3. seen' \in [Processes -> SUBSET Row]
    BY <2>1, <2>2 DEF TypeOK
  <2>4. todo' \in [Processes -> SUBSET Nat]
    BY <2>1, ScopedRowsAssumption DEF TypeOK, ScopedRowsAssumption
  <2> QED
    BY <1>9, <2>1, <2>3, <2>4 DEF VerifyRows, TypeOK
<1>10. ASSUME NEW p \in Processes, VerifyHead(p) PROVE TypeOK'
    BY <1>10 DEF VerifyHead, TypeOK
<1>11. CASE UNCHANGED vars
    BY <1>11 DEF vars, TypeOK
<1> QED
    BY <1>1, <1>2, <1>3, <1>4, <1>5, <1>6, <1>7, <1>8, <1>9, <1>10, <1>11 DEF Next
\* Every variable of the SQLite engine keeps its type.
THEOREM Typing == Spec => []TypeOK
BY InitTyped, StepTyped, PTL DEF Spec

-----------------------------------------------------------------------------
Acts(p) ==
    \/ FindVersion(p) \/ DropIndex(p) \/ CreateIndex(p) \/ RecordVersion(p)
    \/ BeginTransaction(p) \/ Call(p) \/ Commit(p) \/ Rollback(p) \/ Crash(p)
    \/ BeginMigration(p) \/ MigrateRow(p)
    \/ BeginVerify(p) \/ VerifyRows(p) \/ VerifyHead(p) \/ VerifyStandalone(p)
    \/ VerifyRaises(p)

\* A step of one process leaves the others where they are; a verification of
\* theirs is disturbed if it changes the file.
LEMMA OthersUntouched ==
    ASSUME TypeOK, NEW p \in Processes, NEW q \in Processes, p # q, Acts(p)
    PROVE  /\ pc'[q] = pc[q] /\ work'[q] = work[q] /\ todo'[q] = todo[q] /\ seen'[q] = seen[q]
           /\ disturbed[q] => disturbed'[q]
           /\ db' # db /\ todo[q] # {} => disturbed'[q]
<1> USE DEF Goto, schemaVars, txnVars
<1>1. /\ DOMAIN pc = Processes /\ DOMAIN work = Processes /\ DOMAIN todo = Processes
      /\ DOMAIN seen = Processes
    BY DEF TypeOK
<1>2. CASE FindVersion(p) \/ DropIndex(p) \/ CreateIndex(p) \/ RecordVersion(p)
    BY <1>1, <1>2 DEF FindVersion, DropIndex, CreateIndex, RecordVersion
<1>3. CASE BeginTransaction(p) \/ BeginMigration(p) \/ BeginVerify(p)
    BY <1>1, <1>3 DEF BeginTransaction, BeginMigration, Begin, BeginVerify
<1>4. CASE Call(p) \/ MigrateRow(p)
    BY <1>1, <1>4 DEF Call, MigrateRow
<1>5. CASE Commit(p) \/ Rollback(p) \/ Crash(p) \/ VerifyStandalone(p) \/ VerifyRaises(p)
  <2>1. Ended(p) /\ \E where \in {"idle", "closed"} : pc' = [pc EXCEPT ![p] = where]
    BY <1>5 DEF Commit, Rollback, Crash, VerifyStandalone, VerifyRaises
  <2>2. disturbed'[q] = (q # p /\ (disturbed[q] \/ (todo[q] # {} /\ db' # db)))
    BY <2>1 DEF Ended
  <2> QED
    BY <1>1, <2>1, <2>2 DEF Ended
<1>6. CASE VerifyRows(p) \/ VerifyHead(p)
    BY <1>1, <1>6 DEF VerifyRows, VerifyHead
<1> QED
    BY <1>2, <1>3, <1>4, <1>5, <1>6 DEF Acts

(***************************************************************************)
(* The kinds of steps, as far as the file, its write lock and the open     *)
(* transactions go.                                                        *)
(***************************************************************************)
OthersStay(p) == \A q \in Processes : q # p => pc'[q] = pc[q] /\ work'[q] = work[q]

Starts(p) ==
    /\ reserved = NoProcess /\ reserved' = p /\ db' = db
    /\ work' = [work EXCEPT ![p] = db] /\ pc'[p] \in Writing

Writes(p) ==
    /\ pc[p] \in Writing /\ pc' = pc /\ UNCHANGED <<db, reserved>>
    /\ \E T \in State : Written(work[p], T) /\ work' = [work EXCEPT ![p] = T]

Ends(p) ==
    /\ pc'[p] \notin Writing
    /\ work' = [work EXCEPT ![p] = EmptyState]
    /\ reserved' = (IF reserved = p THEN NoProcess ELSE reserved)
    /\ db' = db \/ (pc[p] \in Writing /\ db' = work[p])

Elsewhere(p) == UNCHANGED <<db, reserved, work>> /\ pc'[p] \notin Writing

Kinds(p) == OthersStay(p) /\ (Starts(p) \/ Writes(p) \/ Ends(p) \/ Elsewhere(p))

\* Every step of a process is of one of these kinds.
LEMMA StepKinds ==
    ASSUME TypeOK, Next
    PROVE  \E p \in Processes : Kinds(p)
<1> USE DEF Goto, schemaVars, txnVars
<1>1. PICK p \in Processes : Acts(p)
    BY DEF Next, Acts
<1>2. DOMAIN pc = Processes /\ DOMAIN work = Processes /\ work[p] \in State
    BY DEF TypeOK
<1>3. CASE FindVersion(p) \/ DropIndex(p) \/ CreateIndex(p) \/ RecordVersion(p)
    BY <1>2, <1>3 DEF FindVersion, DropIndex, CreateIndex, RecordVersion, Kinds, OthersStay,
                      Elsewhere, Writing
<1>4. CASE BeginTransaction(p) \/ BeginMigration(p)
    BY <1>2, <1>4 DEF BeginTransaction, BeginMigration, Begin, Kinds, OthersStay, Starts, Writing
<1>5. CASE Call(p)
  <2>1. PICK cl \in Calls : \E S \in Effects(work[p], cl) : work' = [work EXCEPT ![p] = S]
    BY <1>5 DEF Call
  <2>2. PICK T \in Effects(work[p], cl) : work' = [work EXCEPT ![p] = T]
    BY <2>1
  <2>3. T \in State /\ Written(work[p], T)
    BY <1>2, <2>2, CallsWrite
  <2>4. pc[p] \in Writing /\ pc' = pc /\ UNCHANGED <<db, reserved>>
    BY <1>5 DEF Call, Writing
  <2> QED
    BY <1>2, <2>2, <2>3, <2>4 DEF Kinds, OthersStay, Writes
<1>6. CASE MigrateRow(p)
  <2>1. PICK i \in todo[p] : \E S \in Migrated(work[p], Legacy[i]) : work' = [work EXCEPT ![p] = S]
    BY <1>6 DEF MigrateRow
  <2>2. PICK T \in Migrated(work[p], Legacy[i]) : work' = [work EXCEPT ![p] = T]
    BY <2>1
  <2>3. i \in DOMAIN Legacy
    BY <1>6, <2>1 DEF MigrateRow, TypeOK
  <2>4. T \in State /\ Written(work[p], T)
    BY <1>2, <2>2, <2>3, MigrationWrites
  <2>5. pc[p] \in Writing /\ pc' = pc /\ UNCHANGED <<db, reserved>>
    BY <1>6 DEF MigrateRow, Writing
  <2> QED
    BY <1>2, <2>2, <2>4, <2>5 DEF Kinds, OthersStay, Writes
<1>7. CASE Commit(p)
    BY <1>2, <1>7 DEF Commit, Ended, Kinds, OthersStay, Ends, Writing
<1>8. CASE Rollback(p) \/ Crash(p) \/ VerifyStandalone(p) \/ VerifyRaises(p)
  <2>1. Ended(p) /\ db' = db
    BY <1>8 DEF Rollback, Crash, VerifyStandalone, VerifyRaises
  <2>2. \E where \in {"idle", "closed"} : pc' = [pc EXCEPT ![p] = where]
    BY <1>8 DEF Rollback, Crash, VerifyStandalone, VerifyRaises
  <2> QED
    BY <1>2, <2>1, <2>2 DEF Ended, Kinds, OthersStay, Ends, Writing
<1>9. CASE BeginVerify(p)
    BY <1>2, <1>9 DEF BeginVerify, Kinds, OthersStay, Elsewhere, Writing
<1>10. CASE VerifyRows(p)
  <2>1. \E where \in {"heads", "rows"} : pc' = [pc EXCEPT ![p] = where]
    BY <1>10 DEF VerifyRows
  <2> QED
    BY <1>2, <1>10, <2>1 DEF VerifyRows, Kinds, OthersStay, Elsewhere, Writing
<1>11. CASE VerifyHead(p)
  <2>1. \E where \in {"standalone", "heads"} : pc' = [pc EXCEPT ![p] = where]
    BY <1>11 DEF VerifyHead
  <2> QED
    BY <1>2, <1>11, <2>1 DEF VerifyHead, Kinds, OthersStay, Elsewhere, Writing
<1> QED
    BY <1>1, <1>3, <1>4, <1>5, <1>6, <1>7, <1>8, <1>9, <1>10, <1>11 DEF Acts

(***************************************************************************)
(* Who writes has the write lock of the file.                              *)
(***************************************************************************)
Held == \A p \in Processes : pc[p] \in Writing => reserved = p

\* No step gives the write lock to two processes.
LEMMA StepHeld ==
    ASSUME TypeOK, Held, NEW p \in Processes, Kinds(p)
    PROVE  Held'
<1>1. NoProcess \notin Processes
    BY SqliteScopedLedgerAssumption DEF SqliteScopedLedgerAssumption
<1> SUFFICES ASSUME NEW q \in Processes, pc'[q] \in Writing PROVE reserved' = q
    BY DEF Held
<1>2. CASE q = p
    BY <1>2 DEF Kinds, Starts, Writes, Ends, Elsewhere, Held
<1>3. CASE q # p
    BY <1>1, <1>3 DEF Kinds, OthersStay, Starts, Writes, Ends, Elsewhere, Held
<1> QED
    BY <1>2, <1>3

(***************************************************************************)
(* What an open transaction sees keeps every committed row or has a later  *)
(* version of it.                                                          *)
(***************************************************************************)
Later(r, s) ==
    /\ SameKey(r, s)
    /\ s = r \/ (r.coll \in Mutable /\ s.version > r.version /\ s.seq = r.seq)

Kept(R, S) == \A r \in R : \E s \in S : Later(r, s)

KeepsCommitted == \A p \in Processes : pc[p] \in Writing => Kept(db.rows, work[p].rows)

\* A later version of a later version is a later version.
LEMMA LaterStill ==
    ASSUME NEW r \in Row, NEW s \in Row, NEW t \in Row, Later(r, s), Later(s, t)
    PROVE  Later(r, t)
<1>1. r.version \in Nat /\ s.version \in Nat /\ t.version \in Nat
    BY DEF Row
<1> QED
    BY <1>1 DEF Later, SameKey

\* No write removes a row or takes it back to an earlier version.
LEMMA WrittenKeeps ==
    ASSUME NEW S \in State, NEW T \in State, Written(S, T)
    PROVE  Kept(S.rows, T.rows)
<1>1. CASE T = S \/ Chained(S, T) \/ StoodAlone(S, T)
  <2>1. S.rows \subseteq T.rows
    BY <1>1 DEF Chained, StoodAlone
  <2> QED
    BY <2>1 DEF Kept, Later, SameKey
<1>2. CASE Replacing(S, T)
  <2>1. PICK p \in Payloads, old \in SUBSET {r \in S.rows : r.coll \in Mutable} :
            T.rows = (S.rows \ old) \cup {Replaced(r, p) : r \in old}
    BY <1>2 DEF Replacing
  <2>2. ASSUME NEW r \in S.rows PROVE \E s \in T.rows : Later(r, s)
    <3>1. CASE r \in old
      <4>1. r.version \in Nat /\ r.coll \in Mutable
        BY <2>1, <3>1 DEF State, Row
      <4>2. Later(r, Replaced(r, p))
        BY <4>1 DEF Later, Replaced, SameKey
      <4> QED
        BY <2>1, <3>1, <4>2
    <3>2. CASE r \notin old
        BY <2>1, <3>2 DEF Later, SameKey
    <3> QED
        BY <3>1, <3>2
  <2> QED
    BY <2>2 DEF Kept
<1> QED
    BY <1>1, <1>2 DEF Written

\* No step makes an open transaction fall behind what is committed.
LEMMA StepKeeps ==
    ASSUME TypeOK, Held, KeepsCommitted, NEW p \in Processes, Kinds(p)
    PROVE  KeepsCommitted'
<1>1. NoProcess \notin Processes
    BY SqliteScopedLedgerAssumption DEF SqliteScopedLedgerAssumption
<1>2. db \in State /\ work[p] \in State
    BY DEF TypeOK
<1> SUFFICES ASSUME NEW q \in Processes, pc'[q] \in Writing
             PROVE  Kept(db'.rows, work'[q].rows)
    BY DEF KeepsCommitted
<1>3. CASE q = p /\ Starts(p)
  <2>1. work'[q] = db /\ db' = db
    BY <1>3 DEF Starts, TypeOK
  <2> QED
    BY <2>1 DEF Kept, Later, SameKey
<1>4. CASE q = p /\ Writes(p)
  <2>1. PICK T \in State : Written(work[p], T) /\ work' = [work EXCEPT ![p] = T]
    BY <1>4 DEF Writes
  <2>2. work'[p] = T /\ db' = db
    BY <1>4, <2>1 DEF Writes, TypeOK
  <2>3. Kept(db.rows, work[p].rows) /\ Kept(work[p].rows, T.rows)
    BY <1>2, <1>4, <2>1, WrittenKeeps DEF Writes, KeepsCommitted
  <2>4. db.rows \subseteq Row /\ work[p].rows \subseteq Row /\ T.rows \subseteq Row
    BY <1>2 DEF State
  <2>5. ASSUME NEW r \in db.rows PROVE \E t \in T.rows : Later(r, t)
    <3>1. PICK s \in work[p].rows : Later(r, s)
        BY <2>3 DEF Kept
    <3>2. PICK t \in T.rows : Later(s, t)
        BY <2>3 DEF Kept
    <3> QED
        BY <2>4, <3>1, <3>2, LaterStill
  <2> QED
    BY <1>4, <2>2, <2>5 DEF Kept
<1>5. CASE q # p
  <2>1. pc[q] \in Writing /\ work'[q] = work[q] /\ reserved = q
    BY <1>5 DEF Kinds, OthersStay, Held
  <2>2. db' = db
    BY <1>1, <1>5, <2>1 DEF Kinds, Starts, Writes, Ends, Elsewhere, Held
  <2> QED
    BY <2>1, <2>2 DEF KeepsCommitted
<1> QED
    BY <1>3, <1>4, <1>5 DEF Kinds, Ends, Elsewhere
Inv == TypeOK /\ Held /\ KeepsCommitted

\* No process writes at first.
LEMMA InitInv == Init => Inv
BY InitTyped DEF Init, Inv, Held, KeepsCommitted, Writing

\* Types, the write lock and the kept rows, together.
LEMMA StepInv == Inv /\ [Next]_vars => Inv'
<1> SUFFICES ASSUME Inv, [Next]_vars PROVE Inv'
    OBVIOUS
<1>1. CASE UNCHANGED vars
    BY <1>1 DEF vars, schemaVars, txnVars, Inv, TypeOK, Held, KeepsCommitted
<1>2. CASE Next
  <2>1. PICK p \in Processes : Kinds(p)
    BY <1>2, StepKinds DEF Inv
  <2> QED
    BY <2>1, StepTyped, StepHeld, StepKeeps DEF Inv
<1> QED
    BY <1>1, <1>2

\* No commit takes back what another one left: a committed row stays, or is
\* replaced by a later version in its place, whatever the calls and whoever
\* dies (BEGIN IMMEDIATE before the rows are read).
THEOREM NothingLost == Spec => NoLostUpdate
<1> DEFINE A == \A r \in db.rows : \E s \in db'.rows :
                    /\ SameKey(r, s)
                    /\ s = r \/ (r.coll \in Mutable /\ s.version > r.version /\ s.seq = r.seq)
<1>1. Inv /\ [Next]_vars => [A]_db
  <2> SUFFICES ASSUME Inv, Next, db' # db PROVE A
    BY DEF vars
  <2>1. PICK p \in Processes : Kinds(p)
    BY StepKinds DEF Inv
  <2>2. pc[p] \in Writing /\ db' = work[p]
    BY <2>1 DEF Kinds, Starts, Writes, Ends, Elsewhere
  <2>3. Kept(db.rows, work[p].rows)
    BY <2>2 DEF Inv, KeepsCommitted
  <2> QED
    BY <2>2, <2>3 DEF Kept, Later
<1> QED
    BY <1>1, InitInv, StepInv, PTL DEF Spec, NoLostUpdate

-----------------------------------------------------------------------------
(***************************************************************************)
(* The migration.                                                          *)
(***************************************************************************)
Moved(S, i) ==
    \E r \in At(S.rows, Legacy[i].coll, Legacy[i].key) : r.payload = Legacy[i].payload

MovedSoFar ==
    \A p \in Processes : pc[p] = "migrate" =>
        \A i \in DOMAIN Legacy \ todo[p] : Moved(work[p], i)

\* Moving a legacy row removes none.
LEMMA MigrationKeeps ==
    ASSUME NEW S \in State, NEW i \in DOMAIN Legacy, NEW T \in Migrated(S, Legacy[i])
    PROVE  S.rows \subseteq T.rows
BY DEF Migrated, Inserted

\* A migration leaves no row out that it has passed.
LEMMA StepMoved ==
    ASSUME Inv, MovedSoFar, [Next]_vars
    PROVE  MovedSoFar'
<1> USE DEF Goto, schemaVars, txnVars
<1>1. TypeOK
    BY DEF Inv
<1> SUFFICES ASSUME NEW q \in Processes, pc'[q] = "migrate",
                    NEW i \in DOMAIN Legacy \ todo'[q]
             PROVE  Moved(work'[q], i)
    BY DEF MovedSoFar, Moved
<1>2. CASE pc[q] = "migrate" /\ work'[q] = work[q] /\ todo'[q] = todo[q]
    BY <1>2 DEF MovedSoFar
<1>3. CASE MigrateRow(q)
  <2>1. PICK j \in todo[q] : /\ \E S \in Migrated(work[q], Legacy[j]) : work' = [work EXCEPT ![q] = S]
                             /\ todo' = [todo EXCEPT ![q] = @ \ {j}]
    BY <1>3 DEF MigrateRow
  <2>2. PICK T \in Migrated(work[q], Legacy[j]) : work' = [work EXCEPT ![q] = T]
    BY <2>1
  <2>3. work[q] \in State /\ j \in DOMAIN Legacy /\ pc[q] = "migrate"
    BY <1>1, <1>3, <2>1 DEF MigrateRow, TypeOK
  <2>4. work'[q] = T /\ todo'[q] = todo[q] \ {j}
    BY <1>1, <2>1, <2>2 DEF TypeOK
  <2>5. CASE i = j
    BY <2>2, <2>3, <2>4, <2>5, MigrationWrites DEF Moved
  <2>6. CASE i # j
    <3>1. Moved(work[q], i)
        BY <2>3, <2>4, <2>6 DEF MovedSoFar
    <3>2. work[q].rows \subseteq T.rows
        BY <2>2, <2>3, MigrationKeeps
    <3> QED
        BY <2>4, <3>1, <3>2 DEF Moved, At, Group
  <2> QED
    BY <2>5, <2>6
<1>4. CASE BeginMigration(q)
    BY <1>1, <1>4 DEF BeginMigration, TypeOK
<1>5. CASE UNCHANGED vars
    BY <1>2, <1>5 DEF vars
<1>6. ASSUME Acts(q), ~ MigrateRow(q), ~ BeginMigration(q)
      PROVE  FALSE
  <2>1. pc \in [Processes -> {"closed", "drop", "create", "record", "idle", "open", "migrate",
                             "rows", "heads", "standalone"}]
    BY <1>1 DEF TypeOK
  <2>2. CASE FindVersion(q) \/ DropIndex(q) \/ CreateIndex(q) \/ RecordVersion(q) \/ Call(q)
    BY <2>1, <2>2 DEF FindVersion, DropIndex, CreateIndex, RecordVersion, Call
  <2>3. CASE BeginTransaction(q) \/ BeginVerify(q) \/ VerifyRows(q) \/ VerifyHead(q)
    BY <2>1, <2>3 DEF BeginTransaction, Begin, BeginVerify, VerifyRows, VerifyHead
  <2>4. CASE Commit(q) \/ Rollback(q) \/ Crash(q) \/ VerifyStandalone(q) \/ VerifyRaises(q)
    BY <2>1, <2>4 DEF Commit, Rollback, Crash, VerifyStandalone, VerifyRaises
  <2> QED
    BY <1>6, <2>2, <2>3, <2>4 DEF Acts
<1>7. CASE Next
  <2>1. PICK p \in Processes : Acts(p)
    BY <1>7 DEF Next, Acts
  <2>2. CASE p = q
    BY <1>3, <1>4, <1>6, <2>1, <2>2
  <2>3. CASE p # q
    BY <1>1, <1>2, <2>1, <2>3, OthersUntouched
  <2> QED
    BY <2>2, <2>3
<1> QED
    BY <1>5, <1>7

\* No process migrates at first.
LEMMA InitMoved == Init => MovedSoFar
BY DEF Init, MovedSoFar

\* However writers, repetitions and deaths interleave with it, the migration
\* of the legacy rows is committed whole or not at all.
THEOREM MigrationIsWhole == Spec => LegacyMovedWhole
<1> DEFINE A == \A p \in Processes : pc[p] = "migrate" =>
                  \/ db' = db
                  \/ \A i \in DOMAIN Legacy :
                        \E r \in At(db'.rows, Legacy[i].coll, Legacy[i].key) :
                            r.payload = Legacy[i].payload
<1>1. Inv /\ MovedSoFar /\ [Next]_vars => [A]_db
  <2> SUFFICES ASSUME Inv, MovedSoFar, Next, db' # db,
                      NEW q \in Processes, pc[q] = "migrate"
               PROVE  \A i \in DOMAIN Legacy : Moved(db', i)
    BY DEF vars, Moved
  <2>1. PICK p \in Processes : Commit(p)
    BY DEF Next, FindVersion, DropIndex, CreateIndex, RecordVersion, BeginTransaction, Call,
           Rollback, Crash, BeginMigration, MigrateRow, BeginVerify, VerifyRows, VerifyHead,
           VerifyStandalone, VerifyRaises
  <2>2. p = q
    BY <2>1 DEF Inv, Held, Writing, Commit
  <2>3. todo[q] = {} /\ db' = work[q]
    BY <2>1, <2>2 DEF Commit
  <2> QED
    BY <2>3 DEF MovedSoFar
<1> QED
    BY <1>1, InitInv, StepInv, InitMoved, StepMoved, PTL DEF Spec, LegacyMovedWhole
-----------------------------------------------------------------------------
(***************************************************************************)
(* The engine implements LedgerCommit.                                     *)
(***************************************************************************)
\* The engine starts with empty logs that nobody claims.
LEMMA InitRefines == Init => Abstract!Init
<1> SUFFICES ASSUME Init PROVE Abstract!Init
    OBVIOUS
<1>1. NoProcess \notin Processes
    BY SqliteScopedLedgerAssumption DEF SqliteScopedLedgerAssumption
<1> QED
    BY <1>1 DEF Init, Abstract!Init, Abstract!Empty, EmptyState, NoHead, NoHash

\* Every step of the engine is one of the abstract ledger, or none.
LEMMA StepRefines == Inv /\ [Next]_vars => [Abstract!Next]_(Abstract!vars)
<1> SUFFICES ASSUME Inv, [Next]_vars PROVE [Abstract!Next]_(Abstract!vars)
    OBVIOUS
<1> DEFINE log == [c \in Linked |-> db.heads[c].hash]
           claimed == [q \in Processes |-> IF reserved = q THEN Linked ELSE {}]
           draft == [q \in Processes |-> [c \in Linked |-> work[q].heads[c].hash]]
<1>1. CASE UNCHANGED <<db, reserved, work>>
    BY <1>1 DEF Abstract!vars
<1>2. TypeOK /\ Held /\ NoProcess \notin Processes /\ work \in [Processes -> State] /\ db \in State
    BY SqliteScopedLedgerAssumption DEF Inv, TypeOK, SqliteScopedLedgerAssumption
<1>3. ASSUME NEW p \in Processes, Starts(p) PROVE Abstract!Claim(p, Linked)
  <2>1. reserved = NoProcess /\ reserved' = p /\ db' = db /\ work' = [work EXCEPT ![p] = db]
    BY <1>3 DEF Starts
  <2>2. \A q \in Processes : claimed[q] = {}
    BY <1>2, <2>1
  <2>3. claimed' = [claimed EXCEPT ![p] = @ \cup Linked]
    BY <1>2, <2>1
  <2>4. draft' = [draft EXCEPT ![p] = [c \in Linked |-> IF c \in Linked THEN log[c] ELSE @[c]]]
    BY <1>2, <2>1
  <2>5. log' = log
    BY <2>1
  <2> QED
    BY <2>2, <2>3, <2>4, <2>5 DEF Abstract!Claim
<1>4. ASSUME NEW p \in Processes, Writes(p) PROVE [Abstract!Next]_(Abstract!vars)
  <2>1. PICK T \in State : Written(work[p], T) /\ work' = [work EXCEPT ![p] = T]
    BY <1>4 DEF Writes
  <2>2. db' = db /\ reserved' = reserved /\ reserved = p
    BY <1>2, <1>4 DEF Writes, Held
  <2>3. CASE T.heads = work[p].heads
    <3>1. draft' = draft
        BY <1>2, <2>1, <2>3
    <3> QED
        BY <2>2, <3>1 DEF Abstract!vars
  <2>4. CASE \E c \in Linked, pl \in Payloads : \A d \in Linked :
              T.heads[d].hash = IF d = c THEN Append(work[p].heads[d].hash, pl)
                                ELSE work[p].heads[d].hash
    <3>1. PICK c \in Linked, pl \in Payloads : \A d \in Linked :
              T.heads[d].hash = IF d = c THEN Append(work[p].heads[d].hash, pl)
                                ELSE work[p].heads[d].hash
        BY <2>4
    <3>2. work'[p] = T /\ \A q \in Processes \ {p} : work'[q] = work[q]
        BY <1>2, <2>1
    <3>3. draft' = [q \in Processes |-> [d \in Linked |->
              IF q = p /\ d = c THEN Append(work[q].heads[d].hash, pl) ELSE work[q].heads[d].hash]]
        BY <3>1, <3>2
    <3>4. draft' = [draft EXCEPT ![p][c] = Append(@, pl)]
        BY <3>3
    <3>5. c \in claimed[p] /\ claimed' = claimed /\ log' = log
        BY <2>2, <3>1
    <3>6. Abstract!Extend(p, c, pl)
        BY <3>4, <3>5 DEF Abstract!Extend
    <3> QED
        BY <3>1, <3>6 DEF Abstract!Next
  <2> QED
    BY <1>2, <2>1, <2>3, <2>4, WrittenHeads
<1>5. ASSUME NEW p \in Processes, Ends(p) PROVE Abstract!Publish(p) \/ Abstract!Discard(p)
  <2>1. /\ work' = [work EXCEPT ![p] = EmptyState]
        /\ reserved' = (IF reserved = p THEN NoProcess ELSE reserved)
    BY <1>5 DEF Ends
  <2>2. claimed' = [claimed EXCEPT ![p] = {}]
    BY <1>2, <2>1
  <2>3. draft' = [draft EXCEPT ![p] = [c \in Linked |-> << >>]]
    BY <1>2, <2>1 DEF EmptyState, NoHead, NoHash
  <2>4. Abstract!Release(p)
    BY <2>2, <2>3 DEF Abstract!Release, Abstract!Empty
  <2>5. CASE db' = db
    BY <2>4, <2>5 DEF Abstract!Discard
  <2>6. CASE pc[p] \in Writing /\ db' = work[p]
    <3>1. claimed[p] = Linked
        BY <1>2, <2>6 DEF Held
    <3>2. log' = [c \in Linked |-> IF c \in claimed[p] THEN draft[p][c] ELSE log[c]]
        BY <2>6, <3>1
    <3> QED
        BY <2>4, <3>2 DEF Abstract!Publish
  <2> QED
    BY <1>5, <2>5, <2>6 DEF Ends
<1>6. CASE Next
  <2>1. PICK p \in Processes : Kinds(p)
    BY <1>2, <1>6, StepKinds
  <2>2. CASE Starts(p)
    BY <1>3, <2>2 DEF Abstract!Next
  <2>3. CASE Writes(p)
    BY <1>4, <2>3
  <2>4. CASE Ends(p)
    BY <1>5, <2>4 DEF Abstract!Next
  <2>5. CASE Elsewhere(p)
    BY <1>1, <2>5 DEF Elsewhere
  <2> QED
    BY <2>1, <2>2, <2>3, <2>4, <2>5 DEF Kinds
<1>7. CASE UNCHANGED vars
    BY <1>1, <1>7 DEF vars, txnVars
<1> QED
    BY <1>6, <1>7

\* Every behaviour of the SQLite engine is one of the abstract ledger: whoever
\* begins IMMEDIATE has every chain to itself until it commits or is gone.
THEOREM Refinement == Spec => ImplementsLedgerCommit
BY InitRefines, StepRefines, InitInv, StepInv, PTL DEF Spec, ImplementsLedgerCommit, Abstract!Spec
-----------------------------------------------------------------------------
(***************************************************************************)
(* Verification.                                                           *)
(***************************************************************************)
AllVerify ==
    /\ Verifies(db)
    /\ \A p \in Processes : pc[p] \in Writing => Verifies(work[p])

\* What is committed verifies, and what any transaction sees.
LEMMA StepVerifies ==
    ASSUME Inv, AllVerify, [Next]_vars
    PROVE  AllVerify'
<1>1. CASE UNCHANGED vars
    BY <1>1 DEF vars, txnVars, AllVerify, Verifies
<1>2. CASE Next
  <2>1. PICK p \in Processes : Kinds(p)
    BY <1>2, StepKinds DEF Inv
  <2>2. TypeOK /\ work[p] \in State
    BY DEF Inv, TypeOK
  <2>3. Verifies(db')
    BY <2>1 DEF Kinds, Starts, Writes, Ends, Elsewhere, AllVerify
  <2>4. ASSUME NEW q \in Processes, pc'[q] \in Writing PROVE Verifies(work'[q])
    <3>1. CASE q # p
        BY <2>1, <2>4, <3>1 DEF Kinds, OthersStay, AllVerify
    <3>2. CASE q = p /\ Starts(p)
      <4>1. work'[p] = db
        BY <2>2, <3>2 DEF Starts, TypeOK
      <4> QED
        BY <3>2, <4>1 DEF AllVerify
    <3>3. CASE q = p /\ Writes(p)
      <4>1. PICK T \in State : Written(work[p], T) /\ work' = [work EXCEPT ![p] = T]
        BY <3>3 DEF Writes
      <4>2. work'[p] = T /\ Verifies(work[p])
        BY <2>2, <3>3, <4>1 DEF Writes, AllVerify, TypeOK
      <4> QED
        BY <2>2, <3>3, <4>1, <4>2, WrittenVerifies
    <3> QED
        BY <2>1, <2>4, <3>1, <3>2, <3>3 DEF Kinds, Ends, Elsewhere
  <2> QED
    BY <2>3, <2>4 DEF AllVerify, Verifies
<1> QED
    BY <1>1, <1>2
\* What a verification that nobody disturbed has read is what is committed.
SeenIs(p, C) == seen[p] = {r \in db.rows : r.coll \in C}

SeenFits ==
    \A p \in Processes :
        /\ pc[p] \notin {"rows", "heads", "standalone"} => seen[p] = {}
        /\ pc[p] = "rows" /\ ~ disturbed[p] => SeenIs(p, Linked \ todo[p])
        /\ pc[p] = "heads" /\ ~ disturbed[p] => SeenIs(p, Linked)
        /\ pc[p] \in {"rows", "heads"} /\ Linked # {} => todo[p] # {}

\* No process verifies at first, and the file verifies.
LEMMA InitSeen == Init => SeenFits /\ AllVerify
BY EmptyVerifies DEF Init, SeenFits, AllVerify, Writing

\* A step of the verification itself.
LEMMA VerifierSees ==
    ASSUME TypeOK, SeenFits, NEW p \in Processes, Acts(p)
    PROVE  /\ pc'[p] \notin {"rows", "heads", "standalone"} => seen'[p] = {}
           /\ pc'[p] = "rows" /\ ~ disturbed'[p] => SeenIs(p, Linked \ todo[p])'
           /\ pc'[p] = "heads" /\ ~ disturbed'[p] => SeenIs(p, Linked)'
           /\ pc'[p] \in {"rows", "heads"} /\ Linked # {} => todo'[p] # {}
<1> USE DEF Goto, schemaVars, txnVars
<1>1. /\ pc \in [Processes -> {"closed", "drop", "create", "record", "idle", "open", "migrate",
                              "rows", "heads", "standalone"}]
      /\ DOMAIN todo = Processes /\ DOMAIN seen = Processes
      /\ todo[p] \subseteq (IF pc[p] = "migrate" THEN DOMAIN Legacy ELSE Linked)
    BY DEF TypeOK
<1>2. CASE FindVersion(p) \/ DropIndex(p) \/ CreateIndex(p) \/ RecordVersion(p)
    BY <1>1, <1>2 DEF FindVersion, DropIndex, CreateIndex, RecordVersion, SeenFits
<1>3. CASE BeginTransaction(p) \/ BeginMigration(p)
    BY <1>1, <1>3 DEF BeginTransaction, BeginMigration, Begin, SeenFits
<1>4. CASE Call(p) \/ MigrateRow(p)
    BY <1>1, <1>4 DEF Call, MigrateRow, SeenFits
<1>5. CASE Commit(p) \/ Rollback(p) \/ Crash(p) \/ VerifyStandalone(p) \/ VerifyRaises(p)
  <2>1. Ended(p) /\ \E where \in {"idle", "closed"} : pc' = [pc EXCEPT ![p] = where]
    BY <1>5 DEF Commit, Rollback, Crash, VerifyStandalone, VerifyRaises
  <2> QED
    BY <1>1, <2>1 DEF Ended
<1>6. CASE BeginVerify(p)
  <2>1. pc'[p] = "rows" /\ todo'[p] = Linked /\ seen'[p] = {} /\ db' = db
    BY <1>1, <1>6 DEF BeginVerify, SeenFits
  <2> QED
    BY <2>1 DEF SeenIs
<1>7. CASE VerifyRows(p)
  <2>1. PICK c \in todo[p] :
          /\ seen' = [seen EXCEPT ![p] = @ \cup Group(db.rows, c)]
          /\ todo' = [todo EXCEPT ![p] = IF @ = {c} THEN Linked ELSE @ \ {c}]
          /\ pc' = [pc EXCEPT ![p] = IF todo[p] = {c} THEN "heads" ELSE "rows"]
    BY <1>7 DEF VerifyRows
  <2>2. pc[p] = "rows" /\ db' = db /\ disturbed' = disturbed /\ c \in Linked
    BY <1>1, <1>7, <2>1 DEF VerifyRows
  <2>3. seen'[p] = seen[p] \cup Group(db.rows, c)
    BY <1>1, <2>1
  <2>4. CASE todo[p] = {c}
    <3>1. pc'[p] = "heads" /\ todo'[p] = Linked
        BY <1>1, <2>1, <2>4
    <3>2. ~ disturbed[p] => SeenIs(p, Linked)'
        BY <2>2, <2>3, <2>4 DEF SeenFits, SeenIs, Group
    <3> QED
        BY <2>2, <3>1, <3>2
  <2>5. CASE todo[p] # {c}
    <3>1. pc'[p] = "rows" /\ todo'[p] = todo[p] \ {c}
        BY <1>1, <2>1, <2>5
    <3>2. ~ disturbed[p] => SeenIs(p, Linked \ todo[p])'
        BY <2>2, <2>3, <3>1 DEF SeenFits, SeenIs, Group
    <3>3. todo'[p] # {}
        BY <2>1, <2>5, <3>1
    <3> QED
        BY <2>2, <3>1, <3>2, <3>3
  <2> QED
    BY <2>4, <2>5
<1>8. CASE VerifyHead(p)
  <2>1. PICK c \in todo[p] :
          /\ todo' = [todo EXCEPT ![p] = @ \ {c}]
          /\ pc' = [pc EXCEPT ![p] = IF todo[p] = {c} THEN "standalone" ELSE "heads"]
    BY <1>8 DEF VerifyHead
  <2>2. pc[p] = "heads" /\ db' = db /\ disturbed' = disturbed /\ seen' = seen
    BY <1>8 DEF VerifyHead
  <2>3. todo'[p] = todo[p] \ {c} /\ pc'[p] = IF todo[p] = {c} THEN "standalone" ELSE "heads"
    BY <1>1, <2>1
  <2> QED
    BY <2>1, <2>2, <2>3 DEF SeenFits, SeenIs
<1> QED
    BY <1>2, <1>3, <1>4, <1>5, <1>6, <1>7, <1>8 DEF Acts

\* What undisturbed verifications have read stays what is committed.
LEMMA StepSeen ==
    ASSUME TypeOK, SeenFits, [Next]_vars
    PROVE  SeenFits'
<1>1. CASE UNCHANGED vars
    BY <1>1 DEF vars, SeenFits, SeenIs
<1>2. CASE Next
  <2>1. PICK p \in Processes : Acts(p)
    BY <1>2 DEF Next, Acts
  <2>2. ASSUME NEW q \in Processes, q # p
        PROVE  /\ pc'[q] \notin {"rows", "heads", "standalone"} => seen'[q] = {}
               /\ pc'[q] = "rows" /\ ~ disturbed'[q] => SeenIs(q, Linked \ todo[q])'
               /\ pc'[q] = "heads" /\ ~ disturbed'[q] => SeenIs(q, Linked)'
               /\ pc'[q] \in {"rows", "heads"} /\ Linked # {} => todo'[q] # {}
    <3>1. /\ pc'[q] = pc[q] /\ todo'[q] = todo[q] /\ seen'[q] = seen[q]
          /\ disturbed[q] => disturbed'[q]
          /\ db' # db /\ todo[q] # {} => disturbed'[q]
        BY <2>1, <2>2, OthersUntouched
    <3>2. CASE db' = db
        BY <3>1, <3>2 DEF SeenFits, SeenIs
    <3>3. CASE db' # db /\ Linked # {}
        BY <3>1, <3>3 DEF SeenFits
    <3>4. CASE Linked = {}
        BY <3>1, <3>4 DEF SeenFits, SeenIs
    <3> QED
        BY <3>2, <3>3, <3>4
  <2>3. /\ pc'[p] \notin {"rows", "heads", "standalone"} => seen'[p] = {}
        /\ pc'[p] = "rows" /\ ~ disturbed'[p] => SeenIs(p, Linked \ todo[p])'
        /\ pc'[p] = "heads" /\ ~ disturbed'[p] => SeenIs(p, Linked)'
        /\ pc'[p] \in {"rows", "heads"} /\ Linked # {} => todo'[p] # {}
    BY <2>1, VerifierSees
  <2> QED
    BY <2>2, <2>3 DEF SeenFits
<1> QED
    BY <1>1, <1>2

\* A verification raises LedgerIntegrityError only if somebody committed while
\* it read: whatever the file holds verifies.
THEOREM AlarmsAreTrue == Spec => AlarmsNeedAWriter
<1> DEFINE Safe == Inv /\ AllVerify /\ SeenFits
<1>1. Safe => \A p \in Processes : VerifyRaises(p) => disturbed[p]
  <2> SUFFICES ASSUME Safe, NEW p \in Processes, VerifyRaises(p), ~ disturbed[p]
               PROVE  FALSE
    BY DEF Inv, TypeOK
  <2>1. CASE pc[p] = "heads" /\ \E c \in todo[p] : ~ HeadFits(p, c)
    <3>1. PICK c \in todo[p] : ~ HeadFits(p, c)
        BY <2>1
    <3>2. c \in Linked
        BY <2>1, <3>1 DEF Inv, TypeOK
    <3>3. Group(seen[p], c) = Group(db.rows, c)
        BY <2>1, <3>2 DEF SeenFits, SeenIs, Group
    <3>4. ValidLinkedGroup(db.rows, c, db.heads[c])
        BY <3>2 DEF AllVerify, Verifies
    <3> QED
        BY <3>1, <3>3, <3>4, OnlyTheGroupCounts DEF HeadFits
  <2>2. CASE \E c \in Mutable : ~ ValidStandalone(db.rows, c)
    BY <2>2 DEF AllVerify, Verifies
  <2> QED
    BY <2>1, <2>2 DEF VerifyRaises
<1>2. Init => Safe
    BY InitInv, InitSeen
<1>3. Safe /\ [Next]_vars => Safe'
    BY StepInv, StepVerifies, StepSeen DEF Inv
<1> QED
    BY <1>1, <1>2, <1>3, PTL DEF Spec, AlarmsNeedAWriter
=============================================================================
