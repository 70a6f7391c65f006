----------------------- MODULE JsonScopedLedgerProofs -----------------------
(***************************************************************************)
(* What TLAPS proves of JsonScopedLedger for every set of threads,         *)
(* collections, keys, payloads and calls, when all threads write through   *)
(* one engine.  (With two engines on one file DiskVerifies is false.)      *)
(***************************************************************************)
EXTENDS JsonScopedLedger, ScopedRowsProofs, TLAPS

OneEngine == \A s, t \in Threads : EngineOf[s] = EngineOf[t]

LEMMA Unread ==
    /\ \A S \in State : S \notin NotJson
    /\ Absent # Truncated /\ Absent # Garbled
<1>1. ASSUME NEW S \in State PROVE DOMAIN S = {"rows", "heads"}
    BY DEF State
<1>2. DOMAIN Absent = {"unread"} /\ DOMAIN Truncated = {"unread"} /\ DOMAIN Garbled = {"unread"}
    BY DEF Absent, Truncated, Garbled
<1>3. Absent.unread = "no such file" /\ Truncated.unread = "empty"
      /\ Garbled.unread = "two writes over one another"
    BY DEF Absent, Truncated, Garbled
<1> QED
    BY <1>1, <1>2, <1>3 DEF NotJson

LEMMA EmptyIsState == EmptyState \in State
BY DEF EmptyState, State, NoHead, ChainHead, NoHash, Hash

(***************************************************************************)
(* A call leaves a state that was written in one of the ways of Written.   *)
(***************************************************************************)
LEMMA Extends ==
    ASSUME NEW S \in State, NEW c \in Linked, NEW k \in Keys, NEW p \in Payloads, NEW T,
           T = Extended(S, c, LinkedRow(c, k, p, S.heads[c]))
    PROVE  T \in State /\ Chained(S, T)
<1> DEFINE row == LinkedRow(c, k, p, S.heads[c])
<1>1. S.heads \in [Linked -> ChainHead] /\ S.rows \in SUBSET Row
    BY DEF State
<1>2. row \in Row
    BY <1>1, CollectionsApart, BuiltRowsAreRows
<1>3. [seq |-> row.seq, hash |-> row.hash] \in ChainHead
    BY <1>2 DEF Row, ChainHead
<1> HIDE DEF row
<1>4. T = [rows |-> S.rows \cup {row},
           heads |-> [S.heads EXCEPT ![c] = [seq |-> row.seq, hash |-> row.hash]]]
    BY DEF Extended, row
<1>5. T \in State
    BY <1>1, <1>2, <1>3, <1>4 DEF State
<1>6. /\ T.rows = S.rows \cup {row}
      /\ T.heads = [S.heads EXCEPT ![c] = [seq |-> row.seq, hash |-> row.hash]]
    BY <1>4
<1> QED
    BY <1>5, <1>6 DEF Chained, row

LEMMA CallsWrite ==
    ASSUME NEW S \in State, NEW cl \in Calls, NEW T \in Effects(S, cl)
    PROVE  T \in State /\ Written(S, T)
<1>0. S.heads \in [Linked -> ChainHead] /\ S.rows \in SUBSET Row
    BY DEF State
<1>1. /\ cl.op \in {"append", "cas"}
      /\ cl.op = "cas" => cl.coll \in Mutable
      /\ cl.coll \in Collections /\ cl.key \in Keys /\ cl.payload \in Payloads
  <2>1. \/ cl \in [op : {"append"}, coll : Collections, key : Keys, payload : Payloads,
                  version : Nat, was : SUBSET Payloads]
        \/ cl \in [op : {"cas"}, coll : Mutable, key : Keys, payload : Payloads,
                  version : Nat, was : SUBSET Payloads]
    BY JsonScopedLedgerAssumption DEF JsonScopedLedgerAssumption
  <2> QED
    BY <2>1, CollectionsApart
<1>2. CASE cl.op = "append"
  <2>1. T \in Appended(S, cl)
    BY <1>2 DEF Effects
  <2>2. CASE T = S
    BY <2>2 DEF Written
  <2>3. CASE T # S /\ cl.coll \in Linked
    <3>1. T = Extended(S, cl.coll, LinkedRow(cl.coll, cl.key, cl.payload, S.heads[cl.coll]))
        BY <2>1, <2>3 DEF Appended
    <3> QED
        BY <1>1, <2>3, <3>1, Extends DEF Written
  <2>4. CASE T # S /\ cl.coll \notin Linked
    <3>1. cl.coll \in Mutable
        BY <1>1, <2>4 DEF Collections
    <3>2. PICK n \in NextMutableSequence(S.rows, cl.coll) :
              T = [S EXCEPT !.rows = @ \cup {StandaloneRow(cl.coll, cl.key, cl.payload, n)}]
        BY <2>1, <2>4 DEF Appended
    <3>3. n \in Nat
      <4>1. \A r \in S.rows : r.seq \in Nat
        BY <1>0 DEF Row
      <4> QED
        BY <4>1 DEF NextMutableSequence, Group
    <3> DEFINE row == StandaloneRow(cl.coll, cl.key, cl.payload, n)
    <3>4. row \in Row
        BY <1>1, <3>3, BuiltRowsAreRows
    <3> HIDE DEF row
    <3>5. T = [rows |-> S.rows \cup {row}, heads |-> S.heads]
        BY <3>2 DEF State, row
    <3>6. T \in State
        BY <1>0, <3>4, <3>5 DEF State
    <3>7. T.rows = S.rows \cup {row} /\ T.heads = S.heads
        BY <3>5
    <3> QED
        BY <1>1, <3>1, <3>3, <3>6, <3>7 DEF Written, StoodAlone, row
  <2> QED
    BY <2>2, <2>3, <2>4
<1>3. CASE cl.op = "cas"
  <2> DEFINE old == Matching(S, cl)
             new == {Replaced(r, cl.payload) : r \in old}
  <2>1. T = [S EXCEPT !.rows = (@ \ old) \cup new]
    BY <1>3 DEF Effects, Swapped
  <2>2. \A r \in old : r \in S.rows /\ r.coll \in Mutable /\ r \in Row
    BY <1>0, <1>1, <1>3 DEF Matching, At, Group
  <2>3. new \in SUBSET Row
    <3>1. \A r \in old : r.coll \in Collections /\ r.key \in Keys
        BY <2>2 DEF Row
    <3> QED
        BY <1>1, <2>2, <3>1, BuiltRowsAreRows
  <2>4. old \in SUBSET {r \in S.rows : r.coll \in Mutable}
    BY <2>2
  <2> HIDE DEF old
  <2>5. T = [rows |-> (S.rows \ old) \cup new, heads |-> S.heads]
    BY <2>1 DEF State
  <2>6. T \in State
    BY <1>0, <2>3, <2>5 DEF State
  <2>7. T.rows = (S.rows \ old) \cup {Replaced(r, cl.payload) : r \in old} /\ T.heads = S.heads
    BY <2>5
  <2> QED
    BY <1>1, <2>4, <2>6, <2>7 DEF Written, Replacing
<1> QED
    BY <1>1, <1>2, <1>3

-----------------------------------------------------------------------------
(***************************************************************************)
(* Every variable has its type, however many engines there are.            *)
(***************************************************************************)
LEMMA InitTyped == Init => TypeOK
BY EmptyIsState, Unread, JsonScopedLedgerAssumption
   DEF Init, TypeOK, NotJson, JsonScopedLedgerAssumption

LEMMA ReleaseTyped ==
    ASSUME TypeOK, NEW t \in Threads, Release(t)
    PROVE  /\ copy' \in [Threads -> State]
           /\ lock' \in [Engines -> Threads \cup {NoThread}]
           /\ pc' \in [Threads -> {"idle", "single", "open", "write", "fill", "rename"}]
           /\ left' \in [Threads -> 0..MaxCalls]
           /\ fd' \in [Threads -> {"none", "tmp", "ledger", "gone"}]
<1>1. EngineOf[t] \in Engines /\ 0 \in 0..MaxCalls
    BY JsonScopedLedgerAssumption DEF JsonScopedLedgerAssumption
<1> QED
    BY <1>1, EmptyIsState DEF Release, TypeOK

LEMMA StepTyped == TypeOK /\ [Next]_vars => TypeOK'
<1> SUFFICES ASSUME TypeOK, [Next]_vars PROVE TypeOK'
    OBVIOUS
<1>0. /\ EngineOf \in [Threads -> Engines] /\ MaxCalls \in Nat
      /\ disk \notin NotJson => disk \in State
    BY JsonScopedLedgerAssumption DEF JsonScopedLedgerAssumption, TypeOK
<1>1. ASSUME NEW t \in Threads, Enter(t) PROVE TypeOK'
    BY <1>0, <1>1 DEF Enter, TypeOK
<1>2. ASSUME NEW t \in Threads, Call(t) PROVE TypeOK'
  <2>1. PICK S \in State : copy' = [copy EXCEPT ![t] = S]
    BY <1>2, CallsWrite DEF Call, TypeOK
  <2> QED
    BY <1>0, <1>2, <2>1 DEF Call, TypeOK
<1>3. ASSUME NEW t \in Threads, SingleCall(t) PROVE TypeOK'
  <2>1. \/ Release(t)
        \/ \E S \in State : /\ copy' = [copy EXCEPT ![t] = S]
                            /\ pc' = [pc EXCEPT ![t] = "write"]
                            /\ UNCHANGED <<lock, left, fd>>
    BY <1>3, CallsWrite DEF SingleCall, TypeOK
  <2>3. UNCHANGED <<disk, tmp>>
    BY <1>3 DEF SingleCall
  <2>4. CASE Release(t)
    BY <2>3, <2>4, ReleaseTyped DEF TypeOK
  <2> QED
    BY <2>1, <2>3, <2>4 DEF TypeOK
<1>4. ASSUME NEW t \in Threads, Return(t) PROVE TypeOK'
    BY <1>4 DEF Return, TypeOK
<1>5. ASSUME NEW t \in Threads, Raise(t) PROVE TypeOK'
    BY <1>5, ReleaseTyped DEF Raise, TypeOK
<1>6. ASSUME NEW t \in Threads, OpenTmp(t) PROVE TypeOK'
    BY <1>6 DEF OpenTmp, TypeOK, NotJson
<1>7. ASSUME NEW t \in Threads, FillTmp(t) PROVE TypeOK'
  <2>1. \A f \in (State \cup NotJson) \ {Absent} :
            Onto(f, copy[t]) \subseteq (State \cup NotJson) \ {Absent}
    BY Unread DEF Onto, TypeOK, NotJson
  <2>2. tmp' \in State \cup NotJson /\ disk' \in (State \cup NotJson) \ {Absent}
    BY <1>7, <2>1, Unread DEF FillTmp, TypeOK, Onto, NotJson
  <2> QED
    BY <1>7, <2>2 DEF FillTmp, TypeOK
<1>8. ASSUME NEW t \in Threads, Rename(t) PROVE TypeOK'
  <2>1. CASE tmp = Absent
    BY <1>8, <2>1, ReleaseTyped DEF Rename, TypeOK
  <2>2. CASE tmp # Absent
    <3>1. fd' \in [Threads -> {"none", "tmp", "ledger", "gone"}]
      <4> DEFINE CalledNow(s) == IF fd[s] = "tmp" THEN "ledger"
                                 ELSE IF fd[s] = "ledger" THEN "gone" ELSE fd[s]
      <4>1. \A s \in Threads : CalledNow(s) \in {"none", "tmp", "ledger", "gone"}
        BY DEF TypeOK
      <4>2. fd' = [s \in Threads |-> CalledNow(s)]
        BY <1>8, <2>2 DEF Rename
      <4> HIDE DEF CalledNow
      <4> QED
        BY <4>1, <4>2
    <3>2. disk' = tmp /\ tmp' = Absent
      BY <1>8, <2>2 DEF Rename
    <3>3. 0 \in 0..MaxCalls /\ EngineOf[t] \in Engines
      BY <1>0
    <3>4. /\ copy' \in [Threads -> State]
          /\ lock' \in [Engines -> Threads \cup {NoThread}]
          /\ pc' \in [Threads -> {"idle", "single", "open", "write", "fill", "rename"}]
          /\ left' \in [Threads -> 0..MaxCalls]
      BY <1>8, <2>2, <3>3, EmptyIsState DEF Rename, TypeOK
    <3>5. disk' \in (State \cup NotJson) \ {Absent} /\ tmp' \in State \cup NotJson
      BY <2>2, <3>2 DEF TypeOK, NotJson
    <3> QED
      BY <3>1, <3>4, <3>5 DEF TypeOK
  <2> QED
    BY <2>1, <2>2
<1>9. CASE Crash
    BY <1>0, <1>9, EmptyIsState DEF Crash, TypeOK
<1>10. CASE UNCHANGED vars
    BY <1>10 DEF vars, TypeOK
<1> QED
    BY <1>1, <1>2, <1>3, <1>4, <1>5, <1>6, <1>7, <1>8, <1>9, <1>10 DEF Next

(***************************************************************************)
(* Every variable has its type, however many engines write to the file.    *)
(***************************************************************************)
THEOREM Typing == Spec => []TypeOK
BY InitTyped, StepTyped, PTL DEF Spec

-----------------------------------------------------------------------------
(***************************************************************************)
(* With one engine: who is not idle has its lock, so one thread at a time  *)
(* has a copy, and the temporary file to itself.                           *)
(***************************************************************************)
Alone ==
    /\ \A t \in Threads : pc[t] # "idle" <=> lock[EngineOf[t]] = t
    /\ \A t \in Threads :
          /\ fd[t] = IF pc[t] = "fill" THEN "tmp" ELSE "none"
          /\ pc[t] = "fill" => tmp = Truncated
          /\ pc[t] = "rename" => tmp = copy[t]
          /\ pc[t] = "idle" => copy[t] = EmptyState

WholeFiles == disk \in State /\ Verifies(disk) /\ \A t \in Threads : Verifies(copy[t])

JsonInv == TypeOK /\ Alone /\ WholeFiles

LEMMA OneAtATime ==
    ASSUME OneEngine, Alone, NEW s \in Threads, NEW t \in Threads, pc[s] # "idle", pc[t] # "idle"
    PROVE  s = t
BY DEF OneEngine, Alone

\* The steps, by what they do to the copy of a thread, the lock and the files.
Enters(t) ==
    /\ \A s \in Threads : pc[s] = "idle"
    /\ lock' = [lock EXCEPT ![EngineOf[t]] = t]
    /\ copy' = [copy EXCEPT ![t] = disk]
    /\ \E p \in {"single", "open"} : pc' = [pc EXCEPT ![t] = p]
    /\ UNCHANGED <<disk, tmp, fd>>

Edits(t) ==
    /\ pc[t] \in {"single", "open"}
    /\ \E S \in State : Written(copy[t], S) /\ copy' = [copy EXCEPT ![t] = S]
    /\ \E p \in {"open", "write"} : pc' = [pc EXCEPT ![t] = p]
    /\ UNCHANGED <<disk, tmp, lock, fd>>

Fills(t) ==
    /\ pc[t] = "fill"
    /\ tmp' = copy[t] /\ disk' = disk
    /\ fd' = [fd EXCEPT ![t] = "none"]
    /\ pc' = [pc EXCEPT ![t] = "rename"]
    /\ UNCHANGED <<lock, copy>>

Leaves(t) ==
    /\ pc[t] # "idle"
    /\ pc' = [pc EXCEPT ![t] = "idle"]
    /\ lock' = [lock EXCEPT ![EngineOf[t]] = NoThread]
    /\ copy' = [copy EXCEPT ![t] = EmptyState]
    /\ fd' = [s \in Threads |-> "none"]
    /\ disk' = disk \/ disk' = copy[t]

LEMMA StepKinds ==
    ASSUME OneEngine, JsonInv, Next
    PROVE  \/ \E t \in Threads : Enters(t) \/ Edits(t) \/ OpenTmp(t) \/ Fills(t) \/ Leaves(t)
           \/ Crash
<1>0. TypeOK /\ Alone /\ disk \in State /\ NoThread \notin Threads
    BY JsonScopedLedgerAssumption DEF JsonInv, WholeFiles, JsonScopedLedgerAssumption
<1>1. ASSUME NEW t \in Threads, Release(t), pc[t] \in {"single", "open"}, UNCHANGED <<disk, tmp>>
      PROVE  Leaves(t)
  <2>1. \A s \in Threads : fd[s] = "none"
    BY <1>0, <1>1, OneAtATime DEF Alone
  <2>2. fd' = [s \in Threads |-> "none"]
    BY <1>0, <1>1, <2>1 DEF Release, TypeOK
  <2> QED
    BY <1>1, <2>2 DEF Release, Leaves
<1>2. ASSUME NEW t \in Threads, Enter(t) PROVE Enters(t)
  <2>1. \A s \in Threads : pc[s] = "idle"
    BY <1>0, <1>2 DEF Enter, Alone, OneEngine
  <2> QED
    BY <1>2, <2>1 DEF Enter, Enters
<1>3. ASSUME NEW t \in Threads, Call(t) PROVE Edits(t)
  <2>1. \E S \in State : Written(copy[t], S) /\ copy' = [copy EXCEPT ![t] = S]
    BY <1>0, <1>3, CallsWrite DEF Call, TypeOK
  <2>3. pc' = [pc EXCEPT ![t] = "open"]
    BY <1>0, <1>3 DEF Call, TypeOK
  <2> QED
    BY <1>3, <2>1, <2>3 DEF Call, Edits
<1>4. ASSUME NEW t \in Threads, SingleCall(t) PROVE Edits(t) \/ Leaves(t)
  <2>1. \/ Release(t)
        \/ \E S \in State : /\ Written(copy[t], S)
                            /\ copy' = [copy EXCEPT ![t] = S]
                            /\ pc' = [pc EXCEPT ![t] = "write"]
                            /\ UNCHANGED <<lock, left, fd>>
    BY <1>0, <1>4, CallsWrite DEF SingleCall, TypeOK
  <2>3. UNCHANGED <<disk, tmp>> /\ pc[t] = "single"
    BY <1>4 DEF SingleCall
  <2> QED
    BY <1>1, <2>1, <2>3 DEF Edits
<1>5. ASSUME NEW t \in Threads, Return(t) PROVE Edits(t)
  <2>1. copy' = [copy EXCEPT ![t] = copy[t]] /\ copy[t] \in State /\ Written(copy[t], copy[t])
    BY <1>0, <1>5 DEF Return, TypeOK, Written
  <2> QED
    BY <1>5, <2>1 DEF Return, Edits
<1>6. ASSUME NEW t \in Threads, Raise(t) PROVE Leaves(t)
    BY <1>1, <1>6 DEF Raise
<1>7. ASSUME NEW t \in Threads, FillTmp(t) PROVE Fills(t)
    BY <1>0, <1>7 DEF FillTmp, Fills, Alone, Onto
<1>8. ASSUME NEW t \in Threads, Rename(t) PROVE Leaves(t)
  <2>1. tmp = copy[t] /\ tmp # Absent /\ \A s \in Threads : fd[s] = "none"
    <3>1. pc[t] = "rename"
      BY <1>8 DEF Rename
    <3>2. tmp = copy[t] /\ copy[t] \in State
      BY <1>0, <3>1 DEF Alone, TypeOK
    <3> QED
      BY <1>0, <3>1, <3>2, Unread, OneAtATime DEF Alone, NotJson
  <2>2. fd' = [s \in Threads |-> "none"]
    BY <1>8, <2>1 DEF Rename
  <2> QED
    BY <1>8, <2>1, <2>2 DEF Rename, Leaves
<1> QED
    BY <1>2, <1>3, <1>4, <1>5, <1>6, <1>7, <1>8 DEF Next

LEMMA EmptyIsWhole == EmptyState \in State /\ Verifies(EmptyState)
BY EmptyIsState, EmptyVerifies

LEMMA InitJson == Init => JsonInv
<1> SUFFICES ASSUME Init PROVE JsonInv
    OBVIOUS
<1>1. Alone
    BY JsonScopedLedgerAssumption DEF Init, Alone, JsonScopedLedgerAssumption
<1>2. WholeFiles
    BY EmptyIsWhole DEF Init, WholeFiles
<1> QED
    BY <1>1, <1>2, InitTyped DEF JsonInv

LEMMA StepAlone ==
    ASSUME OneEngine, JsonInv, [Next]_vars
    PROVE  Alone'
<1>0. /\ TypeOK /\ Alone /\ NoThread \notin Threads
      /\ EngineOf \in [Threads -> Engines]
      /\ \A s, t \in Threads : EngineOf[s] = EngineOf[t]
    BY JsonScopedLedgerAssumption DEF JsonInv, JsonScopedLedgerAssumption, OneEngine
<1>1. DOMAIN pc = Threads /\ DOMAIN copy = Threads /\ DOMAIN fd = Threads /\ DOMAIN lock = Engines
    BY <1>0 DEF TypeOK
<1>2. ASSUME NEW t \in Threads, Enters(t) PROVE Alone'
    BY <1>0, <1>1, <1>2 DEF Enters, Alone
<1>3. ASSUME NEW t \in Threads, Edits(t) PROVE Alone'
  <2>1. /\ pc[t] # "idle" /\ pc'[t] \in {"open", "write"}
        /\ \A s \in Threads : s # t => pc'[s] = pc[s] /\ copy'[s] = copy[s]
        /\ lock' = lock /\ fd' = fd /\ tmp' = tmp /\ pc[t] \notin {"fill", "rename"}
    BY <1>1, <1>3 DEF Edits
  <2> QED
    BY <1>0, <2>1 DEF Alone
<1>4. ASSUME NEW t \in Threads, OpenTmp(t) PROVE Alone'
  <2>1. \A s \in Threads : s # t => pc[s] = "idle"
    BY <1>0, <1>4, OneAtATime DEF OpenTmp
  <2>2. /\ pc[t] = "write" /\ pc'[t] = "fill" /\ fd'[t] = "tmp" /\ tmp' = Truncated
        /\ \A s \in Threads : s # t => pc'[s] = pc[s] /\ fd'[s] = fd[s]
        /\ lock' = lock /\ copy' = copy
    BY <1>1, <1>4 DEF OpenTmp
  <2> QED
    BY <1>0, <2>1, <2>2 DEF Alone
<1>5. ASSUME NEW t \in Threads, Fills(t) PROVE Alone'
  <2>1. \A s \in Threads : s # t => pc[s] = "idle"
    BY <1>0, <1>5, OneAtATime DEF Fills
  <2>2. /\ pc[t] = "fill" /\ pc'[t] = "rename" /\ fd'[t] = "none" /\ tmp' = copy[t]
        /\ \A s \in Threads : s # t => pc'[s] = pc[s] /\ fd'[s] = fd[s]
        /\ lock' = lock /\ copy' = copy
    BY <1>1, <1>5 DEF Fills
  <2> QED
    BY <1>0, <2>1, <2>2 DEF Alone
<1>6. ASSUME NEW t \in Threads, Leaves(t) PROVE Alone'
  <2>1. \A s \in Threads : s # t => pc[s] = "idle"
    BY <1>0, <1>6, OneAtATime DEF Leaves
  <2>2. \A s \in Threads : pc'[s] = "idle" /\ copy'[s] = EmptyState /\ fd'[s] = "none"
    BY <1>0, <1>1, <1>6, <2>1 DEF Leaves, Alone
  <2>3. \A s \in Threads : lock'[EngineOf[s]] = NoThread
    BY <1>0, <1>1, <1>6 DEF Leaves
  <2> QED
    BY <1>0, <2>2, <2>3 DEF Alone
<1>7. CASE Crash
  <2>1. \A s \in Threads : pc'[s] = "idle" /\ copy'[s] = EmptyState /\ fd'[s] = "none"
                           /\ lock'[EngineOf[s]] = NoThread
    BY <1>0, <1>7 DEF Crash
  <2> QED
    BY <1>0, <2>1 DEF Alone
<1>8. CASE UNCHANGED vars
    BY <1>0, <1>8 DEF vars, Alone
<1> QED
    BY <1>2, <1>3, <1>4, <1>5, <1>6, <1>7, <1>8, StepKinds

LEMMA StepWhole ==
    ASSUME OneEngine, JsonInv, [Next]_vars
    PROVE  WholeFiles'
<1>0. TypeOK /\ WholeFiles /\ DOMAIN copy = Threads
    BY DEF JsonInv, TypeOK
<1>1. ASSUME NEW t \in Threads, Enters(t) PROVE WholeFiles'
    BY <1>0, <1>1 DEF Enters, WholeFiles, Verifies
<1>2. ASSUME NEW t \in Threads, Edits(t) PROVE WholeFiles'
  <2>1. PICK S \in State : Written(copy[t], S) /\ copy' = [copy EXCEPT ![t] = S]
    BY <1>2 DEF Edits
  <2>2. Verifies(S)
    BY <1>0, <2>1, WrittenVerifies DEF WholeFiles, TypeOK
  <2>3. \A s \in Threads : Verifies(copy'[s])
    BY <1>0, <2>1, <2>2 DEF WholeFiles
  <2> QED
    BY <1>0, <1>2, <2>3 DEF Edits, WholeFiles, Verifies
<1>3. ASSUME NEW t \in Threads, OpenTmp(t) \/ Fills(t) PROVE WholeFiles'
    BY <1>0, <1>3 DEF OpenTmp, Fills, WholeFiles, Verifies
<1>4. ASSUME NEW t \in Threads, Leaves(t) PROVE WholeFiles'
  <2>1. \A s \in Threads : Verifies(copy'[s])
    BY <1>0, <1>4, EmptyIsWhole DEF Leaves, WholeFiles
  <2>2. disk' \in State /\ Verifies(disk')
    BY <1>0, <1>4 DEF Leaves, WholeFiles, TypeOK
  <2> QED
    BY <2>1, <2>2 DEF WholeFiles, Verifies
<1>5. CASE Crash
  <2>1. \A s \in Threads : Verifies(copy'[s])
    BY <1>5, EmptyIsWhole DEF Crash
  <2>2. disk' \in State /\ Verifies(disk')
    BY <1>0, <1>5 DEF Crash, WholeFiles
  <2> QED
    BY <2>1, <2>2 DEF WholeFiles, Verifies
<1>6. CASE UNCHANGED vars
    BY <1>0, <1>6 DEF vars, WholeFiles, Verifies
<1> QED
    BY <1>1, <1>2, <1>3, <1>4, <1>5, <1>6, StepKinds

LEMMA StepJson == OneEngine /\ JsonInv /\ [Next]_vars => JsonInv'
BY StepTyped, StepAlone, StepWhole DEF JsonInv

(***************************************************************************)
(* With one engine the ledger file parses and verifies at every moment:    *)
(* between the statements of a write, after any call and after a crash.    *)
(***************************************************************************)
THEOREM FileVerifies == OneEngine => (Spec => []DiskVerifies)
<1>1. JsonInv => DiskVerifies
    BY Unread DEF JsonInv, WholeFiles, Verifies, DiskVerifies
<1> SUFFICES ASSUME OneEngine PROVE Spec => []DiskVerifies
    OBVIOUS
<1>2. JsonInv /\ [Next]_vars => JsonInv'
    BY StepJson
<1> QED
    BY <1>1, <1>2, InitJson, PTL DEF Spec

-----------------------------------------------------------------------------
(***************************************************************************)
(* The engine implements LedgerCommit: whoever has the lock has every      *)
(* chain claimed, and the rename publishes the copy, whole.                *)
(***************************************************************************)
LEMMA InitRefines == Init => Abstract!Init
<1> SUFFICES ASSUME Init PROVE Abstract!Init
    OBVIOUS
<1>1. \A c \in Linked : EmptyState.heads[c].hash = << >>
    BY DEF EmptyState, NoHead, NoHash
<1>2. [c \in Linked |-> disk.heads[c].hash] = [c \in Linked |-> << >>]
    BY <1>1 DEF Init
<1>3. [t \in Threads |-> IF pc[t] = "idle" THEN {} ELSE Linked] = [t \in Threads |-> {}]
    BY DEF Init
<1>4. [t \in Threads |-> [c \in Linked |-> copy[t].heads[c].hash]]
        = [t \in Threads |-> [c \in Linked |-> << >>]]
    BY <1>1 DEF Init
<1> QED
    BY <1>2, <1>3, <1>4 DEF Abstract!Init, Abstract!Empty

LEMMA StepRefines ==
    ASSUME OneEngine, JsonInv, [Next]_vars
    PROVE  [Abstract!Next]_(Abstract!vars)
<1> DEFINE log == [c \in Linked |-> disk.heads[c].hash]
           claimed == [t \in Threads |-> IF pc[t] = "idle" THEN {} ELSE Linked]
           draft == [t \in Threads |-> [c \in Linked |-> copy[t].heads[c].hash]]
<1>0. TypeOK /\ Alone /\ DOMAIN copy = Threads /\ DOMAIN pc = Threads
    BY DEF JsonInv, TypeOK
<1>1. ASSUME NEW t \in Threads, Enters(t) PROVE Abstract!Claim(t, Linked)
  <2>1. copy' = [copy EXCEPT ![t] = disk] /\ log' = log
    BY <1>1 DEF Enters
  <2>2. \A s \in Threads : claimed[s] = {}
    BY <1>1 DEF Enters
  <2>3. claimed' = [claimed EXCEPT ![t] = @ \cup Linked]
    BY <1>0, <1>1 DEF Enters
  <2>4. draft' = [draft EXCEPT ![t] = [c \in Linked |-> IF c \in Linked THEN log[c] ELSE @[c]]]
    BY <1>0, <2>1
  <2> QED
    BY <2>1, <2>2, <2>3, <2>4 DEF Abstract!Claim
<1>2. ASSUME NEW t \in Threads, Edits(t) PROVE [Abstract!Next]_(Abstract!vars)
  <2>1. PICK S \in State : Written(copy[t], S) /\ copy' = [copy EXCEPT ![t] = S]
    BY <1>2 DEF Edits
  <2>2. log' = log /\ claimed' = claimed /\ pc[t] # "idle"
    BY <1>0, <1>2 DEF Edits
  <2>3. CASE S.heads = copy[t].heads
    <3>1. draft' = draft
      BY <1>0, <2>1, <2>3
    <3> QED
      BY <2>2, <3>1 DEF Abstract!vars
  <2>4. CASE \E c \in Linked, p \in Payloads : \A d \in Linked :
              S.heads[d].hash = IF d = c THEN Append(copy[t].heads[d].hash, p)
                                ELSE copy[t].heads[d].hash
    <3>1. PICK c \in Linked, p \in Payloads : \A d \in Linked :
              S.heads[d].hash = IF d = c THEN Append(copy[t].heads[d].hash, p)
                                ELSE copy[t].heads[d].hash
      BY <2>4
    <3>2. copy'[t] = S /\ \A s \in Threads \ {t} : copy'[s] = copy[s]
      BY <1>0, <2>1
    <3>3. draft' = [s \in Threads |-> [d \in Linked |->
              IF s = t /\ d = c THEN Append(copy[s].heads[d].hash, p) ELSE copy[s].heads[d].hash]]
      BY <3>1, <3>2
    <3>4. draft' = [draft EXCEPT ![t][c] = Append(@, p)]
      BY <3>3
    <3>5. c \in claimed[t]
      BY <2>2, <3>1
    <3>6. Abstract!Extend(t, c, p)
      BY <2>2, <3>4, <3>5 DEF Abstract!Extend
    <3> QED
      BY <3>1, <3>6 DEF Abstract!Next
  <2> QED
    BY <1>0, <2>1, <2>3, <2>4, WrittenHeads DEF TypeOK
<1>3. ASSUME NEW t \in Threads, OpenTmp(t) \/ Fills(t) PROVE UNCHANGED (Abstract!vars)
  <2>1. copy' = copy /\ disk' = disk /\ \A s \in Threads : pc'[s] = "idle" <=> pc[s] = "idle"
    BY <1>0, <1>3 DEF OpenTmp, Fills
  <2>2. claimed' = claimed /\ log' = log /\ draft' = draft
    BY <2>1
  <2> QED
    BY <2>2 DEF Abstract!vars
<1>4. ASSUME NEW t \in Threads,
             claimed' = [claimed EXCEPT ![t] = {}],
             \A s \in Threads : copy'[s] = IF s = t THEN EmptyState ELSE copy[s]
      PROVE  Abstract!Release(t)
  <2>0. \A c \in Linked : EmptyState.heads[c].hash = << >>
    BY DEF EmptyState, NoHead, NoHash
  <2>1. draft' = [draft EXCEPT ![t] = [c \in Linked |-> << >>]]
    <3>1. \A s \in Threads : [c \in Linked |-> copy'[s].heads[c].hash] =
              IF s = t THEN [c \in Linked |-> << >>] ELSE [c \in Linked |-> copy[s].heads[c].hash]
      BY <1>4, <2>0
    <3> QED
      BY <3>1
  <2> QED
    BY <1>4, <2>1 DEF Abstract!Release, Abstract!Empty
<1>5. ASSUME NEW t \in Threads, Leaves(t) PROVE Abstract!Publish(t) \/ Abstract!Discard(t)
  <2>1. claimed' = [claimed EXCEPT ![t] = {}]
    BY <1>0, <1>5 DEF Leaves
  <2>2. Abstract!Release(t)
    BY <1>0, <1>4, <1>5, <2>1 DEF Leaves
  <2>3. CASE disk' = disk
    BY <2>2, <2>3 DEF Abstract!Discard
  <2>4. CASE disk' = copy[t]
    <3>1. claimed[t] = Linked
      BY <1>5 DEF Leaves
    <3>2. log' = [c \in Linked |-> IF c \in claimed[t] THEN draft[t][c] ELSE log[c]]
      BY <2>4, <3>1
    <3> QED
      BY <2>2, <3>2 DEF Abstract!Publish
  <2> QED
    BY <1>5, <2>3, <2>4 DEF Leaves
<1>6. ASSUME Crash PROVE \E t \in Threads : Abstract!Discard(t)
  <2>1. PICK t \in Threads : pc[t] # "idle"
    BY <1>6 DEF Crash
  <2>2. \A s \in Threads \ {t} : pc[s] = "idle" /\ copy[s] = EmptyState
    BY <1>0, <2>1, OneAtATime DEF Alone
  <2>3. claimed' = [claimed EXCEPT ![t] = {}]
    BY <1>6, <2>2 DEF Crash
  <2>4. \A s \in Threads : copy'[s] = IF s = t THEN EmptyState ELSE copy[s]
    BY <1>6, <2>2 DEF Crash
  <2>5. log' = log
    BY <1>6 DEF Crash
  <2> QED
    BY <1>4, <2>3, <2>4, <2>5 DEF Abstract!Discard
<1>7. CASE UNCHANGED vars
    BY <1>7 DEF vars, Abstract!vars
<1> HIDE DEF log, claimed, draft
<1>8. CASE Next
  <2>1. (\E t \in Threads : Enters(t) \/ Edits(t) \/ OpenTmp(t) \/ Fills(t) \/ Leaves(t)) \/ Crash
    BY <1>8, StepKinds
  <2> QED
    BY <1>1, <1>2, <1>3, <1>5, <1>6, <2>1 DEF Abstract!Next
<1> QED
    BY <1>7, <1>8

\* With one engine every behaviour of the JSON ledger is one of the abstract one.
THEOREM Refinement == OneEngine => (Spec => ImplementsLedgerCommit)
<1> SUFFICES ASSUME OneEngine PROVE Spec => ImplementsLedgerCommit
    OBVIOUS
<1>1. JsonInv /\ [Next]_vars => JsonInv'
    BY StepJson
<1>2. JsonInv /\ [Next]_vars => [Abstract!Next]_(Abstract!vars)
    BY StepRefines
<1> QED
    BY <1>1, <1>2, InitJson, InitRefines, PTL DEF Spec, ImplementsLedgerCommit, Abstract!Spec
=============================================================================
