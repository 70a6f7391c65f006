------------------------ MODULE PgScopedLedgerProofs ------------------------
(***************************************************************************)
(* What TLAPS proves of PgScopedLedger for every set of workers,           *)
(* collections, keys, payloads, lock sets and calls, and at the end of     *)
(* PgReplayReads, which composes the engine with the replay service.       *)
(***************************************************************************)
EXTENDS PgReplayReads, ScopedRowsProofs, FiniteSetTheorems, WellFoundedInduction, TLAPS

LEMMA CallsTyped ==
    \A cl \in Calls : /\ cl.op \in {"append", "cas"}
                      /\ cl.coll \in Collections
                      /\ cl.key \in Keys
                      /\ cl.payload \in Payloads
                      /\ WriteLocks(cl.coll, cl.key) \subseteq Lock
<1> SUFFICES ASSUME NEW cl \in Calls
             PROVE  /\ cl.op \in {"append", "cas"}
                    /\ cl.coll \in Collections
                    /\ cl.key \in Keys
                    /\ cl.payload \in Payloads
                    /\ WriteLocks(cl.coll, cl.key) \subseteq Lock
    OBVIOUS
<1>1. /\ cl.op \in {"append", "cas"}
      /\ cl.coll \in Collections
      /\ cl.key \in Keys
      /\ cl.payload \in Payloads
    BY PgScopedLedgerAssumption
<1> QED
    BY <1>1 DEF WriteLocks, Lock, Canonical, Chain

LEMMA ViewTyped ==
    ASSUME TypeOK, NEW w \in Workers
    PROVE  View(w) \subseteq Row
BY DEF TypeOK, View, Over

LEMMA HeadSeenTyped ==
    ASSUME TypeOK, NEW w \in Workers, NEW c \in Linked
    PROVE  HeadSeen(w, c) \in ChainHead
BY DEF TypeOK, HeadSeen

LEMMA NoHeadsTyped == NoHeads \in [Linked -> ChainHead]
BY DEF NoHeads, NoHead, ChainHead, NoHash, Hash

-----------------------------------------------------------------------------
LEMMA InitType == Init => TypeOK
BY NoHeadsTyped DEF Init, TypeOK

LEMMA EndedType ==
    ASSUME TypeOK, NEW w \in Workers, Ended(w),
           rows' \subseteq Row, heads' \in [Linked -> ChainHead]
    PROVE  TypeOK'
BY NoHeadsTyped DEF TypeOK, Ended

(***************************************************************************)
(* A worker in the middle of a call has one.                               *)
(***************************************************************************)
CallUnderWay == \A w \in Workers : phase[w] \in {"called", "selected"} => call[w] \in Calls

TypeInv == TypeOK /\ CallUnderWay

LEMMA NextType == TypeInv /\ [Next]_vars => TypeInv'
<1> SUFFICES ASSUME TypeOK, CallUnderWay, [Next]_vars PROVE TypeOK' /\ CallUnderWay'
    BY DEF TypeInv
<1>1. CASE UNCHANGED vars
    BY <1>1 DEF TypeOK, CallUnderWay, vars, local
<1> SUFFICES ASSUME NEW w \in Workers,
                    Begin(w) \/ BeginStandalone(w) \/ AcquireLock(w) \/ Call(w)
                       \/ Step(w) \/ Rollback(w)
             PROVE  TypeOK' /\ CallUnderWay'
    BY <1>1 DEF Next
<1>2. CASE Begin(w)
    BY <1>2, PgScopedLedgerAssumption DEF TypeOK, CallUnderWay, Begin
<1>3. CASE BeginStandalone(w)
    BY <1>3, CallsTyped DEF TypeOK, CallUnderWay, BeginStandalone
<1>4. CASE AcquireLock(w)
    BY <1>4 DEF TypeOK, CallUnderWay, AcquireLock
<1>5. CASE Call(w)
    BY <1>5 DEF TypeOK, CallUnderWay, Call
<1>6. CASE AllLocksHeld(w)
    BY <1>6 DEF TypeOK, CallUnderWay, AllLocksHeld
<1>7. CASE AppendExisting(w)
    BY <1>7 DEF TypeOK, CallUnderWay, AppendExisting, Returned
<1>8. CASE AppendSelect(w)
  <2> DEFINE cl == call[w]
  <2>1. cl \in Calls /\ cl.coll \in Collections /\ cl.key \in Keys /\ cl.payload \in Payloads
    BY <1>8, CallsTyped DEF CallUnderWay, AppendSelect
  <2>2. /\ phase' = [phase EXCEPT ![w] = "selected"]
        /\ UNCHANGED <<rows, heads, declared, held, left, call, mine>>
    BY <1>8 DEF AppendSelect
  <2>3. CASE cl.coll \in Linked
    <3>1. HeadSeen(w, cl.coll) \in ChainHead
      BY <2>3, HeadSeenTyped
    <3>2. LinkedRow(cl.coll, cl.key, cl.payload, HeadSeen(w, cl.coll)) \in Row
      BY <2>1, <3>1, BuiltRowsAreRows
    <3>3. /\ touched' = [touched EXCEPT ![w] = @ \cup {cl.coll}]
          /\ tip' = [tip EXCEPT ![w][cl.coll] = HeadSeen(w, cl.coll)]
          /\ built' = [built EXCEPT ![w] =
                {LinkedRow(cl.coll, cl.key, cl.payload, HeadSeen(w, cl.coll))}]
      BY <1>8, <2>3 DEF AppendSelect
    <3> QED  BY <2>1, <2>2, <2>3, <3>1, <3>2, <3>3 DEF TypeOK, CallUnderWay
  <2>4. CASE cl.coll \notin Linked
    <3> DEFINE N == NextMutableSequence(View(w), cl.coll)
    <3>1. N \subseteq Nat
      BY ViewTyped DEF NextMutableSequence, Group, Row
    <3>2. {StandaloneRow(cl.coll, cl.key, cl.payload, n) : n \in N} \subseteq Row
      BY <2>1, <3>1, BuiltRowsAreRows
    <3>3. /\ UNCHANGED <<touched, tip>>
          /\ built' = [built EXCEPT ![w] =
                {StandaloneRow(cl.coll, cl.key, cl.payload, n) : n \in N}]
      BY <1>8, <2>4 DEF AppendSelect
    <3> HIDE DEF N
    <3> QED  BY <2>1, <2>2, <3>2, <3>3 DEF TypeOK, CallUnderWay
  <2> QED  BY <2>3, <2>4
<1>9. CASE AppendInsert(w)
  <2>1. PICK new \in built[w] :
          IF \E r \in View(w) : Conflict(r, new)
          THEN UNCHANGED <<mine, tip>>
          ELSE /\ mine' = [mine EXCEPT ![w] = @ \cup {new}]
               /\ tip' = IF new.coll \in Linked
                         THEN [tip EXCEPT ![w][new.coll] =
                                  [seq |-> new.seq, hash |-> new.hash]]
                         ELSE tip
    BY <1>9 DEF AppendInsert
  <2>2. new \in Row /\ [seq |-> new.seq, hash |-> new.hash] \in ChainHead
    BY DEF TypeOK, Row, ChainHead
  <2> DEFINE moved == [tip EXCEPT ![w][new.coll] = [seq |-> new.seq, hash |-> new.hash]]
  <2>4. mine' \in [Workers -> SUBSET Row]
    <3>1. mine' = mine \/ mine' = [mine EXCEPT ![w] = @ \cup {new}]
      BY <2>1
    <3> QED  BY <2>2, <3>1 DEF TypeOK
  <2>5. tip' = tip \/ (new.coll \in Linked /\ tip' = moved)
    BY <2>1
  <2>6. new.coll \in Linked => moved \in [Workers -> [Linked -> ChainHead]]
    BY <2>2 DEF TypeOK
  <2> HIDE DEF moved
  <2>7. mine' \in [Workers -> SUBSET Row] /\ tip' \in [Workers -> [Linked -> ChainHead]]
    BY <2>4, <2>5, <2>6 DEF TypeOK
  <2> QED  BY <1>9, <2>7 DEF AppendInsert, Returned, TypeOK, CallUnderWay
<1>10. CASE CompareAndSet(w)
  <2> DEFINE cl == call[w]
             old == {r \in At(View(w), cl.coll, cl.key) : Expected(cl, r)}
             upd == {Replaced(r, cl.payload) : r \in old}
  <2>1. cl \in Calls /\ cl.coll \in Collections /\ cl.key \in Keys /\ cl.payload \in Payloads
    BY <1>10, CallsTyped DEF CallUnderWay, CompareAndSet
  <2>2. old \subseteq Row
    BY ViewTyped DEF At, Group
  <2>3. upd \subseteq Row
    BY <2>1, <2>2, BuiltRowsAreRows
  <2>4. mine' = [mine EXCEPT ![w] = {m \in @ : \A r \in old : ~SameKey(m, r)} \cup upd]
    BY <1>10 DEF CompareAndSet
  <2> HIDE DEF upd, old
  <2>5. mine' \in [Workers -> SUBSET Row]
    BY <2>3, <2>4 DEF TypeOK
  <2> QED  BY <1>10, <2>5 DEF CompareAndSet, Returned, TypeOK, CallUnderWay
<1>11. CASE Commit(w)
  <2>1. rows' \subseteq Row /\ heads' \in [Linked -> ChainHead]
    BY <1>11, ViewTyped, HeadSeenTyped DEF Commit
  <2>2. Ended(w)
    BY <1>11 DEF Commit
  <2> QED  BY <2>1, <2>2, EndedType DEF CallUnderWay, Ended, TypeOK
<1>12. CASE Rollback(w)
  <2>1. rows' \subseteq Row /\ heads' \in [Linked -> ChainHead] /\ Ended(w)
    BY <1>12 DEF Rollback, TypeOK
  <2> QED  BY <2>1, EndedType DEF CallUnderWay, Ended, TypeOK
<1> QED
    BY <1>2, <1>3, <1>4, <1>5, <1>6, <1>7, <1>8, <1>9, <1>10, <1>11, <1>12 DEF Step

(***************************************************************************)
(* Every variable of the engine has its type, whatever the callers do.     *)
(***************************************************************************)
THEOREM Typing == Spec => []TypeOK
<1>1. Init => TypeInv
    BY InitType DEF TypeInv, CallUnderWay, Init
<1>2. TypeInv => TypeOK
    BY DEF TypeInv
<1> QED
    BY <1>1, <1>2, NextType, PTL DEF Spec
-----------------------------------------------------------------------------
(***************************************************************************)
(* The advisory locks.  A worker that is idle has nothing.                 *)
(***************************************************************************)
IdleIsClean ==
    \A w \in Workers :
        phase[w] = "idle" => held[w] = {} /\ mine[w] = {} /\ touched[w] = {} /\ built[w] = {}

LockInv == TypeInv /\ IdleIsClean /\ LocksTakenInOrder

LEMMA NextLocks == LockInv /\ [Next]_vars => LockInv'
<1> SUFFICES ASSUME LockInv, [Next]_vars PROVE IdleIsClean' /\ LocksTakenInOrder'
    BY NextType DEF LockInv
<1> USE DEF LockInv, TypeInv, TypeOK
<1>1. CASE UNCHANGED vars
    BY <1>1 DEF IdleIsClean, LocksTakenInOrder, vars, local
<1> SUFFICES ASSUME NEW w \in Workers,
                    Begin(w) \/ BeginStandalone(w) \/ AcquireLock(w) \/ Call(w)
                       \/ Step(w) \/ Rollback(w)
             PROVE  IdleIsClean' /\ LocksTakenInOrder'
    BY <1>1 DEF Next
<1>2. CASE Begin(w)
    BY <1>2 DEF IdleIsClean, LocksTakenInOrder, Begin
<1>3. CASE BeginStandalone(w)
    BY <1>3 DEF IdleIsClean, LocksTakenInOrder, BeginStandalone
<1>4. CASE AcquireLock(w)
  <2>1. PICK l \in Lock : IsNextLock(w, l) /\ held' = [held EXCEPT ![w] = @ \cup {l}]
    BY <1>4 DEF AcquireLock
  <2>2. \A v \in Workers \ {w} : l \notin held[v]
    BY <1>4, <2>1 DEF AcquireLock, Free, Blocks
  <2>3. \A v, u \in Workers : held'[v] \cap held'[u] # {} => v = u
    BY <2>1, <2>2 DEF LocksTakenInOrder
  <2>4. \A m \in declared[w] \ held'[w] : Before(l, m)
    BY <2>1 DEF IsNextLock
  <2>5. \A v \in Workers : \A k \in held'[v], m \in declared[v] \ held'[v] : Before(k, m)
    BY <2>1, <2>4 DEF LocksTakenInOrder
  <2> QED  BY <1>4, <2>3, <2>5 DEF AcquireLock, IdleIsClean, LocksTakenInOrder
<1>5. CASE Call(w)
    BY <1>5 DEF IdleIsClean, LocksTakenInOrder, Call
<1>6. CASE AllLocksHeld(w)
    BY <1>6 DEF IdleIsClean, LocksTakenInOrder, AllLocksHeld
<1>7. CASE AppendExisting(w)
    BY <1>7 DEF IdleIsClean, LocksTakenInOrder, AppendExisting, Returned
<1>8. CASE AppendSelect(w)
  <2>1. /\ phase[w] = "called" /\ phase' = [phase EXCEPT ![w] = "selected"]
        /\ UNCHANGED <<declared, held, mine>>
        /\ \A v \in Workers \ {w} : touched'[v] = touched[v] /\ built'[v] = built[v]
    BY <1>8 DEF AppendSelect
  <2> QED  BY <2>1 DEF IdleIsClean, LocksTakenInOrder
<1>9. CASE AppendInsert(w)
  <2>1. /\ phase' = [phase EXCEPT ![w] = "open"]
        /\ UNCHANGED <<declared, held, touched>>
        /\ \A v \in Workers \ {w} : mine'[v] = mine[v] /\ built'[v] = built[v]
    BY <1>9 DEF AppendInsert, Returned
  <2> QED  BY <2>1 DEF IdleIsClean, LocksTakenInOrder
<1>10. CASE CompareAndSet(w)
  <2>1. /\ phase' = [phase EXCEPT ![w] = "open"]
        /\ UNCHANGED <<declared, held, touched, built>>
        /\ \A v \in Workers \ {w} : mine'[v] = mine[v]
    BY <1>10 DEF CompareAndSet, Returned
  <2> QED  BY <2>1 DEF IdleIsClean, LocksTakenInOrder
<1>11. CASE Ended(w)
    BY <1>11 DEF IdleIsClean, LocksTakenInOrder, Ended
<1> QED
    BY <1>2, <1>3, <1>4, <1>5, <1>6, <1>7, <1>8, <1>9, <1>10, <1>11
    DEF Step, Commit, Rollback

(***************************************************************************)
(* A worker that waits for an advisory lock holds only earlier ones, and   *)
(* no two workers hold the same one: acquire_advisory_locks cannot close a *)
(* cycle, whatever lock sets the callers declare.                          *)
(***************************************************************************)
THEOREM LockOrder == Spec => []LocksTakenInOrder
<1>1. Init => LockInv
    BY InitType DEF LockInv, TypeInv, CallUnderWay, IdleIsClean, LocksTakenInOrder, Init
<1>2. LockInv => LocksTakenInOrder
    BY DEF LockInv
<1> QED
    BY <1>1, <1>2, NextLocks, PTL DEF Spec

-----------------------------------------------------------------------------
(***************************************************************************)
(* The inductive invariant of the chains.  ChainVerifies speaks of what is *)
(* committed; what makes it inductive is the state between the statements: *)
(* a locked head has one owner, the owner's own view of the chain verifies *)
(* up to its tip, nobody else has rows for that chain, and the row about   *)
(* to be inserted was built on that tip.                                   *)
(***************************************************************************)
HeadsExclusive == \A v, w \in Workers : touched[v] \cap touched[w] # {} => v = w

CommittedChains == \A c \in Linked : ValidLinkedGroup(rows, c, heads[c])

PrivateChains ==
    \A w \in Workers : \A c \in touched[w] : ValidLinkedGroup(View(w), c, tip[w][c])

RowsNeedTheirHead ==
    \A w \in Workers : \A c \in Linked \ touched[w] : Group(mine[w], c) = {}

BuiltOnTip ==
    \A w \in Workers : \A new \in built[w] :
        new.coll \in Linked =>
            /\ new.coll \in touched[w]
            /\ new = LinkedRow(new.coll, new.key, new.payload, tip[w][new.coll])

\* A linked row is new: it hides no committed row.
NothingHidden ==
    \A w \in Workers : \A m \in mine[w], r \in rows : m.coll \in Linked => ~SameKey(m, r)

StandaloneRows ==
    \A c \in Mutable :
        /\ ValidStandalone(rows, c)
        /\ \A w \in Workers : ValidStandalone(mine[w], c) /\ ValidStandalone(built[w], c)

ChainInv ==
    /\ LockInv
    /\ HeadsExclusive /\ CommittedChains /\ PrivateChains /\ RowsNeedTheirHead
    /\ BuiltOnTip /\ NothingHidden /\ StandaloneRows

LEMMA InitChains == Init => ChainInv
<1> SUFFICES ASSUME Init PROVE ChainInv
    OBVIOUS
<1>1. LockInv
    BY InitType DEF LockInv, TypeInv, CallUnderWay, IdleIsClean, LocksTakenInOrder, Init
<1>2. CommittedChains
  <2>1. ASSUME NEW c \in Linked PROVE ValidLinkedGroup({}, c, NoHead)
    BY DEF ValidLinkedGroup, SequencesContiguous, RowsLinked, HeadIsLast, Group, NoHead
  <2> QED  BY <2>1 DEF CommittedChains, Init, NoHeads
<1> QED
    BY <1>1, <1>2 DEF ChainInv, HeadsExclusive, PrivateChains, RowsNeedTheirHead, BuiltOnTip,
        NothingHidden, StandaloneRows, ValidStandalone, Group, Init

\* A chain the worker has not touched looks to it as it is committed.
LEMMA UntouchedViews ==
    ASSUME ChainInv, NEW w \in Workers, NEW c \in Linked, c \notin touched[w]
    PROVE  Group(View(w), c) = Group(rows, c)
<1>1. Group(View(w), c) = Over(Group(mine[w], c), Group(rows, c))
    BY GroupOfOver DEF View
<1>2. Group(mine[w], c) = {}
    BY DEF ChainInv, RowsNeedTheirHead
<1> QED
    BY <1>1, <1>2 DEF Over

LEMMA SelectKeepsChains ==
    ASSUME ChainInv, NEW w \in Workers, AppendSelect(w)
    PROVE  ChainInv'
<1> USE DEF ChainInv, LockInv, TypeInv, TypeOK
<1> DEFINE cl == call[w]
           c == cl.coll
           h == HeadSeen(w, c)
<1>1. cl \in Calls /\ c \in Collections /\ cl.key \in Keys /\ cl.payload \in Payloads
    BY CallsTyped DEF CallUnderWay, AppendSelect
<1>2. UNCHANGED <<rows, heads, mine>> /\ \A v \in Workers : View(v)' = View(v)
    BY DEF AppendSelect, View
<1>3. LockInv'
    BY NextLocks DEF Next, Step
<1>4. CommittedChains' /\ NothingHidden'
    BY <1>2 DEF CommittedChains, NothingHidden
<1>5. CASE c \in Linked
  <2>1. /\ touched' = [touched EXCEPT ![w] = @ \cup {c}]
        /\ tip' = [tip EXCEPT ![w][c] = h]
        /\ built' = [built EXCEPT ![w] = {LinkedRow(c, cl.key, cl.payload, h)}]
    BY <1>5 DEF AppendSelect
  <2> HIDE DEF h
  <2>2. \A v \in Workers \ {w} : c \notin touched[v]
    BY DEF AppendSelect, Free, Blocks
  <2>3. HeadsExclusive'
    BY <2>1, <2>2 DEF HeadsExclusive
  <2>4. ValidLinkedGroup(View(w), c, h)
    <3>1. CASE c \in touched[w]
      BY <3>1 DEF PrivateChains, HeadSeen, h
    <3>2. CASE c \notin touched[w]
      BY <3>2, <1>5, UntouchedViews, OnlyTheGroupCounts DEF CommittedChains, HeadSeen, h
    <3> QED  BY <3>1, <3>2
  <2>5. PrivateChains'
    BY <1>2, <1>5, <2>1, <2>4 DEF PrivateChains
  <2>6. RowsNeedTheirHead'
    BY <1>2, <2>1 DEF RowsNeedTheirHead
  <2>7. BuiltOnTip'
    <3> DEFINE new == LinkedRow(c, cl.key, cl.payload, h)
    <3>1. new.coll = c /\ new.key = cl.key /\ new.payload = cl.payload
      BY DEF LinkedRow
    <3>2. \A r \in built'[w] : r = new
      BY <2>1
    <3>3. c \in touched'[w] /\ tip'[w][c] = h
      BY <1>5, <2>1
    <3>4. \A v \in Workers \ {w} : built'[v] = built[v] /\ touched'[v] = touched[v] /\ tip'[v] = tip[v]
      BY <2>1
    <3> HIDE DEF new
    <3>5. \A r \in built'[w] : r.coll \in touched'[w]
                   /\ r = LinkedRow(r.coll, r.key, r.payload, tip'[w][r.coll])
      BY <3>1, <3>2, <3>3 DEF new
    <3>6. ASSUME NEW v \in Workers, NEW r \in built'[v], r.coll \in Linked
          PROVE  /\ r.coll \in touched'[v]
                 /\ r = LinkedRow(r.coll, r.key, r.payload, tip'[v][r.coll])
      <4>1. CASE v = w
        BY <3>5, <3>6, <4>1
      <4>2. CASE v # w
        BY <3>4, <3>6, <4>2 DEF BuiltOnTip
      <4> QED  BY <4>1, <4>2
    <3> QED  BY ONLY <3>6 DEF BuiltOnTip
  <2>8. StandaloneRows'
    <3>1. LinkedRow(c, cl.key, cl.payload, h).coll \notin Mutable
      BY <1>5, ScopedRowsAssumption DEF LinkedRow
    <3>2. \A d \in Mutable : ValidStandalone(built'[w], d)
      BY <2>1, <3>1 DEF ValidStandalone, Group
    <3>3. \A v \in Workers \ {w} : built'[v] = built[v]
      BY <2>1
    <3> QED  BY <1>2, <3>2, <3>3 DEF StandaloneRows
  <2> QED  BY <1>3, <1>4, <2>3, <2>5, <2>6, <2>7, <2>8
<1>6. CASE c \notin Linked
  <2> DEFINE N == NextMutableSequence(View(w), c)
             B == {StandaloneRow(c, cl.key, cl.payload, n) : n \in N}
  <2>1. UNCHANGED <<touched, tip>> /\ built' = [built EXCEPT ![w] = B]
    BY <1>6 DEF AppendSelect
  <2>2. \A r \in B : r.coll \notin Linked /\ r.prev = NoHash
                        /\ r.hash = chain_record_hash(NoHash, r.payload)
    BY <1>6 DEF StandaloneRow
  <2> HIDE DEF B, h
  <2>3. BuiltOnTip'
    BY <2>1, <2>2 DEF BuiltOnTip
  <2>4. StandaloneRows'
    BY <1>2, <2>1, <2>2 DEF StandaloneRows, ValidStandalone, Group
  <2> QED  BY <1>2, <1>3, <1>4, <2>1, <2>3, <2>4
           DEF HeadsExclusive, PrivateChains, RowsNeedTheirHead
<1> QED  BY <1>5, <1>6

LEMMA InsertKeepsChains ==
    ASSUME ChainInv, NEW w \in Workers, AppendInsert(w)
    PROVE  ChainInv'
<1> USE DEF ChainInv, LockInv, TypeInv, TypeOK
<1>1. PICK new \in built[w] :
        IF \E r \in View(w) : Conflict(r, new)
        THEN UNCHANGED <<mine, tip>>
        ELSE /\ mine' = [mine EXCEPT ![w] = @ \cup {new}]
             /\ tip' = IF new.coll \in Linked
                       THEN [tip EXCEPT ![w][new.coll] = [seq |-> new.seq, hash |-> new.hash]]
                       ELSE tip
    BY DEF AppendInsert
<1>2. UNCHANGED <<rows, heads, touched>> /\ built' = [built EXCEPT ![w] = {}]
    BY DEF AppendInsert
<1>3. LockInv'
    BY NextLocks DEF Next, Step
<1>4. CommittedChains' /\ HeadsExclusive'
    BY <1>2 DEF CommittedChains, HeadsExclusive
<1>5. new \in Row
    OBVIOUS
<1>6. CASE \E r \in View(w) : Conflict(r, new)
  <2>1. UNCHANGED <<mine, tip>> /\ \A v \in Workers : View(v)' = View(v)
    BY <1>1, <1>2, <1>6 DEF View
  <2> QED  BY <1>2, <1>3, <1>4, <2>1 DEF PrivateChains, RowsNeedTheirHead, BuiltOnTip,
              NothingHidden, StandaloneRows, ValidStandalone, Group
<1>7. CASE ~\E r \in View(w) : Conflict(r, new)
  <2>1. mine' = [mine EXCEPT ![w] = @ \cup {new}]
    BY <1>1, <1>7
  <2>2. \A v \in Workers \ {w} : View(v)' = View(v) /\ mine'[v] = mine[v] /\ tip'[v] = tip[v]
    BY <1>1, <1>2, <1>7 DEF View
  <2>3. \A r \in rows : ~SameKey(new, r)
    <3> SUFFICES ASSUME NEW r \in rows, SameKey(new, r) PROVE FALSE
      OBVIOUS
    <3>1. ~\E s \in View(w) : SameKey(s, r)
      BY <1>7 DEF Conflict, SameKey
    <3> QED  BY <3>1 DEF View, Over, SameKey
  <2>4. View(w)' = View(w) \cup {new}
    BY <1>2, <2>1, <2>3 DEF View, Over
  <2>5. NothingHidden'
    BY <1>2, <2>1, <2>3 DEF NothingHidden
  <2>6. CASE new.coll \in Linked
    <3> DEFINE c == new.coll
               head == [seq |-> new.seq, hash |-> new.hash]
    <3>1. c \in touched[w] /\ new = LinkedRow(c, new.key, new.payload, tip[w][c])
      BY <2>6 DEF BuiltOnTip
    <3>2. tip' = [tip EXCEPT ![w][c] = head]
      BY <1>1, <1>7, <2>6
    <3>3. ValidLinkedGroup(View(w), c, tip[w][c]) /\ tip[w][c] \in ChainHead
      BY <2>6, <3>1 DEF PrivateChains
    <3>4. ValidLinkedGroup(View(w)', c, head)
      <4> DEFINE ext == LinkedRow(c, new.key, new.payload, tip[w][c])
      <4>1. View(w) \in SUBSET Row
        BY ViewTyped
      <4>2. ValidLinkedGroup(View(w) \cup {ext}, c, [seq |-> ext.seq, hash |-> ext.hash])
        BY ONLY <3>3, <4>1, ChainExtends
      <4> HIDE DEF ext, c
      <4> QED  BY <2>4, <3>1, <4>2 DEF ext
    <3>5. \A d \in Linked \ {c} : Group(View(w)', d) = Group(View(w), d) /\ tip'[w][d] = tip[w][d]
      BY <2>4, <3>2 DEF Group
    <3>6. tip'[w][c] = head
      BY <2>6, <3>2
    <3> HIDE DEF head
    <3>7. PrivateChains'
      <4> SUFFICES ASSUME NEW v \in Workers, NEW d \in touched[v]
                   PROVE  ValidLinkedGroup(View(v)', d, tip'[v][d])
        BY <1>2 DEF PrivateChains
      <4>1. d \in Linked /\ ValidLinkedGroup(View(v), d, tip[v][d])
        BY DEF PrivateChains
      <4> QED  BY <2>2, <3>4, <3>5, <3>6, <4>1, OnlyTheGroupCounts
    <3>8. RowsNeedTheirHead'
      BY <1>2, <2>1, <3>1 DEF RowsNeedTheirHead, Group
    <3>9. BuiltOnTip'
      BY <1>2, <2>2 DEF BuiltOnTip
    <3>10. StandaloneRows'
      BY <1>2, <2>1, <2>6, ScopedRowsAssumption DEF StandaloneRows, ValidStandalone, Group
    <3> QED  BY <1>3, <1>4, <2>5, <3>7, <3>8, <3>9, <3>10
  <2>7. CASE new.coll \notin Linked
    <3>1. tip' = tip
      BY <1>1, <1>7, <2>7
    <3>2. \A d \in Linked : Group(View(w)', d) = Group(View(w), d)
      BY <2>4, <2>7 DEF Group
    <3>3. PrivateChains'
      <4> SUFFICES ASSUME NEW v \in Workers, NEW d \in touched[v]
                   PROVE  ValidLinkedGroup(View(v)', d, tip[v][d])
        BY <1>2, <3>1 DEF PrivateChains
      <4>1. d \in Linked /\ ValidLinkedGroup(View(v), d, tip[v][d])
        BY DEF PrivateChains
      <4> QED  BY <2>2, <3>2, <4>1, OnlyTheGroupCounts
    <3>4. RowsNeedTheirHead'
      BY <1>2, <2>1, <2>7 DEF RowsNeedTheirHead, Group
    <3>5. BuiltOnTip'
      BY <1>2, <3>1 DEF BuiltOnTip
    <3>6. StandaloneRows'
      BY <1>2, <2>1 DEF StandaloneRows, ValidStandalone, Group
    <3> QED  BY <1>3, <1>4, <2>5, <3>3, <3>4, <3>5, <3>6
  <2> QED  BY <2>6, <2>7
<1> QED  BY <1>6, <1>7

LEMMA CompareAndSetKeepsChains ==
    ASSUME ChainInv, NEW w \in Workers, CompareAndSet(w)
    PROVE  ChainInv'
<1> USE DEF ChainInv, LockInv, TypeInv, TypeOK
<1> DEFINE cl == call[w]
           old == {r \in At(View(w), cl.coll, cl.key) : Expected(cl, r)}
           kept == {m \in mine[w] : \A r \in old : ~SameKey(m, r)}
           upd == {Replaced(r, cl.payload) : r \in old}
<1>1. cl \in Calls /\ cl.coll \in Mutable /\ cl.coll \notin Linked
    BY PgScopedLedgerAssumption, ScopedRowsAssumption DEF CallUnderWay, CompareAndSet
<1>2. UNCHANGED <<rows, heads, touched, tip, built>>
    BY DEF CompareAndSet
<1>3. mine' = [mine EXCEPT ![w] = kept \cup upd]
    BY DEF CompareAndSet
<1>4. \A r \in old : r.coll = cl.coll
    BY DEF At, Group
<1>5. \A r \in upd : r.coll = cl.coll /\ r.prev = NoHash
                        /\ r.hash = chain_record_hash(NoHash, r.payload)
    BY <1>4 DEF Replaced
<1>6. kept \subseteq mine[w]
    OBVIOUS
<1>7. \A c \in Linked : Group(kept, c) = Group(mine[w], c)
    BY <1>1, <1>4 DEF Group, SameKey
<1> HIDE DEF old, kept, upd
<1>8. \A v \in Workers, c \in Linked : Group(mine'[v], c) = Group(mine[v], c)
    BY <1>1, <1>3, <1>5, <1>7 DEF Group
<1>9. ASSUME NEW v \in Workers, NEW c \in Linked
      PROVE  Group(View(v)', c) = Group(View(v), c)
  <2>1. Group(Over(mine'[v], rows), c) = Group(Over(mine[v], rows), c)
    BY <1>8, GroupOfOver
  <2> QED  BY <1>2, <2>1 DEF View
<1>10. LockInv'
    BY NextLocks DEF Next, Step
<1>11. HeadsExclusive' /\ CommittedChains' /\ RowsNeedTheirHead' /\ BuiltOnTip'
    BY <1>2, <1>8 DEF HeadsExclusive, CommittedChains, RowsNeedTheirHead, BuiltOnTip
<1>12. PrivateChains'
  <2> SUFFICES ASSUME NEW v \in Workers, NEW c \in touched[v]
               PROVE  ValidLinkedGroup(View(v)', c, tip[v][c])
    BY <1>2 DEF PrivateChains
  <2>1. c \in Linked /\ ValidLinkedGroup(View(v), c, tip[v][c])
    BY DEF PrivateChains
  <2> QED  BY <1>9, <2>1, OnlyTheGroupCounts
<1>13. NothingHidden'
    BY <1>1, <1>2, <1>3, <1>5, <1>6 DEF NothingHidden
<1>14. StandaloneRows'
    BY <1>2, <1>3, <1>5, <1>6 DEF StandaloneRows, ValidStandalone, Group
<1> QED
    BY <1>10, <1>11, <1>12, <1>13, <1>14

LEMMA CommitKeepsChains ==
    ASSUME ChainInv, NEW w \in Workers, Commit(w)
    PROVE  ChainInv'
<1> USE DEF ChainInv, LockInv, TypeInv, TypeOK
<1>1. /\ rows' = View(w)
      /\ \A c \in Linked : heads'[c] = HeadSeen(w, c)
      /\ mine' = [mine EXCEPT ![w] = {}]
      /\ built' = [built EXCEPT ![w] = {}]
      /\ touched' = [touched EXCEPT ![w] = {}]
      /\ tip' = [tip EXCEPT ![w] = NoHeads]
    BY DEF Commit, Ended
<1>2. LockInv'
    BY NextLocks DEF Next, Step
<1>3. HeadsExclusive' /\ RowsNeedTheirHead' /\ BuiltOnTip'
    BY <1>1 DEF HeadsExclusive, RowsNeedTheirHead, BuiltOnTip, Group
<1>4. \A c \in Linked \ touched[w] : Group(rows', c) = Group(rows, c)
    BY <1>1, UntouchedViews
<1>5. CommittedChains'
  <2> SUFFICES ASSUME NEW c \in Linked PROVE ValidLinkedGroup(rows', c, heads'[c])
    BY DEF CommittedChains
  <2>1. CASE c \in touched[w]
    BY <1>1, <2>1 DEF PrivateChains, HeadSeen
  <2>2. CASE c \notin touched[w]
    BY <1>1, <1>4, <2>2, OnlyTheGroupCounts DEF CommittedChains, HeadSeen
  <2> QED  BY <2>1, <2>2
<1>6. PrivateChains'
  <2> SUFFICES ASSUME NEW v \in Workers, NEW c \in touched'[v]
               PROVE  ValidLinkedGroup(View(v)', c, tip'[v][c])
    BY DEF PrivateChains
  <2>1. v # w /\ c \in touched[v] /\ c \in Linked /\ tip'[v] = tip[v] /\ mine'[v] = mine[v]
    BY <1>1
  <2>2. Group(rows', c) = Group(rows, c)
    BY <1>4, <2>1 DEF HeadsExclusive
  <2>3. View(v)' = Over(mine[v], rows')
    BY <2>1 DEF View
  <2>4. Group(Over(mine[v], rows'), c) = Group(Over(mine[v], rows), c)
    BY <2>2, GroupOfOver
  <2>5. Group(View(v)', c) = Group(View(v), c)
    BY <2>3, <2>4 DEF View
  <2>6. ValidLinkedGroup(View(v), c, tip[v][c])
    BY <2>1 DEF PrivateChains
  <2> QED  BY <2>1, <2>5, <2>6, OnlyTheGroupCounts
<1>7. NothingHidden'
  <2> SUFFICES ASSUME NEW v \in Workers, NEW m \in mine'[v], NEW r \in rows',
                      m.coll \in Linked, SameKey(m, r)
               PROVE  FALSE
    BY DEF NothingHidden
  <2>1. v # w /\ m \in mine[v]
    BY <1>1
  <2>2. m.coll \in touched[v]
    BY <2>1 DEF RowsNeedTheirHead, Group
  <2>3. Group(rows', m.coll) = Group(rows, m.coll)
    BY <1>4, <2>1, <2>2 DEF HeadsExclusive
  <2>4. r \in rows
    BY <2>3 DEF Group, SameKey
  <2> QED  BY <2>1, <2>4 DEF NothingHidden
<1>8. StandaloneRows'
    BY <1>1 DEF StandaloneRows, ValidStandalone, Group, View, Over
<1> QED
    BY <1>2, <1>3, <1>5, <1>6, <1>7, <1>8

LEMMA RollbackKeepsChains ==
    ASSUME ChainInv, NEW w \in Workers, Rollback(w)
    PROVE  ChainInv'
<1> USE DEF ChainInv, LockInv, TypeInv, TypeOK
<1>1. /\ UNCHANGED <<rows, heads>>
      /\ mine' = [mine EXCEPT ![w] = {}]
      /\ built' = [built EXCEPT ![w] = {}]
      /\ touched' = [touched EXCEPT ![w] = {}]
      /\ tip' = [tip EXCEPT ![w] = NoHeads]
    BY DEF Rollback, Ended
<1>2. LockInv'
    BY NextLocks DEF Next
<1>3. \A v \in Workers \ {w} : View(v)' = View(v)
    BY <1>1 DEF View
<1> QED
    BY <1>1, <1>2, <1>3 DEF HeadsExclusive, CommittedChains, PrivateChains, RowsNeedTheirHead,
        BuiltOnTip, NothingHidden, StandaloneRows, ValidStandalone, Group

LEMMA OtherStepsKeepChains ==
    ASSUME ChainInv, [Next]_vars, UNCHANGED <<rows, heads, built, mine, touched, tip>>
    PROVE  ChainInv'
<1>1. LockInv'
    BY NextLocks DEF ChainInv
<1>2. \A v \in Workers : View(v)' = View(v)
    BY DEF View
<1> QED
    BY <1>1, <1>2 DEF ChainInv, HeadsExclusive, CommittedChains, PrivateChains, RowsNeedTheirHead,
        BuiltOnTip, NothingHidden, StandaloneRows

LEMMA NextChains == ChainInv /\ [Next]_vars => ChainInv'
<1> SUFFICES ASSUME ChainInv, [Next]_vars PROVE ChainInv'
    OBVIOUS
<1>1. CASE UNCHANGED <<rows, heads, built, mine, touched, tip>>
    BY <1>1, OtherStepsKeepChains
<1>2. CASE \E w \in Workers : AppendSelect(w) \/ AppendInsert(w) \/ CompareAndSet(w)
                                 \/ Commit(w) \/ Rollback(w)
    BY <1>2, SelectKeepsChains, InsertKeepsChains, CompareAndSetKeepsChains,
       CommitKeepsChains, RollbackKeepsChains
<1>3. (\E w \in Workers : AppendSelect(w) \/ AppendInsert(w) \/ CompareAndSet(w)
                             \/ Commit(w) \/ Rollback(w))
      \/ UNCHANGED <<rows, heads, built, mine, touched, tip>>
    BY DEF Next, Step, vars, local, Begin, BeginStandalone, AcquireLock, Call, AllLocksHeld,
        AppendExisting
<1> QED
    BY <1>1, <1>2, <1>3

(***************************************************************************)
(* verify_scoped_chain accepts every committed state, however many workers *)
(* append to however many chains and in whatever order they commit.        *)
(***************************************************************************)
THEOREM ChainsVerify == Spec => []ChainVerifies
<1>1. ChainInv => ChainVerifies
    BY DEF ChainInv, CommittedChains, StandaloneRows, ChainVerifies
<1> QED
    BY <1>1, InitChains, NextChains, PTL DEF Spec

-----------------------------------------------------------------------------
(***************************************************************************)
(* A committed row of a chain-linked collection stays as it was: no append *)
(* and no compare-and-set of any later transaction replaces it.            *)
(***************************************************************************)
THEOREM LinkedRowsStay == Spec => LinkedRowsAreImmutable
<1> DEFINE Kept == \A r \in rows : r.coll \in Linked => r \in rows'
<1>1. ASSUME ChainInv, [Next]_vars PROVE [Kept]_rows
  <2> SUFFICES ASSUME rows' # rows PROVE Kept
    OBVIOUS
  <2>1. PICK w \in Workers : Commit(w)
    BY <1>1 DEF Next, Step, vars, local, Begin, BeginStandalone, AcquireLock, Call,
        AllLocksHeld, AppendExisting, AppendSelect, AppendInsert, CompareAndSet, Rollback
  <2>2. rows' = Over(mine[w], rows)
    BY <2>1 DEF Commit, View
  <2>3. \A r \in rows, m \in mine[w] : r.coll \in Linked => ~SameKey(m, r)
    BY <1>1 DEF ChainInv, NothingHidden, SameKey
  <2> QED  BY <2>2, <2>3 DEF Over
<1> QED
    BY <1>1, InitChains, NextChains, PTL DEF Spec, LinkedRowsAreImmutable

-----------------------------------------------------------------------------
(***************************************************************************)
(* The inductive invariant of the unique indexes.  What is committed has   *)
(* one row per key and record id; so has what a transaction wrote; two     *)
(* transactions have nothing in common, because an INSERT waits for the    *)
(* one it conflicts with and a compare-and-set for the row it selects; and *)
(* a private row that hides a committed one is a later version of it.      *)
(***************************************************************************)
Same(r, s) == r.coll = s.coll /\ (r.key = s.key \/ r.id = s.id)

Unique(R) == \A r, s \in R : Same(r, s) => r = s

PrivateUnique == \A w \in Workers : Unique(mine[w])

NothingShared ==
    \A v, w \in Workers : v # w => \A m \in mine[v], n \in mine[w] : ~Same(m, n)

Supersedes(m, r) ==
    /\ Same(m, r) => m.key = r.key /\ m.id = r.id
    /\ SameKey(m, r) => m.seq = r.seq /\ m.version > r.version

LaterVersions == \A w \in Workers : \A m \in mine[w], r \in rows : Supersedes(m, r)

KeyInv == TypeInv /\ Unique(rows) /\ PrivateUnique /\ NothingShared /\ LaterVersions

\* What a worker sees has one row per key and record id, too.
LEMMA ViewUnique ==
    ASSUME KeyInv, NEW w \in Workers
    PROVE  Unique(View(w))
BY DEF KeyInv, View, Over, Unique, PrivateUnique, LaterVersions, Supersedes, Same, SameKey

\* The step of one worker changes no other worker's rows, and commits its own or none.
LEMMA KeysStay ==
    ASSUME KeyInv, UNCHANGED <<rows, mine>>, TypeInv'
    PROVE  KeyInv'
BY DEF KeyInv, Unique, PrivateUnique, NothingShared, LaterVersions

LEMMA PrivateRowsChange ==
    ASSUME KeyInv, TypeInv', NEW w \in Workers, UNCHANGED rows,
           NEW M, mine' = [mine EXCEPT ![w] = M],
           Unique(M),
           \A v \in Workers \ {w} : \A m \in mine[v], n \in M : ~Same(m, n),
           \A m \in M, r \in rows : Supersedes(m, r)
    PROVE  KeyInv'
<1>1. DOMAIN mine = Workers
  BY DEF KeyInv, TypeInv, TypeOK
<1>2. mine'[w] = M /\ \A v \in Workers \ {w} : mine'[v] = mine[v]
  BY <1>1
<1>3. PrivateUnique'
  BY <1>2 DEF KeyInv, PrivateUnique, Unique
<1>4. NothingShared'
  <2> SUFFICES ASSUME NEW u \in Workers, NEW v \in Workers, u # v,
                      NEW m \in mine'[u], NEW n \in mine'[v], Same(m, n)
               PROVE  FALSE
    BY DEF NothingShared
  <2>1. Same(n, m)
    BY DEF Same
  <2>2. CASE u = w
    BY <1>2, <2>1, <2>2
  <2>3. CASE v = w
    BY <1>2, <2>3
  <2>4. CASE u # w /\ v # w
    BY <1>2, <2>4 DEF KeyInv, NothingShared
  <2> QED
    BY <2>2, <2>3, <2>4
<1>5. LaterVersions'
  BY <1>2 DEF KeyInv, LaterVersions
<1> QED
  BY <1>3, <1>4, <1>5 DEF KeyInv, Unique

LEMMA InsertKeepsKeys ==
    ASSUME KeyInv, TypeInv', NEW w \in Workers, AppendInsert(w)
    PROVE  KeyInv'
<1>1. PICK new \in built[w] :
        IF \E r \in View(w) : Conflict(r, new)
        THEN mine' = mine
        ELSE mine' = [mine EXCEPT ![w] = @ \cup {new}]
  BY DEF AppendInsert
<1>2. UNCHANGED rows
  BY DEF AppendInsert
<1>3. CASE mine' = mine
  BY <1>2, <1>3, KeysStay
<1>4. CASE (~\E r \in View(w) : Conflict(r, new)) /\ mine' = [mine EXCEPT ![w] = @ \cup {new}]
  <2>1. \A r \in View(w) : ~Same(r, new)
    BY <1>4 DEF Conflict, Same
  <2>2. \A r \in mine[w] : ~Same(r, new) /\ ~Same(new, r)
    BY <2>1 DEF View, Over, Same
  <2>3. Unique(mine[w] \cup {new})
    BY <2>2 DEF KeyInv, PrivateUnique, Unique
  <2>4. ASSUME NEW v \in Workers \ {w}, NEW m \in mine[v] PROVE ~Same(m, new)
    <3>1. ~Blocks(v, w) /\ phase[w] = "selected"
      BY DEF AppendInsert, Free
    <3> QED
      BY <3>1 DEF Blocks, Conflict, Same
  <2>5. \A v \in Workers \ {w} : \A m \in mine[v], n \in mine[w] \cup {new} : ~Same(m, n)
    BY <2>4 DEF KeyInv, NothingShared
  <2>6. ASSUME NEW r \in rows PROVE ~Same(new, r)
    <3>1. CASE r \in View(w)
      BY <2>1, <3>1 DEF Same
    <3>2. CASE r \notin View(w)
      <4>1. PICK m \in mine[w] : SameKey(m, r)
        BY <3>2 DEF View, Over
      <4>2. m.coll = r.coll /\ m.key = r.key /\ m.id = r.id
        BY <4>1 DEF KeyInv, LaterVersions, Supersedes, Same, SameKey
      <4> QED
        BY <2>2, <4>2 DEF Same
    <3> QED
      BY <3>1, <3>2
  <2>7. \A m \in mine[w] \cup {new}, r \in rows : Supersedes(m, r)
    BY <2>6 DEF KeyInv, LaterVersions, Supersedes, Same, SameKey
  <2> QED
    BY <1>2, <1>4, <2>3, <2>5, <2>7, PrivateRowsChange
<1> QED
  BY <1>1, <1>3, <1>4

LEMMA CompareAndSetKeepsKeys ==
    ASSUME KeyInv, TypeInv', NEW w \in Workers, CompareAndSet(w)
    PROVE  KeyInv'
<1> DEFINE cl == call[w]
           old == {r \in At(View(w), cl.coll, cl.key) : Expected(cl, r)}
           kept == {m \in mine[w] : \A r \in old : ~SameKey(m, r)}
           upd == {Replaced(r, cl.payload) : r \in old}
<1>1. mine' = [mine EXCEPT ![w] = kept \cup upd] /\ UNCHANGED rows
  BY DEF CompareAndSet
<1>2. \A r \in old : r \in View(w) /\ r \in Row /\ r.coll = cl.coll /\ r.key = cl.key
  BY ViewTyped DEF At, Group, KeyInv, TypeInv
<1>3. \A r, s \in old : r = s
  BY <1>2, ViewUnique DEF Unique, Same
<1>4. \A r \in old : r \in mine[w] \/ (r \in rows /\ \A m \in mine[w] : ~SameKey(m, r))
  BY <1>2 DEF View, Over
<1>5. \A u \in upd : \E r \in old :
         u.coll = r.coll /\ u.key = r.key /\ u.id = r.id /\ u.seq = r.seq
         /\ u.version = r.version + 1
  BY DEF Replaced
<1>6. kept \subseteq mine[w] /\ \A m \in kept, r \in old : ~SameKey(m, r)
  OBVIOUS
<1>7. \A u, v \in upd : u = v
  BY <1>3
<1>8. ASSUME NEW v \in Workers \ {w}, NEW m \in mine[v], NEW r \in old PROVE ~SameKey(m, r)
  <2>1. ~Blocks(v, w) /\ phase[w] = "called" /\ call[w].op = "cas"
    BY DEF CompareAndSet, Free
  <2> QED
    BY <1>2, <2>1 DEF Blocks, At, Group, SameKey
<1>9. \A r \in old : r.version \in Nat
  BY <1>2 DEF Row
<1> HIDE DEF cl, old, kept, upd
<1>10. ASSUME NEW m \in kept, NEW r \in old PROVE ~Same(m, r)
  <2>1. m \in mine[w] /\ ~SameKey(m, r)
    BY <1>6
  <2>2. CASE r \in mine[w]
    BY <2>1, <2>2 DEF KeyInv, PrivateUnique, Unique, Same, SameKey
  <2>3. CASE r \in rows
    BY <2>1, <2>3 DEF KeyInv, LaterVersions, Supersedes, Same, SameKey
  <2> QED
    BY <1>4, <2>2, <2>3
<1>11. Unique(kept \cup upd)
  <2>1. \A m \in kept, u \in upd : ~Same(m, u) /\ ~Same(u, m)
    BY <1>5, <1>10 DEF Same
  <2> QED
    BY <1>6, <1>7, <2>1 DEF KeyInv, PrivateUnique, Unique
<1>12. ASSUME NEW v \in Workers \ {w}, NEW m \in mine[v], NEW n \in kept \cup upd PROVE ~Same(m, n)
  <2>1. CASE n \in kept
    BY <1>6, <2>1 DEF KeyInv, NothingShared
  <2>2. CASE n \in upd
    <3>1. PICK r \in old : n.coll = r.coll /\ n.key = r.key /\ n.id = r.id
      BY <1>5, <2>2
    <3>2. ~SameKey(m, r)
      BY <1>8
    <3>3. ~Same(m, r)
      BY <1>4, <3>2 DEF KeyInv, NothingShared, LaterVersions, Supersedes, Same, SameKey
    <3> QED
      BY <3>1, <3>3 DEF Same
  <2> QED
    BY <2>1, <2>2
<1>13. ASSUME NEW m \in kept \cup upd, NEW s \in rows PROVE Supersedes(m, s)
  <2>1. CASE m \in kept
    BY <1>6, <2>1 DEF KeyInv, LaterVersions
  <2>2. CASE m \in upd
    <3>1. PICK r \in old : /\ m.coll = r.coll /\ m.key = r.key /\ m.id = r.id /\ m.seq = r.seq
                           /\ m.version = r.version + 1
      BY <1>5, <2>2
    <3>2. r.version \in Nat /\ s.version \in Nat
      BY <1>9 DEF KeyInv, TypeInv, TypeOK, Row
    <3>3. CASE r \in rows
      <4>1. Same(r, s) => r = s
        BY <3>3 DEF KeyInv, Unique
      <4> QED
        BY <3>1, <3>2, <4>1 DEF Supersedes, Same, SameKey
    <3>4. CASE r \in mine[w]
      <4>1. Supersedes(r, s)
        BY <3>4 DEF KeyInv, LaterVersions
      <4> QED
        BY <3>1, <3>2, <4>1 DEF Supersedes, Same, SameKey
    <3> QED
      BY <1>4, <3>3, <3>4
  <2> QED
    BY <2>1, <2>2
<1> QED
  BY <1>1, <1>11, <1>12, <1>13, PrivateRowsChange

LEMMA EndKeepsKeys ==
    ASSUME KeyInv, TypeInv', NEW w \in Workers, Commit(w) \/ Rollback(w)
    PROVE  KeyInv'
<1>1. mine' = [mine EXCEPT ![w] = {}] /\ (rows' = View(w) \/ rows' = rows)
  BY DEF Commit, Rollback, Ended
<1>2. mine'[w] = {} /\ \A v \in Workers \ {w} : mine'[v] = mine[v]
  BY <1>1 DEF KeyInv, TypeInv, TypeOK
<1>3. Unique(rows)'
  BY <1>1, ViewUnique DEF KeyInv, Unique
<1>4. PrivateUnique'
  BY <1>2 DEF KeyInv, PrivateUnique, Unique
<1>5. NothingShared'
  BY <1>2 DEF KeyInv, NothingShared
<1>6. LaterVersions'
  <2> SUFFICES ASSUME NEW v \in Workers, NEW m \in mine'[v], NEW r \in rows'
               PROVE  Supersedes(m, r)
    BY DEF LaterVersions
  <2>1. v # w /\ m \in mine[v]
    BY <1>2
  <2>2. r \in rows \/ r \in mine[w]
    BY <1>1 DEF View, Over
  <2>3. CASE r \in rows
    BY <2>1, <2>3 DEF KeyInv, LaterVersions
  <2>4. CASE r \in mine[w]
    <3>1. ~Same(m, r)
      BY <2>1, <2>4 DEF KeyInv, NothingShared
    <3> QED
      BY <3>1 DEF Supersedes, Same, SameKey
  <2> QED
    BY <2>2, <2>3, <2>4
<1> QED
  BY <1>3, <1>4, <1>5, <1>6 DEF KeyInv

LEMMA NextKeys == KeyInv /\ [Next]_vars => KeyInv'
<1> SUFFICES ASSUME KeyInv, [Next]_vars PROVE KeyInv'
  OBVIOUS
<1>1. TypeInv'
  BY NextType DEF KeyInv
<1>2. \/ UNCHANGED <<rows, mine>>
      \/ \E w \in Workers : AppendInsert(w) \/ CompareAndSet(w) \/ Commit(w) \/ Rollback(w)
  BY DEF Next, Step, vars, local, Begin, BeginStandalone, AcquireLock, Call, AllLocksHeld,
      AppendExisting, AppendSelect
<1> QED
  BY <1>1, <1>2, KeysStay, InsertKeepsKeys, CompareAndSetKeepsKeys, EndKeepsKeys

LEMMA InitKeys == Init => KeyInv
BY InitType DEF KeyInv, TypeInv, CallUnderWay, Init, Unique, PrivateUnique, NothingShared,
    LaterVersions

(***************************************************************************)
(* However many workers race on a canonical key or a record id, with       *)
(* whatever locks they declared, one row is committed for it.              *)
(***************************************************************************)
THEOREM KeysUnique == Spec => []OneRowPerKeyAndRecord
<1>1. KeyInv => OneRowPerKeyAndRecord
  BY DEF KeyInv, Unique, Same, OneRowPerKeyAndRecord
<1> QED
  BY <1>1, InitKeys, NextKeys, PTL DEF Spec

(***************************************************************************)
(* No silent last-writer-wins: compare_and_set_scoped of two workers never *)
(* replaces the same version of a row twice.                               *)
(***************************************************************************)
THEOREM UpdatesKept == Spec => NoLostUpdate
<1> DEFINE Later == \A r \in rows, s \in rows' :
                       SameKey(r, s) /\ r # s => s.version > r.version /\ s.id = r.id /\ s.seq = r.seq
<1>1. ASSUME KeyInv, [Next]_vars PROVE [Later]_rows
  <2> SUFFICES ASSUME rows' # rows, NEW r \in rows, NEW s \in rows', SameKey(r, s), r # s
               PROVE  s.version > r.version /\ s.id = r.id /\ s.seq = r.seq
    OBVIOUS
  <2>1. PICK w \in Workers : Commit(w)
    BY <1>1 DEF Next, Step, vars, local, Begin, BeginStandalone, AcquireLock, Call,
        AllLocksHeld, AppendExisting, AppendSelect, AppendInsert, CompareAndSet, Rollback
  <2>2. s \in rows \/ s \in mine[w]
    BY <2>1 DEF Commit, View, Over
  <2>3. s \notin rows
    BY <1>1 DEF KeyInv, Unique, Same, SameKey
  <2>4. Supersedes(s, r)
    BY <1>1, <2>2, <2>3 DEF KeyInv, LaterVersions
  <2> QED
    BY <2>4 DEF Supersedes, Same, SameKey
<1> QED
  BY <1>1, InitKeys, NextKeys, PTL DEF Spec, NoLostUpdate

-----------------------------------------------------------------------------
(***************************************************************************)
(* The invariant of the waits.  Once its callback runs a worker has every  *)
(* lock it declared, and what it locked or wrote in the database lies      *)
(* under those locks: a head under its chain lock, a row under the locks   *)
(* of its collection and key.  A transaction of one call (left = 0) makes  *)
(* no other call; every other one declared its locks itself.               *)
(***************************************************************************)
HoldsDeclared(w) ==
    /\ phase[w] \in {"idle", "locking"} => touched[w] = {} /\ mine[w] = {} /\ built[w] = {}
    /\ phase[w] \in {"open", "called", "selected"} => held[w] = declared[w]

Under(w, R) == \A r \in R : WriteLocks(r.coll, r.key) \subseteq declared[w]

WorksUnderLocks(w) ==
    /\ call[w] \in Calls => WriteLocks(call[w].coll, call[w].key) \subseteq declared[w]
    /\ \A c \in touched[w] : Chain(c) \in declared[w]
    /\ Under(w, mine[w]) /\ Under(w, built[w])

OneCallOrDeclared(w) ==
    \/ phase[w] = "idle"
    \/ declared[w] \in LockSets
    \/ left[w] = 0 /\ (mine[w] = {} \/ phase[w] = "open")

\* A row has the record id that some call gave to its key.
Appended(r) ==
    \E cl \in Calls :
        cl.op = "append" /\ cl.coll = r.coll /\ cl.key = r.key /\ RecordId[cl.payload] = r.id

KnownRecords(w) == \A r \in mine[w] \cup built[w] : Appended(r)

IdleCalls(w) == phase[w] = "idle" => call[w] \notin Calls

Waits(w) ==
    IdleCalls(w) /\ HoldsDeclared(w) /\ WorksUnderLocks(w) /\ OneCallOrDeclared(w) /\ KnownRecords(w)

WaitInv == LockInv /\ (\A r \in rows : Appended(r)) /\ \A w \in Workers : Waits(w)

LEMMA InitWaits == Init => WaitInv
<1> SUFFICES ASSUME Init PROVE WaitInv
  OBVIOUS
<1>1. LockInv
  BY InitType DEF LockInv, TypeInv, CallUnderWay, IdleIsClean, LocksTakenInOrder, Init
<1>2. NoCall \notin Calls
  BY PgScopedLedgerAssumption
<1>3. ASSUME NEW w \in Workers PROVE Waits(w)
  BY <1>2 DEF Init, Waits, IdleCalls, HoldsDeclared, WorksUnderLocks, Under, OneCallOrDeclared, KnownRecords
<1> QED
  BY <1>1, <1>3 DEF WaitInv, Init

\* The step of one worker leaves the others alone.
LEMMA OthersKept ==
    ASSUME TypeOK, NEW w \in Workers, NEW v \in Workers \ {w},
           Begin(w) \/ BeginStandalone(w) \/ AcquireLock(w) \/ Call(w) \/ Step(w) \/ Rollback(w)
    PROVE  /\ phase'[v] = phase[v] /\ declared'[v] = declared[v] /\ held'[v] = held[v]
           /\ left'[v] = left[v] /\ call'[v] = call[v] /\ built'[v] = built[v]
           /\ mine'[v] = mine[v] /\ touched'[v] = touched[v]
<1>1. /\ DOMAIN phase = Workers /\ DOMAIN declared = Workers /\ DOMAIN held = Workers
      /\ DOMAIN left = Workers /\ DOMAIN call = Workers /\ DOMAIN built = Workers
      /\ DOMAIN mine = Workers /\ DOMAIN touched = Workers
  BY DEF TypeOK
<1>2. CASE Begin(w)
  BY <1>1, <1>2 DEF Begin
<1>3. CASE BeginStandalone(w)
  BY <1>1, <1>3 DEF BeginStandalone
<1>4. CASE AcquireLock(w)
  BY <1>1, <1>4 DEF AcquireLock
<1>5. CASE Call(w)
  BY <1>1, <1>5 DEF Call
<1>6. CASE AllLocksHeld(w)
  BY <1>1, <1>6 DEF AllLocksHeld
<1>7. CASE AppendExisting(w)
  BY <1>1, <1>7 DEF AppendExisting, Returned
<1>8. CASE AppendSelect(w)
  BY <1>1, <1>8 DEF AppendSelect
<1>9. CASE AppendInsert(w)
  BY <1>1, <1>9 DEF AppendInsert, Returned
<1>10. CASE CompareAndSet(w)
  BY <1>1, <1>10 DEF CompareAndSet, Returned
<1>11. CASE Ended(w)
  BY <1>1, <1>11 DEF Ended
<1> QED
  BY <1>2, <1>3, <1>4, <1>5, <1>6, <1>7, <1>8, <1>9, <1>10, <1>11 DEF Step, Commit, Rollback

\* The worker's own step keeps its invariant.
LEMMA BeginWaits ==
    ASSUME WaitInv, NEW w \in Workers, Begin(w) \/ BeginStandalone(w) \/ Call(w)
    PROVE  Waits(w)'
<1>1. TypeOK /\ Waits(w)
  BY DEF WaitInv, LockInv, TypeInv
<1>2. UNCHANGED <<held, built, mine, touched>>
  BY DEF Begin, BeginStandalone, Call
<1>3. KnownRecords(w)'
  BY <1>1, <1>2 DEF Waits, KnownRecords, Appended
<1>4. CASE Begin(w)
  <2>1. touched[w] = {} /\ mine[w] = {} /\ built[w] = {} /\ phase'[w] = "locking" /\ call'[w] = call[w]
    BY <1>1, <1>4 DEF Begin, Waits, HoldsDeclared, TypeOK
  <2>2. declared'[w] \in LockSets
    BY <1>1, <1>4 DEF Begin, TypeOK
  <2>3. call[w] \notin Calls
    BY <1>1, <1>4 DEF Begin, Waits, IdleCalls
  <2> QED
    BY <1>2, <1>3, <2>1, <2>2, <2>3
    DEF Waits, IdleCalls, HoldsDeclared, WorksUnderLocks, Under, OneCallOrDeclared
<1>5. CASE BeginStandalone(w)
  <2>1. PICK cl \in Calls : /\ declared' = [declared EXCEPT ![w] = WriteLocks(cl.coll, cl.key)]
                            /\ call' = [call EXCEPT ![w] = cl]
    BY <1>5 DEF BeginStandalone
  <2>2. /\ touched[w] = {} /\ mine[w] = {} /\ built[w] = {} /\ phase'[w] = "locking"
        /\ call'[w] = cl /\ declared'[w] = WriteLocks(cl.coll, cl.key) /\ left'[w] = 0
    BY <1>1, <1>5, <2>1 DEF BeginStandalone, Waits, HoldsDeclared, TypeOK
  <2> QED
    BY <1>2, <1>3, <2>2 DEF Waits, IdleCalls, HoldsDeclared, WorksUnderLocks, Under, OneCallOrDeclared
<1>6. CASE Call(w)
  <2>1. PICK cl \in Calls : /\ WriteLocks(cl.coll, cl.key) \subseteq declared[w]
                            /\ call' = [call EXCEPT ![w] = cl]
    BY <1>6 DEF Call
  <2>2. /\ phase[w] = "open" /\ phase'[w] = "called" /\ call'[w] = cl /\ left[w] > 0
        /\ declared' = declared
    BY <1>1, <1>6, <2>1 DEF Call, TypeOK
  <2>3. left[w] # 0
    BY <2>2
  <2>4. declared[w] \in LockSets
    BY <1>1, <2>2, <2>3 DEF Waits, OneCallOrDeclared
  <2> QED
    BY <1>1, <1>2, <1>3, <2>1, <2>2, <2>4
    DEF Waits, IdleCalls, HoldsDeclared, WorksUnderLocks, Under, OneCallOrDeclared
<1> QED
  BY <1>4, <1>5, <1>6

LEMMA LockingWaits ==
    ASSUME WaitInv, NEW w \in Workers, AcquireLock(w) \/ AllLocksHeld(w) \/ AppendExisting(w)
    PROVE  Waits(w)'
<1>1. TypeOK /\ Waits(w)
  BY DEF WaitInv, LockInv, TypeInv
<1>2. UNCHANGED <<declared, left, built, mine, touched>>
  BY DEF AcquireLock, AllLocksHeld, AppendExisting
<1>3. KnownRecords(w)'
  BY <1>1, <1>2 DEF Waits, KnownRecords, Appended
<1>4. CASE AcquireLock(w)
  <2>1. phase' = phase /\ call' = call /\ phase[w] = "locking"
    BY <1>4 DEF AcquireLock
  <2> QED
    BY <1>1, <1>2, <1>3, <2>1
    DEF Waits, IdleCalls, HoldsDeclared, WorksUnderLocks, Under, OneCallOrDeclared
<1>5. CASE AllLocksHeld(w)
  <2>1. /\ call' = call /\ held' = held /\ phase[w] = "locking" /\ held[w] = declared[w]
        /\ phase'[w] \in {"open", "called"}
    BY <1>1, <1>5 DEF AllLocksHeld, TypeOK
  <2> QED
    BY <1>1, <1>2, <1>3, <2>1
    DEF Waits, IdleCalls, HoldsDeclared, WorksUnderLocks, Under, OneCallOrDeclared
<1>6. CASE AppendExisting(w)
  <2>1. /\ held' = held /\ phase[w] = "called" /\ phase'[w] = "open" /\ call'[w] = NoCall
    BY <1>1, <1>6 DEF AppendExisting, Returned, TypeOK
  <2>2. NoCall \notin Calls
    BY PgScopedLedgerAssumption
  <2> QED
    BY <1>1, <1>2, <1>3, <2>1, <2>2
    DEF Waits, IdleCalls, HoldsDeclared, WorksUnderLocks, Under, OneCallOrDeclared
<1> QED
  BY <1>4, <1>5, <1>6

LEMMA SelectWaits ==
    ASSUME WaitInv, NEW w \in Workers, AppendSelect(w)
    PROVE  Waits(w)'
<1> DEFINE cl == call[w]
<1>1. TypeOK /\ Waits(w) /\ CallUnderWay
  BY DEF WaitInv, LockInv, TypeInv
<1>2. /\ UNCHANGED <<declared, held, left, call, mine>>
      /\ phase[w] = "called" /\ phase'[w] = "selected" /\ cl.op = "append"
  BY <1>1 DEF AppendSelect, TypeOK
<1>3. cl \in Calls /\ WriteLocks(cl.coll, cl.key) \subseteq declared[w]
  BY <1>1, <1>2 DEF CallUnderWay, Waits, WorksUnderLocks
<1>4. \A r \in built'[w] : r.coll = cl.coll /\ r.key = cl.key /\ r.id = RecordId[cl.payload]
  <2>1. CASE cl.coll \in Linked
    <3>1. built'[w] = {LinkedRow(cl.coll, cl.key, cl.payload, HeadSeen(w, cl.coll))}
      BY <1>1, <2>1 DEF AppendSelect, TypeOK
    <3> QED
      BY <3>1 DEF LinkedRow
  <2>2. CASE cl.coll \notin Linked
    <3>1. built'[w] = {StandaloneRow(cl.coll, cl.key, cl.payload, n) :
                           n \in NextMutableSequence(View(w), cl.coll)}
      BY <1>1, <2>2 DEF AppendSelect, TypeOK
    <3> QED
      BY <3>1 DEF StandaloneRow
  <2> QED
    BY <2>1, <2>2
<1>5. ASSUME NEW c \in touched'[w] PROVE Chain(c) \in declared[w]
  <2>1. c \in touched[w] \/ (c = cl.coll /\ cl.coll \in Linked)
    BY <1>1 DEF AppendSelect, TypeOK
  <2>2. cl.coll \in Linked => Chain(cl.coll) \in declared[w]
    BY <1>3 DEF WriteLocks
  <2> QED
    BY <1>1, <2>1, <2>2 DEF Waits, WorksUnderLocks
<1> HIDE DEF cl
<1>6. KnownRecords(w)'
  BY <1>1, <1>2, <1>3, <1>4 DEF Waits, KnownRecords, Appended
<1>7. WorksUnderLocks(w)'
  BY <1>1, <1>2, <1>3, <1>4, <1>5 DEF Waits, WorksUnderLocks, Under, cl
<1> QED
  BY <1>1, <1>2, <1>6, <1>7 DEF Waits, IdleCalls, HoldsDeclared, OneCallOrDeclared

LEMMA InsertWaits ==
    ASSUME WaitInv, NEW w \in Workers, AppendInsert(w)
    PROVE  Waits(w)'
<1>1. TypeOK /\ Waits(w) /\ NoCall \notin Calls
  BY PgScopedLedgerAssumption DEF WaitInv, LockInv, TypeInv
<1>2. PICK new \in built[w] : mine'[w] = mine[w] \/ mine'[w] = mine[w] \cup {new}
  BY <1>1 DEF AppendInsert, TypeOK
<1>3. /\ UNCHANGED <<declared, held, left, touched>> /\ built'[w] = {}
      /\ phase[w] = "selected" /\ phase'[w] = "open" /\ call'[w] = NoCall
  BY <1>1 DEF AppendInsert, Returned, TypeOK
<1>4. mine'[w] \subseteq mine[w] \cup built[w]
  BY <1>2
<1>5. KnownRecords(w)'
  BY <1>1, <1>3, <1>4 DEF Waits, KnownRecords, Appended
<1>6. WorksUnderLocks(w)'
  BY <1>1, <1>3, <1>4 DEF Waits, WorksUnderLocks, Under
<1> QED
  BY <1>1, <1>3, <1>5, <1>6 DEF Waits, IdleCalls, HoldsDeclared, OneCallOrDeclared

LEMMA CompareAndSetWaits ==
    ASSUME WaitInv, NEW w \in Workers, CompareAndSet(w)
    PROVE  Waits(w)'
<1> DEFINE cl == call[w]
           old == {r \in At(View(w), cl.coll, cl.key) : Expected(cl, r)}
           kept == {m \in mine[w] : \A r \in old : ~SameKey(m, r)}
           upd == {Replaced(r, cl.payload) : r \in old}
<1>1. TypeOK /\ Waits(w) /\ NoCall \notin Calls /\ CallUnderWay
  BY PgScopedLedgerAssumption DEF WaitInv, LockInv, TypeInv
<1>2. mine'[w] = kept \cup upd
  BY <1>1 DEF CompareAndSet, TypeOK
<1>3. /\ UNCHANGED <<declared, held, left, touched, built>>
      /\ phase[w] = "called" /\ phase'[w] = "open" /\ call'[w] = NoCall
  BY <1>1 DEF CompareAndSet, Returned, TypeOK
<1>4. WriteLocks(cl.coll, cl.key) \subseteq declared[w]
  BY <1>1, <1>3 DEF CallUnderWay, Waits, WorksUnderLocks
<1>5. \A r \in old : (r \in mine[w] \/ r \in rows) /\ r.coll = cl.coll /\ r.key = cl.key
  BY DEF At, Group, View, Over
<1>6. \A u \in upd : \E r \in old : u.coll = r.coll /\ u.key = r.key /\ u.id = r.id
  BY DEF Replaced
<1>7. kept \subseteq mine[w]
  OBVIOUS
<1> HIDE DEF cl, old, kept, upd
<1>8. \A r \in old : Appended(r)
  BY <1>1, <1>5 DEF WaitInv, Waits, KnownRecords
<1>9. \A u \in upd : Appended(u)
  BY <1>6, <1>8 DEF Appended
<1>10. \A m \in mine'[w] \cup built'[w] : Appended(m)
  BY <1>1, <1>2, <1>3, <1>7, <1>9 DEF Waits, KnownRecords
<1>11. KnownRecords(w)'
  BY <1>10 DEF KnownRecords, Appended
<1>12. Under(w, upd)
  BY <1>4, <1>5, <1>6 DEF Under
<1>13. WorksUnderLocks(w)'
  BY <1>1, <1>2, <1>3, <1>7, <1>12 DEF Waits, WorksUnderLocks, Under
<1> QED
  BY <1>1, <1>3, <1>11, <1>13 DEF Waits, IdleCalls, HoldsDeclared, OneCallOrDeclared

LEMMA EndWaits ==
    ASSUME WaitInv, NEW w \in Workers, Ended(w)
    PROVE  Waits(w)'
<1>1. TypeOK /\ NoCall \notin Calls
  BY PgScopedLedgerAssumption DEF WaitInv, LockInv, TypeInv
<1>2. /\ phase'[w] = "idle" /\ call'[w] = NoCall /\ built'[w] = {} /\ mine'[w] = {}
      /\ touched'[w] = {}
  BY <1>1 DEF Ended, TypeOK
<1> QED
  BY <1>1, <1>2 DEF Waits, IdleCalls, HoldsDeclared, WorksUnderLocks, Under, OneCallOrDeclared,
      KnownRecords

LEMMA NextWaits == WaitInv /\ [Next]_vars => WaitInv'
<1> SUFFICES ASSUME WaitInv, [Next]_vars PROVE WaitInv'
  OBVIOUS
<1>1. LockInv'
  BY NextLocks DEF WaitInv
<1>2. CASE UNCHANGED vars
  BY <1>1, <1>2 DEF WaitInv, Waits, IdleCalls, HoldsDeclared, WorksUnderLocks, Under,
      OneCallOrDeclared, KnownRecords, Appended, vars, local
<1> SUFFICES ASSUME NEW w \in Workers,
                    Begin(w) \/ BeginStandalone(w) \/ AcquireLock(w) \/ Call(w)
                       \/ Step(w) \/ Rollback(w)
             PROVE  WaitInv'
  BY <1>2 DEF Next
<1>3. Waits(w)'
  BY BeginWaits, LockingWaits, SelectWaits, InsertWaits, CompareAndSetWaits, EndWaits
  DEF Step, Commit, Rollback
<1>4. ASSUME NEW v \in Workers \ {w} PROVE Waits(v)'
  <2>1. Waits(v) /\ TypeOK
    BY DEF WaitInv, LockInv, TypeInv
  <2> QED
    BY <2>1, OthersKept DEF Waits, IdleCalls, HoldsDeclared, WorksUnderLocks, Under,
        OneCallOrDeclared, KnownRecords, Appended
<1>5. \A r \in rows' : r \in rows \/ r \in mine[w]
  BY DEF Begin, BeginStandalone, AcquireLock, Call, Step, AllLocksHeld, AppendExisting,
      AppendSelect, AppendInsert, CompareAndSet, Commit, Rollback, View, Over
<1>6. \A r \in rows' : Appended(r)
  BY <1>5 DEF WaitInv, Waits, KnownRecords
<1> QED
  BY <1>1, <1>3, <1>4, <1>6 DEF WaitInv, Appended

(***************************************************************************)
(* Who can wait for whom.  Two transactions whose callbacks run have       *)
(* disjoint locks, so neither waits for a head or a key of the other: what *)
(* is left is the unique index on the record id, in a collection without a *)
(* chain lock, when two calls give one record two keys.                    *)
(***************************************************************************)
LEMMA WaitsForARecordId ==
    ASSUME WaitInv, NEW w \in Workers, NEW v \in Workers \ {w},
           Blocks(v, w), phase[w] # "locking"
    PROVE  /\ phase[w] = "selected"
           /\ \E m \in mine[v], new \in built[w] :
                 /\ m.coll = new.coll /\ m.coll \in Mutable
                 /\ m.id = new.id /\ m.key # new.key
<1>1. TypeOK /\ Waits(w) /\ Waits(v) /\ CallUnderWay
  BY DEF WaitInv, LockInv, TypeInv
<1>2. phase[w] \in {"called", "selected"} /\ held[w] = declared[w]
  BY <1>1 DEF Blocks, Waits, HoldsDeclared
<1>3. ASSUME NEW l, l \in declared[w], l \in declared[v], held[v] = declared[v] PROVE FALSE
  BY <1>2, <1>3 DEF WaitInv, LockInv, LocksTakenInOrder
<1>4. touched[v] # {} \/ mine[v] # {} => held[v] = declared[v]
  BY <1>1 DEF Waits, HoldsDeclared, TypeOK
<1>5. ~(phase[w] = "called" /\ call[w].op = "append" /\ call[w].coll \in touched[v])
  <2> SUFFICES ASSUME phase[w] = "called", call[w].op = "append", call[w].coll \in touched[v]
               PROVE  FALSE
    OBVIOUS
  <2>1. call[w] \in Calls /\ call[w].coll \in Linked
    BY <1>1 DEF CallUnderWay, TypeOK
  <2>2. Chain(call[w].coll) \in declared[w]
    BY <1>1, <2>1 DEF Waits, WorksUnderLocks, WriteLocks
  <2>3. Chain(call[w].coll) \in declared[v]
    BY <1>1 DEF Waits, WorksUnderLocks
  <2> QED
    BY <1>3, <1>4, <2>2, <2>3
<1>6. ~(phase[w] = "called" /\ call[w].op = "cas" /\ At(mine[v], call[w].coll, call[w].key) # {})
  <2> SUFFICES ASSUME phase[w] = "called",
                      NEW m \in mine[v], m.coll = call[w].coll, m.key = call[w].key
               PROVE  FALSE
    BY DEF At, Group
  <2>1. call[w] \in Calls
    BY <1>1 DEF CallUnderWay
  <2>2. Canonical(m.coll, m.key) \in declared[w]
    BY <1>1, <2>1 DEF Waits, WorksUnderLocks, WriteLocks
  <2>3. Canonical(m.coll, m.key) \in declared[v]
    BY <1>1 DEF Waits, WorksUnderLocks, Under, WriteLocks
  <2> QED
    BY <1>3, <1>4, <2>2, <2>3
<1>7. PICK m \in mine[v], new \in built[w] : phase[w] = "selected" /\ Conflict(m, new)
  BY <1>5, <1>6 DEF Blocks
<1>8. /\ WriteLocks(m.coll, m.key) \subseteq declared[v]
      /\ WriteLocks(new.coll, new.key) \subseteq declared[w]
      /\ m.coll = new.coll /\ held[v] = declared[v]
  BY <1>1, <1>4, <1>7 DEF Waits, WorksUnderLocks, Under, Conflict
<1>9. m.key # new.key
  BY <1>3, <1>8 DEF WriteLocks
<1>10. m.coll \notin Linked
  BY <1>3, <1>8 DEF WriteLocks
<1>11. m.coll \in Mutable
  BY <1>1, <1>10 DEF TypeOK, Row, Collections
<1>12. m.id = new.id
  BY <1>7, <1>9, <1>10, <1>8 DEF Conflict
<1> QED
  BY <1>7, <1>8, <1>9, <1>11, <1>12

(***************************************************************************)
(* What NoWaitCycle rests on.  The advisory locks order collections and    *)
(* keys, not record ids: two callbacks that could give one record id two   *)
(* keys of a collection without a chain must exclude each other.  The      *)
(* callers of run_scoped_transaction in src/ (grdi/service.py and          *)
(* grdi/migration.py) append to chain-linked collections only.             *)
(***************************************************************************)
RecordIdsGuarded ==
    \A L, M \in LockSets, cl, dl \in Calls :
        /\ cl.op = "append" /\ dl.op = "append"
        /\ cl.coll = dl.coll /\ cl.coll \in Mutable
        /\ RecordId[cl.payload] = RecordId[dl.payload] /\ cl.key # dl.key
        /\ WriteLocks(cl.coll, cl.key) \subseteq L /\ WriteLocks(dl.coll, dl.key) \subseteq M
        => L \cap M # {}

WaitCycle(S) == S # {} /\ \A w \in S : \E v \in S \ {w} : Blocks(v, w)

\* Whoever is in a cycle of waits waits for an advisory lock.
LEMMA CycleOfLocks ==
    ASSUME RecordIdsGuarded, WaitInv, NEW S \in SUBSET Workers, WaitCycle(S), NEW w \in S
    PROVE  phase[w] = "locking"
<1> SUFFICES ASSUME phase[w] # "locking" PROVE FALSE
  OBVIOUS
<1>1. TypeOK /\ \A v \in S : Waits(v)
  BY DEF WaitInv, LockInv, TypeInv
<1>2. PICK v \in S \ {w} : Blocks(v, w)
  BY DEF WaitCycle
<1>3. mine[v] # {}
  BY <1>2, WaitsForARecordId
<1>4. PICK u \in S \ {v} : Blocks(u, v)
  BY DEF WaitCycle
<1>5. \A x \in S : mine[x] # {} => phase[x] # "locking"
  BY <1>1 DEF Waits, HoldsDeclared
<1>6. /\ phase[v] = "selected"
      /\ \E m \in mine[u], new \in built[v] :
            m.coll = new.coll /\ m.coll \in Mutable /\ m.id = new.id /\ m.key # new.key
  BY <1>3, <1>4, <1>5, WaitsForARecordId
<1>7. PICK m \in mine[u], new \in built[v] :
         m.coll = new.coll /\ m.coll \in Mutable /\ m.id = new.id /\ m.key # new.key
  BY <1>6
<1>8. phase[u] = "selected"
  <2>1. PICK x \in S \ {u} : Blocks(x, u)
    BY DEF WaitCycle
  <2> QED
    BY <1>5, <1>7, <2>1, WaitsForARecordId
<1>9. /\ declared[u] \in LockSets /\ declared[v] \in LockSets
      /\ held[u] = declared[u] /\ held[v] = declared[v]
  BY <1>1, <1>3, <1>6, <1>7, <1>8 DEF Waits, OneCallOrDeclared, HoldsDeclared
<1>10. /\ WriteLocks(m.coll, m.key) \subseteq declared[u] /\ Appended(m)
       /\ WriteLocks(new.coll, new.key) \subseteq declared[v] /\ Appended(new)
  BY <1>1, <1>7 DEF Waits, WorksUnderLocks, Under, KnownRecords
<1>11. declared[u] \cap declared[v] # {}
  BY <1>7, <1>9, <1>10 DEF RecordIdsGuarded, Appended
<1> QED
  BY <1>4, <1>9, <1>11 DEF WaitInv, LockInv, LocksTakenInOrder

\* Before is a strict order, and a worker waits for one lock at a time.
LEMMA LockOrderStrict ==
    /\ \A l \in Lock : ~Before(l, l)
    /\ \A l, m, n \in Lock : Before(l, m) /\ Before(m, n) => Before(l, n)
<1>1. ASSUME NEW l \in Lock PROVE l.coll \in Nat /\ l.key \in Nat
  <2>1. l.coll \in Collections /\ l.key \in Keys \cup {0}
    BY DEF Lock
  <2>2. Collections \subseteq Nat /\ Keys \subseteq Nat
    BY ScopedRowsAssumption DEF Collections
  <2>3. Keys \cup {0} \subseteq Nat
    BY ONLY <2>2
  <2> HIDE DEF Collections
  <2> QED
    BY ONLY <2>1, <2>2, <2>3
<1> QED
  BY <1>1 DEF Before

LEMMA OneNextLock ==
    ASSUME TypeOK, NEW w \in Workers, NEW l, NEW m, IsNextLock(w, l), IsNextLock(w, m)
    PROVE  l \in Lock /\ m = l
<1>1. l \in Lock /\ m \in Lock
  BY DEF IsNextLock, TypeOK
<1> QED
  BY <1>1, LockOrderStrict DEF IsNextLock

\* The workers of S that wait for a later lock than w does.
WaitLater(S, w) ==
    {v \in S : \E l, m \in Lock : IsNextLock(w, l) /\ IsNextLock(v, m) /\ Before(l, m)}

LEMMA WhoBlocksWaitsLater ==
    ASSUME WaitInv, NEW S \in SUBSET Workers, NEW w \in S, NEW v \in S,
           Blocks(v, w), phase[w] = "locking", \E m \in Lock : IsNextLock(v, m)
    PROVE  WaitLater(S, v) \subseteq WaitLater(S, w) /\ WaitLater(S, v) # WaitLater(S, w)
<1>1. TypeOK /\ LocksTakenInOrder
  BY DEF WaitInv, LockInv, TypeInv
<1>2. PICK l \in held[v] : IsNextLock(w, l)
  BY DEF Blocks
<1>3. PICK m \in Lock : IsNextLock(v, m)
  OBVIOUS
<1>4. l \in Lock /\ Before(l, m)
  BY <1>1, <1>2, <1>3 DEF IsNextLock, LocksTakenInOrder, TypeOK
<1>5. v \in WaitLater(S, w)
  BY <1>2, <1>3, <1>4 DEF WaitLater
<1>6. v \notin WaitLater(S, v)
  BY <1>1, OneNextLock, LockOrderStrict DEF WaitLater
<1>7. ASSUME NEW x \in WaitLater(S, v) PROVE x \in WaitLater(S, w)
  <2>1. PICK n \in Lock : IsNextLock(x, n) /\ Before(m, n)
    BY <1>1, <1>3, <1>7, OneNextLock DEF WaitLater
  <2>2. Before(l, n)
    BY <1>4, <2>1, LockOrderStrict
  <2> QED
    BY <1>2, <1>4, <1>7, <2>1, <2>2 DEF WaitLater
<1> QED
  BY <1>5, <1>6, <1>7

LEMMA WaitsEnd ==
    ASSUME RecordIdsGuarded, IsFiniteSet(Workers), WaitInv
    PROVE  NoWaitCycle
<1> SUFFICES ASSUME NEW S \in SUBSET Workers, WaitCycle(S) PROVE FALSE
  BY DEF NoWaitCycle, WaitCycle
<1> DEFINE sets == {WaitLater(S, w) : w \in S}
<1>1. IsFiniteSet(S)
  BY FS_Subset
<1>2. \A w \in S : phase[w] = "locking"
  BY CycleOfLocks
<1>3. \A w \in S : \E v \in S \ {w} : Blocks(v, w)
  BY DEF WaitCycle
<1>4. ASSUME NEW w \in S PROVE \E m \in Lock : IsNextLock(w, m)
  <2>1. PICK v \in S \ {w} : Blocks(v, w)
    BY <1>3
  <2>2. PICK m \in held[v] : IsNextLock(w, m)
    BY ONLY <1>2, <2>1 DEF Blocks
  <2>3. held[v] \subseteq Lock
    BY <2>1 DEF WaitInv, LockInv, TypeInv, TypeOK
  <2> QED
    BY ONLY <2>2, <2>3
<1>5. sets # {} /\ sets \subseteq FiniteSubsetsOf(S)
  <2>1. \A w \in S : WaitLater(S, w) \in SUBSET S
    BY DEF WaitLater
  <2>2. \A w \in S : IsFiniteSet(WaitLater(S, w))
    BY <1>1, <2>1, FS_Subset
  <2> QED
    BY <2>1, <2>2 DEF WaitCycle, FiniteSubsetsOf
<1>6. PICK x \in sets : \A y \in sets : <<y, x>> \notin StrictSubsetOrdering(S)
  <2> HIDE DEF sets
  <2>1. IsWellFoundedOn(StrictSubsetOrdering(S), FiniteSubsetsOf(S))
    BY FS_StrictSubsetOrderingWellFounded
  <2>2. \E y \in sets : \A z \in sets : ~(<<z, y>> \in StrictSubsetOrdering(S))
    BY ONLY <1>5, <2>1, WFMin
  <2> QED
    BY <2>2
<1>7. PICK w \in S : x = WaitLater(S, w)
  BY <1>6
<1>8. PICK v \in S : Blocks(v, w)
  BY <1>3
<1>9. WaitLater(S, v) \subseteq x /\ WaitLater(S, v) # x
  BY <1>2, <1>4, <1>7, <1>8, WhoBlocksWaitsLater
<1>10. <<WaitLater(S, v), x>> \in StrictSubsetOrdering(S)
  BY <1>7, <1>9 DEF StrictSubsetOrdering, WaitLater
<1> QED
  BY <1>6, <1>10

(***************************************************************************)
(* No set of workers, however many and whatever locks and calls they       *)
(* choose, ever waits for itself: the global order of the pre-declared     *)
(* locks also keeps the row locks and the unique indexes of PostgreSQL     *)
(* from closing a cycle, where record ids are guarded.                     *)
(***************************************************************************)
THEOREM NoDeadlock ==
    ASSUME RecordIdsGuarded, IsFiniteSet(Workers)
    PROVE  Spec => []NoWaitCycle
<1>1. WaitInv => NoWaitCycle
  BY WaitsEnd
<1> QED
  BY <1>1, InitWaits, NextWaits, PTL DEF Spec

-----------------------------------------------------------------------------
(***************************************************************************)
(* The engine implements LedgerCommit.                                     *)
(***************************************************************************)
LEMMA InitRefines == Init => Abstract!Init
BY DEF Init, Abstract!Init, Abstract!Empty, NoHeads, NoHead, NoHash

LEMMA StepRefines == ChainInv /\ [Next]_vars => [Abstract!Next]_(Abstract!vars)
<1> SUFFICES ASSUME ChainInv, [Next]_vars PROVE [Abstract!Next]_(Abstract!vars)
    OBVIOUS
<1> USE DEF ChainInv, LockInv, TypeInv, TypeOK
<1> DEFINE log == [c \in Linked |-> heads[c].hash]
           draft == [v \in Workers |-> [c \in Linked |-> tip[v][c].hash]]
<1>1. CASE UNCHANGED <<heads, touched, tip>>
    BY <1>1 DEF Abstract!vars
<1>2. ASSUME NEW w \in Workers, AppendSelect(w) PROVE [Abstract!Next]_(Abstract!vars)
  <2> DEFINE c == call[w].coll
  <2>1. CASE c \notin Linked
    BY <1>1, <1>2, <2>1 DEF AppendSelect
  <2>2. CASE c \in touched[w]
    <3>1. c \in Linked /\ HeadSeen(w, c) = tip[w][c]
      BY <2>2 DEF HeadSeen
    <3>2. /\ touched' = [touched EXCEPT ![w] = @ \cup {c}]
          /\ tip' = [tip EXCEPT ![w][c] = HeadSeen(w, c)]
          /\ heads' = heads
      BY <1>2, <3>1 DEF AppendSelect
    <3> HIDE DEF c
    <3>3. touched' = touched /\ tip' = tip
      BY <2>2, <3>1, <3>2
    <3> QED  BY <1>1, <3>2, <3>3
  <2>3. CASE c \in Linked /\ c \notin touched[w]
    <3>1. PICK d \in Linked : d = c
      BY <2>3
    <3>2. /\ touched' = [touched EXCEPT ![w] = @ \cup {d}]
          /\ tip' = [tip EXCEPT ![w][d] = heads[d]]
          /\ heads' = heads
      BY <1>2, <2>3, <3>1 DEF AppendSelect, HeadSeen
    <3>3. \A v \in Workers : d \notin touched[v]
      BY <1>2, <2>3, <3>1 DEF AppendSelect, Free, Blocks
    <3>4. draft' = [draft EXCEPT ![w] = [e \in Linked |-> IF e \in {d} THEN log[e] ELSE @[e]]]
      BY <3>2
    <3>5. Abstract!Claim(w, {d})
      BY <3>2, <3>3, <3>4 DEF Abstract!Claim
    <3> QED  BY <3>5 DEF Abstract!Next
  <2> QED  BY <2>1, <2>2, <2>3
<1>3. ASSUME NEW w \in Workers, AppendInsert(w) PROVE [Abstract!Next]_(Abstract!vars)
  <2>1. CASE UNCHANGED tip
    BY <1>1, <1>3, <2>1 DEF AppendInsert
  <2>2. CASE ~UNCHANGED tip
    <3>1. PICK new \in built[w] :
             /\ new.coll \in Linked
             /\ tip' = [tip EXCEPT ![w][new.coll] = [seq |-> new.seq, hash |-> new.hash]]
      BY <1>3, <2>2 DEF AppendInsert
    <3> DEFINE c == new.coll
    <3>2. c \in touched[w] /\ new = LinkedRow(c, new.key, new.payload, tip[w][c])
      BY <3>1 DEF BuiltOnTip
    <3>3. new.hash = Append(tip[w][c].hash, new.payload) /\ new.payload \in Payloads
      BY <3>2 DEF LinkedRow, chain_record_hash, Row
    <3>4. draft' = [draft EXCEPT ![w][c] = Append(@, new.payload)]
      BY <3>1, <3>3
    <3>5. heads' = heads /\ touched' = touched
      BY <1>3 DEF AppendInsert
    <3>6. Abstract!Extend(w, c, new.payload)
      BY <3>2, <3>4, <3>5 DEF Abstract!Extend
    <3> QED  BY <3>1, <3>3, <3>6 DEF Abstract!Next
  <2> QED  BY <2>1, <2>2
<1>4. ASSUME NEW w \in Workers, Ended(w) PROVE Abstract!Release(w)
  <2>1. touched' = [touched EXCEPT ![w] = {}] /\ tip' = [tip EXCEPT ![w] = NoHeads]
    BY <1>4 DEF Ended
  <2>2. draft' = [draft EXCEPT ![w] = [c \in Linked |-> << >>]]
    BY <2>1 DEF NoHeads, NoHead, NoHash
  <2> QED  BY <2>1, <2>2 DEF Abstract!Release, Abstract!Empty
<1>5. ASSUME NEW w \in Workers, Commit(w) PROVE Abstract!Publish(w)
  <2>1. heads' = [c \in Linked |-> HeadSeen(w, c)] /\ Ended(w)
    BY <1>5 DEF Commit
  <2>2. log' = [c \in Linked |-> IF c \in touched[w] THEN draft[w][c] ELSE log[c]]
    BY <2>1 DEF HeadSeen
  <2> QED  BY <1>4, <2>1, <2>2 DEF Abstract!Publish
<1>6. ASSUME NEW w \in Workers, Rollback(w) PROVE Abstract!Discard(w)
  <2>1. Ended(w) /\ log' = log
    BY <1>6 DEF Rollback
  <2> QED  BY <1>4, <2>1 DEF Abstract!Discard
<1>7. CASE \E w \in Workers : Commit(w) \/ Rollback(w)
    BY <1>5, <1>6, <1>7 DEF Abstract!Next
<1>8. \/ UNCHANGED <<heads, touched, tip>>
      \/ \E w \in Workers : AppendSelect(w) \/ AppendInsert(w) \/ Commit(w) \/ Rollback(w)
    BY DEF Next, Step, vars, local, Begin, BeginStandalone, AcquireLock, Call, AllLocksHeld,
        AppendExisting, CompareAndSet
<1> QED
    BY <1>1, <1>2, <1>3, <1>7, <1>8

(***************************************************************************)
(* Every behaviour of the engine is one of the abstract ledger: its chains *)
(* are logs that only grow, extended by one worker at a time and published *)
(* together.                                                               *)
(***************************************************************************)
THEOREM Refinement == Spec => ImplementsLedgerCommit
<1> QED
    BY InitRefines, StepRefines, InitChains, NextChains, PTL
    DEF Spec, ImplementsLedgerCommit, Abstract!Spec

-----------------------------------------------------------------------------
(***************************************************************************)
(* The replay beside it (PgReplayReads), for every set of workers, sources *)
(* and keys: what a replay reads in many statements and on two connections *)
(* is one state of the ledger, because its locks keep every other callback *)
(* of GRDI from running.                                                   *)
(***************************************************************************)

\* A step of the readers is a step of the engine, or leaves it alone.
LEMMA StepOfTheEngine == [ReadersNext]_allVars => [Next]_vars
BY DEF ReadersNext, GrdiWork, SessionRead, VerifyBegin, VerifyRows, VerifyHead, VerifyEnd,
    Next, allVars

(***************************************************************************)
(* A reader is a replay whose callback runs.  Every transaction of GRDI    *)
(* locks a chain that the reader has locked, so the callbacks of all the   *)
(* others wait, and nothing is committed but by the reader itself.         *)
(***************************************************************************)
Running(w) == phase[w] \in {"open", "called", "selected"}

Reader(w) == Running(w) /\ Replaying(w)

GrdiDeclared == \A w \in Workers : phase[w] # "idle" => declared[w] \in GrdiLockSets

\* A replay that runs writes reports only; before it runs, nobody has a call.
OwnReports(w) ==
    /\ phase[w] \in {"idle", "locking"} => call[w] \notin Calls
    /\ Reader(w) => /\ call[w] \in Calls => call[w].coll = Reports
                    /\ \A r \in mine[w] \cup built[w] : r.coll = Reports

ReadersTypeOK ==
    /\ owner \in Workers \cup {NoOne}
    /\ todo \subseteq Linked
    /\ found \in [Linked -> SUBSET Row]
    /\ verdict \in {"none", "rows", "heads", "valid", "invalid"}
    /\ seen \in [Workers -> [Linked -> SUBSET SUBSET Row]]

\* The verification a reader waits for has found what is there.
OwnerVerifies ==
    owner \in Workers =>
        /\ phase[owner] = "open" /\ Replaying(owner)
        /\ verdict \in {"rows", "heads", "valid"}
        /\ \A c \in Linked : verdict # "rows" \/ c \notin todo => found[c] = Group(rows, c)

SeenIsCurrent(w) ==
    \A c \in Sources : \A R \in seen[w][c] : Reader(w) /\ R = Group(rows, c)

EngineInv == WaitInv /\ ChainInv

ReadersInv ==
    /\ EngineInv
    /\ GrdiDeclared
    /\ ReadersTypeOK
    /\ \A w \in Workers : OwnReports(w) /\ SeenIsCurrent(w)
    /\ OwnerVerifies

-----------------------------------------------------------------------------
LEMMA ReaderAlone ==
    ASSUME WaitInv, GrdiDeclared, NEW w \in Workers, Reader(w), NEW v \in Workers \ {w}
    PROVE  ~Running(v)
<1> SUFFICES ASSUME Running(v) PROVE FALSE
  OBVIOUS
<1>1. held[w] = declared[w] /\ held[v] = declared[v] /\ declared[v] \in GrdiLockSets
  BY DEF WaitInv, Waits, HoldsDeclared, GrdiDeclared, Running, Reader
<1>2. \A c \in Sources \cup {Reports} : Chain(c) \in declared[w]
  BY DEF Reader, Replaying, SnapshotLocks, PersistLocks
<1>3. \E c \in Sources \cup {Reports} : Chain(c) \in declared[v]
  <2>1. CASE \E C \in (SUBSET Sources) \ {{}}, k \in Keys : declared[v] = SourceLocks(C, k)
    <3>1. PICK C \in (SUBSET Sources) \ {{}} : \E k \in Keys : declared[v] = SourceLocks(C, k)
      BY <2>1
    <3>2. PICK c : c \in C
      BY <3>1
    <3> QED
      BY <3>1, <3>2 DEF SourceLocks
  <2>2. CASE \E k \in Keys : declared[v] \in {SnapshotLocks(k), PersistLocks(k)}
    BY <2>2 DEF SnapshotLocks, PersistLocks
  <2>3. CASE \E k \in Keys : declared[v] = ComparisonLocks(k)
    BY <2>3 DEF ComparisonLocks
  <2> QED
    BY <1>1, <2>1, <2>2, <2>3 DEF GrdiLockSets
<1> QED
  BY <1>1, <1>2, <1>3 DEF WaitInv, LockInv, LocksTakenInOrder

\* What a reader selects is what is committed: its own rows are reports.
LEMMA ReadsWhatIsThere ==
    ASSUME NEW w \in Workers, OwnReports(w), Reader(w), NEW c \in Sources
    PROVE  Group(View(w), c) = Group(rows, c)
<1>1. \A r \in mine[w] : r.coll # c
  BY PgReplayReadsAssumption DEF OwnReports
<1>2. Group(mine[w], c) = {}
  BY <1>1 DEF Group
<1>3. Group(View(w), c) = Over(Group(mine[w], c), Group(rows, c))
  BY GroupOfOver DEF View
<1>4. \A S : Over({}, S) = S
  <2> TAKE S
  <2>1. \A r \in S : r \in Over({}, S)
    BY DEF Over
  <2>2. \A r \in Over({}, S) : r \in S
    BY DEF Over
  <2> QED
    BY <2>1, <2>2
<1> QED
  BY <1>2, <1>3, <1>4

-----------------------------------------------------------------------------
LEMMA InitReads == ReadersInit => ReadersInv
<1> SUFFICES ASSUME ReadersInit PROVE ReadersInv
  OBVIOUS
<1>1. EngineInv
  BY InitWaits, InitChains DEF EngineInv, ReadersInit
<1>2. GrdiDeclared
  BY DEF GrdiDeclared, ReadersInit, Init
<1>3. NothingFound \in [Linked -> SUBSET Row] /\ NothingFound \in [Linked -> SUBSET SUBSET Row]
  BY DEF NothingFound
<1>4. ReadersTypeOK
  BY <1>3 DEF ReadersTypeOK, ReadersInit
<1>5. ASSUME NEW w \in Workers PROVE OwnReports(w) /\ SeenIsCurrent(w)
  <2>1. ~Reader(w)
    BY DEF Reader, Running, ReadersInit, Init
  <2>2. \A c \in Sources : seen[w][c] = {}
    BY PgReplayReadsAssumption DEF ReadersInit, NothingFound
  <2>3. call[w] \notin Calls
    BY PgScopedLedgerAssumption DEF ReadersInit, Init
  <2> QED
    BY <2>1, <2>2, <2>3 DEF OwnReports, SeenIsCurrent
<1>6. OwnerVerifies
  BY PgReplayReadsAssumption DEF OwnerVerifies, ReadersInit
<1> QED
  BY <1>1, <1>2, <1>4, <1>5, <1>6 DEF ReadersInv

-----------------------------------------------------------------------------
(***************************************************************************)
(* The steps of the transactions.                                          *)
(***************************************************************************)
\* The step of the worker itself.
LEMMA WorkDeclares ==
    ASSUME TypeOK, GrdiDeclared, NEW w \in Workers, GrdiWork(w), phase'[w] # "idle"
    PROVE  declared'[w] \in GrdiLockSets
<1>1. DOMAIN phase = Workers /\ DOMAIN declared = Workers
  BY DEF TypeOK
<1>2. CASE Begin(w)
  BY <1>1, <1>2, GrdiLocksAssumption DEF Begin
<1>3. CASE ~Begin(w)
  <2>1. declared'[w] = declared[w] /\ phase[w] # "idle"
    BY <1>1, <1>3 DEF GrdiWork, AcquireLock, Call, Step, AllLocksHeld, AppendExisting, AppendSelect,
        AppendInsert, CompareAndSet, Commit, Rollback, Ended
  <2> QED
    BY <2>1 DEF GrdiDeclared
<1> QED
  BY <1>2, <1>3

\* Only a commit moves the ledger, and the transaction that makes it is over.
LEMMA WorkCommits ==
    ASSUME TypeOK, NEW w \in Workers, GrdiWork(w), <<rows, heads>>' # <<rows, heads>>
    PROVE  phase[w] = "open" /\ phase'[w] = "idle"
<1>1. Commit(w)
  BY DEF GrdiWork, Begin, AcquireLock, Call, Step, AllLocksHeld, AppendExisting, AppendSelect,
      AppendInsert, CompareAndSet, Rollback
<1> QED
  BY <1>1 DEF Commit, Ended, TypeOK

\* A callback that runs goes on under the same locks, or ends.
LEMMA WorkGoesOn ==
    ASSUME TypeOK, NEW w \in Workers, GrdiWork(w), Running(w)
    PROVE  \/ phase'[w] = "idle"
           \/ Running(w)' /\ declared'[w] = declared[w]
<1>1. DOMAIN phase = Workers /\ DOMAIN declared = Workers
  BY DEF TypeOK
<1>2. CASE Commit(w) \/ Rollback(w)
  BY <1>1, <1>2 DEF Commit, Rollback, Ended
<1>3. CASE ~(Commit(w) \/ Rollback(w))
  BY <1>1, <1>3 DEF GrdiWork, Begin, AcquireLock, Call, Step, AllLocksHeld, AppendExisting,
      AppendSelect, AppendInsert, CompareAndSet, Returned, Running
<1> QED
  BY <1>2, <1>3

\* A reader calls, builds and writes reports only.
LEMMA WorkWritesReports ==
    ASSUME TypeInv, NEW w \in Workers, OwnReports(w), HoldsDeclared(w), GrdiWork(w)
    PROVE  OwnReports(w)'
<1>1. /\ DOMAIN phase = Workers /\ DOMAIN declared = Workers /\ DOMAIN call = Workers
      /\ DOMAIN built = Workers /\ DOMAIN mine = Workers
  BY DEF TypeInv, TypeOK
<1>2. NoCall \notin Calls
  BY PgScopedLedgerAssumption
<1>3. CASE Begin(w) \/ AcquireLock(w)
  <2>1. phase'[w] = "locking" /\ call' = call /\ phase[w] \in {"idle", "locking"}
    BY <1>1, <1>3 DEF Begin, AcquireLock
  <2> QED
    BY <2>1 DEF OwnReports, Reader, Running
<1>4. CASE AllLocksHeld(w)
  <2>1. mine'[w] = {} /\ built'[w] = {} /\ call' = call /\ phase[w] = "locking"
    BY <1>4 DEF AllLocksHeld, HoldsDeclared
  <2>2. phase'[w] \in {"open", "called"}
    BY <1>1, <1>4 DEF AllLocksHeld
  <2> QED
    BY <2>1, <2>2 DEF OwnReports
<1>5. CASE Call(w) /\ WritesItsOwn(w)
  <2>1. /\ phase[w] = "open" /\ phase'[w] = "called" /\ UNCHANGED <<declared, mine, built>>
    BY <1>1, <1>5 DEF Call
  <2>2. Replaying(w)' <=> Replaying(w)
    BY <2>1 DEF Replaying
  <2> QED
    BY <1>2, <1>5, <2>1, <2>2 DEF OwnReports, Reader, Running, WritesItsOwn
<1>6. CASE AppendSelect(w)
  <2> DEFINE cl == call[w]
  <2>1. /\ phase[w] = "called" /\ phase'[w] = "selected" /\ UNCHANGED <<declared, mine, call>>
        /\ cl \in Calls
    BY <1>1, <1>6 DEF AppendSelect, TypeInv, CallUnderWay
  <2>2. \A r \in built'[w] : r.coll = cl.coll
    <3>1. CASE cl.coll \in Linked
      <4>1. built'[w] = {LinkedRow(cl.coll, cl.key, cl.payload, HeadSeen(w, cl.coll))}
        BY <1>1, <1>6, <3>1 DEF AppendSelect
      <4> QED
        BY <4>1 DEF LinkedRow
    <3>2. CASE cl.coll \notin Linked
      <4>1. built'[w] = {StandaloneRow(cl.coll, cl.key, cl.payload, n) :
                            n \in NextMutableSequence(View(w), cl.coll)}
        BY <1>1, <1>6, <3>2 DEF AppendSelect
      <4> QED
        BY <4>1 DEF StandaloneRow
    <3> QED
      BY <3>1, <3>2
  <2> HIDE DEF cl
  <2>3. Reader(w)' => Reader(w)
    BY <2>1 DEF Reader, Running, Replaying
  <2> QED
    BY <2>1, <2>2, <2>3 DEF OwnReports, cl
<1>7. CASE AppendExisting(w) \/ AppendInsert(w) \/ CompareAndSet(w)
  <2>1. /\ phase[w] \in {"called", "selected"} /\ phase'[w] = "open" /\ call'[w] = NoCall
        /\ built'[w] \subseteq built[w] /\ declared' = declared /\ call[w] \in Calls
    <3>1. CASE AppendExisting(w)
      BY <1>1, <3>1 DEF AppendExisting, Returned, TypeInv, CallUnderWay
    <3>2. CASE AppendInsert(w)
      BY <1>1, <3>2 DEF AppendInsert, Returned, TypeInv, CallUnderWay
    <3>3. CASE CompareAndSet(w)
      BY <1>1, <3>3 DEF CompareAndSet, Returned, TypeInv, CallUnderWay
    <3> QED
      BY <1>7, <3>1, <3>2, <3>3
  <2>2. \A r \in mine'[w] : r \in mine[w] \cup built[w] \/ r.coll = call[w].coll
    <3>1. CASE AppendExisting(w)
      BY <3>1 DEF AppendExisting
    <3>2. CASE AppendInsert(w)
      <4>1. \E new \in built[w] : mine' = mine \/ mine'[w] = mine[w] \cup {new}
        BY <1>1, <3>2 DEF AppendInsert
      <4> QED
        BY <4>1
    <3>3. CASE CompareAndSet(w)
      <4> DEFINE old == {r \in At(View(w), call[w].coll, call[w].key) : Expected(call[w], r)}
      <4>1. mine'[w] = {m \in mine[w] : \A r \in old : ~SameKey(m, r)}
                          \cup {Replaced(r, call[w].payload) : r \in old}
        BY <1>1, <3>3 DEF CompareAndSet
      <4>2. \A r \in old : Replaced(r, call[w].payload).coll = call[w].coll
        BY DEF At, Group, Replaced
      <4> HIDE DEF old
      <4> QED
        BY <4>1, <4>2
    <3> QED
      BY <1>7, <3>1, <3>2, <3>3
  <2>3. Reader(w)' => Reader(w)
    BY <2>1 DEF Reader, Running, Replaying
  <2> QED
    BY <1>2, <2>1, <2>2, <2>3 DEF OwnReports
<1>8. CASE Commit(w) \/ Rollback(w)
  <2>1. phase'[w] = "idle" /\ call'[w] = NoCall
    BY <1>1, <1>8 DEF Commit, Rollback, Ended
  <2> QED
    BY <1>2, <2>1 DEF OwnReports, Reader, Running
<1> QED
  BY <1>3, <1>4, <1>5, <1>6, <1>7, <1>8 DEF GrdiWork, Step

LEMMA WorkTypes ==
    ASSUME ReadersTypeOK, NEW w \in Workers, GrdiWork(w)
    PROVE  ReadersTypeOK'
<1>1. NothingFound \in [Linked -> SUBSET SUBSET Row]
  BY DEF NothingFound
<1>2. seen' \in [Workers -> [Linked -> SUBSET SUBSET Row]]
  BY <1>1 DEF GrdiWork, ReadersTypeOK
<1> QED
  BY <1>2 DEF GrdiWork, ReadersTypeOK, verifier

(***************************************************************************)
(* While there is a reader the ledger stays, unless the reader commits;    *)
(* then it is no reader any more.                                          *)
(***************************************************************************)
LEMMA ReadersFreezeTheLedger ==
    ASSUME ReadersInv, WaitInv', GrdiDeclared', NEW w \in Workers, GrdiWork(w),
           NEW v \in Workers, Reader(v)
    PROVE  \/ v = w /\ phase'[v] = "idle"
           \/ Reader(v)' /\ UNCHANGED <<rows, heads>> /\ (v # w => phase'[v] = phase[v])
<1>1. TypeOK
  BY DEF ReadersInv, EngineInv, WaitInv, LockInv, TypeInv
<1>2. CASE v = w
  <2>1. phase'[v] = "idle" \/ Reader(v)'
    BY <1>1, <1>2, WorkGoesOn DEF Reader, Replaying
  <2>2. phase'[v] = "idle" \/ UNCHANGED <<rows, heads>>
    BY <1>1, <1>2, WorkCommits
  <2> QED
    BY <1>2, <2>1, <2>2
<1>3. CASE v # w
  <2>1. phase'[v] = phase[v] /\ declared'[v] = declared[v]
    BY <1>1, <1>3, OthersKept DEF GrdiWork
  <2>2. ~Running(w)
    BY <1>3, ReaderAlone DEF ReadersInv, EngineInv
  <2>3. UNCHANGED <<rows, heads>>
    BY <1>1, <2>2, WorkCommits DEF Running
  <2> QED
    BY <2>1, <2>3 DEF Reader, Running, Replaying
<1> QED
  BY <1>2, <1>3

LEMMA WorkKeepsReads ==
    ASSUME ReadersInv, EngineInv', NEW w \in Workers, GrdiWork(w)
    PROVE  ReadersInv'
<1>1. TypeInv /\ TypeOK
  BY DEF ReadersInv, EngineInv, WaitInv, LockInv, TypeInv
<1>2. ASSUME NEW v \in Workers \ {w}
      PROVE  /\ phase'[v] = phase[v] /\ declared'[v] = declared[v] /\ call'[v] = call[v]
             /\ built'[v] = built[v] /\ mine'[v] = mine[v]
  BY <1>1, OthersKept DEF GrdiWork
<1>3. GrdiDeclared'
  <2> SUFFICES ASSUME NEW v \in Workers, phase'[v] # "idle" PROVE declared'[v] \in GrdiLockSets
    BY DEF GrdiDeclared
  <2>1. CASE v = w
    BY <1>1, <2>1, WorkDeclares DEF ReadersInv
  <2>2. CASE v # w
    BY <1>2, <2>2 DEF ReadersInv, GrdiDeclared
  <2> QED
    BY <2>1, <2>2
<1>4. ReadersTypeOK'
  BY WorkTypes DEF ReadersInv
<1>5. ASSUME NEW v \in Workers PROVE OwnReports(v)'
  <2>1. CASE v = w
    <3>1. OwnReports(w) /\ HoldsDeclared(w)
      BY DEF ReadersInv, EngineInv, WaitInv, Waits
    <3> QED
      BY <1>1, <2>1, <3>1, WorkWritesReports
  <2>2. CASE v # w
    <3>1. OwnReports(v)
      BY DEF ReadersInv
    <3> QED
      BY <1>2, <2>2, <3>1 DEF OwnReports, Reader, Running, Replaying
  <2> QED
    BY <2>1, <2>2
<1>6. WaitInv'
  BY DEF EngineInv
<1>7. ASSUME NEW v \in Workers PROVE SeenIsCurrent(v)'
  <2> SUFFICES ASSUME NEW c \in Sources, NEW R \in seen'[v][c]
               PROVE  Reader(v)' /\ R = Group(rows', c)
    BY DEF SeenIsCurrent
  <2>1. c \in Linked
    BY PgReplayReadsAssumption
  <2>2. DOMAIN seen = Workers
    BY DEF ReadersInv, ReadersTypeOK
  <2>3. ~(v = w /\ phase'[w] = "idle")
    BY <2>1, <2>2 DEF GrdiWork, NothingFound
  <2>4. R \in seen[v][c]
    BY <2>2, <2>3 DEF GrdiWork
  <2>5. Reader(v) /\ R = Group(rows, c)
    BY <2>4 DEF ReadersInv, SeenIsCurrent
  <2> QED
    BY <1>3, <1>6, <2>3, <2>5, ReadersFreezeTheLedger
<1>8. OwnerVerifies'
  <2> SUFFICES ASSUME owner' \in Workers PROVE OwnerVerifies'
    BY DEF OwnerVerifies
  <2>1. owner' = owner /\ todo' = todo /\ found' = found /\ verdict' = verdict /\ owner # w
    BY DEF GrdiWork, verifier
  <2>2. OwnerVerifies /\ owner \in Workers
    BY <2>1 DEF ReadersInv
  <2>3. Reader(owner)
    BY <2>2 DEF OwnerVerifies, Reader, Running
  <2>4. Reader(owner)' /\ rows' = rows /\ phase'[owner] = phase[owner]
    BY <1>3, <1>6, <2>1, <2>2, <2>3, ReadersFreezeTheLedger DEF Reader, Running, Replaying
  <2> QED
    BY <2>1, <2>2, <2>4 DEF OwnerVerifies, Reader
<1> QED
  BY <1>3, <1>4, <1>5, <1>7, <1>8 DEF ReadersInv

-----------------------------------------------------------------------------
(***************************************************************************)
(* The steps of the readers: the engine does not move.                     *)
(***************************************************************************)
LEMMA ReadingKeepsTheEngine ==
    ASSUME ReadersInv, UNCHANGED vars
    PROVE  /\ EngineInv' /\ GrdiDeclared'
           /\ \A w \in Workers : OwnReports(w)' /\ (Reader(w)' <=> Reader(w))
<1>1. EngineInv'
  BY NextWaits, NextChains DEF ReadersInv, EngineInv
<1> QED
  BY <1>1 DEF ReadersInv, GrdiDeclared, OwnReports, Reader, Running, Replaying, vars, local

LEMMA ReadKeepsReads ==
    ASSUME ReadersInv, NEW w \in Workers, SessionRead(w)
    PROVE  ReadersInv'
<1>1. UNCHANGED vars /\ UNCHANGED verifier /\ Reader(w)
  BY DEF SessionRead, Reader, Running
<1>2. PICK d \in Sources : seen' = [seen EXCEPT ![w][d] = @ \cup {Group(View(w), d)}]
  BY DEF SessionRead
<1>3. Group(View(w), d) = Group(rows, d) /\ Group(rows, d) \subseteq Row
  BY <1>1, ReadsWhatIsThere
  DEF ReadersInv, Group, EngineInv, WaitInv, LockInv, TypeInv, TypeOK
<1>4. d \in Linked
  BY PgReplayReadsAssumption
<1>5. ReadersTypeOK'
  BY <1>1, <1>2, <1>3, <1>4 DEF ReadersInv, ReadersTypeOK, verifier
<1>6. ASSUME NEW v \in Workers PROVE SeenIsCurrent(v)'
  <2> SUFFICES ASSUME NEW c \in Sources, NEW R \in seen'[v][c]
               PROVE  Reader(v)' /\ R = Group(rows', c)
    BY DEF SeenIsCurrent
  <2>1. R \in seen[v][c] \/ (v = w /\ c = d /\ R = Group(View(w), d))
    BY <1>2, <1>4, PgReplayReadsAssumption DEF ReadersInv, ReadersTypeOK
  <2>2. Reader(v) /\ R = Group(rows, c)
    BY <1>1, <1>3, <2>1 DEF ReadersInv, SeenIsCurrent
  <2> QED
    BY <1>1, <2>2 DEF vars, local, Reader, Running, Replaying
<1>7. OwnerVerifies'
  BY <1>1 DEF ReadersInv, OwnerVerifies, verifier, vars, local, Replaying
<1> QED
  BY <1>1, <1>5, <1>6, <1>7, ReadingKeepsTheEngine DEF ReadersInv

LEMMA VerificationKeepsReads ==
    ASSUME ReadersInv, VerifyBegin \/ VerifyRows \/ VerifyHead \/ VerifyEnd
    PROVE  ReadersInv'
<1>1. UNCHANGED vars /\ UNCHANGED seen
  BY DEF VerifyBegin, VerifyRows, VerifyHead, VerifyEnd
<1>2. ReadersTypeOK /\ OwnerVerifies /\ TypeOK /\ ChainInv
  BY DEF ReadersInv, EngineInv, WaitInv, LockInv, TypeInv
<1>3. rows' = rows /\ heads' = heads /\ phase' = phase /\ declared' = declared
  BY <1>1 DEF vars, local
<1>4. ASSUME NEW v \in Workers PROVE SeenIsCurrent(v)'
  BY <1>1, <1>3 DEF ReadersInv, SeenIsCurrent, Reader, Running, Replaying
<1>5. CASE VerifyBegin
  <2>1. ReadersTypeOK'
    BY <1>2, <1>5 DEF VerifyBegin, ReadersTypeOK
  <2>2. OwnerVerifies'
    BY <1>3, <1>5, PgReplayReadsAssumption DEF VerifyBegin, OwnerVerifies, Replaying
  <2> QED
    BY <1>1, <1>4, <2>1, <2>2, ReadingKeepsTheEngine DEF ReadersInv
<1>6. CASE VerifyRows
  <2>1. PICK c \in First(todo) :
          /\ found' = [found EXCEPT ![c] = Group(rows, c)]
          /\ todo' = IF todo = {c} THEN Linked ELSE todo \ {c}
          /\ verdict' = IF todo = {c} THEN "heads" ELSE "rows"
    BY <1>6 DEF VerifyRows
  <2>2. c \in todo /\ c \in Linked /\ owner' = owner /\ verdict = "rows"
    BY <1>2, <1>6, <2>1 DEF First, ReadersTypeOK, VerifyRows
  <2>3. Group(rows, c) \subseteq Row
    BY <1>2 DEF TypeOK, Group
  <2>4. ReadersTypeOK'
    BY <1>1, <1>2, <2>1, <2>2, <2>3 DEF ReadersTypeOK
  <2>5. ASSUME owner \in Workers, NEW d \in Linked, verdict' # "rows" \/ d \notin todo'
        PROVE  found'[d] = Group(rows, d)
    <3>1. d = c \/ d \notin todo
      BY <2>1, <2>5
    <3> QED
      BY <1>2, <2>1, <2>2, <2>5, <3>1 DEF OwnerVerifies, ReadersTypeOK
  <2>6. OwnerVerifies'
    BY <1>2, <1>3, <2>1, <2>2, <2>5 DEF OwnerVerifies, Replaying
  <2> QED
    BY <1>1, <1>4, <2>4, <2>6, ReadingKeepsTheEngine DEF ReadersInv
<1>7. CASE VerifyHead
  <2> DEFINE grouped == {c \in todo : found[c] # {}}
  <2>1. PICK c \in First(IF grouped = {} THEN todo ELSE grouped) :
          LET ok == ValidLinkedGroup(found[c], c, heads[c])
          IN  /\ todo' = IF ok THEN todo \ {c} ELSE {}
              /\ verdict' = IF ~ok THEN "invalid" ELSE IF todo = {c} THEN "valid" ELSE "heads"
    BY <1>7 DEF VerifyHead
  <2>2. c \in todo /\ c \in Linked /\ owner' = owner /\ found' = found /\ verdict = "heads"
    BY <1>2, <1>7, <2>1 DEF First, ReadersTypeOK, VerifyHead
  <2>3. ReadersTypeOK'
    BY <1>1, <1>2, <2>1, <2>2 DEF ReadersTypeOK
  <2>4. ASSUME owner \in Workers PROVE ValidLinkedGroup(found[c], c, heads[c])
    <3>1. found[c] = Group(rows, c)
      BY <1>2, <2>2, <2>4 DEF OwnerVerifies
    <3>2. ValidLinkedGroup(rows, c, heads[c])
      BY <1>2, <2>2 DEF ChainInv, CommittedChains
    <3>3. Group(Group(rows, c), c) = Group(rows, c)
      BY DEF Group
    <3> QED
      BY <3>1, <3>2, <3>3, OnlyTheGroupCounts
  <2>5. OwnerVerifies'
    BY <1>2, <1>3, <2>1, <2>2, <2>4 DEF OwnerVerifies, Replaying
  <2> QED
    BY <1>1, <1>4, <2>3, <2>5, ReadingKeepsTheEngine DEF ReadersInv
<1>8. CASE VerifyEnd
  <2>1. ReadersTypeOK'
    BY <1>2, <1>8 DEF VerifyEnd, ReadersTypeOK, NothingFound
  <2>2. OwnerVerifies'
    BY <1>8, PgReplayReadsAssumption DEF VerifyEnd, OwnerVerifies
  <2> QED
    BY <1>1, <1>4, <2>1, <2>2, ReadingKeepsTheEngine DEF ReadersInv
<1> QED
  BY <1>5, <1>6, <1>7, <1>8

LEMMA NextReads == ReadersInv /\ [ReadersNext]_allVars => ReadersInv'
<1> SUFFICES ASSUME ReadersInv, [ReadersNext]_allVars PROVE ReadersInv'
  OBVIOUS
<1>1. EngineInv'
  BY StepOfTheEngine, NextWaits, NextChains DEF ReadersInv, EngineInv
<1>2. CASE UNCHANGED allVars
  <2>1. UNCHANGED <<vars, verifier, seen>>
    BY <1>2 DEF allVars
  <2>2. \A w \in Workers : SeenIsCurrent(w)'
    BY <2>1 DEF ReadersInv, SeenIsCurrent, Reader, Running, Replaying, vars, local
  <2>3. OwnerVerifies'
    BY <2>1 DEF ReadersInv, OwnerVerifies, Replaying, vars, local, verifier
  <2>4. ReadersTypeOK'
    BY <2>1 DEF ReadersInv, ReadersTypeOK, verifier
  <2> QED
    BY <2>1, <2>2, <2>3, <2>4, ReadingKeepsTheEngine DEF ReadersInv
<1> QED
  BY <1>1, <1>2, WorkKeepsReads, ReadKeepsReads, VerificationKeepsReads DEF ReadersNext

(***************************************************************************)
(* A replay never records a false "ledger_chain invalid", whatever runs    *)
(* beside it (build_report, create_replay_report).                         *)
(***************************************************************************)
THEOREM ReplaysVerify == ReadersSpec => []ReplayVerifies
<1>1. ReadersInv => ReplayVerifies
  BY DEF ReadersInv, OwnerVerifies, ReplayVerifies
<1> QED
  BY <1>1, InitReads, NextReads, PTL DEF ReadersSpec

(***************************************************************************)
(* The records of a replay's manifest and the chain heads in it are one    *)
(* state of the ledger, though they are read in many statements, on two    *)
(* connections (_load_chain_rows, build_report).                           *)
(***************************************************************************)
THEOREM ManifestsAreOneState == ReadersSpec => []ManifestIsOneState
<1>1. ReadersInv => ManifestIsOneState
  <2> SUFFICES ASSUME ReadersInv, NEW w \in Workers, NEW c \in Sources, NEW R \in seen[w][c]
               PROVE  R = Group(rows, c) /\ (owner = w /\ verdict = "valid" => found[c] = R)
    BY DEF ManifestIsOneState
  <2>1. R = Group(rows, c)
    BY DEF ReadersInv, SeenIsCurrent
  <2>2. c \in Linked
    BY PgReplayReadsAssumption
  <2> QED
    BY <2>1, <2>2 DEF ReadersInv, OwnerVerifies
<1> QED
  BY <1>1, InitReads, NextReads, PTL DEF ReadersSpec
=============================================================================
