-------------------------- MODULE ScopedRowsProofs --------------------------
(***************************************************************************)
(* What TLAPS proves of the rows and chains of ScopedRows, whichever       *)
(* engine keeps them.                                                      *)
(***************************************************************************)
EXTENDS ScopedRows, TLAPS

(***************************************************************************)
(* The hash of a row is a hash, and the rows the engine builds are rows.   *)
(***************************************************************************)
LEMMA BuiltRowsAreRows ==
    ASSUME NEW c \in Collections, NEW k \in Keys, NEW p \in Payloads
    PROVE  /\ \A h \in ChainHead : LinkedRow(c, k, p, h) \in Row
           /\ \A n \in Nat : StandaloneRow(c, k, p, n) \in Row
           /\ \A r \in Row : Replaced(r, p) \in Row
           /\ \A r \in Row : SameKey(Replaced(r, p), r)
<1>1. \A h \in Hash : chain_record_hash(h, p) \in Hash
    BY DEF Hash, chain_record_hash
<1>2. NoHash \in Hash
    BY DEF Hash, NoHash
<1>3. RecordId[p] \in Ids
    BY DEF Ids
<1>4. ASSUME NEW h \in ChainHead PROVE LinkedRow(c, k, p, h) \in Row
    BY <1>1, <1>3 DEF LinkedRow, Row, ChainHead
<1>5. ASSUME NEW n \in Nat PROVE StandaloneRow(c, k, p, n) \in Row
    BY <1>1, <1>2, <1>3 DEF StandaloneRow, Row
<1>6. ASSUME NEW r \in Row
      PROVE  Replaced(r, p) \in Row /\ SameKey(Replaced(r, p), r)
    BY <1>1, <1>2 DEF Replaced, Row, SameKey
<1> QED
    BY <1>4, <1>5, <1>6

-----------------------------------------------------------------------------
(***************************************************************************)
(* Facts about groups of rows, for any set of rows.                        *)
(***************************************************************************)
\* A collection, as seen under private rows, depends on its own rows alone.
LEMMA GroupOfOver ==
    \A M, R, c : Group(Over(M, R), c) = Over(Group(M, c), Group(R, c))
BY DEF Group, Over, SameKey

\* Whether a chain verifies does not depend on the rows of other collections.
LEMMA OnlyTheGroupCounts ==
    ASSUME NEW R, NEW S, NEW c, NEW h, Group(R, c) = Group(S, c)
    PROVE  ValidLinkedGroup(R, c, h) <=> ValidLinkedGroup(S, c, h)
BY DEF ValidLinkedGroup

\* A row built on the head of a valid chain extends it.
LEMMA ChainExtends ==
    ASSUME NEW R \in SUBSET Row, NEW c, NEW k, NEW p, NEW h \in ChainHead,
           ValidLinkedGroup(R, c, h)
    PROVE  LET new == LinkedRow(c, k, p, h)
           IN  ValidLinkedGroup(R \cup {new}, c, [seq |-> new.seq, hash |-> new.hash])
<1> DEFINE new == LinkedRow(c, k, p, h)
           G == Group(R, c)
           H == G \cup {new}
           head == [seq |-> new.seq, hash |-> new.hash]
<1>1. /\ new.coll = c /\ new.seq = h.seq + 1 /\ new.prev = h.hash
      /\ new.hash = chain_record_hash(new.prev, new.payload)
    BY DEF LinkedRow
<1>2. head.seq = h.seq + 1 /\ head.hash = new.hash
    BY <1>1
<1>3. h.seq \in Nat /\ \A r \in G : r.seq \in Nat
    BY DEF ChainHead, Row, Group
<1>4. SequencesContiguous(G, h) /\ RowsLinked(G) /\ HeadIsLast(G, h)
    BY DEF ValidLinkedGroup
<1>5. Group(R \cup {new}, c) = H
    BY <1>1 DEF Group
<1> HIDE DEF new, G, head
<1>6. SequencesContiguous(H, head)
  <2>1. \A r \in H : r.seq \in 1..head.seq
    BY <1>1, <1>2, <1>3, <1>4 DEF SequencesContiguous
  <2>2. ASSUME NEW i \in 1..head.seq PROVE \E r \in H : r.seq = i
    <3>1. i \in 1..h.seq \/ i = new.seq
      BY <1>1, <1>2, <1>3
    <3> QED  BY <3>1, <1>4 DEF SequencesContiguous
  <2>3. \A r, s \in H : r.seq = s.seq => r = s
    BY <1>1, <1>3, <1>4 DEF SequencesContiguous
  <2> QED  BY <2>1, <2>2, <2>3 DEF SequencesContiguous
<1>7. RowsLinked(H)
  <2>1. \A r \in H : r.hash = chain_record_hash(r.prev, r.payload)
    BY <1>1, <1>4 DEF RowsLinked
  <2>2. \A r \in H : r.seq = 1 => r.prev = NoHash
    BY <1>1, <1>3, <1>4 DEF RowsLinked, HeadIsLast
  <2>3. ASSUME NEW r \in H, NEW s \in H, s.seq = r.seq + 1 PROVE s.prev = r.hash
    <3>1. CASE r \in G /\ s \in G
      BY <2>3, <3>1, <1>4 DEF RowsLinked
    <3>2. CASE r \in G /\ s = new
      BY <2>3, <3>2, <1>1, <1>3, <1>4 DEF HeadIsLast
    <3>3. CASE r = new
      BY <2>3, <3>3, <1>1, <1>3, <1>4 DEF SequencesContiguous
    <3> QED  BY <3>1, <3>2, <3>3
  <2> QED  BY <2>1, <2>2, <2>3 DEF RowsLinked
<1>8. HeadIsLast(H, head)
    BY <1>1, <1>2, <1>3, <1>4 DEF HeadIsLast, SequencesContiguous
<1> QED
    BY <1>5, <1>6, <1>7, <1>8 DEF ValidLinkedGroup, new, head

-----------------------------------------------------------------------------
\* Collections are chains or not, and no collection is both.
LEMMA CollectionsApart ==
    /\ Linked \subseteq Collections /\ Mutable \subseteq Collections
    /\ \A c \in Mutable : c \notin Linked
BY ScopedRowsAssumption DEF ScopedRowsAssumption, Collections

(***************************************************************************)
(* What one write does to the rows and heads a transaction sees: nothing,  *)
(* a row that continues a chain, a row in a collection without one, or new *)
(* payloads for mutable rows.                                              *)
(***************************************************************************)
Chained(S, T) ==
    \E c \in Linked, k \in Keys, p \in Payloads :
        LET row == LinkedRow(c, k, p, S.heads[c])
        IN  /\ T.rows = S.rows \cup {row}
            /\ T.heads = [S.heads EXCEPT ![c] = [seq |-> row.seq, hash |-> row.hash]]

StoodAlone(S, T) ==
    \E c \in Mutable, k \in Keys, p \in Payloads, n \in Nat :
        /\ T.rows = S.rows \cup {StandaloneRow(c, k, p, n)}
        /\ T.heads = S.heads

Replacing(S, T) ==
    \E p \in Payloads, old \in SUBSET {r \in S.rows : r.coll \in Mutable} :
        /\ T.rows = (S.rows \ old) \cup {Replaced(r, p) : r \in old}
        /\ T.heads = S.heads

Written(S, T) == T = S \/ Chained(S, T) \/ StoodAlone(S, T) \/ Replacing(S, T)

\* Writing a row into a chain appends its payload to the hash of the head; no
\* other write moves a head.
LEMMA WrittenHeads ==
    ASSUME NEW S \in State, NEW T \in State, Written(S, T)
    PROVE  \/ T.heads = S.heads
           \/ \E c \in Linked, p \in Payloads : \A d \in Linked :
                 T.heads[d].hash = IF d = c THEN Append(S.heads[d].hash, p) ELSE S.heads[d].hash
<1>1. CASE Chained(S, T)
  <2>1. PICK c \in Linked, k \in Keys, p \in Payloads :
            LET row == LinkedRow(c, k, p, S.heads[c])
            IN  T.heads = [S.heads EXCEPT ![c] = [seq |-> row.seq, hash |-> row.hash]]
    BY <1>1 DEF Chained
  <2> DEFINE row == LinkedRow(c, k, p, S.heads[c])
  <2>2. row.hash = Append(S.heads[c].hash, p)
    BY DEF LinkedRow, chain_record_hash
  <2> HIDE DEF row
  <2>3. T.heads = [S.heads EXCEPT ![c] = [seq |-> row.seq, hash |-> row.hash]]
    BY <2>1 DEF row
  <2>4. S.heads \in [Linked -> ChainHead]
    BY DEF State
  <2>5. \A d \in Linked :
            T.heads[d].hash = IF d = c THEN Append(S.heads[d].hash, p) ELSE S.heads[d].hash
    BY <2>2, <2>3, <2>4
  <2> QED
    BY <2>5
<1> QED
    BY <1>1 DEF Written, StoodAlone, Replacing

Verifies(S) ==
    /\ \A c \in Linked : ValidLinkedGroup(S.rows, c, S.heads[c])
    /\ \A c \in Mutable : ValidStandalone(S.rows, c)

\* Every way to write keeps what verifies verifiable.
LEMMA WrittenVerifies ==
    ASSUME NEW S \in State, NEW T \in State, Written(S, T), Verifies(S)
    PROVE  Verifies(T)
<1>1. S.rows \in SUBSET Row /\ S.heads \in [Linked -> ChainHead]
    BY DEF State
<1>2. CASE T = S
    BY <1>2
<1>3. CASE Chained(S, T)
  <2>1. PICK c \in Linked, k \in Keys, p \in Payloads :
            LET row == LinkedRow(c, k, p, S.heads[c])
            IN  /\ T.rows = S.rows \cup {row}
                /\ T.heads = [S.heads EXCEPT ![c] = [seq |-> row.seq, hash |-> row.hash]]
    BY <1>3 DEF Chained
  <2> DEFINE row == LinkedRow(c, k, p, S.heads[c])
  <2>2. row.coll = c
    BY DEF LinkedRow
  <2>3. ValidLinkedGroup(S.rows \cup {row}, c, [seq |-> row.seq, hash |-> row.hash])
    BY <1>1, <2>1, ChainExtends DEF Verifies
  <2> HIDE DEF row
  <2>4. /\ T.rows = S.rows \cup {row}
        /\ T.heads = [S.heads EXCEPT ![c] = [seq |-> row.seq, hash |-> row.hash]]
    BY <2>1 DEF row
  <2>5. \A d : d # c => Group(T.rows, d) = Group(S.rows, d)
    BY <2>2, <2>4 DEF Group
  <2>6. ASSUME NEW d \in Linked PROVE ValidLinkedGroup(T.rows, d, T.heads[d])
    <3>1. CASE d = c
        BY <1>1, <2>3, <2>4, <3>1
    <3>2. CASE d # c
      <4>1. T.heads[d] = S.heads[d] /\ ValidLinkedGroup(S.rows, d, S.heads[d])
        BY <1>1, <2>4, <3>2 DEF Verifies
      <4> QED
        BY <2>5, <3>2, <4>1, OnlyTheGroupCounts
    <3> QED
        BY <3>1, <3>2
  <2>7. ASSUME NEW d \in Mutable PROVE ValidStandalone(T.rows, d)
    <3>1. d # c
        BY <2>1, <2>7, CollectionsApart
    <3> QED
        BY <2>5, <3>1 DEF Verifies, ValidStandalone
  <2> QED
    BY <2>6, <2>7 DEF Verifies
<1>4. CASE StoodAlone(S, T) \/ Replacing(S, T)
  <2>1. T.heads = S.heads
    BY <1>4 DEF StoodAlone, Replacing
  <2>2. ASSUME NEW c \in Linked PROVE Group(T.rows, c) = Group(S.rows, c)
    <3>1. CASE StoodAlone(S, T)
      <4>1. PICK d \in Mutable, k \in Keys, p \in Payloads, n \in Nat :
                T.rows = S.rows \cup {StandaloneRow(d, k, p, n)}
        BY <3>1 DEF StoodAlone
      <4>2. StandaloneRow(d, k, p, n).coll # c
        BY CollectionsApart DEF StandaloneRow
      <4> QED
        BY <4>1, <4>2 DEF Group
    <3>2. CASE Replacing(S, T)
      <4>1. PICK p \in Payloads, old \in SUBSET {r \in S.rows : r.coll \in Mutable} :
                T.rows = (S.rows \ old) \cup {Replaced(r, p) : r \in old}
        BY <3>2 DEF Replacing
      <4>2. \A r \in old : r.coll # c /\ Replaced(r, p).coll # c
        BY CollectionsApart DEF Replaced
      <4> QED
        BY <4>1, <4>2 DEF Group
    <3> QED
        BY <1>4, <3>1, <3>2
  <2>3. ASSUME NEW r \in T.rows, r \notin S.rows
        PROVE  r.prev = NoHash /\ r.hash = chain_record_hash(NoHash, r.payload)
    BY <1>4, <2>3 DEF StoodAlone, Replacing, StandaloneRow, Replaced
  <2>4. ASSUME NEW c \in Linked PROVE ValidLinkedGroup(T.rows, c, T.heads[c])
    BY <2>1, <2>2, OnlyTheGroupCounts DEF Verifies
  <2>5. ASSUME NEW c \in Mutable PROVE ValidStandalone(T.rows, c)
    BY <2>3 DEF Verifies, ValidStandalone, Group
  <2> QED
    BY <2>4, <2>5 DEF Verifies
<1> QED
    BY <1>2, <1>3, <1>4 DEF Written

\* A file without rows verifies.
LEMMA EmptyVerifies == Verifies(EmptyState)
BY DEF Verifies, EmptyState, ValidLinkedGroup, ValidStandalone, Group, NoHead, SequencesContiguous,
       RowsLinked, HeadIsLast
=============================================================================
