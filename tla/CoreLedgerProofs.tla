-------------------------- MODULE CoreLedgerProofs --------------------------
(***************************************************************************)
(* What TLAPS proves of CoreLedger for every set of threads, requests and  *)
(* policy rules, and for every ledger that the service left behind.        *)
(***************************************************************************)
EXTENDS CoreLedger, SequenceTheorems, WellFoundedInduction, TLAPS

(***************************************************************************)
(* Sequences of whatever they hold.                                        *)
(***************************************************************************)
LEMMA SeqFacts ==
    ASSUME NEW s, IsSeq(s)
    PROVE  /\ Len(s) \in Nat
           /\ DOMAIN s = 1..Len(s)
           /\ s = [i \in 1..Len(s) |-> s[i]]
BY LenProperties DEF IsSeq

LEMMA SeqMade ==
    ASSUME NEW n \in Nat, NEW s, s = [i \in 1..n |-> s[i]]
    PROVE  IsSeq(s) /\ Len(s) = n
<1>1. DOMAIN s = 1..n
  OBVIOUS
<1>2. s \in [1..n -> ToSet(s)]
  BY <1>1 DEF ToSet
<1>3. s \in Seq(ToSet(s))
  BY <1>2, SeqDef
<1> QED
  BY <1>1, <1>3, LenProperties DEF IsSeq

LEMMA AppendSeq ==
    ASSUME NEW s, IsSeq(s), NEW e
    PROVE  /\ IsSeq(Append(s, e))
           /\ Len(Append(s, e)) = Len(s) + 1
           /\ DOMAIN Append(s, e) = 1..(Len(s) + 1)
           /\ \A i \in 1..Len(s) : Append(s, e)[i] = s[i]
           /\ Append(s, e)[Len(s) + 1] = e
<1> DEFINE S == ToSet(s) \cup {e}
           t == Append(s, e)
<1>1. s \in Seq(S) /\ e \in S
  BY SeqMonotonic DEF IsSeq
<1> HIDE DEF S
<1>2. /\ t \in Seq(S) /\ Len(t) = Len(s) + 1
      /\ \A i \in 1..Len(s) : t[i] = s[i]
      /\ t[Len(s) + 1] = e
  BY <1>1, AppendProperties
<1>3. Len(t) \in Nat /\ DOMAIN t = 1..Len(t) /\ t = [i \in 1..Len(t) |-> t[i]]
  BY <1>2, LenProperties
<1>4. IsSeq(t)
  BY <1>3, SeqMade
<1> QED
  BY <1>2, <1>3, <1>4

LEMMA ConcatSeq ==
    ASSUME NEW s, IsSeq(s), NEW t, IsSeq(t)
    PROVE  /\ IsSeq(s \o t)
           /\ Len(s \o t) = Len(s) + Len(t)
           /\ \A i \in 1..Len(s) : (s \o t)[i] = s[i]
           /\ \A i \in 1..Len(t) : (s \o t)[Len(s) + i] = t[i]
<1> DEFINE S == ToSet(s) \cup ToSet(t)
           u == s \o t
<1>1. s \in Seq(S) /\ t \in Seq(S)
  BY SeqMonotonic DEF IsSeq
<1> HIDE DEF S
<1>2. /\ u \in Seq(S) /\ Len(u) = Len(s) + Len(t)
      /\ \A i \in 1..Len(s) + Len(t) : u[i] = IF i <= Len(s) THEN s[i] ELSE t[i - Len(s)]
  BY <1>1, ConcatProperties
<1>3. Len(u) \in Nat /\ DOMAIN u = 1..Len(u) /\ u = [i \in 1..Len(u) |-> u[i]]
  BY <1>2, LenProperties
<1>4. IsSeq(u)
  BY <1>3, SeqMade
<1>5. Len(s) \in Nat /\ Len(t) \in Nat
  BY SeqFacts
<1> HIDE DEF u
<1>6. \A i \in 1..Len(s) : u[i] = s[i]
  BY <1>2, <1>5
<1>7. ASSUME NEW i \in 1..Len(t) PROVE u[Len(s) + i] = t[i]
  <2>1. Len(s) + i \in 1..Len(s) + Len(t) /\ ~ (Len(s) + i <= Len(s)) /\ (Len(s) + i) - Len(s) = i
    BY <1>5
  <2> QED
    BY <2>1, <1>2
<1> QED
  BY <1>2, <1>4, <1>6, <1>7 DEF u

LEMMA TailSeq ==
    ASSUME NEW s, IsSeq(s), s # << >>
    PROVE  /\ IsSeq(Tail(s)) /\ Len(s) >= 1
           /\ Len(Tail(s)) = Len(s) - 1
           /\ \A i \in 1..(Len(s) - 1) : Tail(s)[i] = s[i + 1]
           /\ Head(s) = s[1]
<1>1. s \in Seq(ToSet(s))
  BY DEF IsSeq
<1>2. /\ Tail(s) \in Seq(ToSet(s)) /\ Len(Tail(s)) = Len(s) - 1
      /\ \A i \in 1..Len(Tail(s)) : Tail(s)[i] = s[i + 1]
  BY <1>1, HeadTailProperties
<1>3. Len(Tail(s)) \in Nat /\ Tail(s) = [i \in 1..Len(Tail(s)) |-> Tail(s)[i]]
  BY <1>2, LenProperties
<1>4. IsSeq(Tail(s))
  BY <1>3, SeqMade
<1>5. Len(s) \in Nat /\ Len(s) >= 1
  BY <1>1, <1>2, <1>3, LenProperties
<1> QED
  BY <1>1, <1>2, <1>4, <1>5

LEMMA TailShorter ==
    ASSUME NEW s, IsSeq(s), s # << >>
    PROVE  Tail(s) # s
<1> DEFINE m == Len(s)
           k == Len(Tail(s))
<1>1. m \in Nat /\ k = m - 1
  BY TailSeq, SeqFacts
<1>2. Tail(s) = s => k = m
  OBVIOUS
<1> HIDE DEF m, k
<1> QED
  BY <1>1, <1>2

LEMMA TailOfOne ==
    ASSUME NEW s, IsSeq(s), s # << >>, Len(s) <= 1
    PROVE  Tail(s) = << >>
<1> DEFINE m == Len(s)
           k == Len(Tail(s))
<1>1. m \in Nat /\ m >= 1 /\ m <= 1 /\ k = m - 1
  BY TailSeq, SeqFacts
<1>2. k = 0
  <2> HIDE DEF m, k
  <2> QED
    BY <1>1
<1>3. Tail(s) \in Seq(ToSet(Tail(s)))
  BY TailSeq DEF IsSeq
<1> QED
  BY <1>2, <1>3, EmptySeq

(***************************************************************************)
(* Rows, chains and books: a book is a ledger whose rows have their shape. *)
(***************************************************************************)
Names == {"claims", "evidence", "verifications", "actions", "policy_decisions", "outcomes"}

LEMMA CollectionNames == ToSet(Collections) = Names
<1>1. DOMAIN Collections = 1..6
  BY DEF Collections
<1> QED
  BY <1>1 DEF ToSet, Collections, Names

IsRec(r) == r = Rec(r.scope, r.id, r.about, r.state, r.refs)

AreRows(rows) ==
    /\ IsSeq(rows)
    /\ \A i \in DOMAIN rows :
          /\ rows[i] = [rec |-> rows[i].rec, prev |-> rows[i].prev, hash |-> rows[i].hash]
          /\ IsRec(rows[i].rec)

IsChain(rows) ==
    \A i \in DOMAIN rows :
        /\ rows[i].prev = IF i = 1 THEN << >> ELSE rows[i - 1].hash
        /\ rows[i].hash = Append(rows[i].prev, rows[i].rec)

IsBook(book) ==
    /\ book = [c \in Names |-> book[c]]
    /\ \A c \in Names : AreRows(book[c])

\* Without a verified claim, a chain only ever gets one row more.
LEMMA LinkedRows ==
    ASSUME NEW rows, AreRows(rows), NEW rec, IsRec(rec)
    PROVE  /\ AreRows(Linked(rows, rec))
           /\ IsChain(rows) => IsChain(Linked(rows, rec))
           /\ Len(Linked(rows, rec)) = Len(rows) + 1
           /\ \A i \in 1..Len(rows) : Linked(rows, rec)[i] = rows[i]
           /\ Linked(rows, rec)[Len(rows) + 1].rec = rec
<1> DEFINE prev == IF rows = << >> THEN << >> ELSE Last(rows).hash
           new == [rec |-> rec, prev |-> prev, hash |-> Append(prev, rec)]
           done == Append(rows, new)
<1>1. Linked(rows, rec) = done
  BY DEF Linked
<1>2. IsSeq(rows)
  BY DEF AreRows
<1>3. new = [rec |-> new.rec, prev |-> new.prev, hash |-> new.hash]
      /\ new.rec = rec /\ new.prev = prev /\ new.hash = Append(prev, rec)
  OBVIOUS
<1> HIDE DEF new
<1>4. /\ IsSeq(done) /\ Len(done) = Len(rows) + 1 /\ DOMAIN done = 1..(Len(rows) + 1)
      /\ \A i \in 1..Len(rows) : done[i] = rows[i]
      /\ done[Len(rows) + 1] = new
  BY <1>2, AppendSeq
<1>5. Len(rows) \in Nat /\ DOMAIN rows = 1..Len(rows)
  BY <1>2, SeqFacts
<1> HIDE DEF done
<1>6. AreRows(done)
  <2> SUFFICES ASSUME NEW i \in DOMAIN done
               PROVE  /\ done[i] = [rec |-> done[i].rec, prev |-> done[i].prev, hash |-> done[i].hash]
                      /\ IsRec(done[i].rec)
    BY <1>4 DEF AreRows
  <2>1. CASE i \in 1..Len(rows)
    BY <2>1, <1>4, <1>5 DEF AreRows
  <2>2. CASE i = Len(rows) + 1
    BY <2>2, <1>3, <1>4
  <2> QED
    BY <2>1, <2>2, <1>4, <1>5
<1>7. ASSUME IsChain(rows) PROVE IsChain(done)
  <2> SUFFICES ASSUME NEW i \in DOMAIN done
               PROVE  /\ done[i].prev = IF i = 1 THEN << >> ELSE done[i - 1].hash
                      /\ done[i].hash = Append(done[i].prev, done[i].rec)
    BY DEF IsChain
  <2>1. CASE i \in 1..Len(rows)
    <3>1. i # 1 => i - 1 \in 1..Len(rows)
      BY <2>1, <1>5
    <3> QED
      BY <2>1, <3>1, <1>4, <1>5, <1>7 DEF IsChain
  <2>2. CASE i = Len(rows) + 1
    <3>1. (i = 1) <=> (rows = << >>)
      BY <2>2, <1>2, <1>5, EmptySeq DEF IsSeq
    <3>2. i # 1 => i - 1 = Len(rows) /\ Len(rows) \in 1..Len(rows)
      BY <2>2, <1>5
    <3>3. prev = IF i = 1 THEN << >> ELSE rows[Len(rows)].hash
      BY <3>1 DEF Last
    <3> QED
      BY <2>2, <3>2, <3>3, <1>3, <1>4
  <2> QED
    BY <2>1, <2>2, <1>4, <1>5
<1> QED
  BY <1>1, <1>3, <1>4, <1>6, <1>7

\* A chain that is built anew verifies.
LEMMA ChainedRows ==
    ASSUME NEW records, IsSeq(records), \A i \in DOMAIN records : IsRec(records[i])
    PROVE  /\ AreRows(Chained(records)) /\ IsChain(Chained(records))
           /\ Len(Chained(records)) = Len(records)
           /\ \A i \in DOMAIN records : Chained(records)[i].rec = records[i]
<1> DEFINE done == Chained(records)
<1>1. Len(records) \in Nat /\ DOMAIN records = 1..Len(records) /\ records \in Seq(ToSet(records))
  BY SeqFacts DEF IsSeq
<1>2. /\ done = [i \in 1..Len(records) |-> done[i]]
      /\ \A i \in 1..Len(records) :
            done[i] = [rec |-> records[i], prev |-> SubSeq(records, 1, i - 1),
                       hash |-> SubSeq(records, 1, i)]
  BY <1>1 DEF Chained
<1> HIDE DEF done
<1>3. IsSeq(done) /\ Len(done) = Len(records) /\ DOMAIN done = 1..Len(records)
  BY <1>1, <1>2, SeqMade
<1>4. AreRows(done) /\ \A i \in DOMAIN records : done[i].rec = records[i]
  BY <1>1, <1>2, <1>3 DEF AreRows
<1>5. ASSUME NEW i \in 1..Len(records)
      PROVE  /\ done[i].prev = IF i = 1 THEN << >> ELSE done[i - 1].hash
             /\ done[i].hash = Append(done[i].prev, done[i].rec)
  <2>1. i \in Int /\ i - 1 \in Int /\ (i # 1 => i - 1 \in 1..Len(records))
    BY <1>1
  <2>2. i = 1 => SubSeq(records, 1, i - 1) = << >>
    BY <2>1, SubSeqEmpty
  <2>3. done[i].prev = IF i = 1 THEN << >> ELSE done[i - 1].hash
    <3>1. CASE i = 1
      BY <3>1, <2>2, <1>2
    <3>2. CASE i # 1
      <4>1. done[i - 1].hash = SubSeq(records, 1, i - 1)
        BY <3>2, <2>1, <1>2
      <4> QED
        BY <3>2, <4>1, <1>2
    <3> QED
      BY <3>1, <3>2
  <2>4. 1 \in 1..Len(records) /\ i \in 1..Len(records)
    BY <1>1
  <2>5. SubSeq(records, 1, i) = SubSeq(records, 1, i - 1) \o <<records[i]>>
    BY <1>1, <2>4, SubSeqRecursiveSecond
  <2>6. SubSeq(records, 1, i - 1) \in Seq(ToSet(records)) /\ records[i] \in ToSet(records)
    <3>1. \A j \in 1..(i - 1) : records[j] \in ToSet(records)
      BY <1>1 DEF ToSet
    <3> QED
      BY <2>1, <3>1, <1>1, SubSeqProperties DEF ToSet
  <2>7. Append(SubSeq(records, 1, i - 1), records[i]) = SubSeq(records, 1, i - 1) \o <<records[i]>>
    BY <2>6, AppendIsConcat
  <2>8. done[i].hash = SubSeq(records, 1, i) /\ done[i].prev = SubSeq(records, 1, i - 1)
        /\ done[i].rec = records[i]
    BY <1>2
  <2> QED
    BY <2>3, <2>5, <2>7, <2>8
<1>6. IsChain(done)
  BY <1>3, <1>5 DEF IsChain
<1> QED
  BY <1>3, <1>4, <1>6 DEF done

LEMMA RechainedRows ==
    ASSUME NEW rows, IsSeq(rows), \A i \in DOMAIN rows : IsRec(rows[i].rec)
    PROVE  /\ AreRows(Rechained(rows)) /\ IsChain(Rechained(rows))
           /\ Len(Rechained(rows)) = Len(rows)
           /\ \A i \in DOMAIN rows : Rechained(rows)[i].rec = rows[i].rec
<1> DEFINE records == [i \in DOMAIN rows |-> rows[i].rec]
<1>1. Len(rows) \in Nat /\ DOMAIN rows = 1..Len(rows)
  BY SeqFacts
<1>2. records = [i \in 1..Len(rows) |-> records[i]]
  BY <1>1
<1>3. IsSeq(records) /\ Len(records) = Len(rows)
  <2> HIDE DEF records
  <2> QED BY <1>1, <1>2, SeqMade
<1>4. DOMAIN records = DOMAIN rows /\ \A i \in DOMAIN rows : records[i] = rows[i].rec
  OBVIOUS
<1> HIDE DEF records
<1>5. /\ AreRows(Chained(records)) /\ IsChain(Chained(records))
      /\ Len(Chained(records)) = Len(records)
      /\ \A i \in DOMAIN records : Chained(records)[i].rec = records[i]
  BY <1>3, <1>4, ChainedRows
<1>6. Rechained(rows) = Chained(records)
  BY DEF Rechained, records
<1> QED
  BY <1>3, <1>4, <1>5, <1>6

LEMMA TwoReplaced ==
    ASSUME NEW f, NEW a \in DOMAIN f, NEW b \in DOMAIN f, a # b, NEW x, NEW y, NEW g,
           g = [f EXCEPT ![a] = x, ![b] = y]
    PROVE  g[a] = x /\ g[b] = y /\ \A c \in DOMAIN f \ {a, b} : g[c] = f[c]
OBVIOUS

\* The claim after the verification v, and any other record.
Judged(rec, v) ==
    IF rec.id = v.about THEN Rec(rec.scope, rec.id, rec.about, v.state, rec.refs \cup v.refs) ELSE rec

\* A verification leaves every chain intact, and no record but those of its claim changes.
LEMMA VerifiedBook ==
    ASSUME NEW book, IsBook(book), NEW v, IsRec(v)
    PROVE  /\ IsBook(Verified(book, v)) /\ \A c \in Names : IsChain(Verified(book, v)[c])
           /\ \A c \in Names \ {"verifications"} : Len(Verified(book, v)[c]) = Len(book[c])
           /\ \A c \in Names \ {"claims"} : \A i \in 1..Len(book[c]) :
                 Verified(book, v)[c][i].rec = book[c][i].rec
           /\ \A i \in 1..Len(book["claims"]) :
                 Verified(book, v)["claims"][i].rec = Judged(book["claims"][i].rec, v)
           /\ Len(Verified(book, v)["verifications"]) = Len(book["verifications"]) + 1
           /\ Verified(book, v)["verifications"][Len(book["verifications"]) + 1].rec = v
<1> DEFINE old == book["claims"]
           claims == Marked(old, v)
           judged == Linked(book["verifications"], v)
           marked == [book EXCEPT !["verifications"] = judged, !["claims"] = claims]
           new == Verified(book, v)
<1>1. new = [c \in DOMAIN book |-> Rechained(marked[c])]
  BY Zenon DEF Verified
<1>2. DOMAIN book = Names /\ \A c \in Names : AreRows(book[c])
  BY DEF IsBook
<1>3. /\ marked["claims"] = claims /\ marked["verifications"] = judged
      /\ \A c \in Names \ {"claims", "verifications"} : marked[c] = book[c]
  <2>1. "claims" \in DOMAIN book /\ "verifications" \in DOMAIN book
    BY <1>2 DEF Names
  <2> HIDE DEF claims, judged
  <2> QED
    BY <2>1, <1>2, TwoReplaced
<1>4. /\ IsSeq(old) /\ Len(old) \in Nat /\ DOMAIN old = 1..Len(old)
      /\ \A i \in DOMAIN old :
          /\ old[i] = [rec |-> old[i].rec, prev |-> old[i].prev, hash |-> old[i].hash]
          /\ IsRec(old[i].rec)
  BY <1>2, SeqFacts DEF AreRows, Names
<1>5. ASSUME NEW i \in DOMAIN old
      PROVE  claims[i].rec = Judged(old[i].rec, v) /\ IsRec(claims[i].rec)
  <2> HIDE DEF old
  <2> DEFINE row == old[i]
             mine == claims[i]
  <2>1. row = [rec |-> row.rec, prev |-> row.prev, hash |-> row.hash] /\ IsRec(row.rec)
    BY <1>4
  <2>2. CASE row.rec.id = v.about
    <3>1. mine = [row EXCEPT !.rec.state = v.state, !.rec.refs = @ \cup v.refs]
      BY <2>2 DEF Marked
    <3> HIDE DEF row, mine
    <3>2. mine.rec = Rec(row.rec.scope, row.rec.id, row.rec.about, v.state, row.rec.refs \cup v.refs)
      <4>1. mine.rec = [row.rec EXCEPT !.state = v.state, !.refs = @ \cup v.refs]
        BY <3>1, <2>1
      <4> QED
        BY <4>1, <2>1 DEF IsRec, Rec
    <3>3. mine.rec = Judged(row.rec, v)
      BY <3>2, <2>2 DEF Judged
    <3>4. IsRec(mine.rec)
      BY <3>2 DEF IsRec, Rec
    <3> QED
      BY <3>3, <3>4 DEF mine, row
  <2>3. CASE row.rec.id # v.about
    <3>1. mine = row
      BY <2>3 DEF Marked
    <3> QED
      BY <3>1, <2>1, <2>3 DEF Judged
  <2> QED
    BY <2>2, <2>3
<1>6. IsSeq(claims) /\ Len(claims) = Len(old) /\ DOMAIN claims = DOMAIN old
  <2>1. claims = [i \in 1..Len(old) |-> claims[i]] /\ DOMAIN claims = DOMAIN old
    BY <1>4 DEF Marked
  <2> HIDE DEF claims
  <2> QED
    BY <2>1, <1>4, SeqMade
<1> HIDE DEF claims
<1>7. /\ AreRows(judged) /\ Len(judged) = Len(book["verifications"]) + 1
      /\ \A i \in 1..Len(book["verifications"]) : judged[i] = book["verifications"][i]
      /\ judged[Len(book["verifications"]) + 1].rec = v
  <2>1. AreRows(book["verifications"])
    BY <1>2 DEF Names
  <2> QED
    BY <2>1, LinkedRows
<1> HIDE DEF judged, marked, new, old
<1>8. \A c \in Names : IsSeq(marked[c]) /\ \A i \in DOMAIN marked[c] : IsRec(marked[c][i].rec)
  <2> TAKE c \in Names
  <2>1. CASE c = "claims"
    BY <2>1, <1>3, <1>5, <1>6
  <2>2. CASE c = "verifications"
    BY <2>2, <1>3, <1>7 DEF AreRows
  <2>3. CASE c \notin {"claims", "verifications"}
    BY <2>3, <1>2, <1>3 DEF AreRows
  <2> QED
    BY <2>1, <2>2, <2>3
<1>9. \A c \in Names :
        /\ AreRows(new[c]) /\ IsChain(new[c])
        /\ Len(new[c]) = Len(marked[c])
        /\ \A i \in DOMAIN marked[c] : new[c][i].rec = marked[c][i].rec
  <2> TAKE c \in Names
  <2>1. new[c] = Rechained(marked[c])
    BY <1>1, <1>2
  <2> QED
    BY <2>1, <1>8, RechainedRows
<1>10. new = [c \in Names |-> new[c]]
  BY <1>1, <1>2
<1>11. IsBook(new) /\ \A c \in Names : IsChain(new[c])
  BY <1>9, <1>10 DEF IsBook
<1>12. \A c \in Names \ {"verifications"} : Len(new[c]) = Len(book[c])
  BY <1>3, <1>6, <1>9 DEF old
<1>13. \A c \in Names : Len(book[c]) \in Nat /\ DOMAIN book[c] = 1..Len(book[c])
  BY <1>2, SeqFacts DEF AreRows
<1>14. "claims" \in Names /\ "verifications" \in Names
  BY DEF Names
<1>15. DOMAIN judged = 1..(Len(book["verifications"]) + 1)
  BY <1>7, SeqFacts DEF AreRows
<1>16. \A c \in Names \ {"claims"} : \A i \in 1..Len(book[c]) : new[c][i].rec = book[c][i].rec
  <2> TAKE c \in Names \ {"claims"}
  <2>1. CASE c = "verifications"
    BY <2>1, <1>3, <1>7, <1>9, <1>13, <1>15
  <2>2. CASE c # "verifications"
    BY <2>2, <1>3, <1>9, <1>13
  <2> QED
    BY <2>1, <2>2
<1>17. \A i \in 1..Len(old) : new["claims"][i].rec = Judged(old[i].rec, v)
  BY <1>3, <1>4, <1>5, <1>6, <1>9, <1>14
<1>18. /\ Len(new["verifications"]) = Len(book["verifications"]) + 1
       /\ new["verifications"][Len(book["verifications"]) + 1].rec = v
  BY <1>3, <1>7, <1>9, <1>13, <1>14, <1>15
<1> QED
  BY <1>11, <1>12, <1>16, <1>17, <1>18 DEF new, old

(***************************************************************************)
(* What a write makes of a book: one record more in its collection, and,   *)
(* when it is a verification, another state of its claim.                  *)
(***************************************************************************)
Writes(s) ==
    /\ s.act \in {"append", "verify"} /\ s.coll \in Names /\ IsRec(s.rec)
    /\ s.act = "verify" <=> s.coll = "verifications"
    /\ s.coll = "claims" => s.rec.state = "proposed" /\ s.rec.refs = {}

AreChained(book) == IsBook(book) /\ \A c \in Names : IsChain(book[c])

Still(c, rec, s) == IF c = "claims" /\ s.act = "verify" THEN Judged(rec, s.rec) ELSE rec

LEMMA BookRows ==
    ASSUME NEW book, IsBook(book), NEW c \in Names
    PROVE  Len(book[c]) \in Nat /\ DOMAIN book[c] = 1..Len(book[c])
BY SeqFacts DEF IsBook, AreRows

LEMMA BookRecords ==
    ASSUME NEW book, IsBook(book), NEW c \in Names
    PROVE  /\ IdsIn(book[c]) = {rec.id : rec \in RecordsOf(book, c)}
           /\ \A rec \in RecordsOf(book, c) : IsRec(rec)
           /\ RecordsOf(book, c) = {book[c][i].rec : i \in 1..Len(book[c])}
BY BookRows DEF IdsIn, RecordsOf, IsBook, AreRows

LEMMA OneReplaced ==
    ASSUME NEW f, NEW a \in DOMAIN f, NEW x, NEW g, g = [f EXCEPT ![a] = x]
    PROVE  DOMAIN g = DOMAIN f /\ g[a] = x /\ \A c \in DOMAIN f \ {a} : g[c] = f[c]
OBVIOUS

LEMMA AfterBook ==
    ASSUME NEW book, AreChained(book), NEW s, Writes(s)
    PROVE  /\ AreChained(After(book, s))
           /\ \A c \in Names :
                 Len(After(book, s)[c]) = IF c = s.coll THEN Len(book[c]) + 1 ELSE Len(book[c])
           /\ \A c \in Names : \A i \in 1..Len(book[c]) :
                 After(book, s)[c][i].rec = Still(c, book[c][i].rec, s)
           /\ After(book, s)[s.coll][Len(book[s.coll]) + 1].rec = s.rec
<1>1. IsBook(book) /\ (\A c \in Names : IsChain(book[c])) /\ s.coll \in Names /\ IsRec(s.rec)
      /\ DOMAIN book = Names /\ \A c \in Names : AreRows(book[c])
  BY DEF AreChained, Writes, IsBook
<1>2. CASE s.act = "append"
  <2> DEFINE new == After(book, s)
             row == Linked(book[s.coll], s.rec)
  <2>1. new = [book EXCEPT ![s.coll] = row]
    BY <1>2 DEF After
  <2>2. /\ AreRows(row) /\ IsChain(row)
        /\ Len(row) = Len(book[s.coll]) + 1
        /\ \A i \in 1..Len(book[s.coll]) : row[i] = book[s.coll][i]
        /\ row[Len(book[s.coll]) + 1].rec = s.rec
    <3>1. AreRows(book[s.coll]) /\ IsChain(book[s.coll])
      BY <1>1
    <3> QED
      BY <3>1, <1>1, LinkedRows
  <2> HIDE DEF new, row
  <2>3. DOMAIN new = Names /\ new[s.coll] = row /\ \A c \in Names \ {s.coll} : new[c] = book[c]
    BY <2>1, <1>1, OneReplaced
  <2>4. new = [c \in Names |-> new[c]]
    BY <2>1, <1>1
  <2>5. \A c \in Names : AreRows(new[c]) /\ IsChain(new[c])
    BY <1>1, <2>2, <2>3
  <2>6. AreChained(new)
    BY <2>4, <2>5 DEF AreChained, IsBook
  <2>7. \A c \in Names : \A i \in 1..Len(book[c]) : new[c][i].rec = Still(c, book[c][i].rec, s)
    BY <1>2, <2>2, <2>3 DEF Still
  <2> QED
    BY <2>2, <2>3, <2>6, <2>7 DEF new
<1>3. CASE s.act = "verify"
  <2> DEFINE new == Verified(book, s.rec)
  <2>1. After(book, s) = new
    BY <1>3 DEF After
  <2>2. s.coll = "verifications"
    BY <1>3 DEF Writes
  <2>3. /\ IsBook(new) /\ \A c \in Names : IsChain(new[c])
        /\ \A c \in Names \ {"verifications"} : Len(new[c]) = Len(book[c])
        /\ \A c \in Names \ {"claims"} : \A i \in 1..Len(book[c]) :
              new[c][i].rec = book[c][i].rec
        /\ \A i \in 1..Len(book["claims"]) :
              new["claims"][i].rec = Judged(book["claims"][i].rec, s.rec)
        /\ Len(new["verifications"]) = Len(book["verifications"]) + 1
        /\ new["verifications"][Len(book["verifications"]) + 1].rec = s.rec
    BY <1>1, VerifiedBook
  <2> HIDE DEF new
  <2>4. \A c \in Names : \A i \in 1..Len(book[c]) : new[c][i].rec = Still(c, book[c][i].rec, s)
    BY <1>3, <2>3 DEF Still
  <2> QED
    BY <2>1, <2>2, <2>3, <2>4 DEF AreChained
<1> QED
  BY <1>2, <1>3 DEF Writes

LEMMA AfterRecords ==
    ASSUME NEW book, AreChained(book), NEW s, Writes(s), NEW c \in Names
    PROVE  /\ RecordsOf(After(book, s), c) =
                {Still(c, rec, s) : rec \in RecordsOf(book, c)} \cup (IF c = s.coll THEN {s.rec} ELSE {})
           /\ IdsIn(After(book, s)[c]) = IdsIn(book[c]) \cup (IF c = s.coll THEN {s.rec.id} ELSE {})
<1> DEFINE new == After(book, s)
           old == book[c]
<1>1. /\ IsBook(new) /\ IsBook(book)
      /\ Len(new[c]) = IF c = s.coll THEN Len(old) + 1 ELSE Len(old)
      /\ \A i \in 1..Len(old) : new[c][i].rec = Still(c, old[i].rec, s)
      /\ c = s.coll => new[c][Len(old) + 1].rec = s.rec
  BY AfterBook DEF AreChained
<1>2. Len(old) \in Nat /\ DOMAIN old = 1..Len(old) /\ DOMAIN new[c] = 1..Len(new[c])
  BY <1>1, BookRows
<1>3. \A rec \in RecordsOf(book, c) : Still(c, rec, s).id = rec.id
  BY <1>1, BookRecords DEF Still, Judged, Rec
<1> HIDE DEF new, old
<1>4. RecordsOf(new, c) = {new[c][i].rec : i \in 1..Len(new[c])}
      /\ RecordsOf(book, c) = {old[i].rec : i \in 1..Len(old)}
  BY <1>2 DEF RecordsOf, old
<1> DEFINE same == {Still(c, rec, s) : rec \in RecordsOf(book, c)}
<1>5. RecordsOf(new, c) = same \cup (IF c = s.coll THEN {s.rec} ELSE {})
  <2>1. \A x : x \in same <=> \E i \in 1..Len(old) : x = Still(c, old[i].rec, s)
    BY <1>4
  <2>2. CASE c = s.coll
    <3>1. 1..Len(new[c]) = (1..Len(old)) \cup {Len(old) + 1}
      BY <2>2, <1>1, <1>2
    <3>2. \A x : x \in RecordsOf(new, c) <=>
               x = s.rec \/ \E i \in 1..Len(old) : x = Still(c, old[i].rec, s)
      BY <2>2, <3>1, <1>1, <1>4
    <3> HIDE DEF same
    <3> QED
      BY <2>1, <2>2, <3>2
  <2>3. CASE c # s.coll
    <3>1. \A x : x \in RecordsOf(new, c) <=> \E i \in 1..Len(old) : x = Still(c, old[i].rec, s)
      BY <2>3, <1>1, <1>4
    <3> HIDE DEF same
    <3> QED
      BY <2>1, <2>3, <3>1
  <2> QED
    BY <2>2, <2>3
<1>6. IdsIn(new[c]) = {rec.id : rec \in RecordsOf(new, c)}
      /\ IdsIn(old) = {rec.id : rec \in RecordsOf(book, c)}
  BY <1>1, BookRecords DEF old
<1>7. IdsIn(new[c]) = IdsIn(old) \cup (IF c = s.coll THEN {s.rec.id} ELSE {})
  <2>1. CASE c = s.coll
    BY <2>1, <1>3, <1>5, <1>6
  <2>2. CASE c # s.coll
    BY <2>2, <1>3, <1>5, <1>6
  <2> QED
    BY <2>1, <2>2
<1> QED
  BY <1>5, <1>7 DEF new, old

\* A write that was accepted keeps claims, verifications and evidence together.
LEMMA FollowsAfter ==
    ASSUME NEW book, AreChained(book), NEW s, Writes(s), Accepts(book, s),
           ClaimsFollow(book), ClaimsExplained(book)
    PROVE  ClaimsFollow(After(book, s)) /\ ClaimsExplained(After(book, s))
<1> DEFINE new == After(book, s)
           judged == book["verifications"]
           again == new["verifications"]
           v == s.rec
           n == Len(judged)
<1>1. "claims" \in Names /\ "verifications" \in Names /\ "evidence" \in Names
  BY DEF Names
<1>2. IsBook(book) /\ IsBook(new)
  BY AfterBook DEF AreChained
<1>3. /\ n \in Nat /\ DOMAIN judged = 1..n /\ DOMAIN again = 1..Len(again)
      /\ Len(again) = IF s.act = "verify" THEN n + 1 ELSE n
      /\ \A i \in 1..n : again[i].rec = judged[i].rec
      /\ s.act = "verify" => again[n + 1].rec = v
  <2>1. s.coll = "verifications" <=> s.act = "verify"
    BY DEF Writes
  <2>0. \A c \in Names : \A i \in 1..Len(book[c]) : new[c][i].rec = Still(c, book[c][i].rec, s)
    BY AfterBook
  <2>2. \A i \in 1..n : again[i].rec = Still("verifications", judged[i].rec, s)
    BY <2>0, <1>1
  <2>3. \A i \in 1..n : again[i].rec = judged[i].rec
    BY <2>2 DEF Still
  <2>4. Len(again) = IF s.act = "verify" THEN n + 1 ELSE n
    BY <2>1, <1>1, AfterBook
  <2>5. s.act = "verify" => again[n + 1].rec = v
    BY <2>1, AfterBook
  <2> QED
    BY <2>3, <2>4, <2>5, <1>1, <1>2, BookRows
<1>4. RecordsOf(new, "claims") = {Still("claims", rec, s) : rec \in RecordsOf(book, "claims")}
                                 \cup (IF s.coll = "claims" THEN {v} ELSE {})
      /\ IdsIn(new["claims"]) = IdsIn(book["claims"]) \cup (IF s.coll = "claims" THEN {v.id} ELSE {})
  BY <1>1, AfterRecords
<1>5. IdsIn(book["evidence"]) \subseteq IdsIn(new["evidence"])
  BY <1>1, AfterRecords
<1>6. RecordsOf(new, "verifications") = RecordsOf(book, "verifications")
                                        \cup (IF s.act = "verify" THEN {v} ELSE {})
  BY <1>1, AfterRecords DEF Still, Writes
<1>7. s.act = "verify" => v.about \in IdsIn(book["claims"]) /\ v.refs \subseteq IdsIn(book["evidence"])
  BY DEF Accepts
<1>8. s.coll = "claims" => /\ s.act = "append" /\ v.id \notin IdsIn(book["claims"])
                           /\ v.state = "proposed" /\ v.refs = {}
  BY DEF Accepts, Writes
<1>9. RecordsOf(book, "verifications") = {judged[i].rec : i \in 1..n}
  BY <1>3 DEF RecordsOf
<1>10. \A w \in RecordsOf(book, "verifications") :
          w.about \in IdsIn(book["claims"]) /\ w.refs \subseteq IdsIn(book["evidence"])
  BY DEF ClaimsExplained
<1>11. ASSUME NEW claim \in RecordsOf(book, "claims")
       PROVE  /\ claim.refs \subseteq IdsIn(book["evidence"])
              /\ claim.state # "proposed" =>
                    \E w \in RecordsOf(book, "verifications") : w.about = claim.id
              /\ \A i \in 1..n : judged[i].rec.about = claim.id =>
                    /\ judged[i].rec.refs \subseteq claim.refs \cap IdsIn(book["evidence"])
                    /\ (\A j \in 1..n : judged[j].rec.about = claim.id => j <= i)
                       => claim.state = judged[i].rec.state
  <2> HIDE DEF n
  <2>1. /\ claim.refs \subseteq IdsIn(book["evidence"])
        /\ claim.state # "proposed" =>
              \E w \in RecordsOf(book, "verifications") : w.about = claim.id
    BY DEF ClaimsExplained
  <2> DEFINE about == {i \in DOMAIN judged : judged[i].rec.about = claim.id}
  <2>2. \A i \in about :
            /\ judged[i].rec.refs \subseteq claim.refs \cap IdsIn(book["evidence"])
            /\ (\A j \in about : j <= i) => claim.state = judged[i].rec.state
    BY DEF ClaimsFollow
  <2>3. about = {i \in 1..n : judged[i].rec.about = claim.id}
    BY <1>3
  <2> HIDE DEF judged, about
  <2> QED
    BY <2>1, <2>2, <2>3
<1>12. SUFFICES /\ \A claim \in RecordsOf(new, "claims") :
                      /\ claim.refs \subseteq IdsIn(new["evidence"])
                      /\ claim.state # "proposed" =>
                            \E w \in RecordsOf(new, "verifications") : w.about = claim.id
                      /\ \A i \in 1..Len(again) : again[i].rec.about = claim.id =>
                            /\ again[i].rec.refs \subseteq claim.refs \cap IdsIn(new["evidence"])
                            /\ (\A j \in 1..Len(again) : again[j].rec.about = claim.id => j <= i)
                               => claim.state = again[i].rec.state
                /\ \A w \in RecordsOf(new, "verifications") :
                      w.about \in IdsIn(new["claims"]) /\ w.refs \subseteq IdsIn(new["evidence"])
  <2> HIDE DEF new
  <2>1. DOMAIN again = 1..Len(again)
    BY <1>3
  <2>2. ClaimsExplained(new)
    BY <1>12 DEF ClaimsExplained
  <2>3. ASSUME NEW claim \in RecordsOf(new, "claims")
        PROVE  LET about == {i \in DOMAIN again : again[i].rec.about = claim.id}
               IN \A i \in about :
                     /\ again[i].rec.refs \subseteq claim.refs \cap IdsIn(new["evidence"])
                     /\ (\A j \in about : j <= i) => claim.state = again[i].rec.state
    <3> DEFINE about == {i \in DOMAIN again : again[i].rec.about = claim.id}
    <3>1. about = {i \in 1..Len(again) : again[i].rec.about = claim.id}
      BY <2>1
    <3>2. \A i \in 1..Len(again) : again[i].rec.about = claim.id =>
             /\ again[i].rec.refs \subseteq claim.refs \cap IdsIn(new["evidence"])
             /\ (\A j \in 1..Len(again) : again[j].rec.about = claim.id => j <= i)
                => claim.state = again[i].rec.state
      BY <1>12
    <3> HIDE DEF about, again
    <3>3. \A i \in about :
             /\ again[i].rec.refs \subseteq claim.refs \cap IdsIn(new["evidence"])
             /\ (\A j \in about : j <= i) => claim.state = again[i].rec.state
      BY <3>1, <3>2
    <3> QED
      BY <3>3 DEF about
  <2>4. ClaimsFollow(new)
    BY <2>3 DEF ClaimsFollow
  <2> QED
    BY <2>2, <2>4 DEF new
<1> HIDE DEF new, judged, again, v, n
<1>13. \A w \in RecordsOf(new, "verifications") :
          w.about \in IdsIn(new["claims"]) /\ w.refs \subseteq IdsIn(new["evidence"])
  BY <1>4, <1>5, <1>6, <1>7, <1>10
<1>14. ASSUME NEW claim \in RecordsOf(new, "claims")
       PROVE  /\ claim.refs \subseteq IdsIn(new["evidence"])
              /\ claim.state # "proposed" =>
                    \E w \in RecordsOf(new, "verifications") : w.about = claim.id
              /\ \A i \in 1..Len(again) : again[i].rec.about = claim.id =>
                    /\ again[i].rec.refs \subseteq claim.refs \cap IdsIn(new["evidence"])
                    /\ (\A j \in 1..Len(again) : again[j].rec.about = claim.id => j <= i)
                       => claim.state = again[i].rec.state
  <2>1. CASE s.coll = "claims" /\ claim = v
    <3>1. Len(again) = n /\ \A i \in 1..n : again[i].rec \in RecordsOf(book, "verifications")
      BY <2>1, <1>3, <1>8, <1>9
    <3>2. \A i \in 1..n : again[i].rec.about # claim.id
      BY <3>1, <2>1, <1>8, <1>10
    <3> QED
      BY <2>1, <3>1, <3>2, <1>8
  <2>2. CASE ~ (s.coll = "claims" /\ claim = v)
    <3>1. PICK old \in RecordsOf(book, "claims") : claim = Still("claims", old, s)
      BY <2>2, <1>4
    <3>2. CASE s.act = "verify" /\ old.id = v.about
      <4>1. claim.id = old.id /\ claim.state = v.state /\ claim.refs = old.refs \cup v.refs
        BY <3>1, <3>2 DEF Still, Judged, Rec, v
      <4>2. v \in RecordsOf(new, "verifications") /\ v.about = claim.id
        BY <3>2, <4>1, <1>6
      <4>3. claim.refs \subseteq IdsIn(new["evidence"])
        BY <3>2, <4>1, <1>5, <1>7, <1>11
      <4>4. Len(again) = n + 1 /\ again[n + 1].rec = v /\ n + 1 \in 1..Len(again)
        BY <3>2, <1>3
      <4>5. ASSUME NEW i \in 1..Len(again), again[i].rec.about = claim.id
            PROVE  /\ again[i].rec.refs \subseteq claim.refs \cap IdsIn(new["evidence"])
                   /\ (\A j \in 1..Len(again) : again[j].rec.about = claim.id => j <= i)
                      => claim.state = again[i].rec.state
        <5>1. CASE i = n + 1
          BY <5>1, <4>1, <4>4, <3>2, <1>5, <1>7
        <5>2. CASE i # n + 1
          <6>1. i \in 1..n /\ ~ (n + 1 <= i)
            BY <5>2, <4>4, <1>3
          <6>2. again[i].rec.refs \subseteq old.refs \cap IdsIn(book["evidence"])
            BY <6>1, <4>1, <4>5, <1>3, <1>11
          <6> QED
            BY <6>1, <6>2, <4>1, <4>2, <4>4, <1>5
        <5> QED
          BY <5>1, <5>2
      <4> QED
        BY <4>2, <4>3, <4>5
    <3>3. CASE ~ (s.act = "verify" /\ old.id = v.about)
      <4>1. claim = old
        BY <3>1, <3>3 DEF Still, Judged, v
      <4>2. \A i \in 1..Len(again) : again[i].rec.about = claim.id => i \in 1..n
        BY <4>1, <3>3, <1>3
      <4>3. ASSUME NEW i \in 1..Len(again), again[i].rec.about = claim.id
            PROVE  /\ again[i].rec.refs \subseteq claim.refs \cap IdsIn(new["evidence"])
                   /\ (\A j \in 1..Len(again) : again[j].rec.about = claim.id => j <= i)
                      => claim.state = again[i].rec.state
        <5>1. i \in 1..n /\ again[i].rec = judged[i].rec
          BY <4>2, <4>3, <1>3
        <5>2. judged[i].rec.refs \subseteq old.refs \cap IdsIn(book["evidence"])
          BY <5>1, <4>1, <4>3, <1>11
        <5>3. ASSUME \A j \in 1..Len(again) : again[j].rec.about = claim.id => j <= i
              PROVE  claim.state = judged[i].rec.state
          <6>1. \A j \in 1..n : judged[j].rec.about = old.id => j <= i
            BY <5>3, <4>1, <1>3
          <6> QED
            BY <6>1, <5>1, <4>1, <4>3, <1>11
        <5> QED
          BY <5>1, <5>2, <5>3, <4>1, <1>5
      <4> QED
        BY <4>1, <4>3, <1>5, <1>6, <1>11
    <3> QED
      BY <3>2, <3>3
  <2> QED
    BY <2>1, <2>2
<1> QED
  BY <1>13, <1>14

(***************************************************************************)
(* What an operation consists of.                                          *)
(***************************************************************************)
LEMMA NoStep ==
    IsSeq(<< >>) /\ Len(<< >>) = 0
<1>1. << >> = [i \in 1..0 |-> << >>[i]]
  OBVIOUS
<1> QED
  BY <1>1, SeqMade

LEMMA OneStep ==
    ASSUME NEW a
    PROVE  IsSeq(<<a>>) /\ Len(<<a>>) = 1 /\ <<a>>[1] = a
<1>1. <<a>> = [i \in 1..1 |-> <<a>>[i]]
  OBVIOUS
<1> QED
  BY <1>1, SeqMade

LEMMA TwoSteps ==
    ASSUME NEW a, NEW b
    PROVE  IsSeq(<<a, b>>) /\ Len(<<a, b>>) = 2 /\ <<a, b>>[1] = a /\ <<a, b>>[2] = b
<1>1. <<a, b>> = [i \in 1..2 |-> <<a, b>>[i]]
  OBVIOUS
<1> QED
  BY <1>1, SeqMade

LEMMA ThreeSteps ==
    ASSUME NEW a, NEW b, NEW c
    PROVE  IsSeq(<<a, b, c>>) /\ Len(<<a, b, c>>) = 3 /\ <<a, b, c>>[1] = a /\ <<a, b, c>>[2] = b /\ <<a, b, c>>[3] = c
<1>1. <<a, b, c>> = [i \in 1..3 |-> <<a, b, c>>[i]]
  OBVIOUS
<1> QED
  BY <1>1, SeqMade

LEMMA SixSteps ==
    ASSUME NEW a, NEW b, NEW c, NEW d, NEW e, NEW f
    PROVE  IsSeq(<<a, b, c, d, e, f>>) /\ Len(<<a, b, c, d, e, f>>) = 6
<1>1. <<a, b, c, d, e, f>> = [i \in 1..6 |-> <<a, b, c, d, e, f>>[i]]
  OBVIOUS
<1> QED
  BY <1>1, SeqMade

\* Every record of the request n carries its number.
StepOf(s, n) ==
    /\ s.act \in {"append", "verify"} => Writes(s) /\ s.rec.id[1] = n
    /\ s.act = "append" /\ s.coll \in {"policy_decisions", "outcomes"} => s.rec.about[1] = n
    /\ s.act = "execute" => s.rec.id[1] = n

LEMMA PutStep ==
    ASSUME NEW r, NEW n, NEW coll \in Names \ {"verifications"}, NEW kind, NEW i, NEW about, NEW state, NEW refs,
           coll = "claims" => state = "proposed" /\ refs = {},
           coll \in {"policy_decisions", "outcomes"} => about[1] = n
    PROVE  StepOf(Put(coll, RecOf(r, Id(n, kind, i), about, state, refs)), n)
BY DEF StepOf, Put, RecOf, Rec, Id, Writes, IsRec

LEMMA JudgeStep ==
    ASSUME NEW r, NEW n, NEW kind, NEW i, NEW about, NEW state, NEW refs
    PROVE  StepOf(Judge(RecOf(r, Id(n, kind, i), about, state, refs)), n)
BY DEF StepOf, Judge, RecOf, Rec, Id, Writes, IsRec, Names

LEMMA CarryStep ==
    ASSUME NEW r, NEW n, NEW kind, NEW i, NEW about, NEW state, NEW refs
    PROVE  StepOf(Carry(RecOf(r, Id(n, kind, i), about, state, refs)), n)
BY DEF StepOf, Carry, RecOf, Rec, Id

LEMMA FileStep ==
    ASSUME NEW n, NEW file, NEW rec
    PROVE  /\ StepOf(Mirror(file, rec), n) /\ Mirror(file, rec).act = "mirror"
           /\ Mirror(file, rec).coll = file
BY DEF StepOf, Mirror

\* The operations that take a single step.
Single == {"claim", "evidence", "verify"} \cup GrdiOps

LEMMA SingleSteps ==
    ASSUME NEW r \in Requests, NEW n, r.op \in Single
    PROVE  /\ IsSeq(Steps(r, n)) /\ Len(Steps(r, n)) = 1
           /\ StepOf(Steps(r, n)[1], n)
           /\ Steps(r, n)[1].act # "execute"
           /\ Steps(r, n)[1].coll \notin {"policy_decisions", "actions"}
           /\ r.op \in GrdiOps => Steps(r, n)[1].act = "commit"
           /\ r.op \notin GrdiOps => Steps(r, n)[1].act \in {"append", "verify"}
                                     /\ Steps(r, n)[1].coll # "outcomes"
           /\ Steps(r, n)[1].coll = "envelopes" => r.op = "envelope"
           /\ Steps(r, n)[1].coll = "decisions" => r.op = "authorize"
           /\ Steps(r, n)[1].coll = "plans" => r.op = "plan"
<1>1. CASE r.op = "claim"
  <2> DEFINE s == Put("claims", RecOf(r, Id(n, "claim", 1), Nothing, "proposed", {}))
  <2>1. Steps(r, n) = <<s>>
    BY <1>1 DEF Steps
  <2>2. StepOf(s, n)
    BY PutStep DEF Names
  <2>3. s.act = "append" /\ s.coll = "claims"
    BY DEF Put
  <2> HIDE DEF s
  <2> QED
    BY <2>1, <2>2, <2>3, <1>1, OneStep DEF GrdiOps
<1>2. CASE r.op = "evidence"
  <2> DEFINE s == Put("evidence", RecOf(r, Id(n, "evidence", 1), Nothing, "registered", {}))
  <2>1. Steps(r, n) = <<s>>
    BY <1>2 DEF Steps
  <2>2. StepOf(s, n)
    BY PutStep DEF Names
  <2>3. s.act = "append" /\ s.coll = "evidence"
    BY DEF Put
  <2> HIDE DEF s
  <2> QED
    BY <2>1, <2>2, <2>3, <1>2, OneStep DEF GrdiOps
<1>3. CASE r.op = "verify"
  <2> DEFINE s == Judge(RecOf(r, Id(n, "verification", 1), r.claim, r.result, r.refs))
  <2>1. Steps(r, n) = <<s>>
    BY <1>3 DEF Steps
  <2>2. StepOf(s, n)
    BY JudgeStep
  <2>3. s.act = "verify" /\ s.coll = "verifications"
    BY DEF Judge
  <2> HIDE DEF s
  <2> QED
    BY <2>1, <2>2, <2>3, <1>3, OneStep DEF GrdiOps
<1>4. CASE r.op \in GrdiOps
  <2>1. PICK coll, id, needs :
           /\ Steps(r, n) = <<Commit(coll, id, needs)>>
           /\ coll \notin {"policy_decisions", "actions"}
           /\ coll = "envelopes" => r.op = "envelope"
           /\ coll = "decisions" => r.op = "authorize"
           /\ coll = "plans" => r.op = "plan"
    <3>1. CASE r.op = "envelope"
      BY <3>1 DEF Steps, EnvelopeRoute
    <3>2. CASE r.op = "authorize"
      BY <3>2 DEF Steps, AuthorizeRoute
    <3>3. CASE r.op = "plan"
      BY <3>3 DEF Steps, PlanRoute
    <3>4. CASE r.op = "simulate"
      BY <3>4 DEF Steps, SimulateRoute
    <3>5. CASE r.op = "outcome"
      BY <3>5 DEF Steps, OutcomeRoute
    <3>6. CASE r.op = "replay"
      BY <3>6 DEF Steps, ReplayRoute
    <3>7. CASE r.op = "compare"
      BY <3>7 DEF Steps, CompareRoute
    <3> QED
      BY <1>4, <3>1, <3>2, <3>3, <3>4, <3>5, <3>6, <3>7 DEF GrdiOps
  <2> DEFINE s == Commit(coll, id, needs)
  <2>2. s.act = "commit" /\ s.coll = coll
    BY DEF Commit
  <2>3. StepOf(s, n)
    BY DEF StepOf, Commit
  <2> HIDE DEF s
  <2>4. Steps(r, n) = <<s>>
    BY <2>1 DEF s
  <2> QED
    BY <2>1, <2>2, <2>3, <2>4, <1>4, OneStep
<1> QED
  BY <1>1, <1>2, <1>3, <1>4 DEF Single

\* The action, decision and outcome of a run.
ActionOf(r, n) == RecOf(r, Id(n, "action", 1), Nothing, "proposed", {})
DecisionOf(r, n) == RecOf(r, Id(n, "decision", 1), Id(n, "action", 1), Effect(r), {})
OutcomeOf(r, n, how) == RecOf(r, Id(n, "outcome", 1), Id(n, "action", 1), how, {})
Before(r) == IF r.claims THEN 3 ELSE 0

LEMMA RunActionSteps ==
    ASSUME NEW r, NEW n
    PROVE  /\ IsSeq(RunAction(r, n)) /\ Len(RunAction(r, n)) = 5
           /\ RunAction(r, n)[1] = Put("actions", ActionOf(r, n))
           /\ RunAction(r, n)[2] = Put("policy_decisions", DecisionOf(r, n))
           /\ RunAction(r, n)[3] = Mirror("audit", DecisionOf(r, n))
           /\ RunAction(r, n)[4] = IF Executes(r) THEN Carry(ActionOf(r, n))
                                   ELSE Put("outcomes", OutcomeOf(r, n, "simulated"))
           /\ RunAction(r, n)[5] = IF Executes(r) THEN Put("outcomes", OutcomeOf(r, n, "executed"))
                                   ELSE Mirror("shadow", OutcomeOf(r, n, "simulated"))
<1> DEFINE a == Put("actions", ActionOf(r, n))
           b == Put("policy_decisions", DecisionOf(r, n))
           c == Mirror("audit", DecisionOf(r, n))
           d == IF Executes(r) THEN Carry(ActionOf(r, n)) ELSE Put("outcomes", OutcomeOf(r, n, "simulated"))
           e == IF Executes(r) THEN Put("outcomes", OutcomeOf(r, n, "executed"))
                ELSE Mirror("shadow", OutcomeOf(r, n, "simulated"))
<1>1. RunAction(r, n) = <<a, b, c>> \o <<d, e>>
  <2>1. ActionOf(r, n).id = Id(n, "action", 1)
    BY DEF ActionOf, RecOf, Rec
  <2>2. CASE Executes(r)
    BY <2>1, <2>2 DEF RunAction, ActionOf, DecisionOf, OutcomeOf
  <2>3. CASE ~ Executes(r)
    BY <2>1, <2>3 DEF RunAction, ActionOf, DecisionOf, OutcomeOf
  <2> QED
    BY <2>2, <2>3
<1> HIDE DEF a, b, c, d, e
<1>2. /\ IsSeq(<<a, b, c>>) /\ Len(<<a, b, c>>) = 3
      /\ <<a, b, c>>[1] = a /\ <<a, b, c>>[2] = b /\ <<a, b, c>>[3] = c
  BY ThreeSteps
<1>3. IsSeq(<<d, e>>) /\ Len(<<d, e>>) = 2 /\ <<d, e>>[1] = d /\ <<d, e>>[2] = e
  BY TwoSteps
<1> DEFINE s == <<a, b, c>> \o <<d, e>>
<1>4. /\ IsSeq(s) /\ Len(s) = 3 + 2
      /\ \A i \in 1..3 : s[i] = <<a, b, c>>[i]
      /\ \A i \in 1..2 : s[3 + i] = <<d, e>>[i]
  BY <1>2, <1>3, ConcatSeq
<1> HIDE DEF s
<1>5. s[1] = a /\ s[2] = b /\ s[3] = c
  BY <1>2, <1>4
<1>6. s[3 + 1] = d /\ s[3 + 2] = e
  BY <1>3, <1>4
<1> QED
  BY <1>1, <1>4, <1>5, <1>6 DEF a, b, c, d, e, s

LEMMA RunSteps ==
    ASSUME NEW r \in Requests, NEW n, r.op = "run"
    PROVE  /\ IsSeq(Steps(r, n)) /\ Len(Steps(r, n)) = Before(r) + 5 /\ Before(r) \in {0, 3}
           /\ Steps(r, n)[Before(r) + 1] = Put("actions", ActionOf(r, n))
           /\ Steps(r, n)[Before(r) + 2] = Put("policy_decisions", DecisionOf(r, n))
           /\ Steps(r, n)[Before(r) + 3] = Mirror("audit", DecisionOf(r, n))
           /\ Steps(r, n)[Before(r) + 4] = IF Executes(r) THEN Carry(ActionOf(r, n))
                                           ELSE Put("outcomes", OutcomeOf(r, n, "simulated"))
           /\ Steps(r, n)[Before(r) + 5] = IF Executes(r)
                                           THEN Put("outcomes", OutcomeOf(r, n, "executed"))
                                           ELSE Mirror("shadow", OutcomeOf(r, n, "simulated"))
           /\ \A i \in 1..Before(r) :
                 /\ StepOf(Steps(r, n)[i], n)
                 /\ Steps(r, n)[i].act \in {"append", "verify"}
                 /\ Steps(r, n)[i].coll \in {"claims", "evidence", "verifications"}
<1> DEFINE head == IF r.claims THEN RunClaim(r, n) ELSE << >>
           tail == RunAction(r, n)
           s == head \o tail
<1>1. Steps(r, n) = s
  BY DEF Steps
<1>2. /\ IsSeq(head) /\ Len(head) = Before(r) /\ Before(r) \in {0, 3}
      /\ \A i \in 1..Before(r) : /\ StepOf(head[i], n) /\ head[i].act \in {"append", "verify"}
                                 /\ head[i].coll \in {"claims", "evidence", "verifications"}
  <2>1. CASE r.claims
    <3> DEFINE a == Put("claims", RecOf(r, Id(n, "claim", 1), Nothing, "proposed", {}))
               b == Put("evidence", RecOf(r, Id(n, "evidence", 1), Nothing, "registered", {}))
               c == Judge(RecOf(r, Id(n, "verification", 1), Id(n, "claim", 1), r.result,
                              {Id(n, "evidence", 1)}))
    <3>1. head = <<a, b, c>>
      BY <2>1 DEF RunClaim
    <3>2. StepOf(a, n) /\ StepOf(b, n) /\ StepOf(c, n)
      <4>1. StepOf(a, n)
        BY PutStep DEF Names
      <4>2. StepOf(b, n)
        BY PutStep DEF Names
      <4>3. StepOf(c, n)
        BY JudgeStep
      <4> QED
        BY <4>1, <4>2, <4>3
    <3>3. /\ a.act = "append" /\ b.act = "append" /\ c.act = "verify"
          /\ a.coll = "claims" /\ b.coll = "evidence" /\ c.coll = "verifications"
      BY DEF Put, Judge
    <3> HIDE DEF a, b, c, head
    <3>4. /\ IsSeq(<<a, b, c>>) /\ Len(<<a, b, c>>) = 3
          /\ <<a, b, c>>[1] = a /\ <<a, b, c>>[2] = b /\ <<a, b, c>>[3] = c
      BY ThreeSteps
    <3>5. \A i \in 1..3 : i = 1 \/ i = 2 \/ i = 3
      OBVIOUS
    <3> QED
      BY <2>1, <3>1, <3>2, <3>3, <3>4, <3>5 DEF Before
  <2>2. CASE ~ r.claims
    BY <2>2, NoStep DEF Before
  <2> QED
    BY <2>1, <2>2
<1>3. IsSeq(tail) /\ Len(tail) = 5
  BY RunActionSteps
<1> HIDE DEF head, tail
<1>4. /\ IsSeq(s) /\ Len(s) = Before(r) + 5
      /\ \A i \in 1..Before(r) : s[i] = head[i]
      /\ \A i \in 1..5 : s[Before(r) + i] = tail[i]
  <2>1. /\ IsSeq(s) /\ Len(s) = Len(head) + Len(tail)
        /\ \A i \in 1..Len(head) : s[i] = head[i]
        /\ \A i \in 1..Len(tail) : s[Len(head) + i] = tail[i]
    <3>1. IsSeq(head) /\ IsSeq(tail)
      BY <1>2, <1>3
    <3> QED
      BY <3>1, ConcatSeq
  <2> HIDE DEF s
  <2> QED
    BY <2>1, <1>2, <1>3
<1> HIDE DEF s
<1>5. /\ s[Before(r) + 1] = tail[1] /\ s[Before(r) + 2] = tail[2] /\ s[Before(r) + 3] = tail[3]
      /\ s[Before(r) + 4] = tail[4] /\ s[Before(r) + 5] = tail[5]
  BY <1>4
<1>6. /\ tail[1] = Put("actions", ActionOf(r, n))
      /\ tail[2] = Put("policy_decisions", DecisionOf(r, n))
      /\ tail[3] = Mirror("audit", DecisionOf(r, n))
      /\ tail[4] = IF Executes(r) THEN Carry(ActionOf(r, n)) ELSE Put("outcomes", OutcomeOf(r, n, "simulated"))
      /\ tail[5] = IF Executes(r) THEN Put("outcomes", OutcomeOf(r, n, "executed"))
                   ELSE Mirror("shadow", OutcomeOf(r, n, "simulated"))
  BY RunActionSteps DEF tail
<1> QED
  BY <1>1, <1>2, <1>4, <1>5, <1>6

LEMMA ConcatIn ==
    ASSUME NEW S, NEW s, IsSeq(s), NEW t, IsSeq(t),
           \A i \in 1..Len(s) : s[i] \in S, \A i \in 1..Len(t) : t[i] \in S
    PROVE  IsSeq(s \o t) /\ \A i \in 1..Len(s \o t) : (s \o t)[i] \in S
<1> DEFINE u == s \o t
<1>1. /\ IsSeq(u) /\ Len(u) = Len(s) + Len(t)
      /\ \A i \in 1..Len(s) : u[i] = s[i]
      /\ \A i \in 1..Len(t) : u[Len(s) + i] = t[i]
  BY ConcatSeq
<1>2. Len(s) \in Nat /\ Len(t) \in Nat
  BY SeqFacts
<1> HIDE DEF u
<1>3. ASSUME NEW i \in 1..Len(u) PROVE u[i] \in S
  <2>1. CASE i \in 1..Len(s)
    BY <2>1, <1>1
  <2>2. CASE i \notin 1..Len(s)
    <3>1. i - Len(s) \in 1..Len(t) /\ Len(s) + (i - Len(s)) = i
      BY <2>2, <1>1, <1>2
    <3> QED
      BY <3>1, <1>1
  <2> QED
    BY <2>1, <2>2
<1> QED
  BY <1>1, <1>3 DEF u

LEMMA SandboxDoes ==
    ASSUME NEW r \in Requests, NEW n, r.op = "sandbox"
    PROVE  /\ IsSeq(Steps(r, n))
           /\ \A i \in 1..Len(Steps(r, n)) :
                 /\ StepOf(Steps(r, n)[i], n)
                 /\ Steps(r, n)[i].act \in {"consult", "execute", "mirror"}
                 /\ Steps(r, n)[i].act = "execute" => /\ Steps(r, n)[i].rec.id = Id(n, "ticket", 1)
                                                      /\ Authorized(r)
<1> DEFINE a == Consult("receipts")
           b == OpenTicket(r, n)
           c == Mirror("receipts", RecOf(r, Id(n, "receipt", 1), Nothing, "sandbox", {}))
           S == {a, c} \cup (IF Authorized(r) THEN {b} ELSE {})
           middle == IF Authorized(r) THEN <<b>> ELSE << >>
           s == <<a>> \o middle
           t == s \o <<c>>
<1>1. Steps(r, n) = t
  BY DEF Steps, SandboxSteps
<1>2. a.act = "consult" /\ c.act = "mirror" /\ b.act = "execute" /\ b.rec.id = Id(n, "ticket", 1)
      /\ StepOf(a, n) /\ StepOf(c, n) /\ StepOf(b, n)
  BY DEF Consult, Mirror, OpenTicket, Carry, StepOf, RecOf, Rec, Id
<1> HIDE DEF a, b, c
<1>3. /\ IsSeq(<<a>>) /\ Len(<<a>>) = 1 /\ <<a>>[1] = a
      /\ IsSeq(<<b>>) /\ Len(<<b>>) = 1 /\ <<b>>[1] = b
      /\ IsSeq(<<c>>) /\ Len(<<c>>) = 1 /\ <<c>>[1] = c
  BY OneStep
<1>4. IsSeq(middle) /\ \A i \in 1..Len(middle) : middle[i] \in S
  <2>1. CASE Authorized(r)
    BY <2>1, <1>3
  <2>2. CASE ~ Authorized(r)
    BY <2>2, NoStep
  <2> QED
    BY <2>1, <2>2
<1>5. \A i \in 1..Len(<<a>>) : <<a>>[i] \in S
  BY <1>3
<1>6. \A i \in 1..Len(<<c>>) : <<c>>[i] \in S
  BY <1>3
<1>7. \A x \in S : /\ StepOf(x, n) /\ x.act \in {"consult", "execute", "mirror"}
                   /\ x.act = "execute" => x.rec.id = Id(n, "ticket", 1) /\ Authorized(r)
  BY <1>2
<1> HIDE DEF S, middle
<1>8. IsSeq(s) /\ \A i \in 1..Len(s) : s[i] \in S
  BY <1>3, <1>4, <1>5, ConcatIn
<1> HIDE DEF s
<1>9. IsSeq(t) /\ \A i \in 1..Len(t) : t[i] \in S
  BY <1>3, <1>6, <1>8, ConcatIn
<1> HIDE DEF t
<1> QED
  BY <1>1, <1>7, <1>9

LEMMA SnapshotSteps ==
    ASSUME NEW r \in Requests, NEW n, r.op = "snapshot"
    PROVE  /\ IsSeq(Steps(r, n)) /\ Len(Steps(r, n)) = 6
           /\ \A i \in 1..6 : Steps(r, n)[i] = Show(Collections[i]) /\ StepOf(Steps(r, n)[i], n)
           /\ Collections[1] = "claims" /\ Collections[2] = "evidence"
           /\ Collections[3] = "verifications" /\ Collections[4] = "actions"
           /\ Collections[5] = "policy_decisions" /\ Collections[6] = "outcomes"
<1>1. DOMAIN Collections = 1..6
  BY DEF Collections
<1>2. Snapshot = [i \in 1..6 |-> Show(Collections[i])]
  BY <1>1 DEF Snapshot
<1>3. Steps(r, n) = Snapshot
  BY DEF Steps
<1>4. Snapshot = [i \in 1..6 |-> Snapshot[i]] /\ \A i \in 1..6 : Snapshot[i] = Show(Collections[i])
  BY <1>2
<1>5. IsSeq(Snapshot) /\ Len(Snapshot) = 6
  BY <1>4, SeqMade
<1>6. \A i \in 1..6 : StepOf(Show(Collections[i]), n)
  BY DEF StepOf, Show
<1> QED
  BY <1>3, <1>4, <1>5, <1>6 DEF Collections

\* What HAV records of the claim i, and of the output it stands in.
HavJudged(r, n, i) ==
    LET e == Evaluation(r.state, r.claims[i])
    IN RecOf(r, Id(n, "verification", i), Id(n, "claim", i), e.status,
           {Id(n, "evidence", j) : j \in e.evidence})
HavAction(r, n) ==
    RecOf(r, Id(n, "action", 1), Nothing, "proposed", {Id(n, "claim", i) : i \in DOMAIN r.claims})
HavDecision(r, n) ==
    RecOf(r, Id(n, "decision", 1), Id(n, "action", 1), Decide(r.state, r.claims), {})
HavFacts(r) == Len(r.state.facts)
HavClaims(r) == Len(r.claims)

LEMMA HavDoes ==
    ASSUME NEW r \in Requests, NEW n, r.op = "hav"
    PROVE  /\ HavFacts(r) \in Nat /\ HavClaims(r) \in Nat /\ DOMAIN r.claims = 1..HavClaims(r)
           /\ IsSeq(Steps(r, n)) /\ Len(Steps(r, n)) = HavFacts(r) + 2 * HavClaims(r) + 3
           /\ \A i \in 1..(HavFacts(r) + 2 * HavClaims(r)) :
                 /\ StepOf(Steps(r, n)[i], n)
                 /\ Steps(r, n)[i].act \in {"append", "verify"}
                 /\ Steps(r, n)[i].coll \in {"claims", "evidence", "verifications"}
           /\ \A i \in 1..HavClaims(r) :
                 Steps(r, n)[HavFacts(r) + 2 * i] = Judge(HavJudged(r, n, i))
           /\ Steps(r, n)[HavFacts(r) + 2 * HavClaims(r) + 1] = Put("actions", HavAction(r, n))
           /\ Steps(r, n)[HavFacts(r) + 2 * HavClaims(r) + 2] =
                 Put("policy_decisions", HavDecision(r, n))
           /\ Steps(r, n)[HavFacts(r) + 2 * HavClaims(r) + 3] =
                 Put("evidence", RecOf(r, Id(n, "receipt", 1), Nothing, "valid", {}))
<1> DEFINE facts == r.state.facts
           F == Len(facts)
           m == Len(r.claims)
           A == [i \in DOMAIN facts |-> Put("evidence", RecOf(r, Id(n, "evidence", i), Nothing, "valid", {}))]
           B == [k \in 1..(2 * m) |->
                    IF k % 2 = 1
                    THEN Put("claims", RecOf(r, Id(n, "claim", (k + 1) \div 2), Nothing, "proposed", {}))
                    ELSE Judge(HavJudged(r, n, k \div 2))]
           x == Put("actions", HavAction(r, n))
           y == Put("policy_decisions", HavDecision(r, n))
           z == Put("evidence", RecOf(r, Id(n, "receipt", 1), Nothing, "valid", {}))
           C == <<x, y, z>>
           AB == A \o B
           S == AB \o C
<1>1. IsSeq(r.claims) /\ IsSeq(facts)
  BY RequestsAssumption
<1>2. F \in Nat /\ m \in Nat /\ DOMAIN facts = 1..F /\ DOMAIN r.claims = 1..m
  BY <1>1, SeqFacts
<1>3. Steps(r, n) = S
  <2>1. HavAction(r, n).id = Id(n, "action", 1)
    BY DEF HavAction, RecOf, Rec
  <2>2. Steps(r, n) = HavSteps(r, n)
    BY DEF Steps
  <2>3. HavSteps(r, n) = S
    BY <2>1, Zenon DEF HavSteps, HavJudged, HavAction, HavDecision
  <2> QED
    BY <2>2, <2>3
<1>4. IsSeq(A) /\ Len(A) = F
  <2>1. A = [i \in 1..F |-> A[i]]
    BY <1>2
  <2> HIDE DEF A
  <2> QED
    BY <2>1, <1>2, SeqMade
<1>5. IsSeq(B) /\ Len(B) = 2 * m
  <2>1. B = [i \in 1..(2 * m) |-> B[i]] /\ 2 * m \in Nat
    BY <1>2
  <2> HIDE DEF B
  <2> QED
    BY <2>1, SeqMade
<1>6. IsSeq(C) /\ Len(C) = 3 /\ C[1] = x /\ C[2] = y /\ C[3] = z
  <2> HIDE DEF x, y, z
  <2> QED
    BY ThreeSteps
<1>7. \A i \in 1..F : /\ StepOf(A[i], n) /\ A[i].act = "append" /\ A[i].coll = "evidence"
  <2> TAKE i \in 1..F
  <2> DEFINE s == Put("evidence", RecOf(r, Id(n, "evidence", i), Nothing, "valid", {}))
  <2>1. A[i] = s
    BY <1>2
  <2>2. StepOf(s, n)
    BY PutStep DEF Names
  <2>3. s.act = "append" /\ s.coll = "evidence"
    BY DEF Put
  <2> QED
    BY <2>1, <2>2, <2>3
<1>8. \A k \in 1..(2 * m) : /\ StepOf(B[k], n) /\ B[k].act \in {"append", "verify"}
                            /\ B[k].coll \in {"claims", "verifications"}
  <2> TAKE k \in 1..(2 * m)
  <2>1. CASE k % 2 = 1
    <3> DEFINE s == Put("claims", RecOf(r, Id(n, "claim", (k + 1) \div 2), Nothing, "proposed", {}))
    <3>1. B[k] = s
      BY <2>1
    <3>2. StepOf(s, n)
      BY PutStep DEF Names
    <3>3. s.act = "append" /\ s.coll = "claims"
      BY DEF Put
    <3> QED
      BY <3>1, <3>2, <3>3
  <2>2. CASE k % 2 # 1
    <3> DEFINE s == Judge(HavJudged(r, n, k \div 2))
    <3>1. B[k] = s
      BY <2>2
    <3>2. StepOf(s, n)
      BY JudgeStep DEF HavJudged
    <3>3. s.act = "verify" /\ s.coll = "verifications"
      BY DEF Judge
    <3> QED
      BY <3>1, <3>2, <3>3
  <2> QED
    BY <2>1, <2>2
<1>9. \A i \in 1..m : 2 * i \in 1..(2 * m) /\ B[2 * i] = Judge(HavJudged(r, n, i))
  <2> TAKE i \in 1..m
  <2>1. 2 * i \in 1..(2 * m) /\ (2 * i) % 2 # 1 /\ (2 * i) \div 2 = i
    BY <1>2
  <2> QED
    BY <2>1
<1> HIDE DEF A, B, C, x, y, z, F, m
<1>10. /\ IsSeq(AB) /\ Len(AB) = F + 2 * m
       /\ \A i \in 1..F : AB[i] = A[i]
       /\ \A i \in 1..(2 * m) : AB[F + i] = B[i]
  <2>1. /\ IsSeq(AB) /\ Len(AB) = Len(A) + Len(B)
        /\ \A i \in 1..Len(A) : AB[i] = A[i]
        /\ \A i \in 1..Len(B) : AB[Len(A) + i] = B[i]
    <3>1. IsSeq(A) /\ IsSeq(B)
      BY <1>4, <1>5
    <3> QED
      BY <3>1, ConcatSeq
  <2> HIDE DEF AB
  <2> QED
    BY <2>1, <1>4, <1>5
<1> HIDE DEF AB
<1>11. /\ IsSeq(S) /\ Len(S) = F + 2 * m + 3
       /\ \A i \in 1..(F + 2 * m) : S[i] = AB[i]
       /\ \A i \in 1..3 : S[F + 2 * m + i] = C[i]
  <2>1. /\ IsSeq(S) /\ Len(S) = Len(AB) + Len(C)
        /\ \A i \in 1..Len(AB) : S[i] = AB[i]
        /\ \A i \in 1..Len(C) : S[Len(AB) + i] = C[i]
    <3>1. IsSeq(AB) /\ IsSeq(C)
      BY <1>6, <1>10
    <3> QED
      BY <3>1, ConcatSeq
  <2> HIDE DEF S
  <2> QED
    BY <2>1, <1>6, <1>10
<1> HIDE DEF S
<1>12. \A i \in 1..(F + 2 * m) :
          /\ StepOf(S[i], n) /\ S[i].act \in {"append", "verify"}
          /\ S[i].coll \in {"claims", "evidence", "verifications"}
  <2> TAKE i \in 1..(F + 2 * m)
  <2>1. CASE i \in 1..F
    <3>1. S[i] = A[i]
      BY <2>1, <1>10, <1>11
    <3> QED
      BY <2>1, <3>1, <1>7
  <2>2. CASE i \notin 1..F
    <3>1. i - F \in 1..(2 * m) /\ F + (i - F) = i
      BY <2>2, <1>2
    <3>2. S[i] = B[i - F]
      BY <3>1, <1>10, <1>11
    <3> QED
      BY <3>1, <3>2, <1>8
  <2> QED
    BY <2>1, <2>2
<1>13. \A i \in 1..m : S[F + 2 * i] = Judge(HavJudged(r, n, i))
  <2> TAKE i \in 1..m
  <2> DEFINE k == 2 * i
  <2>1. k \in 1..(2 * m) /\ F + k \in 1..(F + 2 * m)
    BY <1>2
  <2> HIDE DEF k
  <2>2. S[F + k] = B[k]
    BY <2>1, <1>10, <1>11
  <2> QED
    BY <2>2, <1>9 DEF k
<1>14. S[F + 2 * m + 1] = x /\ S[F + 2 * m + 2] = y /\ S[F + 2 * m + 3] = z
  BY <1>6, <1>11
<1> QED
  BY <1>2, <1>3, <1>11, <1>12, <1>13, <1>14 DEF F, m, x, y, z, HavFacts, HavClaims

LEMMA RunKinds ==
    ASSUME NEW r \in Requests, NEW n, r.op = "run", NEW i \in 1..Len(Steps(r, n))
    PROVE  LET s == Steps(r, n)[i]
           IN /\ StepOf(s, n)
              /\ s.act \in {"append", "verify", "mirror", "execute"}
              /\ s.act = "append" /\ s.coll = "actions" =>
                    i = Before(r) + 1 /\ s.rec = ActionOf(r, n)
              /\ s.act = "append" /\ s.coll = "policy_decisions" =>
                    i = Before(r) + 2 /\ s.rec = DecisionOf(r, n)
              /\ s.act = "append" /\ s.coll = "outcomes" =>
                    IF Executes(r) THEN i = Before(r) + 5 /\ s.rec = OutcomeOf(r, n, "executed")
                    ELSE i = Before(r) + 4 /\ s.rec = OutcomeOf(r, n, "simulated")
              /\ s.act = "execute" => Executes(r) /\ i = Before(r) + 4 /\ s.rec = ActionOf(r, n)
<1> DEFINE S == Steps(r, n)
           o == Before(r)
           Holds(s, k) ==
              /\ StepOf(s, n)
              /\ s.act \in {"append", "verify", "mirror", "execute"}
              /\ s.act = "append" /\ s.coll = "actions" => k = o + 1 /\ s.rec = ActionOf(r, n)
              /\ s.act = "append" /\ s.coll = "policy_decisions" =>
                    k = o + 2 /\ s.rec = DecisionOf(r, n)
              /\ s.act = "append" /\ s.coll = "outcomes" =>
                    IF Executes(r) THEN k = o + 5 /\ s.rec = OutcomeOf(r, n, "executed")
                    ELSE k = o + 4 /\ s.rec = OutcomeOf(r, n, "simulated")
              /\ s.act = "execute" => Executes(r) /\ k = o + 4 /\ s.rec = ActionOf(r, n)
<1>1. /\ Len(S) = o + 5 /\ o \in {0, 3}
      /\ S[o + 1] = Put("actions", ActionOf(r, n))
      /\ S[o + 2] = Put("policy_decisions", DecisionOf(r, n))
      /\ S[o + 3] = Mirror("audit", DecisionOf(r, n))
      /\ S[o + 4] = IF Executes(r) THEN Carry(ActionOf(r, n)) ELSE Put("outcomes", OutcomeOf(r, n, "simulated"))
      /\ S[o + 5] = IF Executes(r) THEN Put("outcomes", OutcomeOf(r, n, "executed"))
                    ELSE Mirror("shadow", OutcomeOf(r, n, "simulated"))
      /\ \A k \in 1..o : /\ StepOf(S[k], n) /\ S[k].act \in {"append", "verify"}
                         /\ S[k].coll \in {"claims", "evidence", "verifications"}
  BY RunSteps
<1>2. /\ StepOf(Put("actions", ActionOf(r, n)), n)
      /\ StepOf(Put("policy_decisions", DecisionOf(r, n)), n)
      /\ \A how : StepOf(Put("outcomes", OutcomeOf(r, n, how)), n)
      /\ StepOf(Carry(ActionOf(r, n)), n)
  <2>1. Id(n, "action", 1)[1] = n
    BY DEF Id
  <2>2. StepOf(Put("actions", ActionOf(r, n)), n)
    BY PutStep DEF ActionOf, Names
  <2>3. StepOf(Put("policy_decisions", DecisionOf(r, n)), n)
    BY <2>1, PutStep DEF DecisionOf, Names
  <2>4. \A how : StepOf(Put("outcomes", OutcomeOf(r, n, how)), n)
    BY <2>1, PutStep DEF OutcomeOf, Names
  <2>5. StepOf(Carry(ActionOf(r, n)), n)
    BY CarryStep DEF ActionOf
  <2> QED
    BY <2>2, <2>3, <2>4, <2>5
<1>3. \A c, rec : /\ Put(c, rec).act = "append" /\ Put(c, rec).coll = c /\ Put(c, rec).rec = rec
                  /\ Carry(rec).act = "execute" /\ Carry(rec).rec = rec
  BY DEF Put, Carry
<1> HIDE DEF S, o
<1>4. CASE i \in 1..o
  <2>1. Holds(S[i], i)
    BY <1>4, <1>1
  <2> QED
    BY <2>1 DEF S, o
<1>5. CASE i = o + 1
  <2>1. Holds(S[i], i)
    BY <1>5, <1>1, <1>2, <1>3
  <2> QED
    BY <2>1 DEF S, o
<1>6. CASE i = o + 2
  <2>1. Holds(S[i], i)
    BY <1>6, <1>1, <1>2, <1>3
  <2> QED
    BY <2>1 DEF S, o
<1>7. CASE i = o + 3
  <2>1. Holds(S[i], i)
    BY <1>7, <1>1, FileStep
  <2> QED
    BY <2>1 DEF S, o
<1>8. CASE i = o + 4
  <2>1. CASE Executes(r)
    <3>1. Holds(S[i], i)
      BY <1>8, <2>1, <1>1, <1>2, <1>3
    <3> QED
      BY <3>1 DEF S, o
  <2>2. CASE ~ Executes(r)
    <3>1. Holds(S[i], i)
      BY <1>8, <2>2, <1>1, <1>2, <1>3
    <3> QED
      BY <3>1 DEF S, o
  <2> QED
    BY <2>1, <2>2
<1>9. CASE i = o + 5
  <2>1. CASE Executes(r)
    <3>1. Holds(S[i], i)
      BY <1>9, <2>1, <1>1, <1>2, <1>3
    <3> QED
      BY <3>1 DEF S, o
  <2>2. CASE ~ Executes(r)
    <3>1. Holds(S[i], i)
      BY <1>9, <2>2, <1>1, FileStep
    <3> QED
      BY <3>1 DEF S, o
  <2> QED
    BY <2>1, <2>2
<1>10. i \in 1..(o + 5) /\ o \in Nat
  BY <1>1 DEF S
<1>11. i \in 1..o \/ i = o + 1 \/ i = o + 2 \/ i = o + 3 \/ i = o + 4 \/ i = o + 5
  BY <1>10
<1> QED
  BY <1>4, <1>5, <1>6, <1>7, <1>8, <1>9, <1>11

LEMMA HavKinds ==
    ASSUME NEW r \in Requests, NEW n, r.op = "hav", NEW i \in 1..Len(Steps(r, n))
    PROVE  LET s == Steps(r, n)[i]
               o == HavFacts(r) + 2 * HavClaims(r)
           IN /\ StepOf(s, n)
              /\ s.act \in {"append", "verify"}
              /\ s.coll # "outcomes"
              /\ s.coll = "actions" => i = o + 1 /\ s.rec = HavAction(r, n)
              /\ s.coll = "policy_decisions" => i = o + 2 /\ s.rec = HavDecision(r, n)
<1> DEFINE S == Steps(r, n)
           o == HavFacts(r) + 2 * HavClaims(r)
           Holds(s, k) ==
              /\ StepOf(s, n)
              /\ s.act \in {"append", "verify"}
              /\ s.coll # "outcomes"
              /\ s.coll = "actions" => k = o + 1 /\ s.rec = HavAction(r, n)
              /\ s.coll = "policy_decisions" => k = o + 2 /\ s.rec = HavDecision(r, n)
           last == RecOf(r, Id(n, "receipt", 1), Nothing, "valid", {})
<1>1. /\ HavFacts(r) \in Nat /\ HavClaims(r) \in Nat
      /\ Len(S) = o + 3
      /\ S[o + 1] = Put("actions", HavAction(r, n))
      /\ S[o + 2] = Put("policy_decisions", HavDecision(r, n))
      /\ S[o + 3] = Put("evidence", last)
      /\ \A k \in 1..o : /\ StepOf(S[k], n) /\ S[k].act \in {"append", "verify"}
                         /\ S[k].coll \in {"claims", "evidence", "verifications"}
  BY HavDoes
<1>2. o \in Nat
  BY <1>1
<1>3. StepOf(Put("actions", HavAction(r, n)), n)
  BY PutStep DEF HavAction, Names
<1>4. StepOf(Put("policy_decisions", HavDecision(r, n)), n)
  <2>1. Id(n, "action", 1)[1] = n
    BY DEF Id
  <2> QED
    BY <2>1, PutStep DEF HavDecision, Names
<1>5. StepOf(Put("evidence", last), n)
  BY PutStep DEF Names
<1>6. \A c, rec : Put(c, rec).act = "append" /\ Put(c, rec).coll = c /\ Put(c, rec).rec = rec
  BY DEF Put
<1> HIDE DEF S, o, last
<1>7. i \in 1..o \/ i = o + 1 \/ i = o + 2 \/ i = o + 3
  <2>1. i \in 1..(o + 3)
    BY <1>1 DEF S
  <2> QED
    BY <2>1, <1>2
<1>8. Holds(S[i], i)
  <2>1. CASE i \in 1..o
    BY <2>1, <1>1
  <2>2. CASE i = o + 1
    BY <2>2, <1>1, <1>3, <1>6
  <2>3. CASE i = o + 2
    BY <2>3, <1>1, <1>4, <1>6
  <2>4. CASE i = o + 3
    BY <2>4, <1>1, <1>5, <1>6
  <2> QED
    BY <1>7, <2>1, <2>2, <2>3, <2>4
<1> QED
  BY <1>8 DEF S, o

LEMMA StepsMade ==
    ASSUME NEW r \in Requests, NEW n
    PROVE  /\ IsSeq(Steps(r, n)) /\ Len(Steps(r, n)) \in Nat
           /\ \A i \in 1..Len(Steps(r, n)) : StepOf(Steps(r, n)[i], n)
<1>1. r.op \in Operations
  BY RequestsAssumption
<1>2. CASE r.op \in Single
  <2>1. IsSeq(Steps(r, n)) /\ Len(Steps(r, n)) = 1 /\ StepOf(Steps(r, n)[1], n)
    BY <1>2, SingleSteps
  <2>2. \A i \in 1..1 : i = 1
    OBVIOUS
  <2> QED
    BY <2>1, <2>2
<1>3. CASE r.op = "run"
  <2>1. \A i \in 1..Len(Steps(r, n)) : StepOf(Steps(r, n)[i], n)
    BY <1>3, RunKinds
  <2> QED
    BY <1>3, <2>1, RunSteps, SeqFacts
<1>4. CASE r.op = "sandbox"
  <2>1. IsSeq(Steps(r, n)) /\ \A i \in 1..Len(Steps(r, n)) : StepOf(Steps(r, n)[i], n)
    BY <1>4, SandboxDoes
  <2> QED
    BY <2>1, SeqFacts
<1>5. CASE r.op = "hav"
  <2>1. \A i \in 1..Len(Steps(r, n)) : StepOf(Steps(r, n)[i], n)
    BY <1>5, HavKinds
  <2>2. IsSeq(Steps(r, n))
    BY <1>5, HavDoes
  <2> QED
    BY <2>1, <2>2, SeqFacts
<1>6. CASE r.op = "snapshot"
  <2>1. /\ IsSeq(Steps(r, n)) /\ Len(Steps(r, n)) = 6
        /\ \A i \in 1..6 : StepOf(Steps(r, n)[i], n)
    BY <1>6, SnapshotSteps
  <2> QED
    BY <2>1
<1> QED
  BY <1>1, <1>2, <1>3, <1>4, <1>5, <1>6 DEF Operations, Single

\* What is verified has evidence.
LEMMA VerifiedHasEvidence ==
    ASSUME NEW state, NEW claim, Evaluation(state, claim).status = "verified"
    PROVE  Evaluation(state, claim).evidence # {}
<1>1. ASSUME NEW value, NEW hits, Compare(state, value, hits).status = "verified"
      PROVE  Compare(state, value, hits).evidence # {}
  BY <1>1 DEF Compare, Supported, Contradicted
<1>2. ASSUME Derived(state, claim).status = "verified"
      PROVE  Derived(state, claim).evidence # {}
  <2> DEFINE first == claim.topic = "all_required_checks_passed" /\ RequiredChecks(state) # {}
             second == claim.topic = "production_ready" /\ Known(state, "release_gate_status") # {}
             failed == {i \in RequiredChecks(state) : state.facts[i].value # "passed"}
  <2>1. CASE first
    <3>1. Derived(state, claim) = IF failed # {} THEN Contradicted(failed)
                                  ELSE Supported(RequiredChecks(state))
      BY <2>1 DEF Derived
    <3> QED
      BY <2>1, <3>1, <1>2 DEF Supported, Contradicted
  <2>2. CASE ~ first /\ second
    <3>1. Derived(state, claim) = Compare(state, "passed", Known(state, "release_gate_status"))
      BY <2>2 DEF Derived
    <3> QED
      BY <3>1, <1>1, <1>2
  <2>3. CASE ~ first /\ ~ second
    <3>1. Derived(state, claim) = Unverified
      BY <2>3 DEF Derived
    <3> QED
      BY <3>1, <1>2 DEF Unverified
  <2> QED
    BY <2>1, <2>2, <2>3
<1> QED
  BY <1>1, <1>2 DEF Evaluation, Unverified

LEMMA AllowedIfVerified ==
    ASSUME NEW state, NEW claims, Decide(state, claims) = "allow", NEW i \in DOMAIN claims
    PROVE  Evaluation(state, claims[i]).status = "verified"
BY DEF Decide

\* A decision comes after its action, and one to allow an output after the
\* verification of each of its claims.
LEMMA DecisionSteps ==
    ASSUME NEW r \in Requests, NEW n, NEW i \in 1..Len(Steps(r, n)),
           Steps(r, n)[i].act = "append", Steps(r, n)[i].coll = "policy_decisions"
    PROVE  /\ \E j \in 1..(i - 1) : Steps(r, n)[j].act = "append" /\ Steps(r, n)[j].coll = "actions"
           /\ \A j \in 1..Len(Steps(r, n)) :
                 Steps(r, n)[j].act = "append" /\ Steps(r, n)[j].coll = "actions" =>
                    /\ j < i
                    /\ Steps(r, n)[i].rec.state = "allow" =>
                          \A claim \in Steps(r, n)[j].rec.refs : \E k \in 1..(i - 1) :
                              /\ Steps(r, n)[k].act = "verify"
                              /\ Steps(r, n)[k].rec.about = claim
                              /\ Steps(r, n)[k].rec.state = "verified"
                              /\ Steps(r, n)[k].rec.refs # {}
<1>1. r.op \in Operations
  BY RequestsAssumption
<1>2. r.op \notin Single
  <2> SUFFICES ASSUME r.op \in Single PROVE FALSE
    OBVIOUS
  <2>1. Len(Steps(r, n)) = 1 /\ Steps(r, n)[1].coll # "policy_decisions"
    BY SingleSteps
  <2> QED
    BY <2>1
<1>3. r.op # "sandbox"
  BY SandboxDoes
<1>4. r.op # "snapshot"
  <2> SUFFICES ASSUME r.op = "snapshot" PROVE FALSE
    OBVIOUS
  <2>1. Steps(r, n)[i] = Show(Collections[i])
    BY SnapshotSteps
  <2> QED
    BY <2>1 DEF Show
<1>5. CASE r.op = "run"
  <2>1. Before(r) \in {0, 3} /\ Len(Steps(r, n)) = Before(r) + 5
        /\ Steps(r, n)[Before(r) + 1] = Put("actions", ActionOf(r, n))
    BY <1>5, RunSteps
  <2>2. i = Before(r) + 2
    BY <1>5, RunKinds
  <2>3. \A j \in 1..Len(Steps(r, n)) :
           Steps(r, n)[j].act = "append" /\ Steps(r, n)[j].coll = "actions" =>
              j = Before(r) + 1 /\ Steps(r, n)[j].rec = ActionOf(r, n)
    BY <1>5, RunKinds
  <2>4. ActionOf(r, n).refs = {}
    BY DEF ActionOf, RecOf, Rec
  <2>5. Before(r) + 1 \in 1..(i - 1) /\ Before(r) + 1 < i
    BY <2>1, <2>2
  <2>6. Put("actions", ActionOf(r, n)).act = "append" /\ Put("actions", ActionOf(r, n)).coll = "actions"
    BY DEF Put
  <2> QED
    BY <2>1, <2>3, <2>4, <2>5, <2>6
<1>6. CASE r.op = "hav"
  <2> DEFINE o == HavFacts(r) + 2 * HavClaims(r)
             S == Steps(r, n)
  <2>1. /\ HavFacts(r) \in Nat /\ HavClaims(r) \in Nat /\ DOMAIN r.claims = 1..HavClaims(r)
        /\ \A k \in 1..HavClaims(r) : S[HavFacts(r) + 2 * k] = Judge(HavJudged(r, n, k))
        /\ S[o + 1] = Put("actions", HavAction(r, n))
    BY <1>6, HavDoes
  <2>2. i = o + 2 /\ S[i].rec = HavDecision(r, n)
    BY <1>6, HavKinds
  <2>3. \A j \in 1..Len(S) : S[j].act = "append" /\ S[j].coll = "actions" =>
           j = o + 1 /\ S[j].rec = HavAction(r, n)
    BY <1>6, HavKinds
  <2> HIDE DEF S
  <2>4. o + 1 \in 1..(i - 1) /\ o + 1 < i
    BY <2>1, <2>2
  <2>5. ASSUME S[i].rec.state = "allow", NEW claim \in HavAction(r, n).refs
        PROVE  \E k \in 1..(i - 1) : /\ S[k].act = "verify" /\ S[k].rec.about = claim
                                     /\ S[k].rec.state = "verified" /\ S[k].rec.refs # {}
    <3>1. PICK c \in 1..HavClaims(r) : claim = Id(n, "claim", c)
      BY <2>1, <2>5 DEF HavAction, RecOf, Rec
    <3> DEFINE k == HavFacts(r) + 2 * c
               e == Evaluation(r.state, r.claims[c])
    <3>2. k \in 1..(i - 1)
      BY <2>1, <2>2
    <3>3. S[k].act = "verify" /\ S[k].rec = HavJudged(r, n, c)
      <4>1. S[k] = Judge(HavJudged(r, n, c))
        BY <2>1
      <4> QED
        BY <4>1 DEF Judge
    <3>4. Decide(r.state, r.claims) = "allow"
      BY <2>2, <2>5 DEF HavDecision, RecOf, Rec
    <3>5. e.status = "verified" /\ e.evidence # {}
      <4>1. c \in DOMAIN r.claims
        BY <2>1
      <4>2. e.status = "verified"
        BY <3>4, <4>1, AllowedIfVerified
      <4> QED
        BY <4>2, VerifiedHasEvidence
    <3>6. /\ HavJudged(r, n, c).about = Id(n, "claim", c)
          /\ HavJudged(r, n, c).state = e.status
          /\ HavJudged(r, n, c).refs = {Id(n, "evidence", j) : j \in e.evidence}
      BY DEF HavJudged, RecOf, Rec
    <3> HIDE DEF k, e
    <3> QED
      BY <3>1, <3>2, <3>3, <3>5, <3>6
  <2>6. Put("actions", HavAction(r, n)).act = "append" /\ Put("actions", HavAction(r, n)).coll = "actions"
    BY DEF Put
  <2> HIDE DEF o
  <2>7. S[o + 1].act = "append" /\ S[o + 1].coll = "actions"
    BY <2>1, <2>6
  <2>8. \A j \in 1..Len(S) : S[j].act = "append" /\ S[j].coll = "actions" =>
           /\ j < i
           /\ S[i].rec.state = "allow" =>
                 \A claim \in S[j].rec.refs : \E k \in 1..(i - 1) :
                     /\ S[k].act = "verify" /\ S[k].rec.about = claim
                     /\ S[k].rec.state = "verified" /\ S[k].rec.refs # {}
    BY <2>3, <2>4, <2>5
  <2> QED
    BY <2>4, <2>7, <2>8 DEF S
<1> QED
  BY <1>1, <1>2, <1>3, <1>4, <1>5, <1>6 DEF Operations, Single

\* What is carried out is a ticket of an authorized sandbox, or the action of a run
\* whose outcome is all that is left to record.
LEMMA EffectSteps ==
    ASSUME NEW r \in Requests, NEW n, NEW j \in 1..Len(Steps(r, n)), Steps(r, n)[j].act = "execute"
    PROVE  \/ /\ r.op = "sandbox" /\ Authorized(r)
              /\ Steps(r, n)[j].rec.id = Id(n, "ticket", 1)
           \/ /\ r.op = "run"
              /\ Steps(r, n)[j].rec.id = Id(n, "action", 1)
              /\ Len(Steps(r, n)) = j + 1
              /\ Steps(r, n)[j + 1].act = "append" /\ Steps(r, n)[j + 1].coll = "outcomes"
              /\ Steps(r, n)[j + 1].rec.about = Id(n, "action", 1)
              /\ \A k \in 1..j : Steps(r, n)[k].act = "append" => Steps(r, n)[k].coll # "outcomes"
              /\ \E d \in 1..(j - 1) :
                    /\ Steps(r, n)[d].act = "append" /\ Steps(r, n)[d].coll = "policy_decisions"
                    /\ Steps(r, n)[d].rec.about = Id(n, "action", 1)
                    /\ Steps(r, n)[d].rec.state = "allow"
<1>1. r.op \in Operations
  BY RequestsAssumption
<1>2. r.op \notin Single
  <2> SUFFICES ASSUME r.op \in Single PROVE FALSE
    OBVIOUS
  <2>1. Len(Steps(r, n)) = 1 /\ Steps(r, n)[1].act # "execute"
    BY SingleSteps
  <2> QED
    BY <2>1
<1>3. r.op # "hav"
  BY HavKinds
<1>4. r.op # "snapshot"
  <2> SUFFICES ASSUME r.op = "snapshot" PROVE FALSE
    OBVIOUS
  <2>1. Steps(r, n)[j] = Show(Collections[j])
    BY SnapshotSteps
  <2> QED
    BY <2>1 DEF Show
<1>5. CASE r.op = "sandbox"
  BY <1>5, SandboxDoes
<1>6. CASE r.op = "run"
  <2> DEFINE S == Steps(r, n)
             o == Before(r)
  <2>1. Executes(r) /\ j = o + 4 /\ S[j].rec = ActionOf(r, n)
    BY <1>6, RunKinds
  <2>2. /\ Len(S) = o + 5 /\ o \in {0, 3}
        /\ S[o + 2] = Put("policy_decisions", DecisionOf(r, n))
        /\ S[o + 5] = Put("outcomes", OutcomeOf(r, n, "executed"))
    BY <1>6, <2>1, RunSteps
  <2>3. \A k \in 1..Len(S) : S[k].act = "append" /\ S[k].coll = "outcomes" => k = o + 5
    BY <1>6, <2>1, RunKinds
  <2>4. ActionOf(r, n).id = Id(n, "action", 1) /\ OutcomeOf(r, n, "executed").about = Id(n, "action", 1)
        /\ DecisionOf(r, n).about = Id(n, "action", 1) /\ DecisionOf(r, n).state = "allow"
    BY <2>1 DEF ActionOf, OutcomeOf, DecisionOf, RecOf, Rec, Executes
  <2>5. \A c, rec : Put(c, rec).act = "append" /\ Put(c, rec).coll = c /\ Put(c, rec).rec = rec
    BY DEF Put
  <2> HIDE DEF S, o
  <2>6. o + 2 \in 1..(j - 1) /\ o + 5 = j + 1
    BY <2>1, <2>2
  <2>7. /\ S[j].rec.id = Id(n, "action", 1) /\ Len(S) = j + 1
        /\ S[j + 1].act = "append" /\ S[j + 1].coll = "outcomes"
        /\ S[j + 1].rec.about = Id(n, "action", 1)
    BY <2>1, <2>2, <2>4, <2>5, <2>6
  <2>8. \A k \in 1..j : S[k].act = "append" => S[k].coll # "outcomes"
    BY <2>1, <2>2, <2>3
  <2>9. \E d \in 1..(j - 1) : /\ S[d].act = "append" /\ S[d].coll = "policy_decisions"
                              /\ S[d].rec.about = Id(n, "action", 1) /\ S[d].rec.state = "allow"
    BY <2>2, <2>4, <2>5, <2>6
  <2> QED
    BY <1>6, <2>7, <2>8, <2>9 DEF S
<1> QED
  BY <1>1, <1>2, <1>3, <1>4, <1>5, <1>6 DEF Operations, Single

\* An outcome says what was done before it.
LEMMA OutcomeSteps ==
    ASSUME NEW r \in Requests, NEW n, NEW i \in 1..Len(Steps(r, n)),
           Steps(r, n)[i].act = "append", Steps(r, n)[i].coll = "outcomes"
    PROVE  /\ Steps(r, n)[i].rec.about = Id(n, "action", 1)
           /\ \A j \in 1..Len(Steps(r, n)) : Steps(r, n)[j].act = "execute" =>
                 j < i /\ Steps(r, n)[j].rec.id = Id(n, "action", 1)
           /\ Steps(r, n)[i].rec.state = "executed"
              <=> \E j \in 1..(i - 1) : Steps(r, n)[j].act = "execute"
<1>1. r.op \in Operations
  BY RequestsAssumption
<1>2. r.op \notin Single
  <2> SUFFICES ASSUME r.op \in Single PROVE FALSE
    OBVIOUS
  <2>1. Len(Steps(r, n)) = 1
    BY SingleSteps
  <2>2. CASE r.op \in GrdiOps
    <3>1. Steps(r, n)[1].act = "commit"
      BY <2>2, SingleSteps
    <3> QED
      BY <3>1, <2>1
  <2>3. CASE r.op \notin GrdiOps
    <3>1. Steps(r, n)[1].coll # "outcomes"
      BY <2>3, SingleSteps
    <3> QED
      BY <3>1, <2>1
  <2> QED
    BY <2>2, <2>3
<1>3. r.op # "hav"
  BY HavKinds
<1>4. r.op # "snapshot"
  <2> SUFFICES ASSUME r.op = "snapshot" PROVE FALSE
    OBVIOUS
  <2>1. Steps(r, n)[i] = Show(Collections[i])
    BY SnapshotSteps
  <2> QED
    BY <2>1 DEF Show
<1>5. r.op # "sandbox"
  BY SandboxDoes
<1>6. CASE r.op = "run"
  <2> DEFINE S == Steps(r, n)
             o == Before(r)
  <2>1. Len(S) = o + 5 /\ o \in {0, 3}
    BY <1>6, RunSteps
  <2>2. IF Executes(r) THEN i = o + 5 /\ S[i].rec = OutcomeOf(r, n, "executed")
        ELSE i = o + 4 /\ S[i].rec = OutcomeOf(r, n, "simulated")
    BY <1>6, RunKinds
  <2>3. \A j \in 1..Len(S) : S[j].act = "execute" =>
           Executes(r) /\ j = o + 4 /\ S[j].rec = ActionOf(r, n)
    BY <1>6, RunKinds
  <2>4. ActionOf(r, n).id = Id(n, "action", 1)
        /\ \A how : OutcomeOf(r, n, how).about = Id(n, "action", 1) /\ OutcomeOf(r, n, how).state = how
    BY DEF ActionOf, OutcomeOf, RecOf, Rec
  <2>5. Executes(r) => S[o + 4] = Carry(ActionOf(r, n))
    BY <1>6, RunSteps
  <2>6. Carry(ActionOf(r, n)).act = "execute"
    BY DEF Carry
  <2> HIDE DEF S, o
  <2>7. CASE Executes(r)
    <3>1. o + 4 \in 1..(i - 1) /\ S[o + 4].act = "execute"
      BY <2>1, <2>2, <2>5, <2>6, <2>7
    <3>2. S[i].rec.state = "executed" /\ S[i].rec.about = Id(n, "action", 1)
      BY <2>2, <2>4, <2>7
    <3>3. \A j \in 1..Len(S) : S[j].act = "execute" => j < i /\ S[j].rec.id = Id(n, "action", 1)
      BY <2>1, <2>2, <2>3, <2>4, <2>7
    <3> QED
      BY <3>1, <3>2, <3>3 DEF S
  <2>8. CASE ~ Executes(r)
    <3>1. S[i].rec.state = "simulated" /\ S[i].rec.about = Id(n, "action", 1)
      BY <2>2, <2>4, <2>8
    <3>2. \A j \in 1..Len(S) : S[j].act # "execute"
      BY <2>3, <2>8
    <3>3. 1..(i - 1) \subseteq 1..Len(S)
      BY <2>1 DEF S
    <3> QED
      BY <3>1, <3>2, <3>3 DEF S
  <2> QED
    BY <2>7, <2>8
<1> QED
  BY <1>1, <1>2, <1>3, <1>4, <1>5, <1>6 DEF Operations, Single

\* The rows of envelopes, decisions and plans are those of one route each.
RouteTo(coll) ==
    CASE coll = "envelopes" -> "envelope" [] coll = "decisions" -> "authorize" [] OTHER -> "plan"

LEMMA CommitSteps ==
    ASSUME NEW r \in Requests, NEW n, NEW i \in 1..Len(Steps(r, n)), Steps(r, n)[i].act = "commit"
    PROVE  /\ Len(Steps(r, n)) = 1
           /\ Steps(r, n)[i].coll \in {"envelopes", "decisions", "plans"} =>
                 r.op = RouteTo(Steps(r, n)[i].coll)
<1>1. r.op \in Operations
  BY RequestsAssumption
<1>2. r.op # "hav"
  BY HavKinds
<1>3. r.op # "snapshot"
  <2> SUFFICES ASSUME r.op = "snapshot" PROVE FALSE
    OBVIOUS
  <2>1. Steps(r, n)[i] = Show(Collections[i])
    BY SnapshotSteps
  <2> QED
    BY <2>1 DEF Show
<1>4. r.op # "sandbox"
  BY SandboxDoes
<1>5. r.op # "run"
  BY RunKinds
<1>6. r.op \in Single
  BY <1>1, <1>2, <1>3, <1>4, <1>5 DEF Operations, Single
<1>7. /\ Len(Steps(r, n)) = 1
      /\ Steps(r, n)[1].coll = "envelopes" => r.op = "envelope"
      /\ Steps(r, n)[1].coll = "decisions" => r.op = "authorize"
      /\ Steps(r, n)[1].coll = "plans" => r.op = "plan"
  BY <1>6, SingleSteps
<1>8. i = 1
  BY <1>7
<1> QED
  BY <1>7, <1>8 DEF RouteTo

\* Requests with one key and body ask for the same.
LEMMA SamePayload ==
    ASSUME NEW r \in Requests, NEW q \in Requests,
           KeyOf(r) = KeyOf(q), Payload(r) = Payload(q), NEW n
    PROVE  Steps(r, n) = Steps(q, n) /\ Caller(r).scope = Caller(q).scope /\ r.op = q.op
<1> DEFINE Body(x) == [f \in DOMAIN x \ {"from"} |-> x[f]]
<1>1. r.op = q.op /\ Caller(r).scope = Caller(q).scope
  BY DEF KeyOf
<1>0. \A id, about, state, refs : RecOf(r, id, about, state, refs) = RecOf(q, id, about, state, refs)
  BY <1>1 DEF RecOf
<1>2. Body(r) = Body(q)
  BY DEF Payload
<1>3. \A f \in DOMAIN r \ {"from"} : r[f] = q[f]
  <2>1. DOMAIN Body(r) = DOMAIN r \ {"from"} /\ \A f \in DOMAIN r \ {"from"} : Body(r)[f] = r[f]
    OBVIOUS
  <2>2. DOMAIN Body(q) = DOMAIN q \ {"from"} /\ \A f \in DOMAIN q \ {"from"} : Body(q)[f] = q[f]
    OBVIOUS
  <2> HIDE DEF Body
  <2> QED
    BY <2>1, <2>2, <1>2
<1>4. r.op \in Operations /\ Fields(r.op) \subseteq DOMAIN r
  BY RequestsAssumption
<1>5. CASE r.op = "claim"
  BY <1>0, <1>1, <1>5 DEF Steps
<1>6. CASE r.op = "evidence"
  BY <1>0, <1>1, <1>6 DEF Steps
<1>7. CASE r.op = "verify"
  <2>1. r.claim = q.claim /\ r.result = q.result /\ r.refs = q.refs
    BY <1>3, <1>4, <1>7 DEF Fields
  <2> QED
    BY <2>1, <1>0, <1>1, <1>7 DEF Steps
<1>8. CASE r.op = "run"
  <2>1. /\ r.claims = q.claims /\ r.result = q.result /\ r.type = q.type /\ r.risk = q.risk
        /\ r.reversible = q.reversible /\ r.mode = q.mode /\ r.approvals = q.approvals
        /\ r.executor = q.executor
    BY <1>3, <1>4, <1>8 DEF Fields
  <2>2. Effect(r) = Effect(q)
    BY <2>1 DEF Effect
  <2>3. Executes(r) = Executes(q)
    BY <2>1, <2>2 DEF Executes
  <2>4. RunAction(r, n) = RunAction(q, n)
    BY <2>2, <2>3, <1>0 DEF RunAction
  <2>5. RunClaim(r, n) = RunClaim(q, n)
    BY <2>1, <1>0 DEF RunClaim
  <2> QED
    BY <2>1, <2>4, <2>5, <1>1, <1>8 DEF Steps
<1>9. CASE r.op = "sandbox"
  <2>1. /\ r.type = q.type /\ r.approvals = q.approvals /\ r.reversible = q.reversible
        /\ r.governance = q.governance /\ r.readiness = q.readiness
    BY <1>3, <1>4, <1>9 DEF Fields
  <2>2. Authorized(r) = Authorized(q)
    BY <2>1 DEF Authorized, RollbackPlanned
  <2>3. SandboxSteps(r, n) = SandboxSteps(q, n)
    BY <2>2, <1>0 DEF SandboxSteps, OpenTicket
  <2> QED
    BY <2>3, <1>1, <1>9 DEF Steps
<1>10. CASE r.op = "hav"
  <2>1. r.state = q.state /\ r.claims = q.claims
    BY <1>3, <1>4, <1>10 DEF Fields
  <2>2. HavSteps(r, n) = HavSteps(q, n)
    BY <2>1, <1>1, Zenon DEF HavSteps, RecOf
  <2> QED
    BY <2>2, <1>1, <1>10 DEF Steps
<1>11. CASE r.op = "snapshot"
  BY <1>1, <1>11 DEF Steps
<1>12. CASE r.op = "envelope"
  BY <1>1, <1>12 DEF Steps, EnvelopeRoute
<1>13. CASE r.op = "authorize"
  <2>1. r.envelope = q.envelope
    BY <1>3, <1>4, <1>13 DEF Fields
  <2> QED
    BY <2>1, <1>1, <1>13 DEF Steps, AuthorizeRoute
<1>14. CASE r.op = "plan"
  <2>1. r.envelope = q.envelope /\ r.decision = q.decision
    BY <1>3, <1>4, <1>14 DEF Fields
  <2> QED
    BY <2>1, <1>1, <1>14 DEF Steps, PlanRoute
<1>15. CASE r.op \in {"simulate", "outcome", "replay"}
  <2>1. r.plan = q.plan
    BY <1>3, <1>4, <1>15 DEF Fields
  <2>2. CASE r.op = "simulate"
    BY <2>1, <2>2, <1>1 DEF Steps, SimulateRoute
  <2>3. CASE r.op = "outcome"
    BY <2>1, <2>3, <1>1 DEF Steps, OutcomeRoute
  <2>4. CASE r.op = "replay"
    BY <2>1, <2>4, <1>1 DEF Steps, ReplayRoute
  <2> QED
    BY <2>2, <2>3, <2>4, <1>15
<1>16. CASE r.op = "compare"
  <2>1. r.baseline = q.baseline /\ r.candidate = q.candidate
    BY <1>3, <1>4, <1>16 DEF Fields
  <2> QED
    BY <2>1, <1>1, <1>16 DEF Steps, CompareRoute
<1>17. Steps(r, n) = Steps(q, n)
  BY <1>4, <1>5, <1>6, <1>7, <1>8, <1>9, <1>10, <1>11, <1>12, <1>13, <1>14, <1>15, <1>16
     DEF Operations, GrdiOps
<1> QED
  BY <1>1, <1>17

(***************************************************************************)
(* Least and greatest elements, from the well-foundedness of the order of  *)
(* the natural numbers.                                                    *)
(***************************************************************************)
LessOnNat == {pair \in Nat \X Nat : pair[1] < pair[2]}

LEMMA LeastElement ==
    ASSUME NEW T \in SUBSET Nat, T # {}
    PROVE  \E x \in T : \A y \in T : x <= y
<1>1. IsWellFoundedOn(LessOnNat, Nat)
  <2>1. OpToRel(<, Nat) = LessOnNat
    BY DEF LessOnNat, OpToRel
  <2> QED
    BY <2>1, NatLessThanWellFounded
<1>2. T \subseteq Nat
  OBVIOUS
<1>3. PICK x \in T : \A y \in T : ~ (<<y, x>> \in LessOnNat)
  BY <1>1, <1>2, WFMin
<1>4. ASSUME NEW y \in T PROVE x <= y
  <2>1. ~ (<<y, x>> \in LessOnNat) /\ <<y, x>> \in Nat \X Nat
    BY <1>3
  <2>2. ~ (y < x)
    BY <2>1 DEF LessOnNat
  <2> QED
    BY <2>2
<1> QED
  BY <1>4

LEMMA GreatestElement ==
    ASSUME NEW n \in Nat, NEW S \in SUBSET (1..n), S # {}
    PROVE  \E x \in S : \A y \in S : x >= y
<1> DEFINE T == {b \in Nat : \A y \in S : y <= b}
<1>1. n \in T /\ T \in SUBSET Nat
  OBVIOUS
<1>2. PICK b \in T : \A c \in T : b <= c
  <2> HIDE DEF T
  <2> QED
    BY <1>1, LeastElement
<1>3. b \in Nat /\ \A y \in S : y <= b
  BY <1>2
<1>4. b \in S
  <2> SUFFICES ASSUME b \notin S PROVE FALSE
    OBVIOUS
  <2>1. \A y \in S : y \in Nat /\ y >= 1 /\ y < b
    BY <1>3
  <2>2. b - 1 \in Nat /\ \A y \in S : y <= b - 1
    <3>1. PICK y \in S : TRUE
      OBVIOUS
    <3>2. b >= 1
      BY <3>1, <2>1, <1>3
    <3> QED
      BY <3>2, <2>1, <1>3
  <2>3. b - 1 \in T
    BY <2>2
  <2>4. b <= b - 1
    BY <2>3, <1>2
  <2> QED
    BY <2>4, <1>3
<1> QED
  BY <1>3, <1>4

\* Two people are behind the approvals of an authorized ticket.
LEMMA TwoApprovers ==
    ASSUME NEW r \in Requests, r.op = "sandbox", Authorized(r)
    PROVE  \E i, j \in DOMAIN r.approvals : r.approvals[i] # r.approvals[j]
<1> DEFINE Given(role) == {i \in DOMAIN r.approvals : RoleAt(i) = role}
<1>1. IsSeq(r.approvals)
  BY RequestsAssumption
<1>2. Len(r.approvals) \in Nat /\ DOMAIN r.approvals = 1..Len(r.approvals)
  BY <1>1, SeqFacts
<1>3. /\ Given("operations") # {} /\ Given("safety") # {}
      /\ r.approvals[Max(Given("operations"))] # r.approvals[Max(Given("safety"))]
  BY DEF Authorized, DualApproval
<1>4. ASSUME NEW S \in SUBSET DOMAIN r.approvals, S # {} PROVE Max(S) \in S
  <2>1. \E x \in S : \A y \in S : x >= y
    BY <1>2, <1>4, GreatestElement
  <2> QED
    BY <2>1 DEF Max
<1>5. Max(Given("operations")) \in DOMAIN r.approvals /\ Max(Given("safety")) \in DOMAIN r.approvals
  <2>1. Given("operations") \in SUBSET DOMAIN r.approvals /\ Given("safety") \in SUBSET DOMAIN r.approvals
    OBVIOUS
  <2> HIDE DEF Given
  <2> QED
    BY <2>1, <1>3, <1>4
<1> QED
  BY <1>3, <1>5

(***************************************************************************)
(* The steps of the service, by what they do to a thread and to the files. *)
(***************************************************************************)
Shaped ==
    /\ pc = [t \in Threads |-> pc[t]] /\ request = [t \in Threads |-> request[t]]
    /\ number = [t \in Threads |-> number[t]] /\ left = [t \in Threads |-> left[t]]
    /\ copy = [t \in Threads |-> copy[t]] /\ noted = [t \in Threads |-> noted[t]]

\* The other threads go on where they were.
Alone(t) ==
    \A s \in Threads \ {t} :
        /\ pc'[s] = pc[s] /\ request'[s] = request[s] /\ number'[s] = number[s]
        /\ left'[s] = left[s] /\ copy'[s] = copy[s]

Undone == UNCHANGED <<ledger, scoped, executed, broken>>
Unanswered == UNCHANGED <<kept, answers>>
Goes(t) == number'[t] = number[t] /\ request'[t] = request[t] /\ received' = received
LetsGo(lock, now, t) == now = lock \/ (lock = t /\ now = NoThread)

Begins(t) ==
    /\ pc[t] = "idle" /\ request'[t] \in Requests
    /\ pc'[t] \in (IF request'[t].key = NoKey THEN {"work"} ELSE {"look", "acquire"})
    /\ number'[t] = received + 1 /\ received' = received + 1
    /\ left'[t] = Steps(request'[t], received + 1)
    /\ Undone /\ Unanswered /\ UNCHANGED lockVars

Looks(t) ==
    /\ pc[t] = "look" /\ pc'[t] = "acquire"
    /\ Goes(t) /\ left'[t] = left[t] /\ copy'[t] = copy[t]
    /\ Undone /\ Unanswered /\ UNCHANGED lockVars

Takes(t) ==
    /\ pc[t] = "acquire" /\ pc'[t] = "work"
    /\ keyLock = NoThread /\ keyLock' = t /\ KeptFor(request[t]) = {}
    /\ Goes(t) /\ left'[t] = left[t] /\ copy'[t] = copy[t]
    /\ Undone /\ Unanswered /\ UNCHANGED ledgerLock

Reads(t) ==
    /\ pc[t] = "work" /\ pc'[t] = "write"
    /\ left[t] # << >> /\ Head(left[t]).act \in {"append", "verify"}
    /\ ledgerLock = NoThread /\ ledgerLock' = t /\ copy'[t] = ledger
    /\ Goes(t) /\ left'[t] = left[t]
    /\ Undone /\ Unanswered /\ UNCHANGED keyLock

Pauses(t) ==
    /\ pc[t] \in {"work", "truncate"} /\ pc'[t] \in {"truncate", "fill"}
    /\ left[t] # << >> /\ Head(left[t]).act = "mirror"
    /\ Goes(t) /\ left'[t] = left[t] /\ copy'[t] = copy[t]
    /\ Undone /\ Unanswered /\ UNCHANGED lockVars

\* What a commit leaves: the row is there, under its id or that of the report.
Committed(t, s) ==
    LET scope == Caller(request[t]).scope
        id == RowId({row \in scoped : row.scope = scope}, s)
    IN scoped' = IF id \in Rows({row \in scoped : row.scope = scope}, s.coll) THEN scoped
                 ELSE scoped \cup {[coll |-> s.coll, id |-> id, scope |-> scope,
                                    by |-> number[t], key |-> request[t].key]}

Listed(t, s) ==
    copy'[t] = [c \in ToSet(Collections) |->
                   IF c = s.coll THEN Page(ledger[c], Caller(request[t]).scope)
                   ELSE IF copy[t] = Nothing THEN {} ELSE copy[t][c]]

Advances(t) ==
    LET s == Head(left[t])
    IN /\ left[t] # << >> /\ left'[t] = Tail(left[t])
       /\ pc'[t] = "work" /\ Goes(t)
       /\ pc[t] = CASE s.act \in {"append", "verify"} -> "write" [] s.act = "mirror" -> "fill"
                    [] OTHER -> "work"
       /\ IF s.act \in {"append", "verify"}
          THEN Accepts(copy[t], s) /\ ledger' = After(copy[t], s) ELSE ledger' = ledger
       /\ executed' = IF s.act = "execute" THEN executed \cup {s.rec.id} ELSE executed
       /\ IF s.act = "commit" THEN Committed(t, s) ELSE scoped' = scoped
       /\ s.act = "list" => Listed(t, s)
       /\ LetsGo(ledgerLock, ledgerLock', t)
       /\ Unanswered /\ UNCHANGED <<keyLock, broken>>

\* The ways in which a request ends, without or with an answer that was kept.
Stumbles(t) ==
    LET s == Head(left[t])
    IN /\ left[t] # << >> /\ Unanswered
       /\ \/ pc[t] = "write" /\ s.act \in {"append", "verify"} /\ number[t] \in raised'
          \/ s.act \in {"consult", "mirror", "commit"} /\ pc[t] = "work"
          \/ request[t].op = "sandbox"

Recalls(t) ==
    /\ pc[t] \in {"look", "acquire"} /\ UNCHANGED kept
    /\ \E row \in KeptFor(request[t]) :
          answers' = IF row.payload = Payload(request[t])
                     THEN answers \cup {[number |-> row.number, request |-> request[t]]} ELSE answers

Finishes(t) ==
    /\ pc[t] = "work" /\ left[t] = << >>
    /\ kept' = IF request[t].key = NoKey THEN kept
               ELSE kept \cup {[key |-> KeyOf(request[t]), payload |-> Payload(request[t]),
                                number |-> number[t]]}
    /\ answers' = answers \cup {[number |-> number[t], request |-> request[t]]}

Ends(t) ==
    /\ pc[t] # "idle" /\ pc'[t] = "idle" /\ number'[t] = 0 /\ received' = received
    /\ Undone
    /\ LetsGo(keyLock, keyLock', t) /\ LetsGo(ledgerLock, ledgerLock', t)
    /\ Stumbles(t) \/ Recalls(t) \/ Finishes(t)

\* An executor raises, and may have acted.
Raises(t) ==
    LET s == Head(left[t])
    IN /\ left[t] # << >> /\ s.act = "execute" /\ pc[t] = "work"
       /\ pc'[t] = "idle" /\ number'[t] = 0 /\ received' = received
       /\ executed' \in {executed, executed \cup {s.rec.id}}
       /\ number[t] \in raised'
       /\ LetsGo(keyLock, keyLock', t) /\ LetsGo(ledgerLock, ledgerLock', t)
       /\ Unanswered /\ UNCHANGED <<ledger, scoped, broken>>

Moves(t) ==
    /\ Alone(t) /\ raised \subseteq raised'
    /\ \/ Begins(t) \/ Looks(t) \/ Takes(t) \/ Reads(t) \/ Pauses(t) \/ Advances(t) \/ Ends(t)
       \/ Raises(t)

Crashes ==
    /\ \A t \in Threads : pc'[t] = "idle" /\ number'[t] = 0
    /\ broken' = broken \cup {number[t] : t \in Busy}
    /\ ledgerLock' = NoThread /\ keyLock' = NoThread
    /\ UNCHANGED <<ledger, scoped, executed, received, raised>> /\ Unanswered

\* What is left of an operation is its end.
Follows(l, s) ==
    /\ IsSeq(l) /\ Len(l) <= Len(s)
    /\ \A i \in 1..Len(l) : l[i] = s[Len(s) - Len(l) + i]

Plan(t) == Steps(request[t], number[t])

Serves(t) ==
    /\ request[t] \in Requests /\ number[t] \in 1..received
    /\ Follows(left[t], Plan(t))
    /\ request[t].key = NoKey => pc[t] \notin {"look", "acquire"}
    /\ pc[t] \in {"look", "acquire"} => left[t] = Plan(t)
    /\ pc[t] = "write" => left[t] # << >> /\ Head(left[t]).act \in {"append", "verify"}
    /\ pc[t] \in {"truncate", "fill"} => left[t] # << >> /\ Head(left[t]).act = "mirror"

\* A thread that is not idle serves a request of its own, which no crash has ended.
Serving ==
    /\ Shaped
    /\ \A t \in Threads :
          /\ pc[t] \in {"idle", "look", "acquire", "work", "write", "truncate", "fill"}
          /\ pc[t] = "idle" => number[t] = 0
          /\ pc[t] # "idle" => Serves(t)
    /\ \A s, t \in Threads : pc[s] # "idle" /\ number[s] = number[t] => s = t
    /\ received \in Nat
    /\ broken \subseteq 1..received /\ \A t \in Threads : number[t] \notin broken

LEMMA Shapes ==
    ASSUME Shaped, Next
    PROVE  Shaped'
<1>1. ASSUME NEW t \in Threads, Leave(t) PROVE Shaped'
  BY <1>1 DEF Leave, Goto, Shaped
<1>2. ASSUME NEW t \in Threads, Fail(t) PROVE Shaped'
  BY <1>2, <1>1 DEF Fail
<1>3. CASE Crash
  BY <1>3 DEF Crash, Shaped
<1>4. ASSUME NEW t \in Threads, Receive(t) PROVE Shaped'
  BY <1>4 DEF Receive, Goto, Shaped
<1>5. ASSUME NEW t \in Threads, Look(t) PROVE Shaped'
  <2>1. CASE Recall(t)
    BY <2>1, <1>1 DEF Recall
  <2>2. CASE ~ Recall(t)
    BY <2>2, <1>5 DEF Look, Goto, Shaped
  <2> QED
    BY <2>1, <2>2
<1>6. ASSUME NEW t \in Threads, Acquire(t) PROVE Shaped'
  <2>1. CASE Recall(t)
    BY <2>1, <1>1 DEF Recall
  <2>2. CASE ~ Recall(t)
    BY <2>2, <1>6 DEF Acquire, Goto, Shaped
  <2> QED
    BY <2>1, <2>2
<1>7. ASSUME NEW t \in Threads, Answer(t) PROVE Shaped'
  BY <1>7, <1>1 DEF Answer
<1>8. ASSUME NEW t \in Threads, ReadLedger(t) PROVE Shaped'
  BY <1>8 DEF ReadLedger, Goto, Shaped
<1>9. ASSUME NEW t \in Threads, WriteLedger(t) PROVE Shaped'
  <2>1. CASE Fail(t)
    BY <2>1, <1>2
  <2>2. CASE ~ Fail(t)
    BY <2>2, <1>9 DEF WriteLedger, Proceed, Goto, Shaped
  <2> QED
    BY <2>1, <2>2
<1>10. ASSUME NEW t \in Threads, ListCollection(t) PROVE Shaped'
  BY <1>10 DEF ListCollection, Proceed, Goto, Shaped
<1>11. ASSUME NEW t \in Threads, CommitDecision(t) PROVE Shaped'
  <2>1. CASE Fail(t)
    BY <2>1, <1>2
  <2>2. CASE ~ Fail(t)
    BY <2>2, <1>11 DEF CommitDecision, Proceed, Goto, Shaped
  <2> QED
    BY <2>1, <2>2
<1>12. ASSUME NEW t \in Threads, Execute(t) PROVE Shaped'
  <2>1. CASE Fail(t)
    BY <2>1, <1>2
  <2>2. CASE ~ Fail(t)
    BY <2>2, <1>12 DEF Execute, Proceed, Goto, Shaped
  <2> QED
    BY <2>1, <2>2
<1>13. ASSUME NEW t \in Threads, ConsultReceipts(t) PROVE Shaped'
  <2>1. CASE Fail(t)
    BY <2>1, <1>2
  <2>2. CASE ~ Fail(t)
    BY <2>2, <1>13 DEF ConsultReceipts, Proceed, Goto, Shaped
  <2> QED
    BY <2>1, <2>2
<1>14. ASSUME NEW t \in Threads, ReadMirror(t) PROVE Shaped'
  <2>1. CASE Fail(t)
    BY <2>1, <1>2
  <2>2. CASE ~ Fail(t)
    BY <2>2, <1>14 DEF ReadMirror, Goto, Shaped
  <2> QED
    BY <2>1, <2>2
<1>15. ASSUME NEW t \in Threads, TruncateMirror(t) PROVE Shaped'
  BY <1>15 DEF TruncateMirror, Goto, Shaped
<1>16. ASSUME NEW t \in Threads, FillMirror(t) PROVE Shaped'
  BY <1>16 DEF FillMirror, Proceed, Goto, Shaped
<1>17. ASSUME NEW t \in Threads, Terminate(t) PROVE Shaped'
  BY <1>17, <1>2 DEF Terminate
<1> QED
  BY <1>3, <1>4, <1>5, <1>6, <1>7, <1>8, <1>9, <1>10, <1>11, <1>12, <1>13, <1>14, <1>15, <1>16,
     <1>17 DEF Next, Serve

\* What a thread that leaves does to its own state, and to that of others.
LEMMA Leaving ==
    ASSUME Shaped, NEW t \in Threads, Leave(t)
    PROVE  /\ Alone(t) /\ pc'[t] = "idle" /\ number'[t] = 0
           /\ left'[t] = << >> /\ copy'[t] = Nothing /\ request'[t] = Nothing
BY DEF Leave, Goto, Shaped, Alone

LEMMA Failing ==
    ASSUME Shaped, NEW t \in Threads, Fail(t), pc[t] # "idle", Undone, received' = received,
           left[t] # << >>, raised \subseteq raised',
           \/ /\ pc[t] = "write" /\ Head(left[t]).act \in {"append", "verify"}
              /\ number[t] \in raised'
           \/ Head(left[t]).act \in {"consult", "mirror", "commit"} /\ pc[t] = "work"
           \/ request[t].op = "sandbox"
    PROVE  Moves(t)
<1>1. Alone(t) /\ pc'[t] = "idle" /\ number'[t] = 0
  BY Leaving DEF Fail
<1>2. LetsGo(keyLock, keyLock', t) /\ LetsGo(ledgerLock, ledgerLock', t) /\ Unanswered
  BY DEF Fail, Unlock, LetsGo, Unanswered
<1>3. Stumbles(t)
  BY <1>2 DEF Stumbles
<1> QED
  BY <1>1, <1>2, <1>3 DEF Moves, Ends

LEMMA Recalling ==
    ASSUME Shaped, NEW t \in Threads, Recall(t), pc[t] \in {"look", "acquire"},
           raised \subseteq raised'
    PROVE  Moves(t)
<1>1. Alone(t) /\ pc'[t] = "idle" /\ number'[t] = 0
  BY Leaving DEF Recall
<1>2. LetsGo(keyLock, keyLock', t) /\ LetsGo(ledgerLock, ledgerLock', t) /\ Undone
      /\ received' = received /\ UNCHANGED kept
  BY DEF Recall, LetsGo, Undone, lockVars
<1>3. Recalls(t)
  BY <1>2 DEF Recall, Recalls, Send
<1> QED
  BY <1>1, <1>2, <1>3 DEF Moves, Ends

LEMMA Advancing ==
    ASSUME Shaped, NEW t \in Threads, Proceed(t), UNCHANGED <<request, number, received>>
    PROVE  /\ pc'[t] = "work" /\ left'[t] = Tail(left[t]) /\ Goes(t)
           /\ copy' = copy \/ (\E x : copy' = [copy EXCEPT ![t] = x]) => Alone(t)
BY DEF Proceed, Goto, Shaped, Alone, Goes

\* No request that was ended so is forgotten.
LEMMA RaisedGrows ==
    ASSUME Next
    PROVE  raised \subseteq raised'
<1>1. ASSUME NEW t \in Threads, Look(t) \/ Acquire(t) \/ Answer(t) \/ Receive(t)
      PROVE  raised \subseteq raised'
  BY <1>1 DEF Look, Acquire, Recall, Answer, Receive
<1>2. ASSUME NEW t \in Threads, ReadLedger(t) \/ WriteLedger(t) \/ ListCollection(t) \/ CommitDecision(t)
      PROVE  raised \subseteq raised'
  BY <1>2 DEF ReadLedger, WriteLedger, ListCollection, CommitDecision
<1>3. ASSUME NEW t \in Threads,
             \/ Execute(t) \/ ConsultReceipts(t) \/ ReadMirror(t) \/ TruncateMirror(t)
             \/ FillMirror(t) \/ Terminate(t)
      PROVE  raised \subseteq raised'
  BY <1>3 DEF Execute, ConsultReceipts, ReadMirror, TruncateMirror, FillMirror, Terminate
<1> QED
  BY <1>1, <1>2, <1>3 DEF Next, Serve, Crash

\* Every step of the service is one of these, or a crash.
LEMMA Classes ==
    ASSUME Serving, Next
    PROVE  Crashes \/ \E t \in Threads : Moves(t)
<1>0. raised \subseteq raised'
  BY RaisedGrows
<1>1. Shaped
  BY DEF Serving
<1>2. CASE Crash
  BY <1>2 DEF Crash, Crashes, Unanswered
<1>3. ASSUME NEW t \in Threads, Receive(t) PROVE Moves(t)
  <2>1. Alone(t)
    BY <1>1, <1>3 DEF Receive, Goto, Shaped, Alone
  <2>2. Begins(t)
    <3>1. PICK r \in Requests :
             /\ request' = [request EXCEPT ![t] = r]
             /\ left' = [left EXCEPT ![t] = Steps(r, received + 1)]
             /\ Goto(t, IF r.key = NoKey THEN "work"
                        ELSE IF Router(r.op) = "core" THEN "look" ELSE "acquire")
      BY <1>3 DEF Receive
    <3>2. request'[t] = r /\ left'[t] = Steps(r, received + 1)
          /\ pc'[t] \in (IF r.key = NoKey THEN {"work"} ELSE {"look", "acquire"})
      BY <1>1, <3>1 DEF Shaped, Goto
    <3>3. /\ pc[t] = "idle" /\ number'[t] = received + 1 /\ received' = received + 1
          /\ Undone /\ Unanswered /\ UNCHANGED lockVars
      BY <1>1, <1>3 DEF Receive, Shaped, Undone, Unanswered
    <3> QED
      BY <3>2, <3>3 DEF Begins
  <2> QED
    BY <2>1, <2>2, <1>0 DEF Moves
<1>4. ASSUME NEW t \in Threads, Look(t) PROVE Moves(t)
  <2>1. CASE Recall(t)
    BY <2>1, <1>1, <1>0, <1>4, Recalling DEF Look
  <2>2. CASE ~ Recall(t)
    <3>1. Alone(t)
      BY <2>2, <1>1, <1>4 DEF Look, Goto, Shaped, Alone
    <3>2. Looks(t)
      BY <2>2, <1>1, <1>4 DEF Look, Goto, Shaped, Looks, Goes, Undone, Unanswered
    <3> QED
      BY <3>1, <3>2, <1>0 DEF Moves
  <2> QED
    BY <2>1, <2>2
<1>5. ASSUME NEW t \in Threads, Acquire(t) PROVE Moves(t)
  <2>1. CASE Recall(t)
    BY <2>1, <1>1, <1>0, <1>5, Recalling DEF Acquire
  <2>2. CASE ~ Recall(t)
    <3>1. Alone(t)
      BY <2>2, <1>1, <1>5 DEF Acquire, Goto, Shaped, Alone
    <3>2. Takes(t)
      BY <2>2, <1>1, <1>5 DEF Acquire, Goto, Shaped, Takes, Goes, Undone, Unanswered
    <3> QED
      BY <3>1, <3>2, <1>0 DEF Moves
  <2> QED
    BY <2>1, <2>2
<1>6. ASSUME NEW t \in Threads, Answer(t) PROVE Moves(t)
  <2>1. Alone(t) /\ pc'[t] = "idle" /\ number'[t] = 0
    BY <1>1, <1>6, Leaving DEF Answer
  <2>2. LetsGo(keyLock, keyLock', t) /\ LetsGo(ledgerLock, ledgerLock', t) /\ Undone
        /\ received' = received
    BY <1>6 DEF Answer, Unlock, LetsGo, Undone
  <2>3. pc[t] # "idle" /\ Finishes(t)
    BY <1>6 DEF Answer, Finishes, Send
  <2> QED
    BY <2>1, <2>2, <2>3, <1>0 DEF Moves, Ends
<1>7. ASSUME NEW t \in Threads, ReadLedger(t) PROVE Moves(t)
  <2>1. Alone(t)
    BY <1>1, <1>7 DEF ReadLedger, Goto, Shaped, Alone
  <2>2. Reads(t)
    BY <1>1, <1>7 DEF ReadLedger, Ready, Next1, Goto, Shaped, Reads, Goes, Undone, Unanswered
  <2> QED
    BY <2>1, <2>2, <1>0 DEF Moves
<1>8. ASSUME NEW t \in Threads, WriteLedger(t) PROVE Moves(t)
  <2> DEFINE s == Head(left[t])
             new == After(copy[t], s)
             taken == Accepts(copy[t], s) /\ BackendTakes(new, {s.rec.id})
  <2>1. pc[t] = "write" /\ left[t] # << >> /\ s.act \in {"append", "verify"}
    BY <1>8 DEF WriteLedger, Serving, Serves
  <2>2. UNCHANGED <<scoped, mirrors, executed, received, broken, crashes>>
    BY <1>8 DEF WriteLedger
  <2>3. CASE /\ taken /\ ledger' = new
             /\ ledgerLock' = IF ledgerLock = t THEN NoThread ELSE ledgerLock
             /\ copy' = [copy EXCEPT ![t] = Nothing]
             /\ Proceed(t)
             /\ UNCHANGED <<keyLock, kept, request, number, noted, answers, raised, refused>>
    <3>2. pc'[t] = "work" /\ left'[t] = Tail(left[t]) /\ Goes(t) /\ Alone(t)
      BY <2>2, <2>3, <1>1, Advancing
    <3>3. LetsGo(ledgerLock, ledgerLock', t)
      BY <2>3 DEF LetsGo
    <3> HIDE DEF new
    <3>4. Advances(t)
      BY <2>1, <2>2, <2>3, <3>2, <3>3 DEF Advances, Unanswered, new
    <3> QED
      BY <2>3, <3>2, <3>4, <1>0 DEF Moves
  <2>4. CASE Fail(t) /\ raised' = raised \cup {number[t]} /\ UNCHANGED ledger
    BY <2>1, <2>2, <2>4, <1>0, <1>1, Failing DEF Undone
  <2> QED
    BY <1>8, <2>3, <2>4 DEF WriteLedger, Next1
<1>9. ASSUME NEW t \in Threads, ListCollection(t) PROVE Moves(t)
  <2>1. left[t] # << >> /\ Head(left[t]).act = "list" /\ pc[t] = "work"
    BY <1>9 DEF ListCollection, Ready, Next1
  <2>2. pc'[t] = "work" /\ left'[t] = Tail(left[t]) /\ Goes(t) /\ Alone(t)
    BY <1>1, <1>9, Advancing DEF ListCollection
  <2>3. Listed(t, Head(left[t]))
    BY <1>1, <1>9 DEF ListCollection, Next1, Listed, Shaped
  <2>4. Advances(t)
    BY <2>1, <2>2, <2>3, <1>9 DEF Advances, ListCollection, Unanswered, LetsGo, lockVars
  <2> QED
    BY <2>2, <2>4, <1>0 DEF Moves
<1>10. ASSUME NEW t \in Threads, CommitDecision(t) PROVE Moves(t)
  <2> DEFINE s == Head(left[t])
  <2>1. /\ left[t] # << >> /\ s.act = "commit" /\ pc[t] = "work"
        /\ UNCHANGED <<ledger, mirrors, executed, received, broken, refused, crashes>>
    BY <1>10 DEF CommitDecision, Ready, Next1
  <2>2. CASE Fail(t) /\ UNCHANGED scoped
    BY <2>1, <2>2, <1>0, <1>1, Failing DEF Undone
  <2>3. CASE ~ (Fail(t) /\ UNCHANGED scoped)
    <3>1. Proceed(t) /\ UNCHANGED <<lockVars, kept, request, number, copy, noted, answers>>
      BY <1>10, <2>3 DEF CommitDecision
    <3>2. pc'[t] = "work" /\ left'[t] = Tail(left[t]) /\ Goes(t) /\ Alone(t)
      BY <3>1, <2>1, <1>1, Advancing
    <3>3. Committed(t, s)
      BY <1>10, <2>3 DEF CommitDecision, Next1, Committed
    <3>4. Advances(t)
      BY <2>1, <3>1, <3>2, <3>3 DEF Advances, Unanswered, LetsGo, lockVars
    <3> QED
      BY <3>2, <3>4, <1>0 DEF Moves
  <2> QED
    BY <2>2, <2>3
<1>11. ASSUME NEW t \in Threads, Execute(t) PROVE Moves(t)
  <2> DEFINE s == Head(left[t])
  <2>1. /\ left[t] # << >> /\ s.act = "execute" /\ pc[t] = "work"
        /\ UNCHANGED <<ledger, scoped, mirrors, received, broken, refused, crashes>>
    BY <1>11 DEF Execute, Ready, Next1
  <2>2. CASE /\ executed' = executed \cup {s.rec.id} /\ Proceed(t)
             /\ UNCHANGED <<lockVars, kept, request, number, copy, noted, answers, raised>>
    <3>1. pc'[t] = "work" /\ left'[t] = Tail(left[t]) /\ Goes(t) /\ Alone(t)
      BY <2>1, <2>2, <1>1, Advancing
    <3>2. Advances(t)
      BY <2>1, <2>2, <3>1 DEF Advances, Unanswered, LetsGo, lockVars
    <3> QED
      BY <2>2, <3>1, <3>2, <1>0 DEF Moves
  <2>3. CASE /\ executed' \in {executed, executed \cup {s.rec.id}}
             /\ Fail(t) /\ raised' = raised \cup {number[t]}
    <3>1. Alone(t) /\ pc'[t] = "idle" /\ number'[t] = 0
      BY <2>3, <1>1, Leaving DEF Fail
    <3>2. LetsGo(keyLock, keyLock', t) /\ LetsGo(ledgerLock, ledgerLock', t) /\ Unanswered
      BY <2>3 DEF Fail, Unlock, LetsGo, Unanswered
    <3>3. Raises(t)
      BY <2>1, <2>3, <3>1, <3>2 DEF Raises
    <3> QED
      BY <2>3, <3>1, <3>3, <1>0 DEF Moves
  <2> QED
    BY <1>11, <2>2, <2>3 DEF Execute, Next1
<1>12. ASSUME NEW t \in Threads, ConsultReceipts(t) PROVE Moves(t)
  <2>1. /\ left[t] # << >> /\ Head(left[t]).act = "consult" /\ pc[t] = "work"
        /\ UNCHANGED <<ledger, scoped, mirrors, executed, received, broken, refused, crashes>>
    BY <1>12 DEF ConsultReceipts, Ready, Next1
  <2>2. CASE Fail(t)
    BY <2>1, <2>2, <1>0, <1>1, Failing DEF Undone
  <2>3. CASE ~ Fail(t)
    <3>1. Proceed(t) /\ UNCHANGED <<lockVars, kept, request, number, copy, noted, answers>>
      BY <1>12, <2>3 DEF ConsultReceipts
    <3>2. pc'[t] = "work" /\ left'[t] = Tail(left[t]) /\ Goes(t) /\ Alone(t)
      BY <3>1, <2>1, <1>1, Advancing
    <3>3. Advances(t)
      BY <2>1, <3>1, <3>2 DEF Advances, Unanswered, LetsGo, lockVars
    <3> QED
      BY <3>2, <3>3, <1>0 DEF Moves
  <2> QED
    BY <2>2, <2>3
<1>13. ASSUME NEW t \in Threads, ReadMirror(t) PROVE Moves(t)
  <2>1. /\ left[t] # << >> /\ Head(left[t]).act = "mirror" /\ pc[t] = "work"
        /\ UNCHANGED <<ledger, scoped, mirrors, executed, received, broken, refused, crashes>>
    BY <1>13 DEF ReadMirror, Ready, Next1
  <2>2. CASE Fail(t)
    BY <2>1, <2>2, <1>0, <1>1, Failing DEF Undone
  <2>3. CASE ~ Fail(t)
    <3>1. /\ Goto(t, "truncate")
          /\ UNCHANGED <<lockVars, kept, request, number, left, copy, answers>>
      BY <1>13, <2>3 DEF ReadMirror
    <3>2. Alone(t) /\ Pauses(t)
      BY <2>1, <3>1, <1>1 DEF Goto, Shaped, Alone, Pauses, Goes, Undone, Unanswered
    <3> QED
      BY <3>2, <1>0 DEF Moves
  <2> QED
    BY <2>2, <2>3
<1>14. ASSUME NEW t \in Threads, TruncateMirror(t) PROVE Moves(t)
  <2>1. left[t] # << >> /\ Head(left[t]).act = "mirror" /\ pc[t] = "truncate"
    BY <1>14 DEF TruncateMirror, Serving, Serves
  <2>2. Alone(t) /\ Pauses(t)
    BY <2>1, <1>14, <1>1 DEF TruncateMirror, Goto, Shaped, Alone, Pauses, Goes, Undone, Unanswered
  <2> QED
    BY <2>2, <1>0 DEF Moves
<1>15. ASSUME NEW t \in Threads, FillMirror(t) PROVE Moves(t)
  <2>1. left[t] # << >> /\ Head(left[t]).act = "mirror" /\ pc[t] = "fill"
    BY <1>15 DEF FillMirror, Serving, Serves
  <2>2. pc'[t] = "work" /\ left'[t] = Tail(left[t]) /\ Goes(t) /\ Alone(t)
    BY <1>1, <1>15, Advancing DEF FillMirror
  <2>3. Advances(t)
    BY <2>1, <2>2, <1>15 DEF Advances, FillMirror, Unanswered, LetsGo, lockVars
  <2> QED
    BY <2>2, <2>3, <1>0 DEF Moves
<1>16. ASSUME NEW t \in Threads, Terminate(t) PROVE Moves(t)
  <2>1. /\ pc[t] # "idle" /\ left[t] # << >> /\ request[t].op = "sandbox" /\ Fail(t)
        /\ Undone /\ received' = received
    BY <1>16 DEF Terminate, Undone
  <2> QED
    BY <2>1, <1>1, <1>0, Failing
<1> QED
  BY <1>2, <1>3, <1>4, <1>5, <1>6, <1>7, <1>8, <1>9, <1>10, <1>11, <1>12, <1>13, <1>14, <1>15,
     <1>16 DEF Next, Serve

LEMMA FollowsTail ==
    ASSUME NEW l, NEW s, IsSeq(s), Follows(l, s), l # << >>
    PROVE  /\ Follows(Tail(l), s)
           /\ Len(l) \in Nat /\ Len(s) \in Nat /\ Len(l) >= 1
           /\ Len(Tail(l)) = Len(l) - 1
           /\ Len(s) - Len(l) + 1 \in 1..Len(s)
           /\ Head(l) = s[Len(s) - Len(l) + 1]
<1>1. IsSeq(l) /\ Len(l) <= Len(s) /\ \A i \in 1..Len(l) : l[i] = s[Len(s) - Len(l) + i]
  BY DEF Follows
<1>2. /\ IsSeq(Tail(l)) /\ Len(l) >= 1 /\ Len(Tail(l)) = Len(l) - 1
      /\ \A i \in 1..(Len(l) - 1) : Tail(l)[i] = l[i + 1]
      /\ Head(l) = l[1]
  BY <1>1, TailSeq
<1>3. Len(l) \in Nat /\ Len(s) \in Nat
  BY <1>1, SeqFacts
<1> DEFINE r == Tail(l)
           k == Len(s) - Len(l)
<1> HIDE DEF r
<1>4. \A i \in 1..Len(r) : r[i] = s[Len(s) - Len(r) + i]
  <2> TAKE i \in 1..Len(r)
  <2>1. i \in 1..(Len(l) - 1) /\ i + 1 \in 1..Len(l)
    BY <1>2, <1>3 DEF r
  <2>2. r[i] = l[i + 1] /\ l[i + 1] = s[k + (i + 1)]
    BY <2>1, <1>1, <1>2 DEF r
  <2>3. k + (i + 1) = Len(s) - Len(r) + i
    BY <2>1, <1>2, <1>3 DEF r
  <2> QED
    BY <2>2, <2>3
<1>5. Follows(r, s)
  BY <1>1, <1>2, <1>3, <1>4 DEF Follows, r
<1>6. 1 \in 1..Len(l) /\ k + 1 \in 1..Len(s)
  BY <1>1, <1>2, <1>3
<1> QED
  BY <1>1, <1>2, <1>3, <1>5, <1>6 DEF r

LEMMA FollowsItself ==
    ASSUME NEW s, IsSeq(s)
    PROVE  Follows(s, s)
BY SeqFacts DEF Follows

LEMMA MoveServes ==
    ASSUME Serving, NEW t \in Threads, Moves(t)
    PROVE  /\ pc'[t] \in {"idle", "look", "acquire", "work", "write", "truncate", "fill"}
           /\ pc'[t] = "idle" => number'[t] = 0
           /\ pc'[t] # "idle" => Serves(t)'
           /\ number'[t] \in {0, number[t], received + 1}
           /\ number'[t] = received + 1 => received' = received + 1
           /\ received' \in {received, received + 1}
           /\ number'[t] = number[t] => (pc[t] = "idle" <=> pc'[t] = "idle")
           /\ broken' = broken
<1>1. /\ received \in Nat
      /\ pc[t] = "idle" => number[t] = 0
      /\ pc[t] # "idle" => Serves(t)
  BY DEF Serving
<1>2. pc[t] # "idle" => number[t] \in 1..received
  BY <1>1 DEF Serves
<1>3. CASE Begins(t)
  <2>1. request'[t] \in Requests /\ number'[t] = received + 1 /\ received' = received + 1
        /\ left'[t] = Steps(request'[t], number'[t]) /\ broken' = broken
        /\ pc'[t] \in (IF request'[t].key = NoKey THEN {"work"} ELSE {"look", "acquire"})
    BY <1>3 DEF Begins, Undone
  <2>2. Follows(left'[t], Steps(request'[t], number'[t]))
    BY <2>1, StepsMade, FollowsItself
  <2>3. Serves(t)'
    BY <2>1, <2>2, <1>1 DEF Serves, Plan
  <2> QED
    BY <2>1, <2>3, <1>1, <1>2, <1>3 DEF Begins
<1>4. CASE Looks(t) \/ Takes(t) \/ Reads(t) \/ Pauses(t)
  <2>1. /\ Goes(t) /\ left'[t] = left[t] /\ pc[t] # "idle" /\ broken' = broken
        /\ pc'[t] \in {"acquire", "work", "write", "truncate", "fill"}
        /\ pc'[t] = "acquire" => pc[t] = "look"
        /\ pc'[t] = "write" => left[t] # << >> /\ Head(left[t]).act \in {"append", "verify"}
        /\ pc'[t] \in {"truncate", "fill"} => left[t] # << >> /\ Head(left[t]).act = "mirror"
    BY <1>4 DEF Looks, Takes, Reads, Pauses, Undone
  <2>2. request'[t] = request[t] /\ number'[t] = number[t] /\ received' = received
    BY <2>1 DEF Goes
  <2>3. Serves(t)'
    BY <2>1, <2>2, <1>1 DEF Serves, Plan
  <2> QED
    BY <2>1, <2>2, <2>3, <1>1, <1>2
<1>5. CASE Advances(t)
  <2>1. /\ left[t] # << >> /\ left'[t] = Tail(left[t]) /\ pc'[t] = "work"
        /\ request'[t] = request[t] /\ number'[t] = number[t] /\ received' = received
        /\ broken' = broken /\ pc[t] # "idle"
    BY <1>5 DEF Advances, Goes
  <2>2. Serves(t)
    BY <2>1, <1>1
  <2>3. Follows(left'[t], Steps(request'[t], number'[t]))
    BY <2>1, <2>2, StepsMade, FollowsTail DEF Serves, Plan
  <2>4. Serves(t)'
    BY <2>1, <2>2, <2>3 DEF Serves, Plan
  <2> QED
    BY <2>1, <2>4, <1>1, <1>2
<1>6. CASE Ends(t)
  BY <1>1, <1>2, <1>6 DEF Ends, Undone
<1>7. CASE Raises(t)
  BY <1>1, <1>2, <1>7 DEF Raises
<1> QED
  BY <1>3, <1>4, <1>5, <1>6, <1>7 DEF Moves

LEMMA ServingStep ==
    ASSUME Serving, Next
    PROVE  Serving'
<1>1. Shaped'
  BY Shapes DEF Serving
<1>2. received \in Nat /\ broken \subseteq 1..received
  BY DEF Serving
<1>3. ASSUME NEW t \in Threads, pc[t] # "idle"
      PROVE  number[t] \in 1..received
  BY <1>3 DEF Serving, Serves
<1>4. CASE Crashes
  <2>1. /\ \A t \in Threads : pc'[t] = "idle" /\ number'[t] = 0
        /\ received' = received /\ broken' = broken \cup {number[t] : t \in Busy}
    BY <1>4 DEF Crashes
  <2>2. broken' \subseteq 1..received
    BY <2>1, <1>2, <1>3 DEF Busy
  <2>3. 0 \notin 1..received
    BY <1>2
  <2> QED
    BY <1>1, <1>2, <2>1, <2>2, <2>3 DEF Serving
<1>5. ASSUME NEW t \in Threads, Moves(t) PROVE Serving'
  <2>1. /\ pc'[t] \in {"idle", "look", "acquire", "work", "write", "truncate", "fill"}
        /\ pc'[t] = "idle" => number'[t] = 0
        /\ pc'[t] # "idle" => Serves(t)'
        /\ number'[t] \in {0, number[t], received + 1}
        /\ number'[t] = received + 1 => received' = received + 1
        /\ received' \in {received, received + 1}
        /\ number'[t] = number[t] => (pc[t] = "idle" <=> pc'[t] = "idle")
        /\ broken' = broken
    BY <1>5, MoveServes
  <2>2. ASSUME NEW s \in Threads \ {t}
        PROVE  /\ pc'[s] = pc[s] /\ number'[s] = number[s] /\ left'[s] = left[s]
               /\ request'[s] = request[s]
    BY <1>5 DEF Moves, Alone
  <2>3. \A s \in Threads :
           /\ pc'[s] \in {"idle", "look", "acquire", "work", "write", "truncate", "fill"}
           /\ pc'[s] = "idle" => number'[s] = 0
           /\ pc'[s] # "idle" => Serves(s)'
    <3> TAKE s \in Threads
    <3>1. CASE s = t
      BY <3>1, <2>1
    <3>2. CASE s # t
      <4>1. /\ pc[s] \in {"idle", "look", "acquire", "work", "write", "truncate", "fill"}
            /\ pc[s] = "idle" => number[s] = 0
            /\ pc[s] # "idle" => Serves(s)
        BY DEF Serving
      <4>2. Serves(s) => Serves(s)'
        <5>1. 1..received \subseteq 1..received'
          BY <1>2, <2>1
        <5> QED
          BY <5>1, <3>2, <2>2 DEF Serves, Plan
      <4> QED
        BY <4>1, <4>2, <3>2, <2>2
    <3> QED
      BY <3>1, <3>2
  <2>4. \A s \in Threads : number[s] \in 0..received /\ (number[s] = 0 <=> pc[s] = "idle")
    BY <1>2, <1>3 DEF Serving
  <2>5. \A r, s \in Threads : pc'[r] # "idle" /\ number'[r] = number'[s] => r = s
    <3> SUFFICES ASSUME NEW r \in Threads, NEW s \in Threads,
                        pc'[r] # "idle", number'[r] = number'[s], r # s
                 PROVE  FALSE
      OBVIOUS
    <3>0. \A x \in Threads : pc'[x] # "idle" => number'[x] # 0
      BY <2>3 DEF Serves
    <3>1. CASE r = t
      BY <3>0, <3>1, <1>2, <2>1, <2>2, <2>4 DEF Serving
    <3>2. CASE s = t
      BY <3>0, <3>2, <1>2, <2>1, <2>2, <2>4 DEF Serving
    <3>3. CASE r # t /\ s # t
      BY <3>3, <2>2 DEF Serving
    <3> QED
      BY <3>1, <3>2, <3>3
  <2>6. received' \in Nat /\ broken' \subseteq 1..received'
    BY <1>2, <2>1
  <2>7. \A s \in Threads : number'[s] \notin broken'
    BY <1>2, <2>1, <2>2 DEF Serving
  <2> QED
    BY <1>1, <2>3, <2>5, <2>6, <2>7 DEF Serving
<1> QED
  BY <1>4, <1>5, Classes

LEMMA ServingInit ==
    ASSUME Init
    PROVE  Serving
<1>1. Shaped
  BY DEF Init, Shaped
<1> QED
  BY <1>1 DEF Init, Serving

(***************************************************************************)
(* Who writes has read the ledger as it is, and who works under a key is   *)
(* alone to do so, with no response kept for it yet.                       *)
(***************************************************************************)
Holding(t) == pc[t] \in {"work", "write", "truncate", "fill"} /\ request[t].key # NoKey

Locked ==
    /\ \A t \in Threads : pc[t] = "write" => ledgerLock = t /\ copy[t] = ledger
    /\ \A t \in Threads : Holding(t) => keyLock = t /\ KeptFor(request[t]) = {}

LEMMA LockedInit ==
    ASSUME Init
    PROVE  Locked
BY DEF Init, Locked, Holding

LEMMA LedgerMoves ==
    ASSUME Serving, Locked, NEW t \in Threads, Moves(t), ledger' # ledger
    PROVE  /\ Advances(t) /\ pc[t] = "write" /\ ledgerLock = t /\ copy[t] = ledger
           /\ Head(left[t]).act \in {"append", "verify"}
           /\ Accepts(ledger, Head(left[t])) /\ ledger' = After(ledger, Head(left[t]))
<1>1. Advances(t)
  BY DEF Moves, Begins, Looks, Takes, Reads, Pauses, Ends, Raises, Undone
<1>2. Head(left[t]).act \in {"append", "verify"} /\ pc[t] = "write"
  BY <1>1 DEF Advances
<1> QED
  BY <1>1, <1>2 DEF Advances, Locked

LEMMA KeptMoves ==
    ASSUME Serving, Locked, NEW t \in Threads, Moves(t), kept' # kept
    PROVE  Ends(t) /\ Finishes(t) /\ Holding(t) /\ keyLock = t
<1>1. Ends(t) /\ Finishes(t)
  BY DEF Moves, Begins, Looks, Takes, Reads, Pauses, Advances, Ends, Raises, Stumbles, Recalls, Unanswered
<1>2. Holding(t)
  BY <1>1 DEF Finishes, Holding
<1> QED
  BY <1>1, <1>2 DEF Locked

LEMMA LockedStep ==
    ASSUME Serving, Locked, Next
    PROVE  Locked'
<1>1. CASE Crashes
  BY <1>1 DEF Crashes, Locked, Holding
<1>2. ASSUME NEW t \in Threads, Moves(t) PROVE Locked'
  <2>1. ASSUME NEW s \in Threads \ {t}
        PROVE  /\ pc'[s] = pc[s] /\ request'[s] = request[s] /\ copy'[s] = copy[s]
    BY <1>2 DEF Moves, Alone
  <2>2. t # NoThread /\ \A s \in Threads : s # NoThread
    BY CoreLedgerAssumption
  <2>3. \/ ledgerLock' = ledgerLock
        \/ ledgerLock = t
        \/ ledgerLock = NoThread /\ ledgerLock' = t
    BY <1>2 DEF Moves, Begins, Looks, Takes, Reads, Pauses, Advances, Ends, Raises, LetsGo, lockVars
  <2>4. \/ keyLock' = keyLock
        \/ keyLock = t
        \/ keyLock = NoThread /\ keyLock' = t
    BY <1>2 DEF Moves, Begins, Looks, Takes, Reads, Pauses, Advances, Ends, Raises, LetsGo, lockVars
  <2>5. ASSUME NEW s \in Threads \ {t}, pc'[s] = "write"
        PROVE  ledgerLock' = s /\ copy'[s] = ledger'
    <3>1. ledgerLock = s /\ copy[s] = ledger
      BY <2>1, <2>5 DEF Locked
    <3>2. ledger' = ledger
      BY <3>1, <1>2, LedgerMoves
    <3> QED
      BY <3>1, <3>2, <2>1, <2>2, <2>3
  <2>6. ASSUME NEW s \in Threads \ {t}, Holding(s)'
        PROVE  keyLock' = s /\ KeptFor(request[s])' = {}
    <3>1. Holding(s)
      BY <2>1, <2>6 DEF Holding
    <3>2. keyLock = s /\ KeptFor(request[s]) = {}
      BY <3>1 DEF Locked
    <3>3. kept' = kept
      BY <3>2, <1>2, KeptMoves
    <3> QED
      BY <3>2, <3>3, <2>1, <2>2, <2>4 DEF KeptFor
  <2>7. ASSUME pc'[t] = "write"
        PROVE  ledgerLock' = t /\ copy'[t] = ledger'
    BY <1>2, <2>7 DEF Moves, Begins, Looks, Takes, Reads, Pauses, Advances, Ends, Raises, Undone
  <2>8. ASSUME Holding(t)'
        PROVE  keyLock' = t /\ KeptFor(request[t])' = {}
    <3>1. pc'[t] \in {"work", "write", "truncate", "fill"} /\ request'[t].key # NoKey
      BY <2>8 DEF Holding
    <3>2. CASE Takes(t)
      BY <3>2 DEF Takes, Goes, Unanswered, KeptFor
    <3>3. CASE Reads(t) \/ Pauses(t) \/ Advances(t)
      <4>1. /\ pc[t] \in {"work", "write", "truncate", "fill"}
            /\ request'[t] = request[t] /\ kept' = kept /\ keyLock' = keyLock
        BY <3>3 DEF Reads, Pauses, Advances, Goes, Unanswered, lockVars
      <4>2. Holding(t)
        BY <4>1, <3>1 DEF Holding
      <4> QED
        BY <4>1, <4>2 DEF Locked, KeptFor
    <3>4. ~ Begins(t) /\ ~ Looks(t) /\ ~ Ends(t) /\ ~ Raises(t)
      BY <3>1 DEF Begins, Looks, Ends, Raises
    <3> QED
      BY <3>2, <3>3, <3>4, <1>2 DEF Moves
  <2> QED
    BY <2>5, <2>6, <2>7, <2>8 DEF Locked
<1> QED
  BY <1>1, <1>2, Classes

(***************************************************************************)
(* The ledger.                                                             *)
(***************************************************************************)
LEMMA AtTheStart ==
    /\ AreChained(Opening)
    /\ \A c \in Names : RecordsOf(Opening, c) = ToSet(Stored[c])
<1>1. ASSUME NEW c \in Names
      PROVE  /\ AreRows(Opening[c]) /\ IsChain(Opening[c])
             /\ RecordsOf(Opening, c) = ToSet(Stored[c])
  <2>1. IsSeq(Stored[c]) /\ \A s \in ToSet(Stored[c]) : IsRec(s)
    BY StoredAssumption, CollectionNames DEF IsRec
  <2>2. \A i \in DOMAIN Stored[c] : IsRec(Stored[c][i])
    BY <2>1 DEF ToSet
  <2>3. Opening[c] = Chained(Stored[c])
    BY CollectionNames DEF Opening
  <2>4. /\ AreRows(Chained(Stored[c])) /\ IsChain(Chained(Stored[c]))
        /\ Len(Chained(Stored[c])) = Len(Stored[c])
        /\ \A i \in DOMAIN Stored[c] : Chained(Stored[c])[i].rec = Stored[c][i]
    BY <2>1, <2>2, ChainedRows
  <2>5. DOMAIN Chained(Stored[c]) = DOMAIN Stored[c]
    BY DEF Chained
  <2> QED
    BY <2>3, <2>4, <2>5 DEF RecordsOf, ToSet
<1>2. Opening = [c \in Names |-> Opening[c]]
  BY CollectionNames DEF Opening
<1> QED
  BY <1>1, <1>2 DEF AreChained, IsBook

\* Who writes, writes a record of its request.
LEMMA WriterWrites ==
    ASSUME Serving, NEW t \in Threads, pc[t] # "idle", left[t] # << >>
    PROVE  /\ StepOf(Head(left[t]), number[t])
           /\ Head(left[t]).act \in {"append", "verify"} => Writes(Head(left[t]))
<1>1. Serves(t)
  BY DEF Serving
<1>2. /\ IsSeq(Plan(t)) /\ \A i \in 1..Len(Plan(t)) : StepOf(Plan(t)[i], number[t])
  BY <1>1, StepsMade DEF Serves, Plan
<1>3. Len(Plan(t)) - Len(left[t]) + 1 \in 1..Len(Plan(t))
      /\ Head(left[t]) = Plan(t)[Len(Plan(t)) - Len(left[t]) + 1]
  BY <1>1, <1>2, FollowsTail DEF Serves
<1> QED
  BY <1>2, <1>3 DEF StepOf

LEMMA ChainedStep ==
    ASSUME Serving, Locked, AreChained(ledger), Next
    PROVE  AreChained(ledger)'
<1>1. CASE ledger' = ledger
  BY <1>1 DEF AreChained, IsBook
<1>2. CASE ledger' # ledger
  <2>1. PICK t \in Threads : Moves(t)
    BY <1>2, Classes DEF Crashes
  <2>2. /\ Advances(t) /\ pc[t] = "write" /\ Head(left[t]).act \in {"append", "verify"}
        /\ ledger' = After(ledger, Head(left[t]))
    BY <2>1, <1>2, LedgerMoves
  <2>3. Writes(Head(left[t]))
    BY <2>2, WriterWrites DEF Advances
  <2>4. AreChained(After(ledger, Head(left[t])))
    BY <2>3, AfterBook
  <2> QED
    BY <2>2, <2>4
<1> QED
  BY <1>1, <1>2

LEMMA VarsSame ==
    ASSUME UNCHANGED vars
    PROVE  /\ UNCHANGED <<ledger, scoped, ledgerLock, keyLock, kept, mirrors, executed>>
           /\ UNCHANGED <<pc, request, number, left, copy, noted>>
           /\ UNCHANGED <<received, answers, broken, raised, refused, crashes>>
BY DEF vars, lockVars, serviceVars

\* Threads, locks and chains hold together.
Orderly == Serving /\ Locked /\ AreChained(ledger)

LEMMA OrderlyInductive ==
    /\ Init => Orderly
    /\ Orderly /\ [Next]_vars => Orderly'
<1>1. Init => Orderly
  <2>1. Init => AreChained(ledger)
    BY AtTheStart DEF Init
  <2> QED
    BY <2>1, ServingInit, LockedInit DEF Orderly
<1>2. ASSUME Orderly, Next PROVE Orderly'
  BY <1>2, ServingStep, LockedStep, ChainedStep DEF Orderly
<1>3. ASSUME Orderly, UNCHANGED vars PROVE Orderly'
  <2>1. Serving'
    BY <1>3, VarsSame DEF Orderly, Serving, Shaped, Serves, Plan
  <2>2. Locked'
    BY <1>3, VarsSame DEF Orderly, Locked, Holding, KeptFor
  <2>3. AreChained(ledger)'
    BY <1>3, VarsSame DEF Orderly, AreChained, IsBook
  <2> QED
    BY <2>1, <2>2, <2>3 DEF Orderly
<1> QED
  BY <1>1, <1>2, <1>3

\* A thread of the service serves one request at a time, which no crash has ended;
\* one that writes the ledger holds its lock and has read the ledger as it is; one
\* that works under a key holds the lock of the keys and finds no response there;
\* and every row of the ledger continues the chain of its collection.
THEOREM ServiceIsOrderly == Spec => []Orderly
<1>1. Init => Orderly
  BY OrderlyInductive
<1>2. Orderly /\ [Next]_vars => Orderly'
  BY OrderlyInductive
<1> QED
  BY <1>1, <1>2, PTL DEF Spec

\* verify_chain accepts the ledger at any time: the rebuilt chains of
\* record_verification continue exactly where _append goes on.
THEOREM LedgerVerifies == Spec => []ChainVerifies
<1>1. Orderly => ChainVerifies
  <2> SUFFICES ASSUME AreChained(ledger) PROVE ChainVerifies
    BY DEF Orderly
  <2>1. DOMAIN ledger = Names /\ \A c \in Names : IsChain(ledger[c])
    BY DEF AreChained, IsBook
  <2> QED
    BY <2>1 DEF ChainVerifies, Verifies, IsChain
<1> QED
  BY <1>1, ServiceIsOrderly, PTL

(***************************************************************************)
(* Claims, verifications and evidence.                                     *)
(***************************************************************************)
Explained == ClaimsFollow(ledger) /\ ClaimsExplained(ledger)

LEMMA ExplainedInductive ==
    /\ Init => Explained
    /\ Orderly /\ Explained /\ [Next]_vars => Explained'
<1>1. Init => Explained
  BY StoredAssumption DEF Init, Explained
<1>2. ASSUME Orderly, Explained, [Next]_vars PROVE Explained'
  <2>1. CASE ledger' = ledger
    BY <1>2, <2>1 DEF Explained, ClaimsFollow, ClaimsExplained, RecordsOf, IdsIn
  <2>2. CASE ledger' # ledger
    <3>1. Next
      BY <1>2, <2>2, VarsSame
    <3>2. PICK t \in Threads : Moves(t)
      BY <1>2, <2>2, <3>1, Classes DEF Crashes, Orderly
    <3> DEFINE s == Head(left[t])
    <3>3. /\ Advances(t) /\ pc[t] = "write" /\ s.act \in {"append", "verify"}
          /\ Accepts(ledger, s) /\ ledger' = After(ledger, s)
      BY <1>2, <2>2, <3>2, LedgerMoves DEF Orderly
    <3>4. Writes(s)
      BY <1>2, <3>3, WriterWrites DEF Advances, Orderly
    <3>5. ClaimsFollow(After(ledger, s)) /\ ClaimsExplained(After(ledger, s))
      BY <1>2, <3>3, <3>4, FollowsAfter DEF Orderly, Explained
    <3> QED
      BY <3>3, <3>5 DEF Explained
  <2> QED
    BY <2>1, <2>2
<1> QED
  BY <1>1, <1>2

\* Each claim has all the evidence of its verifications and the result of the last
\* of them; what it has is in the ledger, and a claim that is not as it was
\* proposed has a verification.
THEOREM ClaimsAreExplained == Spec => []Explained
<1>1. Init => Orderly /\ Explained
  BY OrderlyInductive, ExplainedInductive
<1>2. (Orderly /\ Explained) /\ [Next]_vars => (Orderly /\ Explained)'
  BY OrderlyInductive, ExplainedInductive
<1> QED
  BY <1>1, <1>2, PTL DEF Spec

\* The status of a claim is the result of its last verification, whatever threads
\* verify it and wherever the process dies.
THEOREM StatusFollows == Spec => []StatusFollowsVerifications
<1>1. Explained => StatusFollowsVerifications
  BY DEF Explained, StatusFollowsVerifications
<1> QED
  BY <1>1, ClaimsAreExplained, PTL

(***************************************************************************)
(* What the steps that a request has behind it left, and who left what is  *)
(* there.                                                                  *)
(***************************************************************************)
Behind(t) == 1..(Len(Plan(t)) - Len(left[t]))
At(t) == Len(Plan(t)) - Len(left[t]) + 1

Took(s, r) ==
    /\ s.act \in {"append", "verify"} =>
          /\ s.rec.id \in IdsIn(ledger[s.coll])
          /\ s.coll # "claims" => s.rec \in RecordsOf(ledger, s.coll)
    /\ s.act = "execute" => s.rec.id \in executed
    /\ s.act = "commit" /\ s.coll # "replays" =>
          \E row \in scoped : row.coll = s.coll /\ row.id = s.rec.id /\ row.scope = Caller(r).scope

\* A record of its number comes from a step that the thread has made.
Owns(t) ==
    /\ \A c \in Names : \A rec \in RecordsOf(ledger, c) :
          rec.id[1] = number[t] =>
              \E k \in Behind(t) :
                  /\ Plan(t)[k].act \in {"append", "verify"} /\ Plan(t)[k].coll = c
                  /\ Plan(t)[k].rec.id = rec.id
                  /\ c # "claims" => Plan(t)[k].rec = rec
    /\ \A id \in executed :
          id[1] = number[t] =>
              \E k \in Behind(t) : Plan(t)[k].act = "execute" /\ Plan(t)[k].rec.id = id

Numbered ==
    /\ \A c \in Names : \A rec \in RecordsOf(ledger, c) :
          /\ rec.id[1] \in 0..received
          /\ c \in {"policy_decisions", "outcomes"} => rec.about[1] = rec.id[1]
    /\ \A id \in executed : id[1] \in 0..received

Traced ==
    /\ \A t \in Threads : pc[t] # "idle" =>
          (\A k \in Behind(t) : Took(Plan(t)[k], request[t])) /\ Owns(t)
    /\ Numbered

\* Where a thread is in its operation.
LEMMA Planned ==
    ASSUME Serving, NEW t \in Threads, pc[t] # "idle"
    PROVE  /\ request[t] \in Requests /\ number[t] \in 1..received
           /\ IsSeq(Plan(t)) /\ Len(Plan(t)) \in Nat
           /\ \A k \in 1..Len(Plan(t)) : StepOf(Plan(t)[k], number[t])
           /\ Behind(t) \subseteq 1..Len(Plan(t))
           /\ left[t] # << >> => /\ At(t) \in 1..Len(Plan(t)) /\ Head(left[t]) = Plan(t)[At(t)]
                                 /\ Behind(t) = 1..(At(t) - 1)
           /\ left[t] = << >> => Behind(t) = 1..Len(Plan(t))
<1>1. Serves(t)
  BY DEF Serving
<1>2. /\ request[t] \in Requests /\ number[t] \in 1..received
      /\ IsSeq(Plan(t)) /\ Len(Plan(t)) \in Nat
      /\ \A k \in 1..Len(Plan(t)) : StepOf(Plan(t)[k], number[t])
  BY <1>1, StepsMade DEF Serves, Plan
<1>3. IsSeq(left[t]) /\ Follows(left[t], Plan(t))
  BY <1>1 DEF Serves, Follows
<1>4. Len(left[t]) \in Nat
  BY <1>3, SeqFacts
<1>5. Behind(t) \subseteq 1..Len(Plan(t))
  BY <1>2, <1>4 DEF Behind
<1>6. ASSUME left[t] # << >>
      PROVE  /\ At(t) \in 1..Len(Plan(t)) /\ Head(left[t]) = Plan(t)[At(t)]
             /\ Behind(t) = 1..(At(t) - 1)
  <2>1. At(t) \in 1..Len(Plan(t)) /\ Head(left[t]) = Plan(t)[At(t)]
    BY <1>2, <1>3, <1>6, FollowsTail DEF At
  <2>2. At(t) - 1 = Len(Plan(t)) - Len(left[t])
    BY <1>2, <1>4 DEF At
  <2> QED
    BY <2>1, <2>2 DEF Behind
<1>7. left[t] = << >> => Behind(t) = 1..Len(Plan(t))
  BY <1>2, NoStep DEF Behind
<1> QED
  BY <1>2, <1>5, <1>6, <1>7

\* How far a thread is after a step of its own.
LEMMA Going ==
    ASSUME Serving, NEW t \in Threads, Moves(t), pc'[t] # "idle"
    PROVE  \/ Begins(t) /\ Undone /\ Behind(t)' = {}
           \/ /\ pc[t] # "idle" /\ Undone /\ Goes(t)
              /\ Plan(t)' = Plan(t) /\ Behind(t)' = Behind(t) /\ left'[t] = left[t]
           \/ /\ pc[t] # "idle" /\ Advances(t) /\ Goes(t) /\ Plan(t)' = Plan(t)
              /\ At(t) \in 1..Len(Plan(t)) /\ Head(left[t]) = Plan(t)[At(t)]
              /\ Behind(t)' = Behind(t) \cup {At(t)} /\ At(t) \notin Behind(t)
              /\ Len(left[t]) \in Nat /\ Len(left'[t]) = Len(left[t]) - 1
<1>1. pc[t] # "idle" => Serves(t)
  BY DEF Serving
<1>2. CASE Begins(t)
  <2>1. left'[t] = Steps(request'[t], number'[t]) /\ request'[t] \in Requests
    BY <1>2 DEF Begins
  <2>2. Len(Steps(request'[t], number'[t])) \in Nat
    BY <2>1, StepsMade
  <2>3. Behind(t)' = {}
    BY <2>1, <2>2 DEF Behind, Plan
  <2> QED
    BY <1>2, <2>3 DEF Begins
<1>3. CASE Looks(t) \/ Takes(t) \/ Reads(t) \/ Pauses(t)
  <2>1. pc[t] # "idle" /\ Undone /\ Goes(t) /\ left'[t] = left[t]
    BY <1>3 DEF Looks, Takes, Reads, Pauses
  <2>2. Plan(t)' = Plan(t)
    BY <2>1 DEF Goes, Plan
  <2>3. Behind(t)' = Behind(t)
    BY <2>1, <2>2 DEF Behind
  <2> QED
    BY <2>1, <2>2, <2>3
<1>4. CASE Advances(t)
  <2>1. left[t] # << >> /\ left'[t] = Tail(left[t]) /\ Goes(t) /\ pc[t] # "idle"
    BY <1>4 DEF Advances
  <2>2. Plan(t)' = Plan(t)
    BY <2>1 DEF Goes, Plan
  <2>3. IsSeq(Plan(t)) /\ Follows(left[t], Plan(t))
    BY <2>1, <1>1, StepsMade DEF Serves, Plan
  <2>4. /\ Len(left[t]) \in Nat /\ Len(Plan(t)) \in Nat /\ Len(left[t]) >= 1
        /\ Len(left'[t]) = Len(left[t]) - 1
        /\ At(t) \in 1..Len(Plan(t)) /\ Head(left[t]) = Plan(t)[At(t)]
    BY <2>1, <2>3, FollowsTail DEF At
  <2>5. Behind(t)' = Behind(t) \cup {At(t)} /\ At(t) \notin Behind(t)
    <3>1. Behind(t)' = 1..(Len(Plan(t)) - Len(left'[t]))
      BY <2>2 DEF Behind
    <3>2. Len(Plan(t)) - Len(left'[t]) = At(t) /\ At(t) \in Nat /\ At(t) >= 1
      BY <2>4 DEF At
    <3>3. Behind(t) = 1..(At(t) - 1)
      BY <2>4 DEF Behind, At
    <3> QED
      BY <3>1, <3>2, <3>3
  <2> QED
    BY <1>4, <2>1, <2>2, <2>4, <2>5
<1>5. ~ Ends(t) /\ ~ Raises(t)
  BY DEF Ends, Raises
<1> QED
  BY <1>2, <1>3, <1>4, <1>5 DEF Moves

\* Of the others, nothing changes.
LEMMA OthersStay ==
    ASSUME NEW t \in Threads, Moves(t), NEW s \in Threads \ {t}
    PROVE  /\ pc'[s] = pc[s] /\ request'[s] = request[s] /\ number'[s] = number[s]
           /\ left'[s] = left[s] /\ Plan(s)' = Plan(s) /\ Behind(s)' = Behind(s)
<1>1. /\ pc'[s] = pc[s] /\ request'[s] = request[s] /\ number'[s] = number[s]
      /\ left'[s] = left[s]
  BY DEF Moves, Alone
<1>2. Plan(s)' = Plan(s)
  BY <1>1 DEF Plan
<1> QED
  BY <1>1, <1>2 DEF Behind

\* What is recorded stays; only the state of a claim changes, and what is new is of
\* the step that was made.
LEMMA RecordsGrow ==
    ASSUME Orderly, NEW t \in Threads, Moves(t), NEW c \in Names
    PROVE  LET s == Head(left[t])
           IN /\ IdsIn(ledger[c]) \subseteq IdsIn(ledger'[c])
              /\ c # "claims" => RecordsOf(ledger, c) \subseteq RecordsOf(ledger', c)
              /\ \A rec \in RecordsOf(ledger', c) :
                    \/ \E old \in RecordsOf(ledger, c) :
                          old.id = rec.id /\ (c # "claims" => old = rec)
                    \/ /\ Advances(t) /\ s.act \in {"append", "verify"}
                       /\ Writes(s) /\ c = s.coll /\ rec = s.rec
              /\ Advances(t) /\ s.act \in {"append", "verify"} /\ c = s.coll =>
                    s.rec.id \in IdsIn(ledger'[c]) /\ s.rec \in RecordsOf(ledger', c)
<1> DEFINE s == Head(left[t])
<1>1. ASSUME Advances(t), s.act \in {"append", "verify"}
      PROVE  Writes(s) /\ ledger' = After(ledger, s)
  <2>1. pc[t] = "write" /\ ledger' = After(copy[t], s) /\ left[t] # << >>
    BY <1>1 DEF Advances
  <2>2. copy[t] = ledger
    BY <2>1 DEF Orderly, Locked
  <2> QED
    BY <1>1, <2>1, <2>2, WriterWrites DEF Orderly
<1>2. CASE Advances(t) /\ s.act \in {"append", "verify"}
  <2>1. Writes(s) /\ ledger' = After(ledger, s) /\ AreChained(ledger)
    BY <1>1, <1>2 DEF Orderly
  <2>2. /\ RecordsOf(ledger', c) =
              {Still(c, rec, s) : rec \in RecordsOf(ledger, c)} \cup (IF c = s.coll THEN {s.rec} ELSE {})
        /\ IdsIn(ledger'[c]) = IdsIn(ledger[c]) \cup (IF c = s.coll THEN {s.rec.id} ELSE {})
    BY <2>1, AfterRecords
  <2>3. \A rec :
          Still(c, rec, s) = rec \/ (c = "claims" /\ Still(c, rec, s).id = rec.id)
    BY DEF Still, Judged, Rec
  <2> HIDE DEF s
  <2>4. c # "claims" => RecordsOf(ledger, c) \subseteq RecordsOf(ledger', c)
    BY <2>2, <2>3
  <2>5. ASSUME NEW rec \in RecordsOf(ledger', c)
        PROVE  \/ \E old \in RecordsOf(ledger, c) : old.id = rec.id /\ (c # "claims" => old = rec)
               \/ c = s.coll /\ rec = s.rec
    BY <2>2, <2>3
  <2> QED
    BY <2>1, <2>2, <2>4, <2>5, <1>2 DEF s
<1>3. CASE ~ (Advances(t) /\ s.act \in {"append", "verify"})
  <2>1. ledger' = ledger
    BY <1>3, LedgerMoves DEF Orderly
  <2> QED
    BY <2>1, <1>3
<1> QED
  BY <1>2, <1>3

LEMMA RestGrows ==
    ASSUME NEW t \in Threads, Moves(t)
    PROVE  LET s == Head(left[t])
           IN /\ executed \subseteq executed' /\ scoped \subseteq scoped'
              /\ \A id \in executed' :
                    \/ id \in executed
                    \/ (Advances(t) \/ Raises(t)) /\ s.act = "execute" /\ id = s.rec.id
              /\ Advances(t) /\ s.act = "execute" => s.rec.id \in executed'
              /\ scoped' # scoped => Advances(t) /\ s.act = "commit"
<1>1. CASE Advances(t)
  BY <1>1 DEF Advances, Committed
<1>2. CASE Raises(t)
  BY <1>2 DEF Raises, Advances
<1>3. CASE ~ Advances(t) /\ ~ Raises(t)
  <2>1. executed' = executed /\ scoped' = scoped
    BY <1>3 DEF Moves, Begins, Looks, Takes, Reads, Pauses, Ends, Undone
  <2> QED
    BY <2>1, <1>3
<1> QED
  BY <1>1, <1>2, <1>3

LEMMA TracedInit ==
    ASSUME Init
    PROVE  Traced
<1>1. /\ \A t \in Threads : pc[t] = "idle"
      /\ ledger = Opening /\ executed = CarriedOut /\ received = 0
  BY DEF Init
<1>2. \A c \in Names : \A rec \in RecordsOf(ledger, c) :
          rec.id[1] = 0 /\ (c \in {"policy_decisions", "outcomes"} => rec.about[1] = 0)
  BY <1>1, AtTheStart, StoredAssumption, CollectionNames
<1>3. \A id \in executed : id[1] = 0
  BY <1>1, <1>2 DEF CarriedOut, Names
<1>4. 0 \in 0..received
  BY <1>1
<1> QED
  BY <1>1, <1>2, <1>3, <1>4 DEF Traced, Numbered

LEMMA NumberedMove ==
    ASSUME Orderly, Numbered, NEW t \in Threads, Moves(t)
    PROVE  Numbered'
<1> DEFINE s == Head(left[t])
<1>1. /\ received \in Nat /\ received' \in {received, received + 1}
      /\ Shaped
  BY MoveServes DEF Orderly, Serving
<1>2. ASSUME Advances(t) \/ Raises(t)
      PROVE  StepOf(s, number[t]) /\ number[t] \in 0..received'
  <2>1. pc[t] # "idle" /\ left[t] # << >>
    BY <1>2 DEF Advances, Raises
  <2>2. number[t] \in 1..received
    BY <2>1 DEF Orderly, Serving, Serves
  <2> QED
    BY <1>1, <2>1, <2>2, WriterWrites DEF Orderly
<1>3. ASSUME NEW c \in Names, NEW rec \in RecordsOf(ledger', c)
      PROVE  /\ rec.id[1] \in 0..received'
             /\ c \in {"policy_decisions", "outcomes"} => rec.about[1] = rec.id[1]
  <2>1. \/ \E old \in RecordsOf(ledger, c) : old.id = rec.id /\ (c # "claims" => old = rec)
        \/ Advances(t) /\ s.act \in {"append", "verify"} /\ Writes(s) /\ c = s.coll /\ rec = s.rec
    BY RecordsGrow
  <2>2. CASE \E old \in RecordsOf(ledger, c) : old.id = rec.id /\ (c # "claims" => old = rec)
    BY <1>1, <2>2 DEF Numbered
  <2>3. CASE Advances(t) /\ s.act \in {"append", "verify"} /\ Writes(s) /\ c = s.coll /\ rec = s.rec
    <3> HIDE DEF s
    <3> QED
      BY <1>2, <2>3 DEF StepOf, Writes
  <2> QED
    BY <2>1, <2>2, <2>3
<1>4. ASSUME NEW id \in executed'
      PROVE  id[1] \in 0..received'
  <2>1. id \in executed \/ ((Advances(t) \/ Raises(t)) /\ s.act = "execute" /\ id = s.rec.id)
    BY RestGrows
  <2> HIDE DEF s
  <2> QED
    BY <1>1, <1>2, <2>1 DEF Numbered, StepOf
<1> QED
  BY <1>3, <1>4 DEF Numbered

\* What a step left is not taken away.
LEMMA TookStays ==
    ASSUME Orderly, NEW t \in Threads, Moves(t), NEW s, NEW r, Took(s, r),
           s.act \in {"append", "verify"} => s.coll \in Names
    PROVE  Took(s, r)'
<1>1. s.act \in {"append", "verify"} =>
          /\ s.rec.id \in IdsIn(ledger'[s.coll])
          /\ s.coll # "claims" => s.rec \in RecordsOf(ledger', s.coll)
  BY RecordsGrow DEF Took
<1>2. executed \subseteq executed' /\ scoped \subseteq scoped'
  BY RestGrows
<1> QED
  BY <1>1, <1>2 DEF Took

\* The step that is made leaves what it says.
LEMMA TookNow ==
    ASSUME Orderly, NEW t \in Threads, Moves(t), Advances(t),
           NEW s, s = Head(left[t]), NEW r, r = request[t]
    PROVE  Took(s, r)'
<1>1. pc[t] # "idle" /\ left[t] # << >>
  BY DEF Advances
<1>2. s.act \in {"append", "verify"} => Writes(s)
  BY <1>1, WriterWrites DEF Orderly
<1>3. s.act \in {"append", "verify"} =>
          s.rec.id \in IdsIn(ledger'[s.coll]) /\ s.rec \in RecordsOf(ledger', s.coll)
  BY <1>2, RecordsGrow DEF Writes
<1>4. s.act = "execute" => s.rec.id \in executed'
  BY RestGrows
<1>5. ASSUME s.act = "commit", s.coll # "replays"
      PROVE  \E row \in scoped' : row.coll = s.coll /\ row.id = s.rec.id /\ row.scope = Caller(r).scope
  <2> DEFINE S == {row \in scoped : row.scope = Caller(r).scope}
             new == [coll |-> s.coll, id |-> s.rec.id, scope |-> Caller(r).scope,
                     by |-> number[t], key |-> request[t].key]
  <2>1. scoped' = IF s.rec.id \in Rows(S, s.coll) THEN scoped ELSE scoped \cup {new}
    BY <1>5 DEF Advances, Committed, RowId
  <2>2. CASE s.rec.id \in Rows(S, s.coll)
    BY <2>1, <2>2 DEF Rows
  <2>3. CASE s.rec.id \notin Rows(S, s.coll)
    <3>1. new \in scoped'
      BY <2>1, <2>3
    <3>2. new.coll = s.coll /\ new.id = s.rec.id /\ new.scope = Caller(r).scope
      OBVIOUS
    <3> QED
      BY <3>1, <3>2
  <2> QED
    BY <2>2, <2>3
<1> QED
  BY <1>3, <1>4, <1>5 DEF Took

LEMMA TracedMove ==
    ASSUME Orderly, Traced, NEW t \in Threads, Moves(t), NEW u \in Threads, pc'[u] # "idle"
    PROVE  (\A k \in Behind(u) : Took(Plan(u)[k], request[u]))' /\ Owns(u)'
<1> DEFINE s == Head(left[t])
<1>1. Numbered /\ Shaped /\ received \in Nat
  BY DEF Traced, Orderly, Serving
<1>2. CASE u # t
  <2>1. /\ pc[u] # "idle" /\ number'[u] = number[u] /\ request'[u] = request[u]
        /\ Plan(u)' = Plan(u) /\ Behind(u)' = Behind(u)
    BY <1>2, OthersStay
  <2>2. (\A k \in Behind(u) : Took(Plan(u)[k], request[u])) /\ Owns(u)
    BY <2>1 DEF Traced
  <2>3. IsSeq(Plan(u)) /\ \A k \in Behind(u) : StepOf(Plan(u)[k], number[u])
    BY <2>1, Planned DEF Orderly
  <2>4. \A k \in Behind(u) : Took(Plan(u)[k], request[u])'
    <3> TAKE k \in Behind(u)
    <3>1. Plan(u)[k].act \in {"append", "verify"} => Plan(u)[k].coll \in Names
      BY <2>3 DEF StepOf, Writes
    <3>2. \A p, r : p = Plan(u)[k] /\ r = request[u] => Took(p, r)'
      BY <2>2, <3>1, TookStays
    <3> QED
      BY <3>2, <2>1
  <2>5. number[u] # number[t]
    BY <1>2, <2>1 DEF Orderly, Serving
  <2>6. Advances(t) \/ Raises(t) => StepOf(s, number[t])
    BY WriterWrites DEF Advances, Raises, Orderly
  <2>7. ASSUME NEW c \in Names, NEW rec \in RecordsOf(ledger', c), rec.id[1] = number[u]
        PROVE  \E k \in Behind(u) :
                  /\ Plan(u)[k].act \in {"append", "verify"} /\ Plan(u)[k].coll = c
                  /\ Plan(u)[k].rec.id = rec.id
                  /\ c # "claims" => Plan(u)[k].rec = rec
    <3>1. \E old \in RecordsOf(ledger, c) : old.id = rec.id /\ (c # "claims" => old = rec)
      BY <2>5, <2>6, <2>7, RecordsGrow DEF StepOf
    <3> QED
      BY <2>2, <2>7, <3>1 DEF Owns
  <2>8. ASSUME NEW id \in executed', id[1] = number[u]
        PROVE  \E k \in Behind(u) : Plan(u)[k].act = "execute" /\ Plan(u)[k].rec.id = id
    <3>1. id \in executed
      BY <2>5, <2>6, <2>8, RestGrows DEF StepOf
    <3> QED
      BY <2>2, <2>8, <3>1 DEF Owns
  <2>9. Owns(u)'
    BY <2>1, <2>7, <2>8 DEF Owns
  <2> QED
    BY <2>1, <2>4, <2>9
<1>3. CASE u = t /\ Begins(t) /\ Undone /\ Behind(t)' = {}
  <2>1. number'[t] = received + 1 /\ ledger' = ledger /\ executed' = executed
    BY <1>3 DEF Begins, Undone
  <2>2. /\ \A c \in Names : \A rec \in RecordsOf(ledger, c) : rec.id[1] # number'[t]
        /\ \A id \in executed : id[1] # number'[t]
    BY <1>1, <2>1 DEF Numbered
  <2>3. Owns(t)'
    BY <2>1, <2>2 DEF Owns
  <2> QED
    BY <1>3, <2>3
<1>4. CASE /\ u = t /\ pc[t] # "idle" /\ Undone /\ Goes(t)
           /\ Plan(t)' = Plan(t) /\ Behind(t)' = Behind(t) /\ left'[t] = left[t]
  <2>1. (\A k \in Behind(t) : Took(Plan(t)[k], request[t])) /\ Owns(t)
    BY <1>4 DEF Traced
  <2>2. ledger' = ledger /\ executed' = executed /\ scoped' = scoped
        /\ number'[t] = number[t] /\ request'[t] = request[t]
    BY <1>4 DEF Undone, Goes
  <2>3. Owns(t)'
    BY <1>4, <2>1, <2>2 DEF Owns
  <2>4. \A k \in Behind(t) : Took(Plan(t)[k], request[t])'
    BY <1>4, <2>1, <2>2 DEF Took
  <2> QED
    BY <1>4, <2>3, <2>4
<1>5. CASE /\ u = t /\ pc[t] # "idle" /\ Advances(t) /\ Goes(t) /\ Plan(t)' = Plan(t)
           /\ At(t) \in 1..Len(Plan(t)) /\ s = Plan(t)[At(t)]
           /\ Behind(t)' = Behind(t) \cup {At(t)} /\ At(t) \notin Behind(t)
  <2>1. (\A k \in Behind(t) : Took(Plan(t)[k], request[t])) /\ Owns(t)
    BY <1>5 DEF Traced
  <2>2. number'[t] = number[t] /\ request'[t] = request[t]
    BY <1>5 DEF Goes
  <2>3. \A k \in Behind(t) : Plan(t)[k].act \in {"append", "verify"} => Plan(t)[k].coll \in Names
    BY <1>5, Planned DEF Orderly, StepOf, Writes
  <2>4. \A k \in Behind(t) : Took(Plan(t)[k], request[t])'
    <3> TAKE k \in Behind(t)
    <3>1. \A p, r : p = Plan(t)[k] /\ r = request[t] => Took(p, r)'
      BY <2>1, <2>3, TookStays
    <3> QED
      BY <3>1, <1>5, <2>2
  <2>5. \A p, r : p = Plan(t)[At(t)] /\ r = request[t] => Took(p, r)'
    BY <1>5, TookNow
  <2>6. ASSUME NEW c \in Names, NEW rec \in RecordsOf(ledger', c), rec.id[1] = number[t]
        PROVE  \E k \in Behind(t) \cup {At(t)} :
                  /\ Plan(t)[k].act \in {"append", "verify"} /\ Plan(t)[k].coll = c
                  /\ Plan(t)[k].rec.id = rec.id
                  /\ c # "claims" => Plan(t)[k].rec = rec
    <3>1. CASE \E old \in RecordsOf(ledger, c) : old.id = rec.id /\ (c # "claims" => old = rec)
      BY <2>1, <2>6, <3>1 DEF Owns
    <3>2. CASE s.act \in {"append", "verify"} /\ c = s.coll /\ rec = s.rec
      BY <1>5, <3>2
    <3> QED
      BY <3>1, <3>2, RecordsGrow
  <2>7. ASSUME NEW id \in executed', id[1] = number[t]
        PROVE  \E k \in Behind(t) \cup {At(t)} : Plan(t)[k].act = "execute" /\ Plan(t)[k].rec.id = id
    <3>1. CASE id \in executed
      BY <2>1, <2>7, <3>1 DEF Owns
    <3>2. CASE s.act = "execute" /\ id = s.rec.id
      BY <1>5, <3>2
    <3> QED
      BY <3>1, <3>2, RestGrows
  <2>8. Owns(t)'
    BY <1>5, <2>2, <2>6, <2>7 DEF Owns
  <2>9. (\A k \in Behind(t) : Took(Plan(t)[k], request[t]))'
    BY <1>5, <2>2, <2>4, <2>5
  <2> QED
    BY <1>5, <2>8, <2>9
<1> QED
  BY <1>2, <1>3, <1>4, <1>5, Going DEF Orderly

LEMMA TracedInductive ==
    /\ Init => Traced
    /\ Orderly /\ Traced /\ [Next]_vars => Traced'
<1>1. ASSUME Orderly, Traced, Crashes
      PROVE  Traced'
  BY <1>1 DEF Crashes, Traced, Numbered
<1>2. ASSUME Orderly, Traced, NEW t \in Threads, Moves(t)
      PROVE  Traced'
  BY <1>2, TracedMove, NumberedMove DEF Traced
<1>3. ASSUME Orderly, Traced, UNCHANGED vars
      PROVE  Traced'
  BY <1>3, VarsSame DEF Traced, Numbered, Owns, Took, Behind, Plan
<1> QED
  BY <1>1, <1>2, <1>3, TracedInit, Classes DEF Orderly

(***************************************************************************)
(* Outputs that are allowed.                                               *)
(***************************************************************************)
LEMMA SupportedWrite ==
    ASSUME Orderly, Explained, Traced, OutputsSupported(ledger),
           NEW t \in Threads, Moves(t), Advances(t),
           NEW s, s = Head(left[t]), s.act \in {"append", "verify"}, Writes(s),
           NEW d \in RecordsOf(ledger', "policy_decisions"), NEW a \in RecordsOf(ledger', "actions"),
           d.state = "allow", d.about = a.id, NEW claim \in a.refs
    PROVE  \E v \in RecordsOf(ledger, "verifications") :
              /\ v.about = claim /\ v.state = "verified"
              /\ v.refs # {} /\ v.refs \subseteq IdsIn(ledger["evidence"])
<1>1. pc[t] # "idle" /\ left[t] # << >>
  BY DEF Advances
<1>2. /\ request[t] \in Requests /\ IsSeq(Plan(t)) /\ Len(Plan(t)) \in Nat
      /\ \A k \in 1..Len(Plan(t)) : StepOf(Plan(t)[k], number[t])
      /\ At(t) \in 1..Len(Plan(t)) /\ s = Plan(t)[At(t)] /\ Behind(t) = 1..(At(t) - 1)
  BY <1>1, Planned DEF Orderly
<1>3. (\A k \in Behind(t) : Took(Plan(t)[k], request[t])) /\ Owns(t) /\ Numbered
  BY <1>1 DEF Traced
<1>4. /\ d \in RecordsOf(ledger, "policy_decisions")
         \/ (s.coll = "policy_decisions" /\ d = s.rec)
      /\ a \in RecordsOf(ledger, "actions") \/ (s.coll = "actions" /\ a = s.rec)
  BY RecordsGrow DEF Names
<1>5. CASE d \in RecordsOf(ledger, "policy_decisions") /\ a \in RecordsOf(ledger, "actions")
  BY <1>5 DEF OutputsSupported
<1>6. CASE s.coll = "policy_decisions" /\ d = s.rec /\ a \in RecordsOf(ledger, "actions")
  <2>1. s.act = "append" /\ d.about[1] = number[t]
    BY <1>2, <1>6 DEF Writes, StepOf
  <2>2. \E k \in Behind(t) :
            /\ Plan(t)[k].act \in {"append", "verify"} /\ Plan(t)[k].coll = "actions"
            /\ Plan(t)[k].rec = a
    BY <1>3, <1>6, <2>1 DEF Owns, Names
  <2>3. PICK k \in Behind(t) :
            Plan(t)[k].act = "append" /\ Plan(t)[k].coll = "actions" /\ Plan(t)[k].rec = a
    BY <1>2, <2>2 DEF StepOf, Writes
  <2>4. k \in 1..Len(Plan(t))
    BY <1>2, <2>3
  <2>5. \A c \in Plan(t)[k].rec.refs : \E m \in 1..(At(t) - 1) :
            /\ Plan(t)[m].act = "verify" /\ Plan(t)[m].rec.about = c
            /\ Plan(t)[m].rec.state = "verified" /\ Plan(t)[m].rec.refs # {}
    <3>1. /\ Plan(t)[At(t)].act = "append" /\ Plan(t)[At(t)].coll = "policy_decisions"
          /\ Plan(t)[At(t)].rec.state = "allow"
      BY <1>2, <1>6, <2>1
    <3>2. \A j \in 1..Len(Plan(t)) :
              Plan(t)[j].act = "append" /\ Plan(t)[j].coll = "actions" =>
                  \A c \in Plan(t)[j].rec.refs : \E m \in 1..(At(t) - 1) :
                      /\ Plan(t)[m].act = "verify" /\ Plan(t)[m].rec.about = c
                      /\ Plan(t)[m].rec.state = "verified" /\ Plan(t)[m].rec.refs # {}
      <4> DEFINE i == At(t)
      <4>1. i \in 1..Len(Plan(t)) /\ request[t] \in Requests
        BY <1>2
      <4> HIDE DEF i
      <4> QED
        BY <3>1, <4>1, DecisionSteps DEF Plan, i
    <3> QED
      BY <2>3, <2>4, <3>2
  <2>6. PICK m \in 1..(At(t) - 1) :
            /\ Plan(t)[m].act = "verify" /\ Plan(t)[m].rec.about = claim
            /\ Plan(t)[m].rec.state = "verified" /\ Plan(t)[m].rec.refs # {}
    BY <2>3, <2>5
  <2>7. m \in 1..Len(Plan(t)) /\ m \in Behind(t)
    BY <1>2
  <2>8. Plan(t)[m].coll = "verifications"
    BY <1>2, <2>6, <2>7 DEF StepOf, Writes
  <2>9. Plan(t)[m].rec \in RecordsOf(ledger, "verifications")
    BY <1>3, <2>6, <2>7, <2>8 DEF Took
  <2> QED
    BY <2>6, <2>9 DEF Explained, ClaimsExplained
<1>7. CASE s.coll = "actions" /\ a = s.rec /\ d \in RecordsOf(ledger, "policy_decisions")
  <2>1. s.act = "append" /\ a.id[1] = number[t] /\ d.id[1] = number[t]
    BY <1>2, <1>3, <1>7 DEF Writes, StepOf, Numbered, Names
  <2>2. \E k \in Behind(t) :
            Plan(t)[k].act \in {"append", "verify"} /\ Plan(t)[k].coll = "policy_decisions"
    BY <1>3, <1>7, <2>1 DEF Owns, Names
  <2>3. PICK k \in Behind(t) : Plan(t)[k].act = "append" /\ Plan(t)[k].coll = "policy_decisions"
    BY <1>2, <2>2 DEF StepOf, Writes
  <2>4. At(t) < k
    BY <1>2, <1>7, <2>1, <2>3, DecisionSteps DEF Plan
  <2> QED
    BY <1>2, <2>3, <2>4
<1>8. ~ (s.coll = "policy_decisions" /\ s.coll = "actions")
  OBVIOUS
<1> QED
  BY <1>4, <1>5, <1>6, <1>7, <1>8

LEMMA SupportedInductive ==
    /\ Init => OutputsSupported(ledger)
    /\ Orderly /\ Explained /\ Traced /\ OutputsSupported(ledger) /\ [Next]_vars =>
          OutputsSupported(ledger)'
<1>1. Init => OutputsSupported(ledger)
  BY StoredAssumption DEF Init
<1>2. ASSUME Orderly, Explained, Traced, OutputsSupported(ledger), NEW t \in Threads, Moves(t)
      PROVE  OutputsSupported(ledger)'
  <2>1. CASE ledger' = ledger
    BY <1>2, <2>1 DEF OutputsSupported, RecordsOf, IdsIn
  <2>2. CASE ledger' # ledger
    <3>1. Advances(t) /\ Head(left[t]).act \in {"append", "verify"} /\ Writes(Head(left[t]))
      BY <1>2, <2>2, LedgerMoves, WriterWrites DEF Orderly, Advances
    <3>2. ASSUME NEW d \in RecordsOf(ledger', "policy_decisions"),
                 NEW a \in RecordsOf(ledger', "actions"), d.state = "allow", d.about = a.id,
                 NEW claim \in a.refs
          PROVE  \E v \in RecordsOf(ledger', "verifications") :
                    /\ v.about = claim /\ v.state = "verified"
                    /\ v.refs # {} /\ v.refs \subseteq IdsIn(ledger'["evidence"])
      <4>1. PICK v \in RecordsOf(ledger, "verifications") :
                /\ v.about = claim /\ v.state = "verified"
                /\ v.refs # {} /\ v.refs \subseteq IdsIn(ledger["evidence"])
        BY <1>2, <3>1, <3>2, SupportedWrite
      <4>2. /\ v \in RecordsOf(ledger', "verifications")
            /\ IdsIn(ledger["evidence"]) \subseteq IdsIn(ledger'["evidence"])
        BY <1>2, RecordsGrow DEF Names
      <4> QED
        BY <4>1, <4>2
    <3> QED
      BY <3>2 DEF OutputsSupported
  <2> QED
    BY <2>1, <2>2
<1>3. ASSUME OutputsSupported(ledger), UNCHANGED ledger
      PROVE  OutputsSupported(ledger)'
  BY <1>3 DEF OutputsSupported, RecordsOf, IdsIn
<1>4. Crashes \/ UNCHANGED vars => UNCHANGED ledger
  BY VarsSame DEF Crashes
<1> QED
  BY <1>1, <1>2, <1>3, <1>4, Classes DEF Orderly

\* HAV allows an output only when the ledger holds, for each claim of it, a
\* verification that found it true, with evidence that is there too.
THEOREM AllowedIsSupported == Spec => []AllowedOutputIsSupported
<1> DEFINE Inv == Orderly /\ Explained /\ Traced /\ OutputsSupported(ledger)
<1>1. Init => Inv
  BY OrderlyInductive, ExplainedInductive, TracedInductive, SupportedInductive
<1>2. Inv /\ [Next]_vars => Inv'
  BY OrderlyInductive, ExplainedInductive, TracedInductive, SupportedInductive
<1>3. Inv => AllowedOutputIsSupported
  BY DEF AllowedOutputIsSupported
<1> QED
  BY <1>1, <1>2, <1>3, PTL DEF Spec

(***************************************************************************)
(* Requests that were answered: their steps are behind them, and no thread *)
(* serves them.                                                            *)
(***************************************************************************)
Done(r, n) ==
    /\ n \in 1..received /\ \A t \in Threads : number[t] # n
    /\ \A k \in 1..Len(Steps(r, n)) : Took(Steps(r, n)[k], r)
    /\ \A id \in executed :
          id[1] = n => \E k \in 1..Len(Steps(r, n)) :
                          Steps(r, n)[k].act = "execute" /\ Steps(r, n)[k].rec.id = id

Answered ==
    /\ \A a \in answers :
          /\ a.request \in Requests /\ Done(a.request, a.number)
          /\ a.request.key # NoKey =>
                \E row \in kept : row.key = KeyOf(a.request) /\ row.number = a.number
    /\ \A row \in kept : \E r \in Requests :
          row.key = KeyOf(r) /\ row.payload = Payload(r) /\ Done(r, row.number)
    /\ \A x, y \in kept : x.key = y.key => x.number = y.number

LEMMA DoneStays ==
    ASSUME Orderly, NEW t \in Threads, Moves(t), NEW r \in Requests, NEW n, Done(r, n)
    PROVE  Done(r, n)'
<1> DEFINE s == Head(left[t])
<1>1. /\ IsSeq(Steps(r, n)) /\ Len(Steps(r, n)) \in Nat
      /\ \A k \in 1..Len(Steps(r, n)) : StepOf(Steps(r, n)[k], n)
  BY StepsMade
<1>2. received \in Nat /\ received' \in {received, received + 1}
  BY MoveServes DEF Orderly, Serving
<1>3. n \in 1..received' /\ \A u \in Threads : number'[u] # n
  <2>1. number'[t] \in {0, number[t], received + 1}
    BY MoveServes DEF Orderly
  <2>2. \A u \in Threads \ {t} : number'[u] = number[u]
    BY OthersStay
  <2> QED
    BY <1>2, <2>1, <2>2 DEF Done
<1>4. ASSUME NEW k \in 1..Len(Steps(r, n))
      PROVE  Took(Steps(r, n)[k], r)'
  <2>1. Took(Steps(r, n)[k], r)
    BY DEF Done
  <2>2. Steps(r, n)[k].act \in {"append", "verify"} => Steps(r, n)[k].coll \in Names
    BY <1>1 DEF StepOf, Writes
  <2>3. \A p : p = Steps(r, n)[k] => Took(p, r)'
    BY <2>1, <2>2, TookStays
  <2> QED
    BY <2>3
<1>5. ASSUME NEW id \in executed', id[1] = n
      PROVE  id \in executed
  <2>1. id \in executed \/ ((Advances(t) \/ Raises(t)) /\ s.act = "execute" /\ id = s.rec.id)
    BY RestGrows
  <2>2. Advances(t) \/ Raises(t) => StepOf(s, number[t])
    BY WriterWrites DEF Advances, Raises, Orderly
  <2> HIDE DEF s
  <2> QED
    BY <1>5, <2>1, <2>2 DEF StepOf, Done
<1> QED
  BY <1>3, <1>4, <1>5 DEF Done

\* A thread that comes to its end has done what its operation consists of.
LEMMA DoneNow ==
    ASSUME Orderly, Traced, NEW t \in Threads, Moves(t), Ends(t), Finishes(t),
           NEW r, r = request[t], NEW n, n = number[t]
    PROVE  r \in Requests /\ Done(r, n)'
<1>1. pc[t] # "idle" /\ left[t] = << >> /\ Undone /\ received' = received /\ number'[t] = 0
  BY DEF Ends, Finishes
<1>2. /\ request[t] \in Requests /\ number[t] \in 1..received
      /\ Behind(t) = 1..Len(Plan(t))
  BY <1>1, Planned DEF Orderly
<1>3. (\A k \in Behind(t) : Took(Plan(t)[k], request[t])) /\ Owns(t)
  BY <1>1 DEF Traced
<1>4. n \in 1..received' /\ \A u \in Threads : number'[u] # n
  <2>1. \A u \in Threads \ {t} : number'[u] = number[u]
    BY OthersStay
  <2>2. \A u \in Threads \ {t} : number[u] # number[t]
    BY <1>1 DEF Orderly, Serving
  <2>3. n # 0
    BY <1>2
  <2> QED
    BY <1>1, <1>2, <2>1, <2>2, <2>3
<1>5. \A k \in 1..Len(Steps(r, n)) : Took(Steps(r, n)[k], r)
  BY <1>2, <1>3 DEF Plan
<1>6. \A k \in 1..Len(Steps(r, n)) : Took(Steps(r, n)[k], r)'
  BY <1>1, <1>5 DEF Took, Undone
<1>7. \A id \in executed :
          id[1] = n => \E k \in 1..Len(Steps(r, n)) :
                          Steps(r, n)[k].act = "execute" /\ Steps(r, n)[k].rec.id = id
  BY <1>2, <1>3 DEF Owns, Plan
<1>8. executed' = executed
  BY <1>1 DEF Undone
<1> QED
  BY <1>2, <1>4, <1>6, <1>7, <1>8 DEF Done

\* Without a new answer or response, those that are there stay as they are.
LEMMA AnsweredStays ==
    ASSUME Orderly, Answered, NEW t \in Threads, Moves(t)
    PROVE  /\ \A a \in answers :
                 /\ a.request \in Requests /\ Done(a.request, a.number)'
                 /\ a.request.key # NoKey =>
                       \E row \in kept : row.key = KeyOf(a.request) /\ row.number = a.number
           /\ \A row \in kept : \E r \in Requests :
                 row.key = KeyOf(r) /\ row.payload = Payload(r) /\ Done(r, row.number)'
           /\ \A x, y \in kept : x.key = y.key => x.number = y.number
<1>1. \A r \in Requests : \A n : Done(r, n) => Done(r, n)'
  BY DoneStays
<1>2. ASSUME NEW a \in answers
      PROVE  /\ a.request \in Requests /\ Done(a.request, a.number)'
             /\ a.request.key # NoKey =>
                   \E row \in kept : row.key = KeyOf(a.request) /\ row.number = a.number
  BY <1>1, <1>2 DEF Answered
<1>3. ASSUME NEW row \in kept
      PROVE  \E r \in Requests : row.key = KeyOf(r) /\ row.payload = Payload(r) /\ Done(r, row.number)'
  BY <1>1, <1>3 DEF Answered
<1> QED
  BY <1>2, <1>3 DEF Answered

LEMMA AnsweredMove ==
    ASSUME Orderly, Traced, Answered, NEW t \in Threads, Moves(t)
    PROVE  Answered'
<1>1. CASE Unanswered
  <2>1. answers' = answers /\ kept' = kept
    BY <1>1 DEF Unanswered
  <2>2. \A a \in answers' : a.request \in Requests /\ Done(a.request, a.number)'
    BY <2>1, AnsweredStays
  <2>3. \A a \in answers' : a.request.key # NoKey =>
            \E row \in kept' : row.key = KeyOf(a.request) /\ row.number = a.number
    BY <2>1, AnsweredStays
  <2>4. \A row \in kept' : \E r \in Requests :
            row.key = KeyOf(r) /\ row.payload = Payload(r) /\ Done(r, row.number)'
    BY <2>1, AnsweredStays
  <2>5. \A x, y \in kept' : x.key = y.key => x.number = y.number
    BY <2>1, AnsweredStays
  <2> QED
    BY <2>2, <2>3, <2>4, <2>5 DEF Answered
<1>2. CASE Ends(t) /\ Recalls(t)
  <2>1. kept' = kept /\ pc[t] # "idle" /\ number'[t] = 0
    BY <1>2 DEF Ends, Recalls
  <2>2. request[t] \in Requests
    BY <2>1, Planned DEF Orderly
  <2>3. PICK row \in kept :
            /\ row.key = KeyOf(request[t])
            /\ answers' = IF row.payload = Payload(request[t])
                          THEN answers \cup {[number |-> row.number, request |-> request[t]]}
                          ELSE answers
    BY <1>2 DEF Recalls, KeptFor
  <2>4. ASSUME NEW q, q = request[t], row.payload = Payload(q)
        PROVE  Done(q, row.number)'
    <3>1. PICK r \in Requests :
              row.key = KeyOf(r) /\ row.payload = Payload(r) /\ Done(r, row.number)'
      BY AnsweredStays
    <3>2. /\ Steps(r, row.number) = Steps(q, row.number)
          /\ Caller(r).scope = Caller(q).scope
      BY <2>2, <2>3, <2>4, <3>1, SamePayload
    <3> QED
      BY <3>1, <3>2 DEF Done, Took
  <2>5. ASSUME NEW a \in answers'
        PROVE  /\ a.request \in Requests /\ Done(a.request, a.number)'
               /\ a.request.key # NoKey =>
                     \E x \in kept' : x.key = KeyOf(a.request) /\ x.number = a.number
    <3>1. CASE a \in answers
      BY <2>1, <3>1, AnsweredStays
    <3>2. CASE /\ row.payload = Payload(request[t])
               /\ a = [number |-> row.number, request |-> request[t]]
      <4>1. a.number = row.number /\ a.request = request[t]
        BY <3>2
      <4>2. Done(a.request, row.number)'
        BY <2>4, <3>2, <4>1
      <4> QED
        BY <2>1, <2>2, <2>3, <4>1, <4>2
    <3> QED
      BY <2>3, <3>1, <3>2
  <2>6. \A x \in kept' : \E r \in Requests :
            x.key = KeyOf(r) /\ x.payload = Payload(r) /\ Done(r, x.number)'
    BY <2>1, AnsweredStays
  <2>7. \A x, y \in kept' : x.key = y.key => x.number = y.number
    BY <2>1, AnsweredStays
  <2> QED
    BY <2>5, <2>6, <2>7 DEF Answered
<1>3. CASE Ends(t) /\ Finishes(t)
  <2> DEFINE new == [key |-> KeyOf(request[t]), payload |-> Payload(request[t]), number |-> number[t]]
             answer == [number |-> number[t], request |-> request[t]]
  <2>1. /\ pc[t] = "work" /\ answers' = answers \cup {answer}
        /\ kept' = IF request[t].key = NoKey THEN kept ELSE kept \cup {new}
    BY <1>3 DEF Finishes
  <2>2. \A r, n : r = request[t] /\ n = number[t] => r \in Requests /\ Done(r, n)'
    BY <1>3, DoneNow
  <2>3. /\ answer.number = number[t] /\ answer.request = request[t]
        /\ new.key = KeyOf(request[t]) /\ new.payload = Payload(request[t])
        /\ new.number = number[t]
    OBVIOUS
  <2>4. request[t].key # NoKey => \A x \in kept : x.key # new.key
    BY <2>1, <2>3 DEF Orderly, Locked, Holding, KeptFor
  <2> HIDE DEF new, answer
  <2>5. ASSUME NEW a \in answers'
        PROVE  /\ a.request \in Requests /\ Done(a.request, a.number)'
               /\ a.request.key # NoKey =>
                     \E x \in kept' : x.key = KeyOf(a.request) /\ x.number = a.number
    <3>1. CASE a \in answers
      BY <2>1, <3>1, AnsweredStays
    <3>2. CASE a = answer
      BY <2>1, <2>2, <2>3, <3>2
    <3> QED
      BY <2>1, <3>1, <3>2
  <2>6. ASSUME NEW x \in kept'
        PROVE  \E r \in Requests :
                  x.key = KeyOf(r) /\ x.payload = Payload(r) /\ Done(r, x.number)'
    <3>1. CASE x \in kept
      BY <3>1, AnsweredStays
    <3>2. CASE x = new
      BY <2>2, <2>3, <3>2
    <3> QED
      BY <2>1, <3>1, <3>2
  <2>7. \A x, y \in kept' : x.key = y.key => x.number = y.number
    <3>1. \A x, y \in kept : x.key = y.key => x.number = y.number
      BY AnsweredStays
    <3> QED
      BY <2>1, <2>4, <3>1
  <2> QED
    BY <2>5, <2>6, <2>7 DEF Answered
<1>4. Unanswered \/ Ends(t)
  BY DEF Moves, Begins, Looks, Takes, Reads, Pauses, Advances, Raises
<1>5. Ends(t) => Unanswered \/ Recalls(t) \/ Finishes(t)
  BY DEF Ends, Stumbles
<1> QED
  BY <1>1, <1>2, <1>3, <1>4, <1>5

LEMMA AnsweredInductive ==
    /\ Init => Answered
    /\ Orderly /\ Traced /\ Answered /\ [Next]_vars => Answered'
<1>1. Init => Answered
  BY DEF Init, Answered
<1>2. ASSUME Orderly, Answered, Crashes
      PROVE  Answered'
  <2>1. /\ UNCHANGED <<ledger, scoped, executed, received, kept, answers>>
        /\ \A t \in Threads : number'[t] = 0
    BY <1>2 DEF Crashes, Unanswered
  <2>2. received \in Nat
    BY <1>2 DEF Orderly, Serving
  <2>3. \A r, n : Done(r, n) => Done(r, n)'
    BY <2>1, <2>2 DEF Done, Took
  <2>4. /\ \A a \in answers : Done(a.request, a.number)'
        /\ \A row \in kept : \E r \in Requests :
               row.key = KeyOf(r) /\ row.payload = Payload(r) /\ Done(r, row.number)'
    BY <1>2, <2>3 DEF Answered
  <2> QED
    BY <1>2, <2>1, <2>4 DEF Answered
<1>3. ASSUME Answered, UNCHANGED vars
      PROVE  Answered'
  <2>1. UNCHANGED <<ledger, scoped, executed, received, kept, answers, number>>
    BY <1>3, VarsSame
  <2>2. \A r, n : Done(r, n) => Done(r, n)'
    BY <2>1 DEF Done, Took
  <2>3. /\ \A a \in answers : Done(a.request, a.number)'
        /\ \A row \in kept : \E r \in Requests :
               row.key = KeyOf(r) /\ row.payload = Payload(r) /\ Done(r, row.number)'
    BY <1>3, <2>2 DEF Answered
  <2> QED
    BY <1>3, <2>1, <2>3 DEF Answered
<1> QED
  BY <1>1, <1>2, <1>3, AnsweredMove, Classes DEF Orderly

(***************************************************************************)
(* The rows of a key: who wrote them is broken, about to answer, or kept   *)
(* under that key.                                                         *)
(***************************************************************************)
KeyedRow(row) == row.coll \in {"envelopes", "decisions", "plans"} /\ row.key # NoKey
RowKey(row) == <<RouteTo(row.coll), row.scope, row.key>>

InFlight(row, t) ==
    /\ pc[t] = "work" /\ left[t] = << >> /\ number[t] = row.by
    /\ request[t].key # NoKey /\ KeyOf(request[t]) = RowKey(row)

Rooted ==
    /\ \A row \in scoped : KeyedRow(row) =>
          \/ row.by \in broken
          \/ \E t \in Threads : InFlight(row, t)
          \/ \E k \in kept : k.key = RowKey(row) /\ k.number = row.by
    /\ \A x, y \in scoped : KeyedRow(x) /\ KeyedRow(y) /\ x.by = y.by => x = y

LEMMA RootedStays ==
    ASSUME Orderly, Rooted, NEW t \in Threads, Moves(t), NEW row \in scoped, KeyedRow(row)
    PROVE  \/ row.by \in broken'
           \/ \E u \in Threads : InFlight(row, u)'
           \/ \E k \in kept' : k.key = RowKey(row) /\ k.number = row.by
<1>1. CASE row.by \in broken
  BY <1>1, MoveServes DEF Orderly
<1>2. CASE \E k \in kept : k.key = RowKey(row) /\ k.number = row.by
  <2>1. kept \subseteq kept'
    BY DEF Moves, Begins, Looks, Takes, Reads, Pauses, Advances, Ends, Raises, Stumbles, Recalls,
           Finishes, Unanswered
  <2> QED
    BY <1>2, <2>1
<1>3. CASE \E u \in Threads \ {t} : InFlight(row, u)
  <2>1. PICK u \in Threads \ {t} : InFlight(row, u)
    BY <1>3
  <2>2. InFlight(row, u)'
    BY <2>1, OthersStay DEF InFlight, KeyOf, RowKey
  <2> QED
    BY <2>2
<1>4. CASE InFlight(row, t)
  <2>1. Finishes(t)
    BY <1>4 DEF InFlight, Moves, Begins, Looks, Takes, Reads, Pauses, Advances, Ends, Raises,
                Stumbles, Recalls
  <2> DEFINE new == [key |-> KeyOf(request[t]), payload |-> Payload(request[t]), number |-> number[t]]
  <2>2. new \in kept'
    BY <1>4, <2>1 DEF Finishes, InFlight
  <2>3. new.key = RowKey(row) /\ new.number = row.by
    BY <1>4 DEF InFlight
  <2> QED
    BY <2>2, <2>3
<1> QED
  BY <1>1, <1>2, <1>3, <1>4 DEF Rooted

LEMMA RootedMove ==
    ASSUME Orderly, Answered, Rooted, NEW t \in Threads, Moves(t)
    PROVE  Rooted'
<1> DEFINE s == Head(left[t])
           scope == Caller(request[t]).scope
           Roots(row) == \/ row.by \in broken'
                         \/ \E u \in Threads : InFlight(row, u)'
                         \/ \E k \in kept' : k.key = RowKey(row) /\ k.number = row.by
<1>1. \A row \in scoped : KeyedRow(row) => Roots(row)
  BY RootedStays
<1>2. CASE scoped' = scoped
  BY <1>1, <1>2 DEF Rooted
<1>3. CASE scoped' # scoped
  <2>1. Advances(t) /\ s.act = "commit" /\ pc[t] # "idle" /\ left[t] # << >>
    BY <1>3, RestGrows DEF Advances
  <2>2. PICK new :
            /\ scoped' = scoped \cup {new}
            /\ new.coll = s.coll /\ new.scope = scope
            /\ new.by = number[t] /\ new.key = request[t].key
    <3> DEFINE id == RowId({row \in scoped : row.scope = scope}, s)
               x == [coll |-> s.coll, id |-> id, scope |-> scope, by |-> number[t],
                     key |-> request[t].key]
    <3>1. scoped' = scoped \cup {x}
      BY <1>3, <2>1 DEF Advances, Committed
    <3>2. x.coll = s.coll /\ x.scope = scope /\ x.by = number[t] /\ x.key = request[t].key
      OBVIOUS
    <3> QED
      BY <3>1, <3>2
  <2>3. KeyedRow(new) => InFlight(new, t)'
    <3> SUFFICES ASSUME KeyedRow(new)
                 PROVE  InFlight(new, t)'
      OBVIOUS
    <3>1. /\ request[t] \in Requests /\ At(t) \in 1..Len(Plan(t)) /\ s = Plan(t)[At(t)]
      BY <2>1, Planned DEF Orderly
    <3>2. Len(Plan(t)) = 1 /\ request[t].op = RouteTo(s.coll)
      BY <2>1, <2>2, <3>1, CommitSteps DEF Plan, KeyedRow
    <3>3. left'[t] = << >>
      <4>1. Serves(t) /\ left'[t] = Tail(left[t])
        BY <2>1 DEF Orderly, Serving, Advances
      <4>2. IsSeq(left[t]) /\ Len(left[t]) <= 1
        BY <3>2, <4>1 DEF Serves, Follows
      <4> QED
        BY <2>1, <4>1, <4>2, TailOfOne
    <3>4. pc'[t] = "work" /\ number'[t] = number[t] /\ request'[t] = request[t]
      BY <2>1 DEF Advances, Goes
    <3>5. KeyOf(request[t]) = RowKey(new) /\ request[t].key # NoKey
      BY <2>2, <3>2 DEF KeyOf, RowKey, KeyedRow
    <3> QED
      BY <2>2, <3>3, <3>4, <3>5 DEF InFlight
  <2>4. \A row \in scoped : KeyedRow(row) => row.by # new.by
    <3> SUFFICES ASSUME NEW row \in scoped, KeyedRow(row), row.by = number[t]
                 PROVE  FALSE
      BY <2>2
    <3>1. number[t] \notin broken
      BY DEF Orderly, Serving
    <3>2. ~ \E u \in Threads : InFlight(row, u)
      BY <2>1 DEF InFlight, Orderly, Serving
    <3>3. ~ \E k \in kept : k.number = row.by
      BY DEF Answered, Done
    <3> QED
      BY <3>1, <3>2, <3>3 DEF Rooted
  <2>5. \A row \in scoped' : KeyedRow(row) => Roots(row)
    BY <1>1, <2>2, <2>3
  <2>6. \A x, y \in scoped' : KeyedRow(x) /\ KeyedRow(y) /\ x.by = y.by => x = y
    BY <2>2, <2>4 DEF Rooted
  <2> QED
    BY <2>5, <2>6 DEF Rooted
<1> QED
  BY <1>2, <1>3

LEMMA RootedInductive ==
    /\ Init => Rooted
    /\ Orderly /\ Answered /\ Rooted /\ [Next]_vars => Rooted'
<1>1. Init => Rooted
  BY StoredAssumption DEF Init, Rooted, KeyedRow
<1>2. ASSUME Orderly, Rooted, Crashes
      PROVE  Rooted'
  <2>1. /\ broken' = broken \cup {number[t] : t \in Busy}
        /\ scoped' = scoped /\ kept' = kept
    BY <1>2 DEF Crashes, Unanswered
  <2>2. \A row, t : t \in Threads /\ InFlight(row, t) => row.by \in broken'
    BY <2>1 DEF InFlight, Busy
  <2> QED
    BY <1>2, <2>1, <2>2 DEF Rooted
<1>3. ASSUME Rooted, UNCHANGED vars
      PROVE  Rooted'
  BY <1>3, VarsSame DEF Rooted, InFlight, KeyOf, RowKey
<1> QED
  BY <1>1, <1>2, <1>3, RootedMove, Classes DEF Orderly

LEMMA AnswersFollow ==
    ASSUME Orderly, Answered, Rooted
    PROVE  AnswersHold
<1>1. ASSUME NEW a \in answers, NEW b \in answers, SameKey(a.request, b.request)
      PROVE  a.number = b.number
  <2>1. /\ a.request.key # NoKey /\ b.request.key # NoKey
        /\ KeyOf(a.request) = KeyOf(b.request)
    BY <1>1 DEF SameKey, KeyOf
  <2>2. PICK x \in kept : x.key = KeyOf(a.request) /\ x.number = a.number
    BY <2>1 DEF Answered
  <2>3. PICK y \in kept : y.key = KeyOf(b.request) /\ y.number = b.number
    BY <2>1 DEF Answered
  <2> QED
    BY <2>1, <2>2, <2>3 DEF Answered
<1>2. ASSUME NEW a \in answers
      PROVE  /\ \A row \in AppendedBy(a.request, a.number) : row[2] \in IdsIn(ledger[row[1]])
             /\ \A s \in CommittedBy(a.request, a.number) :
                   \E row \in scoped : /\ row.coll = s.coll /\ row.id = s.rec.id
                                       /\ row.scope = Caller(a.request).scope
  <2> DEFINE p == Steps(a.request, a.number)
  <2>1. a.request \in Requests /\ \A k \in 1..Len(p) : Took(p[k], a.request)
    BY DEF Answered, Done
  <2>2. IsSeq(p)
    BY <2>1, StepsMade
  <2>3. DOMAIN p = 1..Len(p)
    BY <2>2, SeqFacts
  <2>4. \A s \in ToSet(p) : Took(s, a.request)
    BY <2>1, <2>3 DEF ToSet
  <2> HIDE DEF p
  <2> QED
    BY <2>4 DEF p, AppendedBy, CommittedBy, Took
<1>3. ASSUME NEW x \in scoped, NEW y \in scoped, x # y, x.coll = y.coll,
             x.coll \in {"envelopes", "decisions", "plans"},
             x.scope = y.scope, x.key = y.key, x.key # NoKey,
             {x.by, y.by} \cap broken = {}
      PROVE  FALSE
  <2>1. /\ KeyedRow(x) /\ KeyedRow(y) /\ RowKey(x) = RowKey(y)
        /\ x.by \notin broken /\ y.by \notin broken /\ x.by # y.by
    BY <1>3 DEF KeyedRow, RowKey, Rooted
  <2>2. ASSUME NEW row, NEW t \in Threads, InFlight(row, t)
        PROVE  keyLock = t /\ number[t] = row.by /\ ~ \E k \in kept : k.key = RowKey(row)
    BY <2>2 DEF InFlight, Orderly, Locked, Holding, KeptFor
  <2>3. ASSUME NEW row \in scoped, NEW other \in scoped, KeyedRow(other),
               other.by \notin broken, RowKey(other) = RowKey(row), other.by # row.by,
               NEW t \in Threads, InFlight(row, t)
        PROVE  FALSE
    <3>1. keyLock = t /\ number[t] = row.by /\ ~ \E k \in kept : k.key = RowKey(row)
      BY <2>2, <2>3
    <3>2. PICK u \in Threads : InFlight(other, u)
      BY <2>3, <3>1 DEF Rooted
    <3>3. keyLock = u /\ number[u] = other.by
      BY <2>2, <3>2
    <3> QED
      BY <2>3, <3>1, <3>3
  <2>4. ~ (\E t \in Threads : InFlight(x, t)) /\ ~ (\E t \in Threads : InFlight(y, t))
    BY <2>1, <2>3
  <2>5. /\ \E k \in kept : k.key = RowKey(x) /\ k.number = x.by
        /\ \E k \in kept : k.key = RowKey(y) /\ k.number = y.by
    BY <2>1, <2>4 DEF Rooted
  <2> QED
    BY <2>1, <2>5 DEF Answered
<1> QED
  BY <1>1, <1>2, <1>3 DEF AnswersHold

\* All the answers to one key of one scope are those of one operation; what an
\* answer tells of is in the ledger; and two new rows under one key are never both
\* of requests that ran to their end.
THEOREM AnswersAlwaysHold == Spec => []AnswersHold
<1> DEFINE Inv == Orderly /\ Traced /\ Answered /\ Rooted
<1>1. Init => Inv
  BY OrderlyInductive, TracedInductive, AnsweredInductive, RootedInductive
<1>2. Inv /\ [Next]_vars => Inv'
  BY OrderlyInductive, TracedInductive, AnsweredInductive, RootedInductive
<1>3. Inv => AnswersHold
  BY AnswersFollow
<1> QED
  BY <1>1, <1>2, <1>3, PTL DEF Spec

(***************************************************************************)
(* What was carried out, and the outcomes that tell of it.                 *)
(***************************************************************************)
Accounted ==
    /\ OutcomesAgree(ledger, executed)
    /\ \A action \in {id \in executed : id[2] = "action"} :
          /\ Allowed(ledger, action)
          /\ \/ action[1] \in broken \cup raised \cup {number[t] : t \in Busy}
             \/ \E outcome \in RowsOf("outcomes") : outcome.about = action

LEMMA AccountedInit ==
    ASSUME Init
    PROVE  Accounted
<1>1. ledger = Opening /\ executed = CarriedOut
  BY DEF Init
<1>2. \A action \in CarriedOut : \E outcome \in RecordsOf(Opening, "outcomes") : outcome.about = action
  BY DEF CarriedOut
<1> QED
  BY <1>1, <1>2, StoredAssumption DEF Accounted, RowsOf

\* A step that carries something out, and one that records an outcome.
LEMMA OutcomesStay ==
    ASSUME Orderly, Traced, OutcomesAgree(ledger, executed), NEW t \in Threads, Moves(t)
    PROVE  OutcomesAgree(ledger, executed)'
<1> DEFINE s == Head(left[t])
<1> SUFFICES ASSUME NEW o \in RecordsOf(ledger', "outcomes")
             PROVE  o.state = "executed" <=> o.about \in executed'
  BY DEF OutcomesAgree
<1>1. Numbered
  BY DEF Traced
<1>2. ASSUME Advances(t) \/ Raises(t)
      PROVE  /\ pc[t] # "idle" /\ request[t] \in Requests
             /\ \A k \in 1..Len(Plan(t)) : StepOf(Plan(t)[k], number[t])
             /\ At(t) \in 1..Len(Plan(t)) /\ s = Plan(t)[At(t)] /\ Behind(t) = 1..(At(t) - 1)
             /\ (\A k \in Behind(t) : Took(Plan(t)[k], request[t])) /\ Owns(t)
  <2>1. pc[t] # "idle" /\ left[t] # << >>
    BY <1>2 DEF Advances, Raises
  <2> QED
    BY <2>1, Planned DEF Orderly, Traced
<1>3. CASE o \in RecordsOf(ledger, "outcomes")
  <2>1. o.state = "executed" <=> o.about \in executed
    BY <1>3 DEF OutcomesAgree
  <2>2. ASSUME o.about \in executed' \ executed
        PROVE  FALSE
    <3>1. (Advances(t) \/ Raises(t)) /\ s.act = "execute" /\ o.about = s.rec.id
      BY <2>2, RestGrows
    <3>2. o.id[1] = number[t]
      BY <1>1, <1>2, <1>3, <3>1 DEF StepOf, Numbered, Names
    <3>3. PICK k \in Behind(t) :
              Plan(t)[k].act \in {"append", "verify"} /\ Plan(t)[k].coll = "outcomes"
      BY <1>2, <1>3, <3>1, <3>2 DEF Owns, Names
    <3>4. k \in 1..Len(Plan(t)) /\ k < At(t) /\ Plan(t)[k].act = "append"
      BY <1>2, <3>1, <3>3 DEF StepOf, Writes
    <3>5. At(t) < k
      <4> DEFINE i == At(t)
      <4>1. i \in 1..Len(Plan(t)) /\ Plan(t)[i].act = "execute" /\ request[t] \in Requests
        BY <1>2, <3>1
      <4> HIDE DEF i
      <4>2. i < k
        BY <3>3, <3>4, <4>1, OutcomeSteps DEF Plan
      <4> QED
        BY <4>2 DEF i
    <3> QED
      BY <1>2, <3>1, <3>4, <3>5
  <2>3. executed \subseteq executed'
    BY RestGrows
  <2> QED
    BY <2>1, <2>2, <2>3
<1>4. CASE Advances(t) /\ s.act \in {"append", "verify"} /\ s.coll = "outcomes" /\ o = s.rec
  <2> DEFINE i == At(t)
             n == number[t]
  <2>1. /\ i \in 1..Len(Plan(t)) /\ Plan(t)[i] = s /\ Behind(t) = 1..(i - 1)
        /\ request[t] \in Requests /\ s.act = "append"
    BY <1>2, <1>4 DEF StepOf, Writes
  <2>2. executed' = executed
    BY <1>4, <2>1 DEF Advances
  <2> HIDE DEF i, s
  <2>3. /\ o.about = Id(n, "action", 1)
        /\ \A j \in 1..Len(Plan(t)) : Plan(t)[j].act = "execute" =>
              j < i /\ Plan(t)[j].rec.id = Id(n, "action", 1)
        /\ o.state = "executed" <=> \E j \in 1..(i - 1) : Plan(t)[j].act = "execute"
    BY <1>4, <2>1, OutcomeSteps DEF Plan
  <2>4. ASSUME NEW j \in 1..(i - 1), Plan(t)[j].act = "execute"
        PROVE  o.about \in executed
    <3>1. j \in 1..Len(Plan(t)) /\ j \in Behind(t) /\ Took(Plan(t)[j], request[t])
      BY <1>2, <1>4, <2>1, <2>4
    <3> QED
      BY <2>3, <2>4, <3>1 DEF Took
  <2>5. ASSUME o.about \in executed
        PROVE  \E j \in 1..(i - 1) : Plan(t)[j].act = "execute"
    <3>1. o.about[1] = number[t]
      BY <2>3 DEF Id
    <3> QED
      BY <1>2, <1>4, <2>1, <2>5, <3>1 DEF Owns
  <2> QED
    BY <2>2, <2>3, <2>4, <2>5
<1>5. o \in RecordsOf(ledger, "outcomes")
      \/ (Advances(t) /\ s.act \in {"append", "verify"} /\ s.coll = "outcomes" /\ o = s.rec)
  BY RecordsGrow DEF Names
<1> QED
  BY <1>3, <1>4, <1>5

\* What is carried out anew has its decision in the ledger, and its request goes on,
\* unless its executor raises.
LEMMA AllowedNow ==
    ASSUME Orderly, Traced, NEW t \in Threads, Moves(t), NEW action \in executed' \ executed,
           action[2] = "action"
    PROVE  /\ Allowed(ledger, action) /\ number[t] = action[1]
           /\ (pc'[t] # "idle" /\ number'[t] = number[t]) \/ number[t] \in raised'
<1> DEFINE s == Head(left[t])
           j == At(t)
<1>1. (Advances(t) \/ Raises(t)) /\ s.act = "execute" /\ action = s.rec.id
  BY RestGrows
<1>2. /\ pc[t] # "idle" /\ left[t] # << >>
      /\ (pc'[t] # "idle" /\ number'[t] = number[t]) \/ number[t] \in raised'
  BY <1>1 DEF Advances, Raises, Goes
<1>3. /\ request[t] \in Requests /\ j \in 1..Len(Plan(t)) /\ s = Plan(t)[j]
      /\ Behind(t) = 1..(j - 1) /\ StepOf(s, number[t])
  BY <1>2, Planned DEF Orderly
<1>4. action[1] = number[t]
  BY <1>1, <1>3 DEF StepOf
<1> HIDE DEF j, s
<1>5. Id(number[t], "ticket", 1)[2] = "ticket"
  BY DEF Id
<1>6. /\ action = Id(number[t], "action", 1)
      /\ \E d \in 1..(j - 1) :
            /\ Plan(t)[d].act = "append" /\ Plan(t)[d].coll = "policy_decisions"
            /\ Plan(t)[d].rec.about = Id(number[t], "action", 1)
            /\ Plan(t)[d].rec.state = "allow"
  BY <1>1, <1>3, <1>5, EffectSteps DEF Plan
<1>7. PICK d \in Behind(t) :
          /\ Plan(t)[d].act = "append" /\ Plan(t)[d].coll = "policy_decisions"
          /\ Plan(t)[d].rec.about = action /\ Plan(t)[d].rec.state = "allow"
  BY <1>3, <1>6
<1>8. Took(Plan(t)[d], request[t])
  BY <1>2 DEF Traced
<1> QED
  BY <1>2, <1>4, <1>7, <1>8 DEF Took, Allowed

\* The request of an action that was carried out does not end before its outcome is
\* recorded, but by a crash, by its executor, or by the write of the outcome.
LEMMA OutcomeBeforeEnd ==
    ASSUME Orderly, Traced, NEW t \in Threads, Moves(t), Ends(t),
           NEW action \in executed, action[2] = "action", action[1] = number[t]
    PROVE  \/ number[t] \in raised'
           \/ \E outcome \in RowsOf("outcomes") : outcome.about = action
<1>1. pc[t] # "idle"
  BY DEF Ends
<1>2. /\ request[t] \in Requests /\ Len(Plan(t)) \in Nat /\ Behind(t) \subseteq 1..Len(Plan(t))
      /\ \A k \in 1..Len(Plan(t)) : StepOf(Plan(t)[k], number[t])
      /\ left[t] # << >> => /\ At(t) \in 1..Len(Plan(t)) /\ Head(left[t]) = Plan(t)[At(t)]
                            /\ Behind(t) = 1..(At(t) - 1)
      /\ left[t] = << >> => Behind(t) = 1..Len(Plan(t))
  BY <1>1, Planned DEF Orderly
<1>3. (\A k \in Behind(t) : Took(Plan(t)[k], request[t])) /\ Owns(t)
  BY <1>1 DEF Traced
<1>4. PICK j \in Behind(t) : Plan(t)[j].act = "execute" /\ Plan(t)[j].rec.id = action
  BY <1>3 DEF Owns
<1>5. j \in 1..Len(Plan(t))
  BY <1>2
<1>6. Id(number[t], "ticket", 1)[2] = "ticket"
  BY DEF Id
<1>7. /\ request[t].op = "run" /\ action = Id(number[t], "action", 1)
      /\ Len(Plan(t)) = j + 1
      /\ Plan(t)[j + 1].act = "append" /\ Plan(t)[j + 1].coll = "outcomes"
      /\ Plan(t)[j + 1].rec.about = Id(number[t], "action", 1)
      /\ \A k \in 1..j : Plan(t)[k].act = "append" => Plan(t)[k].coll # "outcomes"
  <2>1. \/ Plan(t)[j].rec.id = Id(number[t], "ticket", 1)
        \/ /\ request[t].op = "run" /\ Plan(t)[j].rec.id = Id(number[t], "action", 1)
           /\ Len(Plan(t)) = j + 1
           /\ Plan(t)[j + 1].act = "append" /\ Plan(t)[j + 1].coll = "outcomes"
           /\ Plan(t)[j + 1].rec.about = Id(number[t], "action", 1)
           /\ \A k \in 1..j : Plan(t)[k].act = "append" => Plan(t)[k].coll # "outcomes"
    <3>1. request[t] \in Requests
      BY <1>2
    <3> QED
      BY <1>4, <1>5, <3>1, EffectSteps DEF Plan
  <2> QED
    BY <1>4, <1>6, <2>1
<1>8. CASE left[t] = << >>
  <2>1. j + 1 \in Behind(t)
    BY <1>2, <1>5, <1>7, <1>8
  <2> QED
    BY <1>3, <1>7, <2>1 DEF Took, RowsOf
<1>9. CASE left[t] # << >>
  <2>1. At(t) = j + 1 /\ Head(left[t]) = Plan(t)[j + 1] /\ Behind(t) = 1..j
    BY <1>2, <1>5, <1>7, <1>9
  <2>2. pc[t] \notin {"look", "acquire"}
    <3> SUFFICES ASSUME pc[t] \in {"look", "acquire"}
                 PROVE  FALSE
      OBVIOUS
    <3>1. left[t] = Plan(t)
      BY <1>1 DEF Orderly, Serving, Serves
    <3>2. Behind(t) = {}
      BY <1>2, <3>1 DEF Behind
    <3> QED
      BY <3>2
  <2> QED
    BY <1>7, <1>9, <2>1, <2>2 DEF Ends, Stumbles, Recalls, Finishes
<1> QED
  BY <1>8, <1>9

LEMMA AccountedMove ==
    ASSUME Orderly, Traced, Accounted, NEW t \in Threads, Moves(t)
    PROVE  Accounted'
<1>1. OutcomesAgree(ledger, executed)'
  BY OutcomesStay DEF Accounted
<1>2. ASSUME NEW action \in executed', action[2] = "action"
      PROVE  /\ Allowed(ledger', action)
             /\ \/ action[1] \in broken' \cup raised' \cup {number'[u] : u \in Busy'}
                \/ \E outcome \in RecordsOf(ledger', "outcomes") : outcome.about = action
  <2>1. Allowed(ledger, action) => Allowed(ledger', action)
    BY RecordsGrow DEF Allowed, Names
  <2>2. (\E outcome \in RecordsOf(ledger, "outcomes") : outcome.about = action)
        => \E outcome \in RecordsOf(ledger', "outcomes") : outcome.about = action
    BY RecordsGrow DEF Names
  <2>3. CASE action \notin executed
    <3>1. /\ Allowed(ledger, action)
          /\ (number'[t] = action[1] /\ pc'[t] # "idle") \/ action[1] \in raised'
      BY <1>2, <2>3, AllowedNow
    <3> QED
      BY <2>1, <3>1 DEF Busy
  <2>4. CASE action \in executed
    <3>1. /\ Allowed(ledger, action)
          /\ \/ action[1] \in broken \cup raised
             \/ \E u \in Busy : action[1] = number[u]
             \/ \E outcome \in RecordsOf(ledger, "outcomes") : outcome.about = action
      BY <1>2, <2>4 DEF Accounted, RowsOf
    <3>2. broken' = broken /\ raised \subseteq raised'
      BY MoveServes DEF Orderly, Moves
    <3>3. ASSUME NEW u \in Busy, action[1] = number[u], u # t
          PROVE  action[1] \in {number'[v] : v \in Busy'}
      BY <3>3, OthersStay DEF Busy
    <3>4. ASSUME t \in Busy, action[1] = number[t], ~ Ends(t)
          PROVE  action[1] \in {number'[v] : v \in Busy'} \/ action[1] \in raised'
      BY <3>4 DEF Busy, Moves, Begins, Looks, Takes, Reads, Pauses, Advances, Raises, Goes
    <3>5. ASSUME action[1] = number[t], Ends(t)
          PROVE  \/ action[1] \in raised'
                 \/ \E outcome \in RecordsOf(ledger, "outcomes") : outcome.about = action
      BY <1>2, <2>4, <3>5, OutcomeBeforeEnd DEF RowsOf
    <3> QED
      BY <2>1, <2>2, <3>1, <3>2, <3>3, <3>4, <3>5
  <2> QED
    BY <2>3, <2>4
<1> QED
  BY <1>1, <1>2 DEF Accounted, RowsOf

LEMMA AccountedInductive ==
    /\ Init => Accounted
    /\ Orderly /\ Traced /\ Accounted /\ [Next]_vars => Accounted'
<1>1. ASSUME Accounted, Crashes
      PROVE  Accounted'
  <2>1. /\ UNCHANGED <<ledger, executed, raised>> /\ broken' = broken \cup {number[t] : t \in Busy}
    BY <1>1 DEF Crashes
  <2> QED
    BY <1>1, <2>1 DEF Accounted, RowsOf, OutcomesAgree, Allowed, RecordsOf
<1>2. ASSUME Accounted, UNCHANGED vars
      PROVE  Accounted'
  BY <1>2, VarsSame DEF Accounted, RowsOf, OutcomesAgree, Allowed, RecordsOf, Busy
<1> QED
  BY <1>1, <1>2, AccountedInit, AccountedMove, Classes DEF Orderly

\* An action that was carried out has the decision that allows it in the ledger, and
\* its outcome too unless its request is still served, or was ended by a crash, by an
\* executor that raises, or by a write of the outcome that does; outcomes say what was
\* done; and a ticket of the sandbox has two different people behind it.
THEOREM ExecutionIsAccountedFor == Spec => []ExecutionAccountedFor
<1> DEFINE Inv == Orderly /\ Traced /\ Answered /\ Accounted
<1>1. Init => Inv
  BY OrderlyInductive, TracedInductive, AnsweredInductive, AccountedInductive
<1>2. Inv /\ [Next]_vars => Inv'
  BY OrderlyInductive, TracedInductive, AnsweredInductive, AccountedInductive
<1>3. Inv => ExecutionAccountedFor
  <2> SUFFICES ASSUME Inv
               PROVE  ExecutionAccountedFor
    OBVIOUS
  <2>1. ASSUME NEW a \in answers, a.request.op = "sandbox", Id(a.number, "ticket", 1) \in executed
        PROVE  \E i, j \in DOMAIN a.request.approvals :
                  a.request.approvals[i] # a.request.approvals[j]
    <3> DEFINE r == a.request
               n == a.number
    <3>1. r \in Requests /\ Done(r, n)
      BY DEF Answered
    <3>2. PICK k \in 1..Len(Steps(r, n)) : Steps(r, n)[k].act = "execute"
      BY <2>1, <3>1 DEF Done, Id
    <3>3. r.op = "sandbox"
      BY <2>1
    <3> HIDE DEF r, n
    <3>4. Authorized(r)
      BY <3>1, <3>2, <3>3, EffectSteps
    <3>5. \E i, j \in DOMAIN r.approvals : r.approvals[i] # r.approvals[j]
      BY <3>1, <3>3, <3>4, TwoApprovers
    <3> QED
      BY <3>5 DEF r
  <2>2. {number[t] : t \in Busy} \subseteq {number[t] : t \in Threads}
    BY DEF Busy
  <2> QED
    BY <2>1, <2>2 DEF Accounted, ExecutionAccountedFor
<1> QED
  BY <1>1, <1>2, <1>3, PTL DEF Spec

(***************************************************************************)
(* A snapshot while others write.                                          *)
(***************************************************************************)
Reach(t, c) == Page(ledger[c], Caller(request[t]).scope)

\* What the snapshot has of what explains this claim.
Tells(t, claim) ==
    /\ claim.refs \subseteq IdsIn(ledger["evidence"])
    /\ 2 \in Behind(t) =>
          \A e \in Reach(t, "evidence") : e.id \in claim.refs => e \in copy[t]["evidence"]
    /\ claim.state # "proposed" =>
          \E v \in RecordsOf(ledger, "verifications") :
              /\ v.about = claim.id /\ v.state = claim.state
              /\ 3 \in Behind(t) /\ v \in Reach(t, "verifications")
                 => v \in copy[t]["verifications"]

Explains(t) ==
    1 \in Behind(t) =>
        /\ copy[t] = [c \in Names |-> copy[t][c]]
        /\ \A claim \in copy[t]["claims"] : Tells(t, claim)

Snapshots == \A t \in Threads : pc[t] # "idle" /\ request[t].op = "snapshot" => Explains(t)

\* The row i is on the page of the scope.
OnPage(rows, scope, i) ==
    /\ rows[i].rec.scope = scope
    /\ Cardinality({k \in 1..i : rows[k].rec.scope = scope}) <= MaxQuery

LEMMA PageOf ==
    ASSUME NEW rows, NEW scope
    PROVE  Page(rows, scope) = {rows[i].rec : i \in {i \in 1..Len(rows) : OnPage(rows, scope, i)}}
BY DEF Page, OnPage

\* A collection whose records stay as they are gives a later reader of its page
\* nothing else than an earlier one, but what was appended since.
LEMMA PageAfter ==
    ASSUME NEW book, AreChained(book), NEW s, Writes(s), NEW c \in Names, c # "claims",
           NEW scope, NEW rec \in Page(After(book, s)[c], scope)
    PROVE  rec \in Page(book[c], scope) \/ (c = s.coll /\ rec = s.rec)
<1> DEFINE new == After(book, s)[c]
           old == book[c]
           n == Len(old)
<1>1. /\ n \in Nat
      /\ Len(new) = IF c = s.coll THEN n + 1 ELSE n
      /\ c = s.coll => new[n + 1].rec = s.rec
  BY AfterBook, BookRows DEF AreChained
<1>2. \A i \in 1..n : new[i].rec = old[i].rec
  BY AfterBook DEF Still
<1>3. PICK i \in 1..Len(new) : new[i].rec = rec /\ OnPage(new, scope, i)
  BY PageOf
<1> HIDE DEF new, old, n
<1>4. CASE i \in 1..n
  <2>1. \A k \in 1..i : k \in 1..n
    BY <1>1, <1>4
  <2>2. {k \in 1..i : new[k].rec.scope = scope} = {k \in 1..i : old[k].rec.scope = scope}
    BY <1>2, <2>1
  <2>3. OnPage(old, scope, i)
    BY <1>2, <1>3, <1>4, <2>2 DEF OnPage
  <2>4. rec \in Page(old, scope)
    BY <1>2, <1>3, <1>4, <2>3, PageOf DEF n
  <2> QED
    BY <2>4 DEF old
<1>5. CASE i \notin 1..n
  BY <1>1, <1>3, <1>5
<1> QED
  BY <1>4, <1>5

\* What comes to be in reach, while others write, was not in the ledger before.
LEMMA PageStays ==
    ASSUME Orderly, NEW t \in Threads, Moves(t), NEW c \in {"evidence", "verifications"}, NEW scope,
           NEW rec \in Page(ledger'[c], scope), rec.id \in IdsIn(ledger[c])
    PROVE  rec \in Page(ledger[c], scope)
<1>1. CASE ledger' = ledger
  BY <1>1
<1>2. CASE ledger' # ledger
  <2> DEFINE s == Head(left[t])
  <2>1. /\ Advances(t) /\ pc[t] = "write" /\ s.act \in {"append", "verify"}
        /\ Accepts(ledger, s) /\ ledger' = After(ledger, s)
    BY <1>2, LedgerMoves DEF Orderly
  <2>2. Writes(s) /\ AreChained(ledger)
    BY <2>1, WriterWrites DEF Advances, Orderly
  <2> HIDE DEF s
  <2>3. rec \in Page(ledger[c], scope) \/ (c = s.coll /\ rec = s.rec)
    BY <2>1, <2>2, PageAfter DEF Names
  <2>4. c = s.coll => s.rec.id \notin IdsIn(ledger[c])
    BY <2>1, <2>2 DEF Accepts, Writes
  <2> QED
    BY <2>3, <2>4
<1> QED
  BY <1>1, <1>2

LEMMA PageRecords ==
    ASSUME Orderly, NEW c \in Names, NEW scope
    PROVE  Page(ledger[c], scope) \subseteq RecordsOf(ledger, c)
<1>1. DOMAIN ledger[c] = 1..Len(ledger[c])
  BY BookRows DEF Orderly, AreChained
<1> QED
  BY <1>1, PageOf DEF RecordsOf

\* The status of a claim that was judged is that of the last verification of it.
LEMMA StatusGiven ==
    ASSUME Orderly, Explained, NEW claim \in RecordsOf(ledger, "claims"), claim.state # "proposed"
    PROVE  \E v \in RecordsOf(ledger, "verifications") : v.about = claim.id /\ v.state = claim.state
<1> DEFINE judged == ledger["verifications"]
           n == Len(judged)
           about == {i \in DOMAIN judged : judged[i].rec.about = claim.id}
<1>1. n \in Nat /\ DOMAIN judged = 1..n
  BY BookRows DEF Orderly, AreChained, Names
<1>2. \E v \in RecordsOf(ledger, "verifications") : v.about = claim.id
  BY DEF Explained, ClaimsExplained
<1>3. about # {} /\ about \in SUBSET (1..n)
  BY <1>1, <1>2 DEF RecordsOf
<1>4. \A i \in about : (\A j \in about : j <= i) => claim.state = judged[i].rec.state
  BY DEF Explained, ClaimsFollow
<1>5. \A i \in about : judged[i].rec.about = claim.id /\ judged[i].rec \in RecordsOf(ledger, "verifications")
  BY DEF RecordsOf
<1> HIDE DEF judged, n, about
<1>6. PICK i \in about : \A j \in about : i >= j
  BY <1>1, <1>3, GreatestElement
<1>7. \A j \in about : j <= i
  BY <1>1, <1>3, <1>6
<1> QED
  BY <1>4, <1>5, <1>7

\* It stays true of a snapshot that does not advance.
LEMMA ExplainsStays ==
    ASSUME Orderly, NEW t \in Threads, Moves(t), NEW u \in Threads, Explains(u),
           Behind(u)' = Behind(u), copy'[u] = copy[u], request'[u] = request[u]
    PROVE  Explains(u)'
<1>1. /\ IdsIn(ledger["evidence"]) \subseteq IdsIn(ledger'["evidence"])
      /\ RecordsOf(ledger, "verifications") \subseteq RecordsOf(ledger', "verifications")
  BY RecordsGrow DEF Names
<1>2. \A c \in {"evidence", "verifications"} : \A rec \in Reach(u, c)' :
          rec.id \in IdsIn(ledger[c]) => rec \in Reach(u, c)
  BY PageStays DEF Reach
<1>3. \A v \in RecordsOf(ledger, "verifications") : v.id \in IdsIn(ledger["verifications"])
  BY DEF RecordsOf, IdsIn
<1>4. ASSUME 1 \in Behind(u), NEW claim \in copy[u]["claims"]
      PROVE  Tells(u, claim)'
  <2>1. /\ claim.refs \subseteq IdsIn(ledger["evidence"])
        /\ 2 \in Behind(u) => \A e \in Reach(u, "evidence") :
                                  e.id \in claim.refs => e \in copy[u]["evidence"]
        /\ claim.state # "proposed" =>
              \E v \in RecordsOf(ledger, "verifications") :
                  /\ v.about = claim.id /\ v.state = claim.state
                  /\ 3 \in Behind(u) /\ v \in Reach(u, "verifications")
                     => v \in copy[u]["verifications"]
    BY <1>4 DEF Explains, Tells
  <2>2. claim.refs \subseteq IdsIn(ledger'["evidence"])
    BY <1>1, <2>1
  <2>3. 2 \in Behind(u) => \A e \in Reach(u, "evidence")' :
                               e.id \in claim.refs => e \in copy[u]["evidence"]
    BY <1>2, <2>1
  <2>4. claim.state # "proposed" =>
            \E v \in RecordsOf(ledger', "verifications") :
                /\ v.about = claim.id /\ v.state = claim.state
                /\ 3 \in Behind(u) /\ v \in Reach(u, "verifications")'
                   => v \in copy[u]["verifications"]
    BY <1>1, <1>2, <1>3, <2>1
  <2> QED
    BY <2>2, <2>3, <2>4 DEF Tells
<1>5. 1 \in Behind(u) => copy[u] = [c \in Names |-> copy[u][c]]
  BY DEF Explains
<1> QED
  BY <1>4, <1>5 DEF Explains

LEMMA SnapshotAdvances ==
    ASSUME Orderly, Explained, NEW t \in Threads, Moves(t), Explains(t), pc[t] # "idle",
           request[t].op = "snapshot", Advances(t), left[t] # << >>
    PROVE  Explains(t)'
<1> DEFINE s == Head(left[t])
           old == copy[t]
           now == copy'[t]
           b == Behind(t)
<1>1. /\ request[t] \in Requests /\ At(t) \in 1..Len(Plan(t)) /\ s = Plan(t)[At(t)]
      /\ b = 1..(At(t) - 1)
  BY Planned DEF Orderly
<1>2. At(t) \in 1..6 /\ s = Show(Collections[At(t)])
  BY <1>1, SnapshotSteps DEF Plan
<1>3. /\ s.act = "list" /\ s.coll = Collections[At(t)]
      /\ s.coll \in Names
      /\ At(t) = 1 <=> s.coll = "claims"
      /\ At(t) = 2 <=> s.coll = "evidence"
      /\ At(t) = 3 <=> s.coll = "verifications"
  <2>1. /\ Collections[1] = "claims" /\ Collections[2] = "evidence"
        /\ Collections[3] = "verifications" /\ Collections[4] = "actions"
        /\ Collections[5] = "policy_decisions" /\ Collections[6] = "outcomes"
    BY <1>1, SnapshotSteps
  <2>2. s.act = "list" /\ s.coll = Collections[At(t)]
    BY <1>2 DEF Show
  <2> HIDE DEF s
  <2> QED
    BY <1>2, <2>1, <2>2 DEF Names
<1>4. /\ ledger' = ledger /\ request'[t] = request[t]
      /\ now = [c \in Names |-> IF c = s.coll THEN Reach(t, c) ELSE IF old = Nothing THEN {} ELSE old[c]]
  BY <1>3, CollectionNames DEF Advances, Listed, Goes, Reach
<1>5. Behind(t)' = 1..At(t)
  <2>1. pc'[t] # "idle" /\ ~ Begins(t) /\ left'[t] = Tail(left[t])
    BY DEF Advances, Begins
  <2>2. IsSeq(left[t])
    BY DEF Orderly, Serving, Serves, Follows
  <2>3. left'[t] # left[t]
    BY <2>1, <2>2, TailShorter
  <2>4. Behind(t)' = Behind(t) \cup {At(t)}
    BY <2>1, <2>3, Going DEF Orderly
  <2> HIDE DEF s
  <2> QED
    BY <1>1, <1>2, <2>4
<1>6. \A c : Reach(t, c)' = Reach(t, c)
  BY <1>4 DEF Reach
<1> HIDE DEF s, old, now
<1>7. CASE At(t) = 1
  <2>1. now["claims"] = Reach(t, "claims") /\ 1 \in Behind(t)' /\ 2 \notin Behind(t)' /\ 3 \notin Behind(t)'
    BY <1>3, <1>4, <1>5, <1>7 DEF Names
  <2>2. \A claim \in now["claims"] : claim \in RecordsOf(ledger, "claims")
    BY <2>1, PageRecords DEF Reach, Names
  <2>3. now = [c \in Names |-> now[c]]
    BY <1>4
  <2>4. ASSUME NEW claim \in now["claims"]
        PROVE  Tells(t, claim)'
    <3>1. /\ claim.refs \subseteq IdsIn(ledger["evidence"])
          /\ claim.state # "proposed" =>
                \E v \in RecordsOf(ledger, "verifications") :
                    v.about = claim.id /\ v.state = claim.state
      BY <2>2, StatusGiven DEF Explained, ClaimsExplained
    <3> QED
      BY <1>4, <2>1, <3>1 DEF Tells
  <2> QED
    BY <2>1, <2>3, <2>4 DEF Explains, now
<1>8. CASE At(t) # 1
  <2>1. /\ 1 \in b /\ 1 \in Behind(t)' /\ 2 \in Behind(t)'
        /\ 2 \in b <=> At(t) >= 3
        /\ 3 \in b <=> At(t) >= 4
        /\ 3 \in Behind(t)' <=> At(t) >= 3
    BY <1>1, <1>2, <1>5, <1>8
  <2>2. /\ old = [c \in Names |-> old[c]]
        /\ \A claim \in old["claims"] :
              /\ claim.refs \subseteq IdsIn(ledger["evidence"])
              /\ 2 \in b => \A e \in Reach(t, "evidence") : e.id \in claim.refs => e \in old["evidence"]
              /\ claim.state # "proposed" =>
                    \E v \in RecordsOf(ledger, "verifications") :
                        /\ v.about = claim.id /\ v.state = claim.state
                        /\ 3 \in b /\ v \in Reach(t, "verifications") => v \in old["verifications"]
    BY <2>1 DEF Explains, Tells, old
  <2>3. old # Nothing
    <3>1. DOMAIN old = Names
      BY <2>2
    <3>2. DOMAIN Nothing = 1..0
      BY NoStep, SeqFacts DEF Nothing
    <3> QED
      BY <3>1, <3>2 DEF Names
  <2>4. /\ now = [c \in Names |-> now[c]]
        /\ now["claims"] = old["claims"]
        /\ now["evidence"] = IF At(t) = 2 THEN Reach(t, "evidence") ELSE old["evidence"]
        /\ now["verifications"] = IF At(t) = 3 THEN Reach(t, "verifications") ELSE old["verifications"]
    BY <1>3, <1>4, <1>8, <2>3 DEF Names
  <2> HIDE DEF b
  <2>5. ASSUME NEW claim \in now["claims"]
        PROVE  /\ claim.refs \subseteq IdsIn(ledger["evidence"])
               /\ \A e \in Reach(t, "evidence") : e.id \in claim.refs => e \in now["evidence"]
               /\ claim.state # "proposed" =>
                     \E v \in RecordsOf(ledger, "verifications") :
                         /\ v.about = claim.id /\ v.state = claim.state
                         /\ 3 \in Behind(t)' /\ v \in Reach(t, "verifications")
                            => v \in now["verifications"]
    <3>1. claim \in old["claims"]
      BY <2>4
    <3>2. claim.refs \subseteq IdsIn(ledger["evidence"])
      BY <2>2, <3>1
    <3>3. \A e \in Reach(t, "evidence") : e.id \in claim.refs => e \in now["evidence"]
      <4>1. CASE At(t) = 2
        BY <2>4, <4>1
      <4>2. CASE At(t) >= 3
        <5>1. 2 \in b /\ now["evidence"] = old["evidence"]
          BY <1>2, <2>1, <2>4, <4>2
        <5> QED
          BY <2>2, <3>1, <5>1
      <4> QED
        BY <1>2, <1>8, <4>1, <4>2
    <3>4. At(t) >= 3 => At(t) = 3 \/ At(t) >= 4
      BY <1>2
    <3>5. ASSUME claim.state # "proposed"
          PROVE  \E v \in RecordsOf(ledger, "verifications") :
                     /\ v.about = claim.id /\ v.state = claim.state
                     /\ 3 \in Behind(t)' /\ v \in Reach(t, "verifications")
                        => v \in now["verifications"]
      <4>1. PICK v \in RecordsOf(ledger, "verifications") :
                /\ v.about = claim.id /\ v.state = claim.state
                /\ 3 \in b /\ v \in Reach(t, "verifications") => v \in old["verifications"]
        BY <2>2, <3>1, <3>5
      <4>2. 3 \in Behind(t)' /\ v \in Reach(t, "verifications") => v \in now["verifications"]
        BY <2>1, <2>4, <3>4, <4>1
      <4> QED
        BY <4>1, <4>2
    <3> QED
      BY <3>2, <3>3, <3>5
  <2>6. ASSUME NEW claim \in now["claims"]
        PROVE  Tells(t, claim)'
    BY <1>4, <1>6, <2>5 DEF Tells, now
  <2>7. \A claim \in copy'[t]["claims"] : Tells(t, claim)'
    BY <2>6 DEF now
  <2>8. copy'[t] = [c \in Names |-> copy'[t][c]]
    BY <2>4 DEF now
  <2> QED
    BY <2>7, <2>8 DEF Explains
<1> QED
  BY <1>7, <1>8

LEMMA SnapshotsInductive ==
    /\ Init => Snapshots
    /\ Orderly /\ Explained /\ Snapshots /\ [Next]_vars => Snapshots'
<1>1. Init => Snapshots
  BY DEF Init, Snapshots
<1>2. ASSUME Orderly, Explained, Snapshots, NEW t \in Threads, Moves(t),
             NEW u \in Threads, pc'[u] # "idle", request'[u].op = "snapshot"
      PROVE  Explains(u)'
  <2>1. CASE u # t
    <3>1. /\ pc[u] # "idle" /\ request[u].op = "snapshot" /\ Behind(u)' = Behind(u)
          /\ copy'[u] = copy[u] /\ request'[u] = request[u]
      BY <1>2, <2>1, OthersStay DEF Moves, Alone
    <3> QED
      BY <1>2, <3>1, ExplainsStays DEF Snapshots
  <2>2. CASE u = t /\ Begins(t) /\ Behind(t)' = {}
    BY <2>2 DEF Explains
  <2>3. CASE u = t /\ pc[t] # "idle" /\ Goes(t) /\ ~ Advances(t) /\ Behind(t)' = Behind(t)
    <3>1. request[t].op = "snapshot" /\ Explains(t) /\ request'[t] = request[t]
      BY <1>2, <2>3 DEF Goes, Snapshots
    <3>2. ~ Reads(t)
      <4> SUFFICES ASSUME Reads(t)
                   PROVE  FALSE
        OBVIOUS
      <4>1. left[t] # << >> /\ Head(left[t]).act \in {"append", "verify"}
        BY DEF Reads
      <4>2. request[t] \in Requests /\ At(t) \in 1..Len(Plan(t)) /\ Head(left[t]) = Plan(t)[At(t)]
        BY <1>2, <2>3, <4>1, Planned DEF Orderly
      <4>3. Len(Plan(t)) = 6 /\ \A i \in 1..6 : Plan(t)[i] = Show(Collections[i])
        BY <3>1, <4>2, SnapshotSteps DEF Plan
      <4> QED
        BY <4>1, <4>2, <4>3 DEF Show
    <3>3. copy'[t] = copy[t]
      BY <1>2, <2>3, <3>2 DEF Moves, Begins, Looks, Takes, Pauses, Ends, Raises
    <3> QED
      BY <1>2, <2>3, <3>1, <3>3, ExplainsStays
  <2>4. CASE u = t /\ pc[t] # "idle" /\ Advances(t)
    <3>1. request[t].op = "snapshot" /\ left[t] # << >>
      BY <1>2, <2>4 DEF Advances, Goes
    <3> QED
      BY <1>2, <2>4, <3>1, SnapshotAdvances DEF Snapshots
  <2> QED
    BY <1>2, <2>1, <2>2, <2>3, <2>4, Going DEF Orderly
<1>3. ASSUME Orderly, Crashes
      PROVE  Snapshots'
  BY <1>3 DEF Crashes, Snapshots
<1>4. ASSUME Snapshots, UNCHANGED vars
      PROVE  Snapshots'
  BY <1>4, VarsSame DEF Snapshots, Explains, Tells, Behind, Plan, Reach, RecordsOf
<1> QED
  BY <1>1, <1>2, <1>3, <1>4, Classes DEF Orderly, Snapshots

\* snapshot lists the claims first: with each that it tells of come its evidence and
\* the verification that gave it its status, whatever others write meanwhile, as far
\* as a query of that scope reaches.
THEOREM SnapshotsExplainClaims == Spec => []SnapshotExplainsClaims
<1> DEFINE Inv == Orderly /\ Explained /\ Snapshots
<1>1. Init => Inv
  BY OrderlyInductive, ExplainedInductive, SnapshotsInductive
<1>2. Inv /\ [Next]_vars => Inv'
  BY OrderlyInductive, ExplainedInductive, SnapshotsInductive
<1>3. Inv => SnapshotExplainsClaims
  <2> SUFFICES ASSUME Inv, NEW t \in Threads, pc[t] = "work", request[t].op = "snapshot",
                      left[t] = << >>
               PROVE  \A claim \in copy[t]["claims"] :
                         /\ \A e \in Reach(t, "evidence") :
                               e.id \in claim.refs => e \in copy[t]["evidence"]
                         /\ claim.state # "proposed" =>
                               \E v \in RowsOf("verifications") :
                                   /\ v.about = claim.id /\ v.state = claim.state
                                   /\ v \in Reach(t, "verifications") => v \in copy[t]["verifications"]
    BY DEF SnapshotExplainsClaims, Reach
  <2>1. Behind(t) = 1..6
    <3>1. request[t] \in Requests /\ Behind(t) = 1..Len(Plan(t))
      BY Planned DEF Orderly
    <3> QED
      BY <3>1, SnapshotSteps DEF Plan
  <2>2. 1 \in Behind(t) /\ 2 \in Behind(t) /\ 3 \in Behind(t)
    BY <2>1
  <2>3. Explains(t)
    BY DEF Snapshots
  <2> QED
    BY <2>2, <2>3 DEF Explains, Tells, RowsOf
<1> QED
  BY <1>1, <1>2, <1>3, PTL DEF Spec
=============================================================================
