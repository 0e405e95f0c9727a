-------------------------- MODULE VectorStoreProofs --------------------------
(***************************************************************************)
(* The invariants of VectorStore, for any number of calls, any documents,  *)
(* filters and rights, with and without saveMetadata.                      *)
(***************************************************************************)
EXTENDS VectorStore, TLAPS

USE DEF addVars, searchVars, Inserting, More

------------------------------------------------------------------------------
(* Rows and the statement that selects them.                               *)

\* The row of a document is a row of the table's type.
LEMMA RowType ==
  ASSUME NEW c \in Adds, NEW b \in Batches, NEW i \in 1 .. Len(b.docs)
  PROVE  Row(c, b, i) \in Rows /\ Row(c, b, i).call = c /\ Row(c, b, i).pos = i
<1>1. b \in BatchType /\ b.docs \in Seq(Documents) /\ b.options \in {Null} \cup Values
  BY StoreAssumption DEF BatchType
<1>2. b.docs[i] \in Documents
  BY <1>1
<1>3. Metadata(b, i) \in Values
  BY <1>1, <1>2 DEF Metadata, Documents
<1> QED BY <1>2, <1>3 DEF Row, Rows, Values, Documents

\* The statement selects what the question wants, as long as there is at most
\* one tag in it.
LEMMA SelectedIsWanted ==
  ASSUME TypeOK, NEW q \in Asks, NEW r \in Rows
  PROVE  Wanted(q, r) => Selected(q, r)
<1>1. q \in AskType
  BY StoreAssumption
<1>2. q.tags \in Seq(Tags) /\ q.roles \in SUBSET Roles
  BY <1>1 DEF AskType
<1>3. SUFFICES ASSUME Wanted(q, r) PROVE Selected(q, r)
  OBVIOUS
<1>4. Permitted(q, r)
  BY <1>3 DEF Wanted, Permitted, Parent
<1>5. Tagged(q, r)
  <2>1. CASE q.tags = <<>>
    BY <2>1 DEF Tagged
  <2>2. CASE q.tags # <<>>
    <3>1. /\ r.doc # Null /\ parents[r.doc] # Null /\ parents[r.doc].tags # Null
      BY <1>3, <2>2 DEF Wanted
    <3>2. PICK k \in 1 .. Len(q.tags) : q.tags[k] \in parents[r.doc].tags
      BY <1>3, <2>2 DEF Wanted
    <3>3. q.tags[k] \in Range(q.tags)
      BY <1>2, <3>2 DEF Range
    <3> QED BY <3>1, <3>2, <3>3 DEF Tagged, Parent
  <2> QED BY <2>1, <2>2
<1> QED BY <1>3, <1>4, <1>5 DEF Selected, Wanted

\* A row of the table is that of a document of its call, none beyond the next.
LEMMA RowFacts ==
  ASSUME IInv, NEW r \in table
  PROVE  /\ r.call \in Adds /\ r.pos \in Nat \ {0} /\ next[r.call] \in Nat
         /\ batch[r.call] \in Batches /\ Len(batch[r.call].docs) \in Nat
         /\ r = Row(r.call, batch[r.call], r.pos)
         /\ r.pos \in 1 .. Len(batch[r.call].docs)
         /\ r.pos >= next[r.call] => r.pos = next[r.call] /\ addAt[r.call] = "ended"
<1>1. /\ r.call \in Adds /\ r.pos \in Nat \ {0} /\ next[r.call] \in Nat
      /\ batch[r.call] \in Batches /\ Len(batch[r.call].docs) \in Nat
  BY StoreAssumption DEF IInv, TypeOK, Rows, BatchType
<1>2. \A q \in table :
        /\ q = Row(q.call, batch[q.call], q.pos) /\ q.pos <= Len(batch[q.call].docs)
        /\ q.pos >= next[q.call] => q.pos = next[q.call] /\ addAt[q.call] = "ended"
  BY Zenon DEF IInv, RowsOfCalls
<1>3. /\ r = Row(r.call, batch[r.call], r.pos) /\ r.pos <= Len(batch[r.call].docs)
      /\ r.pos >= next[r.call] => r.pos = next[r.call] /\ addAt[r.call] = "ended"
  BY <1>2, Zenon
<1>4. r.pos \in 1 .. Len(batch[r.call].docs)
  BY <1>1, <1>3
<1> QED BY <1>1, <1>3, <1>4

\* The documents before the next one are there.
LEMMA StoredSoFar ==
  ASSUME IInv, NEW c \in Adds, NEW i \in 1 .. next[c] - 1
  PROVE  Row(c, batch[c], i) \in table
<1>1. \A a \in Adds : \A j \in 1 .. next[a] - 1 : Row(a, batch[a], j) \in table
  BY Zenon DEF IInv, RowsOfCalls
<1> QED BY <1>1, Zenon

\* It selects nothing else: rights and tags that are NULL, or stand in no row
\* of docu_documents, are taken for what the question means.
LEMMA WantedIsSelected ==
  ASSUME TypeOK, NEW q \in Asks, NEW r \in Rows
  PROVE  Selected(q, r) <=> Wanted(q, r)
<1>1. q \in AskType
  BY StoreAssumption
<1>2. q.tags \in Seq(Tags) /\ q.roles \in SUBSET Roles
  BY <1>1 DEF AskType
<1>3. SUFFICES ASSUME Selected(q, r) PROVE Wanted(q, r)
  BY SelectedIsWanted
<1>4. \/ r.doc = Null \/ parents[r.doc] = Null
      \/ parents[r.doc].acl \in {Null, {}} \/ \E x \in q.roles : x \in parents[r.doc].acl
  BY <1>3 DEF Selected, Permitted, Parent
<1>5. CASE q.tags = <<>>
  BY <1>3, <1>4, <1>5 DEF Selected, Wanted
<1>6. CASE q.tags # <<>>
  <2>1. r.doc # Null /\ parents[r.doc] # Null /\ parents[r.doc].tags # Null
    BY <1>3, <1>6 DEF Selected, Tagged, Parent
  <2>2. PICK x \in Range(q.tags) : x \in parents[r.doc].tags
    BY <1>3, <1>6, <2>1 DEF Selected, Tagged, Parent
  <2>3. \E k \in 1 .. Len(q.tags) : q.tags[k] = x
    BY <1>2, <2>2 DEF Range
  <2> QED BY <1>3, <1>4, <2>1, <2>2, <2>3 DEF Selected, Wanted
<1> QED BY <1>5, <1>6

\* Selected and Row depend on nothing a step of the store changes.
LEMMA Steady ==
  ASSUME parents' = parents, NEW q, NEW r
  PROVE  Selected(q, r)' <=> Selected(q, r)
BY DEF Selected, Permitted, Tagged, Parent

------------------------------------------------------------------------------
(* The invariant holds at first.                                           *)

LEMMA Initially == Init => IInv
<1> SUFFICES ASSUME Init PROVE IInv
  OBVIOUS
<1>1. TypeOK
  BY DEF Init, TypeOK
<1>2. RowsOfCalls
  BY DEF Init, RowsOfCalls
<1>3. SelectedOnly
  <2> SUFFICES ASSUME NEW s \in Searches PROVE SelectedBy(s)
    BY DEF SelectedOnly
  <2>1. rest[s] = {} /\ known[s] = {} /\ docs[s] = <<>> /\ at[s] = "idle" /\ Len(docs[s]) = 0
    BY DEF Init
  <2> QED BY <2>1 DEF SelectedBy
<1>4. Ranked
  BY DEF Init, Ranked
<1>5. ReadOnce
  <2>1. \A s \in Searches : docs[s] = <<>> /\ Len(docs[s]) = 0 /\ ask[s].limit \in Nat
    BY StoreAssumption DEF Init, AskType
  <2> QED BY <2>1 DEF ReadOnce
<1> QED BY <1>1, <1>2, <1>3, <1>4, <1>5 DEF IInv

------------------------------------------------------------------------------
(* A call of AddDocuments.                                                 *)

\* The steps that leave the table and the position alone.
LEMMA AddMoves ==
  ASSUME IInv, NEW c \in Adds,
         AddDocuments(c) \/ EmbedDocuments(c) \/ InsertFails(c) \/ AddReturns(c) \/ Crash(c)
  PROVE  IInv'
<1> USE DEF IInv
<1> DEFINE Within(a) == next[a] <= Len(batch[a].docs)
<1>1. /\ addAt' \in [Adds -> {"idle", "embedding", "inserting", "returned", "open", "ended"}]
      /\ \A a \in Adds : addAt[a] = "ended" => addAt'[a] = "ended"
      /\ \A a \in Adds : addAt'[a] = "returned" => addAt[a] = "returned" \/ next[a] > Len(batch[a].docs)
      /\ \A a \in Adds : addAt'[a] = "open" => addAt[a] = "open" \/ Within(a)
  BY DEF AddDocuments, EmbedDocuments, InsertFails, AddReturns, Crash, TypeOK
<1>2. UNCHANGED <<parents, table, batch, next, searchVars>>
  BY DEF AddDocuments, EmbedDocuments, InsertFails, AddReturns, Crash
<1>3. TypeOK'
  BY <1>1, <1>2 DEF TypeOK
<1>4. RowsOfCalls'
  <2>1. \A r \in table : r.call \in Adds
    BY DEF TypeOK, Rows
  <2>2. \A r \in table' :
          /\ r = Row(r.call, batch'[r.call], r.pos) /\ r.pos <= Len(batch'[r.call].docs)
          /\ r.pos >= next'[r.call] => r.pos = next'[r.call] /\ addAt'[r.call] = "ended"
    BY <1>1, <1>2, <2>1 DEF RowsOfCalls
  <2> QED BY <1>1, <1>2, <2>2 DEF RowsOfCalls, Row, Metadata
<1>5. SelectedOnly'
  BY <1>2, Steady DEF SelectedOnly, SelectedBy
<1>6. Ranked' /\ ReadOnce'
  BY <1>2 DEF Ranked, ReadOnce
<1> QED BY <1>3, <1>4, <1>5, <1>6

\* A call that returned has written every row, one whose last insert may still
\* commit lacks that row.
LEMMA OpenAreWithin ==
  ASSUME IInv, NEW c \in Adds
  PROVE  /\ addAt[c] = "returned" => next[c] > Len(batch[c].docs)
         /\ addAt[c] = "open" => next[c] <= Len(batch[c].docs)
<1>1. RowsOfCalls
  BY DEF IInv
<1> QED BY <1>1 DEF RowsOfCalls

\* The steps that add the next row.
LEMMA Inserts ==
  ASSUME IInv, NEW c \in Adds, Insert(c) \/ CommitLate(c)
  PROVE  IInv'
<1> DEFINE new == Row(c, batch[c], next[c])
<1> USE DEF IInv
<1>1. /\ batch[c] \in Batches /\ next[c] \in 1 .. Len(batch[c].docs)
      /\ Len(batch[c].docs) \in Nat
  <2>1. batch[c] \in Batches /\ next[c] \in Nat \ {0} /\ Len(batch[c].docs) \in Nat
    BY StoreAssumption DEF TypeOK, BatchType
  <2>2. CASE Insert(c)
    BY <2>1, <2>2 DEF Insert
  <2>3. CASE CommitLate(c)
    <3>1. addAt[c] = "open" => next[c] <= Len(batch[c].docs)
      BY OpenAreWithin
    <3> QED BY <2>1, <2>3, <3>1 DEF CommitLate
  <2> QED BY <2>2, <2>3
<1>2. new \in Rows /\ new.call = c /\ new.pos = next[c]
  BY <1>1, RowType
<1>3. /\ table' = table \cup {new}
      /\ addAt[c] \in {"inserting", "open"}
      /\ \/ next' = [next EXCEPT ![c] = @ + 1] /\ addAt' = addAt /\ addAt[c] = "inserting"
         \/ next' = next /\ addAt' = [addAt EXCEPT ![c] = "ended"]
      /\ UNCHANGED <<parents, batch, searchVars>>
  BY DEF Insert, CommitLate
<1> HIDE DEF new
<1>4. TypeOK'
  <2>1. next' \in [Adds -> Nat \ {0}]
    <3>1. next \in [Adds -> Nat \ {0}]
      BY DEF TypeOK
    <3>2. CASE next' = next
      BY <3>1, <3>2
    <3>3. CASE next' = [next EXCEPT ![c] = @ + 1]
      BY <3>1, <3>3
    <3> QED BY <1>3, <3>2, <3>3
  <2>2. table' \subseteq Rows
    BY <1>2, <1>3 DEF TypeOK
  <2>3. addAt' \in [Adds -> {"idle", "embedding", "inserting", "returned", "open", "ended"}]
    BY <1>3 DEF TypeOK
  <2> QED BY <1>3, <2>1, <2>2, <2>3 DEF TypeOK
<1>5. RowsOfCalls'
  <2>1. \A a \in Adds : next[a] \in Nat /\ next'[a] \in Nat
    BY <1>3, <1>4 DEF TypeOK
  <2>2. ASSUME NEW a \in Adds, NEW i \in 1 .. next'[a] - 1
        PROVE  Row(a, batch[a], i) \in table'
    <3>1. CASE i \in 1 .. next[a] - 1
      BY <1>3, <3>1 DEF RowsOfCalls
    <3>2. CASE i \notin 1 .. next[a] - 1
      <4>1. a = c /\ i = next[c] /\ new \in table'
        BY <1>3, <2>1, <3>2 DEF TypeOK
      <4> QED BY <4>1 DEF new
    <3> QED BY <3>1, <3>2
  <2>3. ASSUME NEW r \in table'
        PROVE  /\ r = Row(r.call, batch[r.call], r.pos) /\ r.pos <= Len(batch[r.call].docs)
               /\ r.pos >= next'[r.call] => r.pos = next'[r.call] /\ addAt'[r.call] = "ended"
    <3>0. r \in Rows /\ r.call \in Adds /\ r.pos \in Nat
      BY <1>4 DEF TypeOK, Rows
    <3>1. CASE r = new
      <4>1. r = Row(r.call, batch[r.call], r.pos) /\ r.pos <= Len(batch[r.call].docs)
        BY <1>1, <1>2, <3>1 DEF new
      <4> QED BY <1>1, <1>2, <1>3, <3>1, <4>1 DEF TypeOK
    <3>2. CASE r \in table
      <4>1. /\ r = Row(r.call, batch[r.call], r.pos) /\ r.pos <= Len(batch[r.call].docs)
            /\ r.pos >= next[r.call] => r.pos = next[r.call] /\ addAt[r.call] = "ended"
        BY <3>2 DEF RowsOfCalls
      <4>2. CASE r.call = c
        <5>1. r.pos < next[c] /\ next'[c] >= next[c]
          BY <1>3, <2>1, <3>0, <4>1, <4>2 DEF TypeOK
        <5> QED BY <2>1, <3>0, <4>1, <4>2, <5>1
      <4>3. CASE r.call # c
        <5>1. next'[r.call] = next[r.call] /\ addAt'[r.call] = addAt[r.call]
          BY <1>3, <3>0, <4>3 DEF TypeOK
        <5> QED BY <4>1, <5>1
      <4> QED BY <4>2, <4>3
    <3> QED BY <1>3, <3>1, <3>2
  <2>4. \A a \in Adds : /\ addAt'[a] = "returned" => next'[a] > Len(batch[a].docs)
                        /\ addAt'[a] = "open" => next'[a] <= Len(batch[a].docs)
    <3> SUFFICES ASSUME NEW a \in Adds, addAt'[a] \in {"returned", "open"}
                 PROVE  /\ addAt'[a] = "returned" => next'[a] > Len(batch[a].docs)
                        /\ addAt'[a] = "open" => next'[a] <= Len(batch[a].docs)
      OBVIOUS
    <3>1. a # c /\ addAt'[a] = addAt[a] /\ next'[a] = next[a]
      BY <1>3 DEF TypeOK
    <3>2. /\ addAt[a] = "returned" => next[a] > Len(batch[a].docs)
          /\ addAt[a] = "open" => next[a] <= Len(batch[a].docs)
      BY OpenAreWithin
    <3> QED BY <3>1, <3>2
  <2> QED BY <1>3, <2>2, <2>3, <2>4 DEF RowsOfCalls
<1>6. SelectedOnly'
  BY <1>3, Steady DEF SelectedOnly, SelectedBy
<1>7. Ranked' /\ ReadOnce'
  BY <1>3 DEF Ranked, ReadOnce
<1> QED BY <1>4, <1>5, <1>6, <1>7

------------------------------------------------------------------------------
(* A call of SimilaritySearch.                                             *)

\* Nothing but the search's own variables changes.
LEMMA RowsStay ==
  ASSUME IInv, UNCHANGED <<parents, addVars>>
  PROVE  RowsOfCalls'
BY DEF IInv, RowsOfCalls, Row, Metadata

LEMMA SearchMoves ==
  ASSUME IInv, NEW s \in Searches,
         SimilaritySearch(s) \/ QueryRejected(s) \/ QueryFails(s)
  PROVE  IInv'
<1> USE DEF IInv
<1>1. /\ at' = [at EXCEPT ![s] = at'[s]]
      /\ at'[s] \in {"embedding", "failed", "rejected"} /\ at[s] \in {"idle", "embedding"}
      /\ \A x \in Searches : known'[x] \subseteq table
      /\ UNCHANGED <<parents, addVars, ask, rest, docs, broken>>
      /\ \A x \in Searches \ {s} : known'[x] = known[x]
      /\ known' \in [Searches -> SUBSET Rows]
  <2>1. \A x \in Searches : known[x] \subseteq table
    BY DEF SelectedOnly, SelectedBy
  <2>2. table \subseteq Rows
    BY DEF TypeOK
  <2>3. CASE SimilaritySearch(s)
    BY <2>1, <2>2, <2>3 DEF SimilaritySearch, TypeOK
  <2>4. CASE QueryRejected(s)
    BY <2>1, <2>4 DEF QueryRejected, TypeOK
  <2>5. CASE QueryFails(s)
    BY <2>1, <2>5 DEF QueryFails, TypeOK
  <2> QED BY <2>3, <2>4, <2>5
<1>2. TypeOK'
  BY <1>1 DEF TypeOK
<1>3. RowsOfCalls'
  BY <1>1, RowsStay
<1>4. SelectedOnly'
  <2> SUFFICES ASSUME NEW x \in Searches PROVE SelectedBy(x)'
    BY DEF SelectedOnly
  <2>1. SelectedBy(x) /\ docs'[x] = docs[x] /\ rest'[x] = rest[x] /\ ask'[x] = ask[x]
    BY <1>1 DEF SelectedOnly
  <2>2. CASE x = s
    BY <1>1, <2>1, <2>2, Steady DEF SelectedBy, TypeOK
  <2>3. CASE x # s
    <3>1. at'[x] = at[x] /\ known'[x] = known[x]
      BY <1>1, <2>3 DEF TypeOK
    <3> QED BY <1>1, <2>1, <3>1, Steady DEF SelectedBy
  <2> QED BY <2>2, <2>3
<1>5. Ranked' /\ ReadOnce'
  BY <1>1 DEF Ranked, ReadOnce, TypeOK
<1> QED BY <1>2, <1>3, <1>4, <1>5

LEMMA Queries ==
  ASSUME IInv, NEW s \in Searches, Query(s)
  PROVE  IInv'
<1> USE DEF IInv, Query
<1>1. TypeOK'
  BY DEF TypeOK
<1>2. RowsOfCalls'
  BY RowsStay
<1>3. docs[s] = <<>> /\ at'[s] = "reading" /\ rest'[s] = {r \in table : Selected(ask[s], r)}
  BY DEF SelectedOnly, SelectedBy, TypeOK
<1>4. SelectedOnly'
  <2> SUFFICES ASSUME NEW x \in Searches PROVE SelectedBy(x)'
    BY DEF SelectedOnly
  <2>1. CASE x = s
    BY <1>3, <2>1, Steady DEF SelectedOnly, SelectedBy, TypeOK
  <2>2. CASE x # s
    BY <2>2, Steady DEF SelectedOnly, SelectedBy, TypeOK
  <2> QED BY <2>1, <2>2
<1>5. Ranked'
  BY <1>3 DEF Ranked, TypeOK
<1>6. ReadOnce'
  <2>1. docs' = docs /\ ask' = ask /\ \A x \in Searches \ {s} : rest'[x] = rest[x]
    BY DEF TypeOK
  <2> QED BY <1>3, <2>1 DEF ReadOnce
<1> QED BY <1>1, <1>2, <1>4, <1>5, <1>6

LEMMA Reads ==
  ASSUME IInv, NEW s \in Searches, NextRow(s)
  PROVE  IInv'
<1> USE DEF IInv
<1>1. PICK r \in rest[s] :
        /\ \A q \in rest[s] : Score[r.text] >= Score[q.text]
        /\ docs' = [docs EXCEPT ![s] = Append(@, r)]
        /\ rest' = [rest EXCEPT ![s] = @ \ {r}]
  BY DEF NextRow
<1>2. /\ at[s] = "reading"
      /\ UNCHANGED <<parents, addVars, at, ask, broken, known>>
  BY DEF NextRow
<1>3. r \in Rows /\ docs[s] \in Seq(Rows) /\ r \in table
  BY <1>1 DEF TypeOK, SelectedOnly, SelectedBy
<1>4. /\ Len(docs'[s]) = Len(docs[s]) + 1 /\ docs'[s][Len(docs[s]) + 1] = r
      /\ \A k \in 1 .. Len(docs[s]) : docs'[s][k] = docs[s][k]
      /\ Len(docs[s]) \in Nat
      /\ docs'[s] \in Seq(Rows)
      /\ rest'[s] = rest[s] \ {r}
      /\ \A x \in Searches \ {s} : docs'[x] = docs[x] /\ rest'[x] = rest[x]
  BY <1>1, <1>3 DEF TypeOK
<1>5. TypeOK'
  BY <1>1, <1>2, <1>4 DEF TypeOK
<1>6. RowsOfCalls'
  BY <1>2, RowsStay
<1>7. SelectedOnly'
  <2> SUFFICES ASSUME NEW x \in Searches PROVE SelectedBy(x)'
    BY DEF SelectedOnly
  <2>1. CASE x = s
    <3>1. SelectedBy(s)
      BY DEF SelectedOnly
    <3>2. rest'[s] \cup known'[s] \subseteq table' /\ at'[s] = "reading"
      BY <1>2, <1>4, <3>1 DEF SelectedBy
    <3>3. Selected(ask[s], r)
      BY <3>1 DEF SelectedBy
    <3>4. \A k \in 1 .. Len(docs'[s]) :
            docs'[s][k] \in table /\ Selected(ask[s], docs'[s][k])
      <4> SUFFICES ASSUME NEW k \in 1 .. Len(docs'[s])
                   PROVE  docs'[s][k] \in table /\ Selected(ask[s], docs'[s][k])
        OBVIOUS
      <4>1. CASE k = Len(docs[s]) + 1
        BY <1>3, <1>4, <3>3, <4>1
      <4>2. CASE k \in 1 .. Len(docs[s])
        <5>1. docs[s][k] \in table /\ Selected(ask[s], docs[s][k])
          BY <3>1, <4>2 DEF SelectedBy
        <5> QED BY <1>4, <4>2, <5>1
      <4> QED BY <1>4, <4>1, <4>2
    <3>5. \A q \in known[s] : Selected(ask[s], q) =>
            q \in rest'[s] \/ \E k \in 1 .. Len(docs'[s]) : docs'[s][k] = q
      BY <1>2, <1>4, <3>1 DEF SelectedBy
    <3>6. \A q \in rest'[s] : Selected(ask[s], q)
      BY <1>4, <3>1 DEF SelectedBy
    <3> QED BY <1>2, <2>1, <3>2, <3>4, <3>5, <3>6, Steady DEF SelectedBy
  <2>2. CASE x # s
    BY <1>2, <1>4, <2>2, Steady DEF SelectedOnly, SelectedBy
  <2> QED BY <2>1, <2>2
<1>8. Ranked'
  BY <1>1, <1>2, <1>4, SMTT(20) DEF Ranked
<1>9. ReadOnce'
  <2> SUFFICES ASSUME NEW x \in Searches
               PROVE  /\ \A j, k \in 1 .. Len(docs'[x]) : j < k => docs'[x][j] # docs'[x][k]
                      /\ \A k \in 1 .. Len(docs'[x]) : docs'[x][k] \notin rest'[x]
                      /\ Len(docs'[x]) <= ask[x].limit
    BY <1>2 DEF ReadOnce
  <2>1. CASE x # s
    BY <1>4, <2>1 DEF ReadOnce
  <2>2. CASE x = s
    <3>1. ask[s].limit \in Nat /\ Len(docs[s]) < ask[s].limit
      BY StoreAssumption DEF TypeOK, AskType, NextRow
    <3>2. \A k \in 1 .. Len(docs[s]) : docs[s][k] \notin rest[s] /\ docs[s][k] # r
      BY DEF ReadOnce
    <3>3. \A j, k \in 1 .. Len(docs[s]) : j < k => docs[s][j] # docs[s][k]
      BY DEF ReadOnce
    <3>4. ASSUME NEW j \in 1 .. Len(docs'[s]), NEW k \in 1 .. Len(docs'[s]), j < k
          PROVE  docs'[s][j] # docs'[s][k]
      <4>1. CASE k = Len(docs[s]) + 1
        BY <1>4, <3>2, <3>4, <4>1
      <4>2. CASE k \in 1 .. Len(docs[s])
        <5>1. j \in 1 .. Len(docs[s])
          BY <1>4, <3>4, <4>2
        <5> QED BY <1>4, <3>3, <3>4, <4>2, <5>1
      <4> QED BY <1>4, <4>1, <4>2
    <3>5. ASSUME NEW k \in 1 .. Len(docs'[s])
          PROVE  docs'[s][k] \notin rest'[s]
      <4>1. CASE k = Len(docs[s]) + 1
        BY <1>4, <4>1
      <4>2. CASE k \in 1 .. Len(docs[s])
        BY <1>4, <3>2, <4>2
      <4> QED BY <1>4, <4>1, <4>2
    <3>6. Len(docs'[s]) <= ask[s].limit
      BY <1>4, <3>1
    <3> QED BY <2>2, <3>4, <3>5, <3>6
  <2> QED BY <2>1, <2>2
<1> QED BY <1>5, <1>6, <1>7, <1>8, <1>9

LEMMA Returns ==
  ASSUME IInv, NEW s \in Searches, SearchReturns(s)
  PROVE  IInv'
<1> USE DEF IInv, SearchReturns
<1>1. TypeOK'
  BY DEF TypeOK
<1>2. RowsOfCalls'
  BY RowsStay
<1>3. SelectedOnly'
  <2> SUFFICES ASSUME NEW x \in Searches PROVE SelectedBy(x)'
    BY DEF SelectedOnly
  <2>1. SelectedBy(x)
    BY DEF SelectedOnly
  <2>2. at'[x] \in {"reading", "answered"} => at[x] \in {"reading", "answered"}
    BY DEF TypeOK
  <2>3. at'[x] \in {"idle", "embedding", "failed", "rejected"} => at'[x] = at[x]
    BY DEF TypeOK
  <2>4. UNCHANGED <<parents, table, ask, rest, docs, known>>
    OBVIOUS
  <2> HIDE DEF SearchReturns
  <2>5. \A k \in 1 .. Len(docs[x]) : Selected(ask[x], docs[x][k])'
    BY <2>1, <2>4, Steady DEF SelectedBy
  <2>6. \A r \in rest[x] : Selected(ask[x], r)'
    BY <2>1, <2>4, Steady DEF SelectedBy
  <2>7. at'[x] \in {"reading", "answered"} =>
          \A r \in known[x] : Selected(ask[x], r)' =>
            r \in rest[x] \/ \E k \in 1 .. Len(docs[x]) : docs[x][k] = r
    BY <2>1, <2>2, <2>4, Steady DEF SelectedBy
  <2> QED BY <2>1, <2>3, <2>4, <2>5, <2>6, <2>7 DEF SelectedBy
<1>4. Ranked'
  <2>1. ASSUME NEW x \in Searches, at'[x] = "answered", ~broken'[x]
        PROVE  rest[x] = {} \/ Len(docs[x]) >= ask[x].limit
    <3>1. ask[x] \in AskType /\ docs[x] \in Seq(Rows)
      BY StoreAssumption DEF TypeOK
    <3>2. ask[x].limit \in Nat /\ Len(docs[x]) \in Nat
      BY <3>1 DEF AskType
    <3>3. CASE x = s
      <4>1. broken'[s] = More(s)
        BY Zenon DEF TypeOK
      <4>2. ~More(s)
        BY <2>1, <3>3, <4>1
      <4> QED BY <3>2, <3>3, <4>2
    <3>4. CASE x # s
      BY <2>1, <3>4 DEF Ranked, TypeOK
    <3> QED BY <3>3, <3>4
  <2> QED BY <2>1 DEF Ranked
<1>5. ReadOnce'
  BY DEF ReadOnce
<1> QED BY <1>1, <1>2, <1>3, <1>4, <1>5

------------------------------------------------------------------------------
(* The table is a store of documents: adding.                              *)

\* A row of the table is one of the listed ones.
LEMMA TableIsListed ==
  ASSUME IInv
  PROVE  table \subseteq AllListed
<1> SUFFICES ASSUME NEW r \in table PROVE r \in AllListed
  OBVIOUS
<1> DEFINE c == r.call
<1>1. c \in Adds /\ batch[c] \in BatchType /\ r.pos \in 1 .. Len(batch[c].docs)
  BY RowFacts, StoreAssumption
<1>2. r.pos \in DOMAIN batch[c].docs
  BY <1>1 DEF BatchType
<1>3. r = Listed(c)[r.pos] /\ r.pos \in DOMAIN Listed(c)
  BY <1>2, RowFacts DEF Listed
<1>4. r \in Range(Listed(c))
  BY <1>3 DEF Range
<1> QED BY <1>1, <1>4 DEF AllListed

\* The lists and the requests never change.
LEMMA FixedStays ==
  ASSUME UNCHANGED <<parents, batch, ask>>
  PROVE  Lists' = Lists /\ Requests' = Requests
<1>1. \A c \in Adds : Listed(c)' = Listed(c)
  BY DEF Listed, Row, Metadata
<1>2. AllListed' = AllListed
  BY <1>1 DEF AllListed
<1>3. \A s \in Searches, r \in AllListed : Wanted(ask[s], r)' <=> Wanted(ask[s], r)
  BY DEF Wanted
<1> QED BY <1>1, <1>2, <1>3 DEF Lists, Requests

\* What a call of AddDocuments leaves alone.
LEMMA SearchesStay ==
  ASSUME UNCHANGED <<parents, batch, searchVars>>
  PROVE  UNCHANGED <<Lists, Requests, SearchPhases, Views, Answers, broken>>
BY FixedStays DEF SearchPhases, Views, Answers

LEMMA AddRefines ==
  ASSUME IInv, NEW c \in Adds,
         AddDocuments(c) \/ EmbedDocuments(c) \/ InsertFails(c) \/ AddReturns(c) \/ Crash(c)
  PROVE  [Documented!Next]_(Documented!vars)
<1>0. /\ addAt \in [Adds -> {"idle", "embedding", "inserting", "returned", "open", "ended"}]
      /\ batch[c] \in Batches /\ batch[c] \in BatchType
      /\ UNCHANGED <<Lists, Requests, SearchPhases, Views, Answers, broken, table>>
  BY SearchesStay, StoreAssumption DEF AddDocuments, EmbedDocuments, InsertFails, AddReturns, Crash,
                                       IInv, TypeOK
<1> DEFINE Moves(from, to) == AddPhases[c] = from /\ AddPhases' = [AddPhases EXCEPT ![c] = to]
<1>1. ASSUME NEW from, NEW to, Moves(from, to)
      PROVE  Documented!AddMove(c, from, to)
  BY <1>0, <1>1 DEF Documented!AddMove, Documented!fixed, Documented!searchVars
<1>2. CASE AddDocuments(c)
  <2>1. Moves("idle", "running")
    BY <1>0, <1>2 DEF AddDocuments, AddPhases, AddPhase
  <2> QED BY <1>0, <1>1, <2>1 DEF Documented!Add, Documented!Next
<1>3. CASE EmbedDocuments(c)
  <2>1. Moves("running", "ended") \/ AddPhases' = AddPhases
    BY <1>0, <1>3 DEF EmbedDocuments, AddPhases, AddPhase
  <2>2. CASE Moves("running", "ended")
    BY <1>0, <1>1, <2>2 DEF Documented!Stop, Documented!Next
  <2>3. CASE AddPhases' = AddPhases
    BY <1>0, <2>3 DEF Documented!vars, Documented!fixed, Documented!addVars, Documented!searchVars
  <2> QED BY <2>1, <2>2, <2>3
<1>4. CASE AddReturns(c)
  <2>1. Moves("running", "returned")
    BY <1>0, <1>4 DEF AddReturns, AddPhases, AddPhase
  <2>2. Range(Lists[c]) \subseteq table
    <3> SUFFICES ASSUME NEW i \in DOMAIN batch[c].docs PROVE Row(c, batch[c], i) \in table
      BY DEF Lists, Listed, Range
    <3>1. i \in 1 .. next[c] - 1
      BY <1>0, <1>4 DEF AddReturns, IInv, TypeOK, BatchType
    <3> QED BY <3>1, StoredSoFar
  <2> QED BY <1>0, <1>1, <2>1, <2>2 DEF Documented!Finish, Documented!Next, Range, Documented!Range
<1>5. CASE InsertFails(c) \/ Crash(c)
  <2>1. \E p \in {"open", "ended"} : addAt' = [addAt EXCEPT ![c] = p]
    BY <1>5 DEF InsertFails, Crash
  <2>2. addAt[c] \in {"embedding", "inserting"}
    BY <1>5 DEF InsertFails, Crash
  <2>3. Moves("running", "stopped") \/ Moves("running", "ended")
    BY <1>0, <2>1, <2>2 DEF AddPhases, AddPhase
  <2> QED BY <1>0, <1>1, <2>3 DEF Documented!Stop, Documented!Next
<1> QED BY <1>2, <1>3, <1>4, <1>5

\* A row that is inserted is the first of its list that was missing, whether
\* the call learns of it or has stopped before.
LEMMA InsertRefines ==
  ASSUME IInv, NEW c \in Adds, Insert(c) \/ CommitLate(c)
  PROVE  [Documented!Next]_(Documented!vars)
<1> DEFINE i == next[c]
           new == Row(c, batch[c], i)
<1>1. /\ addAt \in [Adds -> {"idle", "embedding", "inserting", "returned", "open", "ended"}]
      /\ addAt[c] \in {"inserting", "open"} /\ i \in Nat \ {0}
      /\ batch[c] \in Batches /\ batch[c] \in BatchType /\ i \in 1 .. Len(batch[c].docs)
      /\ UNCHANGED <<Lists, Requests, SearchPhases, Views, Answers, broken>>
  <2>1. /\ addAt \in [Adds -> {"idle", "embedding", "inserting", "returned", "open", "ended"}]
        /\ addAt[c] \in {"inserting", "open"} /\ i \in Nat \ {0}
        /\ batch[c] \in Batches /\ batch[c] \in BatchType /\ Len(batch[c].docs) \in Nat
        /\ UNCHANGED <<Lists, Requests, SearchPhases, Views, Answers, broken>>
    BY SearchesStay, StoreAssumption DEF Insert, CommitLate, IInv, TypeOK, BatchType
  <2>2. i <= Len(batch[c].docs)
    BY DEF Insert, CommitLate, IInv, RowsOfCalls
  <2> QED BY <2>1, <2>2
<1>2. /\ table' = table \cup {new}
      /\ \/ AddPhases[c] = "running" /\ AddPhases' = AddPhases
         \/ AddPhases[c] = "stopped" /\ AddPhases' = [AddPhases EXCEPT ![c] = "ended"]
  BY <1>1 DEF Insert, CommitLate, AddPhases, AddPhase
<1>3. AddPhases[c] = "running" => [AddPhases EXCEPT ![c] = "running"] = AddPhases
  BY DEF AddPhases
<1>4. new \notin table
  <2>1. new.call = c /\ new.pos = i
    BY <1>1, RowType
  <2> QED BY <1>1, <2>1, RowFacts
<1>5. i \in DOMAIN Lists[c] /\ Lists[c][i] = new
  BY <1>1 DEF Lists, Listed, BatchType
<1>6. \A j \in 1 .. i - 1 : Lists[c][j] \in table
  <2> SUFFICES ASSUME NEW j \in 1 .. i - 1 PROVE Lists[c][j] \in table
    OBVIOUS
  <2>1. Lists[c][j] = Row(c, batch[c], j)
    BY <1>1 DEF Lists, Listed, BatchType
  <2> QED BY <2>1, StoredSoFar
<1> HIDE DEF i, new
<1>7. Documented!AddMove(c, "running", "running") \/ Documented!AddMove(c, "stopped", "ended")
  BY <1>1, <1>2, <1>3 DEF Documented!AddMove, Documented!fixed, Documented!searchVars
<1> QED BY <1>2, <1>4, <1>5, <1>6, <1>7 DEF Documented!Store, Documented!Next

------------------------------------------------------------------------------
(* The table is a store of documents: searching.                           *)

\* A step of a search that leaves what it has seen and answered.
LEMMA SearchMovesRefine ==
  ASSUME IInv, NEW s \in Searches,
         SimilaritySearch(s) \/ QueryRejected(s) \/ QueryFails(s)
  PROVE  Documented!Next
<1>1. /\ at \in [Searches -> {"idle", "embedding", "reading", "answered", "failed", "rejected"}]
      /\ UNCHANGED <<parents, addVars, ask, rest, docs, broken>>
      /\ Lists' = Lists /\ Requests' = Requests /\ AddPhases' = AddPhases
  BY FixedStays DEF SimilaritySearch, QueryRejected, QueryFails, IInv, TypeOK, AddPhases
<1>2. Views' = Views /\ Answers' = Answers
  BY <1>1 DEF SimilaritySearch, QueryRejected, QueryFails, Views, Answers
<1>3. \/ SearchPhases[s] = "idle" /\ SearchPhases' = [SearchPhases EXCEPT ![s] = "begun"]
      \/ SearchPhases[s] = "begun" /\ SearchPhases' = [SearchPhases EXCEPT ![s] = "failed"]
  BY <1>1 DEF SimilaritySearch, QueryRejected, QueryFails, SearchPhases, SearchPhase
<1>4. Documented!Search(s) \/ Documented!Fail(s)
  BY <1>1, <1>2, <1>3 DEF Documented!Search, Documented!Fail, Documented!SearchMove,
                          Documented!fixed, Documented!addVars
<1> QED BY <1>4 DEF Documented!Next

\* The snapshot of the statement is what is stored and wanted.
LEMMA QueryRefines ==
  ASSUME IInv, NEW s \in Searches, Query(s)
  PROVE  Documented!Next
<1>1. /\ at \in [Searches -> {"idle", "embedding", "reading", "answered", "failed", "rejected"}]
      /\ at[s] = "embedding" /\ at' = [at EXCEPT ![s] = "reading"]
      /\ rest' = [rest EXCEPT ![s] = {r \in table : Selected(ask[s], r)}]
      /\ rest \in [Searches -> SUBSET Rows] /\ docs' = docs /\ broken' = broken
      /\ Lists' = Lists /\ Requests' = Requests /\ AddPhases' = AddPhases /\ table' = table
      /\ docs[s] = <<>>
  BY FixedStays DEF Query, IInv, TypeOK, AddPhases, SelectedOnly, SelectedBy
<1>2. {r \in table : Selected(ask[s], r)} = table \cap Requests[s].wants
  <2>1. ASSUME NEW r \in table
        PROVE  r \in AllListed /\ (Selected(ask[s], r) <=> Wanted(ask[s], r))
    BY TableIsListed, WantedIsSelected DEF IInv, TypeOK
  <2> QED BY <2>1 DEF Requests
<1>3. Views' = [Views EXCEPT ![s] = table \cap Requests[s].wants]
  <2>1. Range(docs[s]) = {}
    BY <1>1 DEF Range
  <2> QED BY <1>1, <1>2, <2>1 DEF Views
<1>4. Answers' = Answers
  BY <1>1 DEF Answers
<1>5. SearchPhases[s] = "begun" /\ SearchPhases' = [SearchPhases EXCEPT ![s] = "looked"]
  BY <1>1 DEF SearchPhases, SearchPhase
<1>6. Documented!Look(s)
  BY <1>1, <1>3, <1>4, <1>5 DEF Documented!Look, Documented!SearchMove, Documented!fixed,
                                Documented!addVars
<1> QED BY <1>6 DEF Documented!Next

\* A row that is read was in view, and still is.
LEMMA ReadStutters ==
  ASSUME IInv, NEW s \in Searches, NextRow(s)
  PROVE  UNCHANGED Documented!vars
<1>1. PICK r \in rest[s] :
        /\ docs' = [docs EXCEPT ![s] = Append(@, r)]
        /\ rest' = [rest EXCEPT ![s] = @ \ {r}]
  BY DEF NextRow
<1>2. /\ at[s] = "reading" /\ UNCHANGED <<parents, addVars, at, ask, broken>>
      /\ Lists' = Lists /\ Requests' = Requests /\ AddPhases' = AddPhases
  BY FixedStays DEF NextRow, AddPhases
<1>3. docs[s] \in Seq(Rows) /\ r \in Rows
  BY <1>1 DEF IInv, TypeOK
<1>4. Range(Append(docs[s], r)) = Range(docs[s]) \cup {r}
  <2> DEFINE n == Len(docs[s])
             longer == Append(docs[s], r)
  <2>1. /\ n \in Nat /\ DOMAIN docs[s] = 1 .. n /\ DOMAIN longer = 1 .. n + 1
        /\ longer[n + 1] = r /\ \A k \in 1 .. n : longer[k] = docs[s][k]
    BY <1>3
  <2> HIDE DEF n, longer
  <2>2. 1 .. n + 1 = (1 .. n) \cup {n + 1}
    BY <2>1
  <2>3. Range(longer) = Range(docs[s]) \cup {r}
    BY <2>1, <2>2 DEF Range
  <2> QED BY <2>3 DEF longer
<1>5. Views' = Views
  BY <1>1, <1>4 DEF Views, IInv, TypeOK
<1>6. Answers' = Answers /\ SearchPhases' = SearchPhases
  BY <1>1, <1>2 DEF Answers, SearchPhases, IInv, TypeOK
<1> QED BY <1>2, <1>5, <1>6 DEF Documented!vars, Documented!fixed, Documented!addVars,
                                Documented!searchVars

\* What has been read when the loop ends is the best of what was in view.
LEMMA ReturnRefines ==
  ASSUME IInv, NEW s \in Searches, SearchReturns(s)
  PROVE  Documented!Next
<1>1. /\ at \in [Searches -> {"idle", "embedding", "reading", "answered", "failed", "rejected"}]
      /\ at[s] = "reading" /\ at' = [at EXCEPT ![s] = "answered"]
      /\ rest' = rest /\ docs' = docs /\ table' = table
      /\ Lists' = Lists /\ Requests' = Requests /\ AddPhases' = AddPhases /\ Views' = Views
  BY FixedStays DEF SearchReturns, IInv, TypeOK, AddPhases, Views
<1>2. docs[s] \in Seq(Rows) /\ Len(docs[s]) \in Nat /\ ask[s].limit \in Nat
  BY StoreAssumption DEF IInv, TypeOK, AskType
<1>3. Answers' = [Answers EXCEPT ![s] = docs[s]] /\ Answers'[s] = docs[s]
  BY <1>1 DEF Answers
<1>4. SearchPhases[s] = "looked" /\ SearchPhases' = [SearchPhases EXCEPT ![s] = "answered"]
  BY <1>1 DEF SearchPhases, SearchPhase
<1>5. Views[s] = rest[s] \cup Range(docs[s]) /\ Requests[s].limit = ask[s].limit
  BY DEF Views, Requests
<1>6. Documented!BestOf(docs[s], Views[s])
  <2>1. \A k \in 1 .. Len(docs[s]) : docs[s][k] \in Range(docs[s])
    BY <1>2 DEF Range
  <2>2. docs[s] \in Seq(Views[s])
    BY <1>2, <1>5, <2>1
  <2>3. \A j, k \in 1 .. Len(docs[s]) :
          j < k => docs[s][j] # docs[s][k] /\ Score[docs[s][j].text] >= Score[docs[s][k].text]
    BY DEF IInv, Ranked, ReadOnce
  <2>4. \A r \in rest[s] : \A k \in 1 .. Len(docs[s]) : Score[docs[s][k].text] >= Score[r.text]
    BY DEF IInv, Ranked
  <2> QED BY <1>5, <2>2, <2>3, <2>4 DEF Documented!BestOf, Range, Documented!Range
<1>7. Len(docs[s]) <= ask[s].limit
  BY DEF IInv, ReadOnce
<1>8. \/ broken' = [broken EXCEPT ![s] = TRUE]
      \/ /\ broken' = [broken EXCEPT ![s] = FALSE]
         /\ Range(docs[s]) = Views[s] \/ Len(docs[s]) = ask[s].limit
  <2>1. broken' = [broken EXCEPT ![s] = More(s)]
    BY Zenon DEF SearchReturns
  <2>2. CASE More(s)
    <3>1. More(s) = TRUE
      BY <2>2
    <3> HIDE DEF More
    <3> QED BY <2>1, <3>1
  <2>3. CASE ~More(s)
    <3>1. rest[s] = {} \/ Len(docs[s]) = ask[s].limit
      BY <1>1, <1>2, <1>7, <2>3
    <3>2. More(s) = FALSE
      BY <2>3
    <3> HIDE DEF More
    <3>3. broken' = [broken EXCEPT ![s] = FALSE]
      BY <2>1, <3>2
    <3> QED BY <1>5, <3>1, <3>3
  <2> QED BY <2>2, <2>3
<1>9. Documented!Answer(s)
  <2>1. Documented!SearchMove(s, "looked", "answered")
    BY <1>1, <1>4 DEF Documented!SearchMove, Documented!fixed, Documented!addVars
  <2>2. Documented!Range(docs[s]) = Range(docs[s])
    BY DEF Range, Documented!Range
  <2> QED BY <1>1, <1>3, <1>5, <1>6, <1>7, <1>8, <2>1, <2>2 DEF Documented!Answer
<1> QED BY <1>9 DEF Documented!Next

LEMMA InitRefines == Init => Documented!Init
<1> SUFFICES ASSUME Init PROVE Documented!Init
  OBVIOUS
<1>1. AddPhases = [c \in Adds |-> "idle"] /\ SearchPhases = [s \in Searches |-> "idle"]
  BY DEF Init, AddPhases, AddPhase, SearchPhases, SearchPhase
<1>2. \A s \in Searches : rest[s] = {} /\ docs[s] = <<>> /\ Range(docs[s]) = {}
  BY DEF Init, Range
<1>3. Views = [s \in Searches |-> {}] /\ Answers = [s \in Searches |-> <<>>]
  BY <1>2 DEF Init, Views, Answers
<1> QED BY <1>1, <1>3 DEF Init, Documented!Init

LEMMA StepRefines ==
  ASSUME IInv, [Next]_vars
  PROVE  [Documented!Next]_(Documented!vars)
<1>1. CASE UNCHANGED vars
  BY <1>1, FixedStays DEF vars, AddPhases, SearchPhases, Views, Answers, Documented!vars,
                          Documented!fixed, Documented!addVars, Documented!searchVars
<1>2. ASSUME NEW c \in Adds,
             \/ AddDocuments(c) \/ EmbedDocuments(c)
             \/ Insert(c) \/ InsertFails(c) \/ CommitLate(c) \/ AddReturns(c) \/ Crash(c)
      PROVE  [Documented!Next]_(Documented!vars)
  BY <1>2, AddRefines, InsertRefines
<1>3. ASSUME NEW s \in Searches,
             \/ SimilaritySearch(s) \/ Query(s) \/ QueryRejected(s) \/ QueryFails(s)
             \/ NextRow(s) \/ SearchReturns(s)
      PROVE  [Documented!Next]_(Documented!vars)
  BY <1>3, SearchMovesRefine, QueryRefines, ReadStutters, ReturnRefines
<1> QED BY <1>1, <1>2, <1>3 DEF Next

------------------------------------------------------------------------------
(* The theorems.                                                           *)

\* The inductive invariant holds in every reachable state.
THEOREM Invariance == Spec => []IInv
<1>1. IInv /\ UNCHANGED vars => IInv'
  <2> SUFFICES ASSUME IInv, UNCHANGED vars PROVE IInv'
    OBVIOUS
  <2>1. TypeOK' /\ RowsOfCalls' /\ Ranked' /\ ReadOnce'
    BY RowsStay DEF vars, IInv, TypeOK, Ranked, ReadOnce
  <2>2. ASSUME NEW s \in Searches PROVE SelectedBy(s)'
    BY Steady DEF vars, IInv, SelectedOnly, SelectedBy
  <2> QED BY <2>1, <2>2 DEF IInv, SelectedOnly
<1>2. IInv /\ [Next]_vars => IInv'
  BY <1>1, AddMoves, Inserts, SearchMoves, Queries, Reads, Returns DEF Next
<1> QED BY <1>2, Initially, PTL DEF Spec

\* A call of AddDocuments that returns has stored all its documents.
THEOREM AddsAreStored == Spec => []ReturnedIsStored
<1>1. IInv => ReturnedIsStored
  <2> SUFFICES ASSUME IInv, NEW c \in Adds, addAt[c] = "returned",
                      NEW i \in 1 .. Len(batch[c].docs)
               PROVE  \E r \in table : r.call = c /\ r.pos = i
    BY DEF ReturnedIsStored
  <2>1. i \in 1 .. next[c] - 1 /\ batch[c] \in Batches
    BY StoreAssumption DEF IInv, RowsOfCalls, TypeOK, BatchType
  <2>2. Row(c, batch[c], i) \in table
    BY <2>1, StoredSoFar
  <2> QED BY <2>1, <2>2, RowType
<1> QED BY <1>1, Invariance, PTL

\* A call that fails leaves its first documents, each of them once.
THEOREM FailuresLeavePrefix == Spec => []PrefixStored
<1>1. IInv => PrefixStored
  <2> SUFFICES ASSUME IInv, NEW r \in table
               PROVE  /\ \A i \in 1 .. r.pos - 1 : \E q \in table : q.call = r.call /\ q.pos = i
                      /\ \A q \in table : q.call = r.call /\ q.pos = r.pos => q = r
    BY DEF PrefixStored
  <2>1. /\ r.call \in Adds /\ r.pos \in Nat \ {0} /\ next[r.call] \in Nat
        /\ batch[r.call] \in Batches /\ Len(batch[r.call].docs) \in Nat
    BY RowFacts
  <2>2. r.pos <= next[r.call] /\ r.pos <= Len(batch[r.call].docs)
    <3>1. /\ r.pos >= next[r.call] => r.pos = next[r.call]
          /\ r.pos \in 1 .. Len(batch[r.call].docs)
      BY RowFacts
    <3> QED BY <2>1, <3>1
  <2>3. ASSUME NEW i \in 1 .. r.pos - 1
        PROVE  \E q \in table : q.call = r.call /\ q.pos = i
    <3>1. i \in 1 .. next[r.call] - 1 /\ i \in 1 .. Len(batch[r.call].docs)
      BY <2>1, <2>2
    <3>2. Row(r.call, batch[r.call], i) \in table
      BY <2>1, <3>1, StoredSoFar
    <3> QED BY <2>1, <3>1, <3>2, RowType
  <2>4. ASSUME NEW q \in table, q.call = r.call, q.pos = r.pos
        PROVE  q = r
    <3>1. q = Row(q.call, batch[q.call], q.pos) /\ r = Row(r.call, batch[r.call], r.pos)
      BY RowFacts
    <3> QED BY <2>4, <3>1
  <2> QED BY <2>3, <2>4
<1> QED BY <1>1, Invariance, PTL

\* A search sees documents of its own tenant only.
THEOREM SearchesSeeTheirOwn == Spec => []OnlyOwn
<1>1. IInv => OnlyOwn
  <2> SUFFICES ASSUME IInv, NEW s \in Searches, NEW k \in 1 .. Len(docs[s])
               PROVE  LET r == docs[s][k]
                          b == batch[r.call]
                      IN  ask[s].tenant = IF b.options # Null THEN b.options.tenant
                                          ELSE b.docs[r.pos].metadata.tenant
    BY DEF OnlyOwn
  <2> DEFINE r == docs[s][k]
  <2>1. r \in table /\ r.tenant = ask[s].tenant /\ r.tenant # Null
    BY DEF IInv, SelectedOnly, SelectedBy, Selected
  <2>2. r = Row(r.call, batch[r.call], r.pos)
    BY <2>1, RowFacts
  <2>3. r.tenant = IF saveMetadata THEN Metadata(batch[r.call], r.pos).tenant ELSE Null
    BY <2>2 DEF Row
  <2> QED BY <2>1, <2>3 DEF Metadata
<1> QED BY <1>1, Invariance, PTL

\* An answer, cut short or not, is the best part of the whole.
THEOREM AnswersBestFirst == Spec => []BestFirst
<1>1. IInv => BestFirst
  <2> SUFFICES ASSUME IInv, NEW s \in Searches, at[s] = "answered"
               PROVE  \A r \in known[s] \ Range(docs[s]) : Wanted(ask[s], r) =>
                        \A k \in 1 .. Len(docs[s]) : Score[docs[s][k].text] >= Score[r.text]
    BY DEF BestFirst, IInv, Ranked
  <2> SUFFICES ASSUME NEW r \in known[s] \ Range(docs[s]), Wanted(ask[s], r)
               PROVE  \A k \in 1 .. Len(docs[s]) : Score[docs[s][k].text] >= Score[r.text]
    OBVIOUS
  <2>1. Selected(ask[s], r)
    BY SelectedIsWanted DEF IInv, TypeOK
  <2>2. \A k \in 1 .. Len(docs[s]) : docs[s][k] \in Range(docs[s])
    BY DEF IInv, TypeOK, Range
  <2>3. r \in rest[s]
    BY <2>1, <2>2 DEF IInv, SelectedOnly, SelectedBy
  <2> QED BY <2>3 DEF IInv, Ranked
<1> QED BY <1>1, Invariance, PTL

\* An answer that nothing cut short has every wanted document of the calls that
\* had returned before.
THEOREM ReadYourWrites == Spec => []FoundAfterAdd
<1>1. IInv => FoundAfterAdd
  <2> SUFFICES ASSUME IInv, NEW s \in Searches, at[s] = "answered", ~broken[s],
                      Len(docs[s]) < ask[s].limit, NEW r \in known[s], Wanted(ask[s], r)
               PROVE  r \in Range(docs[s])
    BY DEF FoundAfterAdd
  <2>1. Selected(ask[s], r)
    BY SelectedIsWanted DEF IInv, TypeOK
  <2>2. rest[s] = {}
    <3>1. ask[s] \in AskType /\ docs[s] \in Seq(Rows)
      BY StoreAssumption DEF IInv, TypeOK
    <3>2. ask[s].limit \in Nat /\ Len(docs[s]) \in Nat
      BY <3>1 DEF AskType
    <3> QED BY <3>2 DEF IInv, Ranked
  <2>3. \E k \in 1 .. Len(docs[s]) : docs[s][k] = r
    BY <2>1, <2>2 DEF IInv, SelectedOnly, SelectedBy
  <2> QED BY <2>3 DEF IInv, TypeOK, Range
<1> QED BY <1>1, Invariance, PTL

\* Every behaviour of the table is one of a store of documents: what AddDocuments
\* and SimilaritySearch do in many statements and rows, the store does in steps
\* that add one document or look at all of them.
THEOREM ImplementsDocumentStore == Spec => DocumentSpec
<1>1. IInv /\ [Next]_vars => [Documented!Next]_(Documented!vars)
  BY StepRefines
<1> QED BY <1>1, InitRefines, Invariance, PTL DEF Spec, DocumentSpec, Documented!Spec
==============================================================================
