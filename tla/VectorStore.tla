----------------------------- MODULE VectorStore -----------------------------
(***************************************************************************)
(* pgvector.Store: calls of AddDocuments and of SimilaritySearch over one  *)
(* table.  AddDocuments inserts its documents one by one, each with a      *)
(* statement of its own and none in a transaction, so that other calls, a  *)
(* failure or the end of the process may come between two of them; a       *)
(* caller that tries again makes another call.  SimilaritySearch reads the *)
(* rows of one statement from a connection that may break on the way.      *)
(*                                                                         *)
(* A text stands for its embedding too: Score is its similarity to what is *)
(* searched.  A row remembers the call and the position it comes from.     *)
(***************************************************************************)
EXTENDS Naturals, Sequences, Functions

CONSTANTS Adds,          \* calls of AddDocuments
          Searches,      \* calls of SimilaritySearch
          Texts, Tenants, DocIds, Roles, Tags,
          Score,         \* Score[t] : similarity of t to the searched text
          Batches,       \* what AddDocuments is given
          Asks,          \* what SimilaritySearch is given
          Parents,       \* contents of docu_documents (another program's table)
          saveMetadata,  \* Store.saveMetadata
          Null

\* What AdditionnalValues and the metadata of a document say.
Values == [tenant : Tenants \cup {Null}, doc : DocIds \cup {Null}]
Documents == [text : Texts, metadata : Values]
BatchType == [docs : Seq(Documents), options : {Null} \cup Values]
\* No OptionFilter is the empty tenant, which is Null here, and no roles or tags.
AskType == [tenant : Tenants \cup {Null}, roles : SUBSET Roles, tags : Seq(Tags),
            above : Nat, limit : Nat]
ParentType == [acl : {Null} \cup SUBSET Roles, tags : {Null} \cup SUBSET Tags]

ASSUME StoreAssumption ==
  /\ Score \in [Texts -> Nat]
  /\ Batches \subseteq BatchType
  /\ Asks \subseteq AskType
  /\ Parents \subseteq [DocIds -> {Null} \cup ParentType]
  /\ saveMetadata \in BOOLEAN
  /\ Null \notin Tenants \cup DocIds

VARIABLES
  parents,    \* docu_documents
  table,      \* the rows of the table
  addAt,      \* addAt[c] : "idle", "embedding", "inserting", "returned", or
              \* "open" and "ended", when c failed or was lost
  batch,      \* batch[c] : the arguments of c
  next,       \* next[c] : the document c inserts next
  at,         \* at[s] : "idle", "embedding", "reading", or how s ended
  ask,        \* ask[s] : the arguments of s
  rest,       \* rest[s] : the selected rows s has not read yet
  docs,       \* docs[s] : the rows s has read
  broken,     \* broken[s] : the connection broke under s
  known       \* known[s] : rows of returned calls when s began (history)

addVars    == <<table, addAt, batch, next>>
searchVars == <<at, ask, rest, docs, broken, known>>
vars == <<parents, addVars, searchVars>>

\* Fault: the document's metadata overrule the options.
MetadataFirst(b, i) ==
  IF b.options # Null /\ b.docs[i].metadata.tenant = Null THEN b.options ELSE b.docs[i].metadata

\* The last assignments win: the options overrule the document's metadata.
Metadata(b, i) == IF b.options = Null THEN b.docs[i].metadata ELSE b.options

\* The row that the insert statement of document i makes.
Row(c, b, i) ==
  [call |-> c, pos |-> i, text |-> b.docs[i].text,
   tenant |-> IF saveMetadata THEN Metadata(b, i).tenant ELSE Null,
   doc |-> IF saveMetadata THEN Metadata(b, i).doc ELSE Null]

Rows == [call : Adds, pos : Nat \ {0}, text : Texts,
         tenant : Tenants \cup {Null}, doc : DocIds \cup {Null}]

TypeOK ==
  /\ parents \in Parents
  /\ table \subseteq Rows
  /\ addAt \in [Adds -> {"idle", "embedding", "inserting", "returned", "open", "ended"}]
  /\ batch \in [Adds -> Batches]
  /\ next \in [Adds -> Nat \ {0}]
  /\ at \in [Searches -> {"idle", "embedding", "reading", "answered", "failed", "rejected"}]
  /\ ask \in [Searches -> Asks]
  /\ rest \in [Searches -> SUBSET Rows]
  /\ docs \in [Searches -> Seq(Rows)]
  /\ broken \in [Searches -> BOOLEAN]
  /\ known \in [Searches -> SUBSET Rows]

\* The arguments of every call are fixed at the start, and read when it begins.
Init ==
  /\ parents \in Parents
  /\ table = {}
  /\ addAt = [c \in Adds |-> "idle"]
  /\ batch \in [Adds -> Batches]
  /\ next = [c \in Adds |-> 1]
  /\ at = [s \in Searches |-> "idle"]
  /\ ask \in [Searches -> Asks]
  /\ rest = [s \in Searches |-> {}]
  /\ docs = [s \in Searches |-> <<>>]
  /\ broken = [s \in Searches |-> FALSE]
  /\ known = [s \in Searches |-> {}]

------------------------------------------------------------------------------
(* AddDocuments.                                                           *)

AddDocuments(c) ==
  /\ addAt[c] = "idle"
  /\ addAt' = [addAt EXCEPT ![c] = "embedding"]
  /\ UNCHANGED <<parents, table, batch, next, searchVars>>

\* EmbedDocuments gives one vector for each text, or the call fails.
EmbedDocuments(c) ==
  /\ addAt[c] = "embedding"
  /\ \/ addAt' = [addAt EXCEPT ![c] = "inserting"]
     \/ addAt' = [addAt EXCEPT ![c] = "ended"]
  /\ UNCHANGED <<parents, table, batch, next, searchVars>>

Inserting(c) == addAt[c] = "inserting" /\ next[c] <= Len(batch[c].docs)

Insert(c) ==
  /\ Inserting(c)
  /\ table' = table \cup {Row(c, batch[c], next[c])}
  /\ next' = [next EXCEPT ![c] = @ + 1]
  /\ UNCHANGED <<parents, addAt, batch, searchVars>>

\* Fault: the loop goes on behind a document that could not be inserted.
InsertFailsAndGoesOn(c) ==
  /\ Inserting(c)
  /\ table' \in {table, table \cup {Row(c, batch[c], next[c])}}
  /\ next' = [next EXCEPT ![c] = @ + 1]
  /\ UNCHANGED <<parents, addAt, batch, searchVars>>

\* The statement fails, or its answer does not come: then the row is there, or
\* will be, or not.
InsertFails(c) ==
  /\ Inserting(c)
  /\ addAt' = [addAt EXCEPT ![c] = "open"]
  /\ UNCHANGED <<parents, table, batch, next, searchVars>>

\* The database carries out a statement whose caller has gone.
CommitLate(c) ==
  /\ addAt[c] = "open"
  /\ table' = table \cup {Row(c, batch[c], next[c])}
  /\ addAt' = [addAt EXCEPT ![c] = "ended"]
  /\ UNCHANGED <<parents, batch, next, searchVars>>

AddReturns(c) ==
  /\ addAt[c] = "inserting" /\ next[c] > Len(batch[c].docs)
  /\ addAt' = [addAt EXCEPT ![c] = "returned"]
  /\ UNCHANGED <<parents, table, batch, next, searchVars>>

\* The process ends before the call does, perhaps with a statement under way.
Crash(c) ==
  /\ addAt[c] \in {"embedding", "inserting"}
  /\ addAt' = [addAt EXCEPT ![c] = IF Inserting(c) THEN "open" ELSE "ended"]
  /\ UNCHANGED <<parents, table, batch, next, searchVars>>

------------------------------------------------------------------------------
(* SimilaritySearch.                                                       *)

SimilaritySearch(s) ==
  /\ at[s] = "idle"
  /\ at' = [at EXCEPT ![s] = "embedding"]
  /\ known' = [known EXCEPT ![s] = {r \in table : addAt[r.call] = "returned"}]
  /\ UNCHANGED <<parents, addVars, ask, rest, docs, broken>>

\* The row of docu_documents that LEFT JOIN puts beside r.
Parent(r) == IF r.doc = Null THEN Null ELSE parents[r.doc]

\* Fault: a document without a list of roles is found by nobody.
PermittedByRoleOnly(q, r) ==
  Parent(r) # Null /\ Parent(r).acl # Null /\ Parent(r).acl \cap q.roles # {}

\* docu_documents.acl IS NULL OR = '{}' OR && array[roles]
Permitted(q, r) ==
  Parent(r) # Null /\ Parent(r).acl # Null /\ Parent(r).acl # {}
    => Parent(r).acl \cap q.roles # {}

\* docu_documents.tags && array[tags] OR the tags are empty; NULL is no match.
Tagged(q, r) ==
  q.tags # <<>> =>
    Parent(r) # Null /\ Parent(r).tags # Null /\ Parent(r).tags \cap Range(q.tags) # {}

\* The condition of the SELECT statement.
Selected(q, r) == /\ Score[r.text] > q.above
                  /\ Permitted(q, r) /\ Tagged(q, r)
                  /\ r.tenant = q.tenant /\ r.tenant # Null

\* Several tags stand in the statement as 'a','b' = '', which is a row and no
\* condition.
WellFormed(q) == Len(q.tags) <= 1

\* EmbedQuery, and Query: one snapshot of the table.
Query(s) ==
  /\ at[s] = "embedding" /\ WellFormed(ask[s])
  /\ rest' = [rest EXCEPT ![s] = {r \in table : Selected(ask[s], r)}]
  /\ at' = [at EXCEPT ![s] = "reading"]
  /\ UNCHANGED <<parents, addVars, ask, docs, broken, known>>

QueryRejected(s) ==
  /\ at[s] = "embedding" /\ ~WellFormed(ask[s])
  /\ at' = [at EXCEPT ![s] = "rejected"]
  /\ UNCHANGED <<parents, addVars, ask, rest, docs, broken, known>>

\* EmbedQuery fails, or the connection.
QueryFails(s) ==
  /\ at[s] = "embedding"
  /\ at' = [at EXCEPT ![s] = "failed"]
  /\ UNCHANGED <<parents, addVars, ask, rest, docs, broken, known>>

More(s) == at[s] = "reading" /\ rest[s] # {} /\ Len(docs[s]) < ask[s].limit

\* Fault: ORDER BY without DESC.
NextRowAscending(s) ==
  /\ More(s)
  /\ \E r \in rest[s] :
       /\ \A q \in rest[s] : Score[r.text] <= Score[q.text]
       /\ docs' = [docs EXCEPT ![s] = Append(@, r)]
       /\ rest' = [rest EXCEPT ![s] = @ \ {r}]
  /\ UNCHANGED <<parents, addVars, at, ask, broken, known>>

\* ORDER BY similarity_score DESC; the order of equal rows is the database's.
NextRow(s) ==
  /\ More(s)
  /\ \E r \in rest[s] :
       /\ \A q \in rest[s] : Score[r.text] >= Score[q.text]
       /\ docs' = [docs EXCEPT ![s] = Append(@, r)]
       /\ rest' = [rest EXCEPT ![s] = @ \ {r}]
  /\ UNCHANGED <<parents, addVars, at, ask, broken, known>>

\* rows.Next is false behind the last row, and when the connection breaks;
\* which of the two it was is not looked at.
SearchReturns(s) ==
  /\ at[s] = "reading"
  /\ broken' = [broken EXCEPT ![s] = More(s)]
  /\ at' = [at EXCEPT ![s] = "answered"]
  /\ UNCHANGED <<parents, addVars, ask, rest, docs, known>>

Next ==
  \/ \E c \in Adds : \/ AddDocuments(c) \/ EmbedDocuments(c)
                     \/ Insert(c) \/ InsertFails(c) \/ CommitLate(c)
                     \/ AddReturns(c) \/ Crash(c)
  \/ \E s \in Searches : \/ SimilaritySearch(s)
                         \/ Query(s) \/ QueryRejected(s) \/ QueryFails(s)
                         \/ NextRow(s) \/ SearchReturns(s)

Spec == Init /\ [][Next]_vars

------------------------------------------------------------------------------
(* What the store promises.                                                *)

\* AddDocuments returns without an error only when all its documents are
\* stored, whatever failed or crashed beside it.
ReturnedIsStored ==
  \A c \in Adds : addAt[c] = "returned" =>
    \A i \in 1 .. Len(batch[c].docs) : \E r \in table : r.call = c /\ r.pos = i

\* A call that fails or is lost half way leaves its first documents, no hole
\* and none twice, also when its last row comes after the failure.
PrefixStored ==
  \A r \in table :
    /\ \A i \in 1 .. r.pos - 1 : \E q \in table : q.call = r.call /\ q.pos = i
    /\ \A q \in table : q.call = r.call /\ q.pos = r.pos => q = r

\* A search sees only documents of its tenant: that of the options they were
\* added with, or else of their own metadata.
OnlyOwn ==
  \A s \in Searches : \A k \in 1 .. Len(docs[s]) :
    LET r == docs[s][k]
        b == batch[r.call]
    IN  ask[s].tenant = IF b.options # Null THEN b.options.tenant
                        ELSE b.docs[r.pos].metadata.tenant

\* What a document must be to answer a question, in the words of the README:
\* "filtered by tenant, ACL roles, and tags".
Wanted(q, r) ==
  /\ r.tenant = q.tenant /\ q.tenant # Null
  /\ Score[r.text] > q.above
  /\ \/ r.doc = Null \/ parents[r.doc] = Null
     \/ parents[r.doc].acl \in {Null, {}} \/ \E x \in q.roles : x \in parents[r.doc].acl
  /\ \/ q.tags = <<>>
     \/ /\ r.doc # Null /\ parents[r.doc] # Null /\ parents[r.doc].tags # Null
        /\ \E k \in 1 .. Len(q.tags) : q.tags[k] \in parents[r.doc].tags

\* The documents of an answer come best first, and a document that was stored
\* when the search began and is missing in the answer is no better than any in
\* it: an answer cut short by a broken connection or by the limit is the best
\* part of the whole.
BestFirst ==
  \A s \in Searches : at[s] = "answered" =>
    /\ \A j, k \in 1 .. Len(docs[s]) : j < k => Score[docs[s][j].text] >= Score[docs[s][k].text]
    /\ \A r \in known[s] \ Range(docs[s]) : Wanted(ask[s], r) =>
         \A k \in 1 .. Len(docs[s]) : Score[docs[s][k].text] >= Score[r.text]

\* Read your writes: a search that began when AddDocuments had returned, and
\* whose answer is neither cut by its limit nor by a broken connection, finds
\* every wanted document of that call.
FoundAfterAdd ==
  \A s \in Searches :
    at[s] = "answered" /\ ~broken[s] /\ Len(docs[s]) < ask[s].limit =>
      \A r \in known[s] : Wanted(ask[s], r) => r \in Range(docs[s])

\* "similarity search filtered by tenant, ACL roles, and tags": the database
\* does not reject the statement that the filters make.
SearchAnswered == \A s \in Searches : at[s] # "rejected"

------------------------------------------------------------------------------
(* The table behaves as a store of documents.                              *)

\* The rows that c is to insert, and those of all calls.
Listed(c) == [i \in DOMAIN batch[c].docs |-> Row(c, batch[c], i)]
AllListed == UNION {Range(Listed(c)) : c \in Adds}

AddPhase(p) == IF p \in {"embedding", "inserting"} THEN "running"
               ELSE IF p = "open" THEN "stopped" ELSE p
SearchPhase(p) == IF p = "embedding" THEN "begun"
                  ELSE IF p = "reading" THEN "looked"
                  ELSE IF p = "rejected" THEN "failed" ELSE p

\* What the variables are to that store.
Lists == [c \in Adds |-> Listed(c)]
Requests == [s \in Searches |-> [wants |-> {r \in AllListed : Wanted(ask[s], r)},
                                 limit |-> ask[s].limit]]
AddPhases == [c \in Adds |-> AddPhase(addAt[c])]
SearchPhases == [s \in Searches |-> SearchPhase(at[s])]
Views == [s \in Searches |-> rest[s] \cup Range(docs[s])]
Answers == [s \in Searches |-> IF at[s] = "answered" THEN docs[s] ELSE <<>>]

Documented == INSTANCE DocumentStore WITH
  lists <- Lists, requests <- Requests, stored <- table, adds <- AddPhases,
  searches <- SearchPhases, view <- Views, answer <- Answers, cut <- broken

\* The statements, each on its own, and the rows read one by one amount to a
\* store of documents: lists grow in their order, a search sees the store at one
\* instant, sees all that the words of the README let it see and nothing else,
\* and answers with the best of that, none twice.
DocumentSpec == Documented!Spec

------------------------------------------------------------------------------
(* The inductive invariant.                                                *)

\* The rows of a call are those of its documents before the next one, which
\* itself may be there when the call has ended.
RowsOfCalls ==
  /\ \A c \in Adds : \A i \in 1 .. next[c] - 1 : Row(c, batch[c], i) \in table
  /\ \A r \in table :
       /\ r = Row(r.call, batch[r.call], r.pos) /\ r.pos <= Len(batch[r.call].docs)
       /\ r.pos >= next[r.call] => r.pos = next[r.call] /\ addAt[r.call] = "ended"
  /\ \A c \in Adds : /\ addAt[c] = "returned" => next[c] > Len(batch[c].docs)
                     /\ addAt[c] = "open" => next[c] <= Len(batch[c].docs)

\* What s has read and still has to read are selected rows of the table; all
\* selected rows that were known are among them.
SelectedBy(s) ==
  /\ rest[s] \cup known[s] \subseteq table
  /\ \A r \in rest[s] : Selected(ask[s], r)
  /\ at[s] \in {"idle", "embedding", "failed", "rejected"} => docs[s] = <<>> /\ rest[s] = {}
  /\ \A k \in 1 .. Len(docs[s]) : docs[s][k] \in table /\ Selected(ask[s], docs[s][k])
  /\ at[s] \in {"reading", "answered"} =>
       \A r \in known[s] : Selected(ask[s], r) =>
         r \in rest[s] \/ \E k \in 1 .. Len(docs[s]) : docs[s][k] = r

SelectedOnly == \A s \in Searches : SelectedBy(s)

\* What has been read comes best first, and before all that has not.
Ranked ==
  \A s \in Searches :
    /\ \A j, k \in 1 .. Len(docs[s]) : j < k => Score[docs[s][j].text] >= Score[docs[s][k].text]
    /\ \A r \in rest[s] : \A k \in 1 .. Len(docs[s]) : Score[docs[s][k].text] >= Score[r.text]
    /\ at[s] = "answered" /\ ~broken[s] => rest[s] = {} \/ Len(docs[s]) >= ask[s].limit

\* No row is read twice, and not more rows than asked for.
ReadOnce ==
  \A s \in Searches :
    /\ \A j, k \in 1 .. Len(docs[s]) : j < k => docs[s][j] # docs[s][k]
    /\ \A k \in 1 .. Len(docs[s]) : docs[s][k] \notin rest[s]
    /\ Len(docs[s]) <= ask[s].limit

IInv == TypeOK /\ RowsOfCalls /\ SelectedOnly /\ Ranked /\ ReadOnce
==============================================================================
