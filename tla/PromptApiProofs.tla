--------------------------- MODULE PromptApiProofs ---------------------------
(***************************************************************************)
(* Proofs about PromptApi, for any sets of clients, tenants, names,        *)
(* variables, ids and bodies.  The steps that preserve the inductive       *)
(* invariant fall into five kinds, one lemma each: a result that leaves    *)
(* the table alone, a row that is stored, a row that is deleted, an        *)
(* answer, and the arrival of a request.                                   *)
(***************************************************************************)
EXTENDS PromptApi, TLAPS

\* What a request carries, by its operation.
LEMMA RequestFacts ==
  ASSUME NEW q \in Requests
  PROVE  /\ q.tenant \in Tenants \cup {Nil}
         /\ q.op \in {"AddPrompt", "UpdatePrompt"} =>
              /\ q.name \in Names /\ q.content \in Contents
              /\ q.params \in {Nil, AnObject} \cup ParamSets
         /\ q.op \in {"UpdatePrompt", "DeletePrompt", "GetPromptByID"} => q.id \in Ids
         /\ q.op \in {"FormatPrompt", "ExecutePrompt"} =>
              /\ q.id \in Ids \cup {Nil} /\ q.name \in Names \cup {Nil}
              /\ q.body \in BodyType
         /\ q.op \in {"AddPrompt", "UpdatePrompt", "DeletePrompt", "GetPromptByID",
                      "FormatPrompt", "ExecutePrompt"}
<1>1. CASE q \in AddRequests
  BY <1>1 DEF AddRequests
<1>2. CASE q \in UpdateRequests
  BY <1>2 DEF UpdateRequests
<1>3. CASE q \in IdRequests
  BY <1>3 DEF IdRequests
<1>4. CASE q \in RunRequests
  BY <1>4, ApiAssumption DEF RunRequests
<1>5. QED
  BY <1>1, <1>2, <1>3, <1>4 DEF Requests

\* Nil is no row, no list and no content.
LEMMA NilFacts == Nil \notin Rows /\ Nil \notin Ids /\ Nil \notin Tenants
                  /\ Nil \notin Contents /\ Nil \notin ParamSets /\ Nil \notin Prompts
BY ApiAssumption DEF Contents, ParamSets

\* The results of a statement are results, with a row when they say so.
LEMMA ResultFacts ==
  /\ {NoResult, Failed, NoRows, Refused} \subseteq Results
  /\ \A r \in {NoResult, Failed, NoRows, Refused} : r.kind # "row" /\ r.row = Nil
  /\ \A row \in Rows : /\ Returned(row) \in Results
                       /\ Returned(row).kind = "row" /\ Returned(row).row = row
BY DEF Results, NoResult, Failed, NoRows, Refused, Returned

\* Init establishes the inductive invariant.
LEMMA InitEstablishes == Init => IInv
<1> SUFFICES ASSUME Init PROVE IInv
  OBVIOUS
<1>1. TypeOK
  BY ResultFacts DEF Init, TypeOK
<1>2. RowsAccountedFor
  BY DEF Init, RowsAccountedFor
<1>3. RequestsServed /\ RowsRead
  BY DEF Init, RequestsServed, RowsRead, RowRead, Working, NoResult
<1>4. DeletionsFinal /\ ConfirmationsTrue
  BY DEF Init, DeletionsFinal, Deleted, ConfirmationsTrue, Confirmed
<1>5. QED
  BY <1>1, <1>2, <1>3, <1>4 DEF IInv

\* What is stored under an id is a row, and the id was handed out.
LEMMA StoredFacts ==
  ASSUME IInv, NEW i \in Ids, table[i] # Nil
  PROVE  table[i] \in Rows /\ i \in issued
<1>1. table[i] \in Rows
  BY DEF IInv, TypeOK
<1>2. i \in issued
  BY DEF IInv, RowsAccountedFor
<1>3. QED
  BY <1>1, <1>2

\* What a client has read stays read while others store rows.
LEMMA ReadKept ==
  ASSUME NEW d \in Clients, res[d].row # Nil => RowRead(d), versions \subseteq versions',
         req'[d] = req[d], res'[d] = res[d], run'[d] = run[d], at'[d] = at[d]
  PROVE  (res[d].row # Nil => RowRead(d))'
BY DEF RowRead, ContentOf, ParamsOf

------------------------------------------------------------------------------
(* The statements.                                                         *)

\* A statement that leaves the table alone reports a row of the tenant, or
\* none.
LEMMA ReadPreserves ==
  ASSUME IInv, NEW c \in Clients, NEW r \in Results,
         at[c] = "query", Report(c, r), UNCHANGED tableVars,
         r.kind = "row" <=> r.row # Nil,
         r.kind = "row" =>
           /\ req[c].op \notin {"AddPrompt", "UpdatePrompt", "DeletePrompt"}
           /\ r.row.tenant = req[c].tenant
           /\ req[c].op = "ExecutePrompt" =>
                \E i \in Ids : /\ [id |-> i, row |-> r.row] \in versions
                               /\ IF req[c].id = Nil THEN r.row.name = req[c].name
                                                    ELSE i = req[c].id
  PROVE  IInv'
<1> USE DEF tableVars
<1>1. PICK x \in {r, Failed} : res' = [res EXCEPT ![c] = x]
  BY DEF Report
<1>2. /\ x \in Results /\ (x.kind = "row" <=> x.row # Nil)
      /\ x.kind = "row" => x = r
  BY ResultFacts
<1>3. /\ at' = [at EXCEPT ![c] = "reply"]
      /\ UNCHANGED <<req, run, status>>
  BY DEF Report
<1>4. TypeOK'
  BY <1>1, <1>2, <1>3 DEF IInv, TypeOK
<1>5. RowsAccountedFor'
  BY DEF IInv, RowsAccountedFor
<1>6. RequestsServed'
  BY <1>1, <1>2, <1>3 DEF IInv, TypeOK, RequestsServed, Working, Binds, Addressed
<1>7. RowsRead'
  <2>1. \A d \in Clients : d # c => (res[d].row # Nil => RowRead(d))'
    BY <1>1, <1>3, ReadKept DEF IInv, TypeOK, RowsRead
  <2>2. (res[c].row # Nil => RowRead(c))'
    BY <1>1, <1>2, <1>3 DEF IInv, TypeOK, RowRead
  <2>3. QED
    BY <2>1, <2>2 DEF RowsRead
<1>8. DeletionsFinal'
  BY <1>1, <1>2, <1>3 DEF IInv, TypeOK, DeletionsFinal, Deleted
<1>9. ConfirmationsTrue'
  <2>1. \A d \in Clients : Confirmed(d)' => Confirmed(d)
    BY <1>1, <1>2, <1>3 DEF IInv, TypeOK, Confirmed
  <2>2. QED
    BY <1>3, <2>1 DEF IInv, ConfirmationsTrue, StoredAsAsked
<1>10. QED
  BY <1>4, <1>5, <1>6, <1>7, <1>8, <1>9 DEF IInv

\* A statement that stores what was asked for: under a new id, or in the place
\* of another row.
LEMMA StorePreserves ==
  ASSUME IInv, NEW c \in Clients, NEW i \in Ids, NEW row \in Rows,
         Querying(c, {"AddPrompt", "UpdatePrompt"}),
         Store(i, row), issued' = issued \cup {i}, UNCHANGED unique,
         Report(c, Returned(row)),
         i \notin issued \/ table[i] # Nil,
         row.tenant = req[c].tenant, row.name = req[c].name, row.content = req[c].content,
         req[c].params # Nil => row.params = req[c].params,
         req[c].op = "UpdatePrompt" => i = req[c].id
  PROVE  IInv'
<1>1. PICK x \in {Returned(row), Failed} : res' = [res EXCEPT ![c] = x]
  BY DEF Report
<1>2. /\ x \in Results /\ (x.kind = "row" <=> x.row # Nil)
      /\ x.row # Nil => x.row = row
  BY ResultFacts, NilFacts
<1>3. /\ at' = [at EXCEPT ![c] = "reply"] /\ at[c] = "query"
      /\ req[c].op \in {"AddPrompt", "UpdatePrompt"}
      /\ UNCHANGED <<req, run, status>>
      /\ table' = [table EXCEPT ![i] = row]
      /\ versions' = versions \cup {[id |-> i, row |-> row]}
      /\ [id |-> i, row |-> row] \in Versions
  BY DEF Report, Store, Querying, Versions
<1>4. TypeOK'
  BY <1>1, <1>2, <1>3 DEF IInv, TypeOK
<1>5. RowsAccountedFor'
  BY <1>3 DEF IInv, TypeOK, RowsAccountedFor
<1>6. RequestsServed'
  BY <1>1, <1>2, <1>3 DEF IInv, TypeOK, RequestsServed, Working, Binds, Addressed
<1>7. RowsRead'
  <2>1. \A d \in Clients : d # c => (res[d].row # Nil => RowRead(d))'
    BY <1>1, <1>3, ReadKept DEF IInv, TypeOK, RowsRead
  <2>2. (res[c].row # Nil => RowRead(c))'
    BY <1>1, <1>2, <1>3 DEF IInv, TypeOK, RowRead
  <2>3. QED
    BY <2>1, <2>2 DEF RowsRead
<1>8. DeletionsFinal'
  BY <1>1, <1>2, <1>3 DEF IInv, TypeOK, DeletionsFinal, Deleted
<1>9. ConfirmationsTrue'
  <2>1. StoredAsAsked(c)'
    BY <1>3 DEF StoredAsAsked
  <2>2. \A d \in Clients : StoredAsAsked(d) => StoredAsAsked(d)'
    BY <1>3 DEF StoredAsAsked
  <2>3. \A d \in Clients : d # c => (Confirmed(d)' => Confirmed(d))
    BY <1>1, <1>3 DEF IInv, TypeOK, Confirmed
  <2>4. QED
    BY <2>1, <2>2, <2>3 DEF IInv, ConfirmationsTrue
<1>10. QED
  BY <1>4, <1>5, <1>6, <1>7, <1>8, <1>9 DEF IInv

LEMMA CreatePreserves ==
  ASSUME IInv, NEW c \in Clients, CreatePrompt(c)
  PROVE  IInv'
<1> DEFINE q == req[c]
           row == [tenant |-> q.tenant, name |-> q.name, content |-> q.content,
                   params |-> q.params]
<1>1. at[c] = "query" /\ q.op = "AddPrompt" /\ q \in Requests /\ q.tenant \in Tenants /\ Binds(q)
  BY DEF CreatePrompt, Querying, IInv, RequestsServed, Working
<1>2. CASE q.params # Nil /\ NameFree(q.tenant, q.name, {})
  <2>1. row \in Rows
    BY <1>1, <1>2, RequestFacts DEF Binds, Rows
  <2>2. PICK i \in Ids \ issued : /\ Store(i, row)
                                  /\ issued' = issued \cup {i}
                                  /\ Report(c, Returned(row))
    BY <1>2 DEF CreatePrompt
  <2>3. Querying(c, {"AddPrompt", "UpdatePrompt"}) /\ UNCHANGED unique
    BY DEF CreatePrompt, Querying
  <2>4. QED
    BY <1>1, <2>1, <2>2, <2>3, StorePreserves
<1>3. CASE ~(q.params # Nil /\ NameFree(q.tenant, q.name, {}))
  BY <1>1, <1>3, ResultFacts, ReadPreserves DEF CreatePrompt, tableVars
<1>4. QED
  BY <1>2, <1>3

LEMMA UpdatePreserves ==
  ASSUME IInv, NEW c \in Clients, UpdatePrompt(c)
  PROVE  IInv'
<1> DEFINE q == req[c]
           old == table[q.id]
           row == [tenant |-> old.tenant, name |-> q.name, content |-> q.content,
                   params |-> IF q.params = Nil THEN old.params ELSE q.params]
           found == Matches(q.id, q.tenant)
           free == NameFree(q.tenant, q.name, {q.id})
<1>1. at[c] = "query" /\ q.op = "UpdatePrompt" /\ q \in Requests /\ q.tenant \in Tenants /\ Binds(q)
  BY DEF UpdatePrompt, Querying, IInv, RequestsServed, Working
<1>2. /\ ~found => Report(c, NoRows) /\ UNCHANGED <<table, versions>>
      /\ found /\ free => Report(c, Returned(row)) /\ Store(q.id, row)
      /\ found /\ ~free => Report(c, Failed) /\ UNCHANGED <<table, versions>>
      /\ UNCHANGED <<issued, unique>>
  BY DEF UpdatePrompt
<1>3. CASE found /\ free
  <2>1. q.id \in Ids /\ table[q.id] \in Rows /\ table[q.id].tenant = q.tenant
    BY <1>1, <1>3, RequestFacts DEF Matches, IInv, TypeOK
  <2>2. /\ row \in Rows /\ row.tenant = q.tenant /\ row.name = q.name
        /\ row.content = q.content /\ (q.params # Nil => row.params = q.params)
    BY <1>1, <2>1, RequestFacts DEF Binds, Rows
  <2>3. q.id \in issued /\ table[q.id] # Nil
    BY <1>3, <2>1 DEF Matches, IInv, RowsAccountedFor
  <2>4. issued' = issued \cup {q.id} /\ UNCHANGED unique
    BY <1>2, <2>3
  <2>5. Querying(c, {"AddPrompt", "UpdatePrompt"})
    BY <1>1 DEF Querying
  <2> HIDE DEF row
  <2>6. QED
    BY <1>1, <1>2, <1>3, <2>1, <2>2, <2>3, <2>4, <2>5, StorePreserves
<1>4. CASE ~(found /\ free)
  BY <1>1, <1>2, <1>4, ResultFacts, ReadPreserves DEF tableVars
<1>5. QED
  BY <1>3, <1>4

LEMMA DeletePreserves ==
  ASSUME IInv, NEW c \in Clients, DeletePrompt(c)
  PROVE  IInv'
<1> DEFINE q == req[c]
<1>1. /\ at[c] = "query" /\ q.op = "DeletePrompt" /\ q \in Requests /\ q.tenant \in Tenants
      /\ UNCHANGED <<issued, unique, versions>>
  BY DEF DeletePrompt, Querying, IInv, RequestsServed, Working
<1>2. CASE UNCHANGED table
  <2>1. Report(c, Refused) \/ Report(c, NoRows)
     \/ (Matches(q.id, q.tenant) /\ table' = [table EXCEPT ![q.id] = Nil])
    BY DEF DeletePrompt
  <2>2. ~(Matches(q.id, q.tenant) /\ table' = [table EXCEPT ![q.id] = Nil])
    BY <1>1, <1>2, RequestFacts DEF Matches, IInv, TypeOK
  <2>3. QED
    BY <1>1, <1>2, <2>1, <2>2, ResultFacts, ReadPreserves DEF tableVars
<1>3. CASE ~UNCHANGED table
  <2>1. /\ Matches(q.id, q.tenant) /\ table' = [table EXCEPT ![q.id] = Nil]
        /\ Report(c, Returned(table[q.id]))
    BY <1>3 DEF DeletePrompt
  <2>2. q.id \in Ids /\ table[q.id] \in Rows /\ table[q.id].tenant = q.tenant /\ q.id \in issued
    <3>1. q.id \in Ids /\ table[q.id] # Nil /\ table[q.id].tenant = q.tenant
      BY <1>1, <2>1, RequestFacts DEF Matches
    <3>2. QED
      BY <3>1, StoredFacts
  <2>3. PICK x \in {Returned(table[q.id]), Failed} : res' = [res EXCEPT ![c] = x]
    BY <2>1 DEF Report
  <2>4. /\ x \in Results /\ (x.kind = "row" <=> x.row # Nil)
        /\ x.row # Nil => x.row = table[q.id]
    BY <2>2, ResultFacts, NilFacts
  <2>5. /\ at' = [at EXCEPT ![c] = "reply"]
        /\ UNCHANGED <<req, run, status>>
    BY <2>1 DEF Report
  <2>6. TypeOK'
    BY <1>1, <2>1, <2>2, <2>3, <2>4, <2>5 DEF IInv, TypeOK
  <2>7. RowsAccountedFor'
    BY <1>1, <2>1, <2>2 DEF IInv, TypeOK, RowsAccountedFor
  <2>8. RequestsServed'
    BY <1>1, <2>3, <2>4, <2>5 DEF IInv, TypeOK, RequestsServed, Working, Binds, Addressed
  <2>9. RowsRead'
    <3>1. \A d \in Clients : d # c => (res[d].row # Nil => RowRead(d))'
      BY <1>1, <2>3, <2>5, ReadKept DEF IInv, TypeOK, RowsRead
    <3>2. (res[c].row # Nil => RowRead(c))'
      BY <1>1, <2>2, <2>3, <2>4, <2>5 DEF IInv, TypeOK, RowRead
    <3>3. QED
      BY <3>1, <3>2 DEF RowsRead
  <2>10. DeletionsFinal'
    <3>1. \A d \in Clients : Deleted(d) => req[d].id # q.id
      BY <2>1 DEF Matches, IInv, DeletionsFinal
    <3>2. \A d \in Clients : d # c => (Deleted(d)' <=> Deleted(d))
      BY <2>3, <2>5 DEF IInv, TypeOK, Deleted
    <3>3. QED
      BY <1>1, <2>1, <2>2, <2>5, <3>1, <3>2 DEF IInv, TypeOK, DeletionsFinal
  <2>11. ConfirmationsTrue'
    <3>1. \A d \in Clients : Confirmed(d)' => Confirmed(d)
      BY <1>1, <2>3, <2>5 DEF IInv, TypeOK, Confirmed
    <3>2. QED
      BY <1>1, <2>3, <2>5, <3>1 DEF IInv, ConfirmationsTrue, StoredAsAsked
  <2>12. QED
    BY <2>6, <2>7, <2>8, <2>9, <2>10, <2>11 DEF IInv
<1>4. QED
  BY <1>2, <1>3

------------------------------------------------------------------------------
(* Arrivals, answers and the environment.                                  *)

LEMMA ArrivalPreserves ==
  ASSUME IInv, NEW c \in Clients, NEW q \in Requests, Accept(c, q) \/ Reject(c, q)
  PROVE  IInv'
<1>1. /\ at[c] \in {"idle", "done"} /\ UNCHANGED <<table, issued, unique, versions, res>>
      /\ run' = [run EXCEPT ![c] = Nil] /\ res[c] = NoResult
  BY DEF Accept, Reject, Free, tableVars, IInv, RequestsServed
<1>2. \/ /\ at' = [at EXCEPT ![c] = "query"] /\ req' = [req EXCEPT ![c] = q]
         /\ q.tenant \in Tenants /\ Binds(q) /\ Addressed(q)
      \/ at' = [at EXCEPT ![c] = "idle"] /\ req' = [req EXCEPT ![c] = Nil]
  BY RequestFacts DEF Accept, Reject
<1>3. \E s \in {0, 400, 500} : status' = [status EXCEPT ![c] = s]
  BY DEF Accept, Reject
<1>4. TypeOK'
  BY <1>1, <1>2, <1>3 DEF IInv, TypeOK
<1>5. RowsAccountedFor'
  BY <1>1 DEF IInv, RowsAccountedFor
<1>6. RequestsServed'
  BY <1>1, <1>2 DEF IInv, TypeOK, RequestsServed, Working, Binds, Addressed
<1>7. RowsRead'
  <2>1. \A d \in Clients : d # c => (res[d].row # Nil => RowRead(d))'
    BY <1>1, <1>2, ReadKept DEF IInv, TypeOK, RowsRead
  <2>2. (res[c].row = Nil)'
    BY <1>1 DEF NoResult
  <2>3. QED
    BY <2>1, <2>2 DEF RowsRead
<1>8. DeletionsFinal'
  BY <1>1, <1>2, <1>3 DEF IInv, TypeOK, DeletionsFinal, Deleted
<1>9. ConfirmationsTrue'
  <2>1. \A d \in Clients : Confirmed(d)' => d # c /\ Confirmed(d)
    BY <1>1, <1>2, <1>3 DEF IInv, TypeOK, Confirmed
  <2>2. \A d \in Clients : d # c => req'[d] = req[d]
    BY <1>2 DEF IInv, TypeOK
  <2>3. QED
    BY <1>1, <2>1, <2>2 DEF IInv, ConfirmationsTrue, StoredAsAsked
<1>10. QED
  BY <1>4, <1>5, <1>6, <1>7, <1>8, <1>9 DEF IInv

\* An answer of 201, and one of 204, is given only for a row that was returned.
LEMMA AnswerPreserves ==
  ASSUME IInv, NEW c \in Clients, at[c] \in {"reply", "call"},
         NEW s \in {200, 201, 204, 400, 404, 409, 500}, Answer(c, s),
         s \in {201, 204} => at[c] = "reply" /\ res[c].kind = "row"
  PROVE  IInv'
<1> USE DEF Answer, tableVars
<1>1. TypeOK'
  BY ResultFacts DEF IInv, TypeOK
<1>2. RowsAccountedFor'
  BY DEF IInv, RowsAccountedFor
<1>3. RequestsServed'
  BY DEF IInv, TypeOK, RequestsServed, Working, Binds, Addressed, NoResult
<1>4. RowsRead'
  <2>1. \A d \in Clients : d # c => (res[d].row # Nil => RowRead(d))'
    BY ReadKept DEF IInv, TypeOK, RowsRead
  <2>2. (res[c].row = Nil)'
    BY DEF IInv, TypeOK, NoResult
  <2>3. QED
    BY <2>1, <2>2 DEF RowsRead
<1>5. DeletionsFinal'
  <2>1. \A d \in Clients : Deleted(d)' => Deleted(d)
    BY DEF IInv, TypeOK, Deleted
  <2>2. QED
    BY <2>1 DEF IInv, DeletionsFinal
<1>6. ConfirmationsTrue'
  <2>1. \A d \in Clients : Confirmed(d)' => Confirmed(d)
    BY DEF IInv, TypeOK, Confirmed
  <2>2. QED
    BY <2>1 DEF IInv, ConfirmationsTrue, StoredAsAsked
<1>7. QED
  BY <1>1, <1>2, <1>3, <1>4, <1>5, <1>6 DEF IInv

LEMMA ReplyPreserves ==
  ASSUME IInv, NEW c \in Clients, Reply(c)
  PROVE  IInv'
<1>1. CASE CallChain(c)
  <2>1. /\ at[c] = "reply" /\ req[c].op = "ExecutePrompt" /\ res[c].kind = "row"
        /\ UNCHANGED <<table, issued, unique, versions, req, res, status>>
        /\ at' = [at EXCEPT ![c] = "call"]
        /\ run' = [run EXCEPT ![c] = [content |-> ContentOf(c), params |-> ParamsOf(c)]]
    BY <1>1 DEF CallChain, Replying, Succeeded, tableVars
  <2>2. ContentOf(c) \in Contents /\ ParamsOf(c) \in ParamSets
    <3>1. req[c] \in Requests /\ Binds(req[c]) /\ res[c].row \in Rows
      BY <2>1 DEF IInv, TypeOK, Results, RequestsServed, Working
    <3>2. req[c].body \in BodyType /\ req[c].body.params # AnObject
      BY <2>1, <3>1, RequestFacts DEF Binds
    <3>3. QED
      BY <3>1, <3>2 DEF ContentOf, ParamsOf, Or, BodyType, Rows
  <2>3. TypeOK'
    BY <2>1, <2>2 DEF IInv, TypeOK, Runs
  <2>4. RowsAccountedFor'
    BY <2>1 DEF IInv, RowsAccountedFor
  <2>5. RequestsServed'
    BY <2>1 DEF IInv, TypeOK, RequestsServed, Working, Binds, Addressed
  <2>6. RowsRead'
    BY <2>1 DEF IInv, TypeOK, RowsRead, RowRead, ContentOf, ParamsOf
  <2>7. DeletionsFinal'
    BY <2>1 DEF IInv, TypeOK, DeletionsFinal, Deleted
  <2>8. ConfirmationsTrue'
    BY <2>1 DEF IInv, TypeOK, ConfirmationsTrue, Confirmed, StoredAsAsked
  <2>9. QED
    BY <2>3, <2>4, <2>5, <2>6, <2>7, <2>8 DEF IInv
<1>2. CASE ReplyDelete(c)
  BY <1>2, AnswerPreserves DEF ReplyDelete, Replying, Succeeded
<1>3. CASE ReplyAdd(c) \/ ReplyUpdate(c) \/ ReplyGet(c)
  BY <1>3, AnswerPreserves DEF ReplyAdd, ReplyUpdate, ReplyGet, Replying, Missing, Succeeded
<1>4. CASE ReplyFormat(c) \/ ReplyExecute(c)
  BY <1>4, AnswerPreserves DEF ReplyFormat, ReplyExecute, Replying, Missing, FormatStatus
<1>5. CASE ReturnAnswer(c)
  <2>1. at[c] = "call" /\ req[c].op = "ExecutePrompt"
    BY <1>5 DEF ReturnAnswer, IInv, RequestsServed
  <2>2. PICK s \in {200, 500} : Answer(c, s)
    BY <1>5 DEF ReturnAnswer
  <2>3. QED
    BY <2>1, <2>2, AnswerPreserves
<1>6. QED
  BY <1>1, <1>2, <1>3, <1>4, <1>5 DEF Reply

LEMMA FetchPreserves ==
  ASSUME IInv, NEW c \in Clients,
         GetPromptByID(c) \/ GetPromptByName(c) \/ StatementFails(c)
  PROVE  IInv'
<1>1. at[c] = "query" /\ UNCHANGED tableVars
  BY DEF GetPromptByID, GetPromptByName, StatementFails, Querying
<1>2. CASE Report(c, NoRows) \/ Report(c, Failed)
  BY <1>1, <1>2, ResultFacts, ReadPreserves
<1>3. ASSUME NEW i \in Ids, Matches(i, req[c].tenant), Report(c, Returned(table[i])),
             req[c].op \notin {"AddPrompt", "UpdatePrompt", "DeletePrompt"},
             req[c].op = "ExecutePrompt" =>
               IF req[c].id = Nil THEN table[i].name = req[c].name ELSE i = req[c].id
      PROVE  IInv'
  <2>1. /\ table[i] \in Rows /\ table[i].tenant = req[c].tenant
        /\ [id |-> i, row |-> table[i]] \in versions
    BY <1>3 DEF Matches, IInv, TypeOK, RowsAccountedFor
  <2>2. /\ Returned(table[i]) \in Results /\ Returned(table[i]).kind = "row"
        /\ Returned(table[i]).row = table[i] /\ table[i] # Nil
    BY <2>1, ResultFacts, NilFacts
  <2>3. QED
    BY <1>1, <1>3, <2>1, <2>2, ReadPreserves
<1>4. CASE GetPromptByID(c)
  <2>1. req[c].op \in {"GetPromptByID", "FormatPrompt", "ExecutePrompt"} /\ req[c].id # Nil
    BY <1>4 DEF GetPromptByID, Querying
  <2>2. req[c].id \in Ids
    BY <1>1, <2>1, RequestFacts DEF IInv, RequestsServed, Working
  <2>3. CASE Matches(req[c].id, req[c].tenant)
    <3>1. Report(c, Returned(table[req[c].id]))
      BY <1>4, <2>3 DEF GetPromptByID
    <3>2. QED
      BY <1>3, <2>1, <2>2, <2>3, <3>1
  <2>4. CASE ~Matches(req[c].id, req[c].tenant)
    BY <1>2, <1>4, <2>4 DEF GetPromptByID
  <2>5. QED
    BY <2>3, <2>4
<1>5. CASE GetPromptByName(c)
  <2> DEFINE found == {i \in Ids : Matches(i, req[c].tenant) /\ table[i].name = req[c].name}
  <2>1. req[c].op \in {"FormatPrompt", "ExecutePrompt"} /\ req[c].id = Nil
    BY <1>5 DEF GetPromptByName, Querying
  <2>2. CASE found = {}
    BY <1>2, <1>5, <2>2 DEF GetPromptByName
  <2>3. CASE found # {}
    <3>1. PICK i \in found : Report(c, Returned(table[i]))
      BY <1>5, <2>3 DEF GetPromptByName
    <3>2. QED
      BY <1>3, <2>1, <3>1
  <2>4. QED
    BY <2>2, <2>3
<1>6. CASE StatementFails(c)
  BY <1>2, <1>6 DEF StatementFails
<1>7. QED
  BY <1>4, <1>5, <1>6

LEMMA EnvironmentPreserves ==
  ASSUME IInv, Restart \/ MigrateUp \/ MigrateDown
  PROVE  IInv'
<1>1. CASE Restart
  <2>1. TypeOK'
    BY <1>1, ResultFacts DEF Restart, tableVars, IInv, TypeOK
  <2>2. RowsAccountedFor'
    BY <1>1 DEF Restart, tableVars, IInv, RowsAccountedFor
  <2>3. RequestsServed' /\ RowsRead'
    BY <1>1 DEF Restart, IInv, TypeOK, RequestsServed, RowsRead, RowRead, Working, NoResult
  <2>4. \A c \in Clients : at'[c] # "reply" /\ (at'[c] = "done" => at[c] = "done" /\ req'[c] = req[c])
    BY <1>1 DEF Restart, IInv, TypeOK, Working
  <2>5. \A c \in Clients : (Deleted(c)' => Deleted(c)) /\ (Confirmed(c)' => Confirmed(c))
    BY <1>1, <2>4 DEF Restart, Deleted, Confirmed
  <2>6. DeletionsFinal' /\ ConfirmationsTrue'
    <3>1. \A c \in Clients : Deleted(c)' \/ Confirmed(c)' => req'[c] = req[c]
      BY <2>4 DEF Deleted, Confirmed
    <3>2. UNCHANGED <<table, issued, versions>>
      BY <1>1 DEF Restart, tableVars
    <3>3. DeletionsFinal'
      BY <2>5, <3>1, <3>2 DEF IInv, DeletionsFinal
    <3>4. ConfirmationsTrue'
      BY <2>5, <3>1, <3>2 DEF IInv, ConfirmationsTrue, StoredAsAsked
    <3>5. QED
      BY <3>3, <3>4
  <2>7. QED
    BY <2>1, <2>2, <2>3, <2>6 DEF IInv
<1>2. CASE MigrateUp \/ MigrateDown
  <2>1. /\ UNCHANGED <<table, issued, versions, at, req, res, run, status>>
        /\ unique' \in BOOLEAN
    BY <1>2 DEF MigrateUp, MigrateDown, reqVars
  <2>2. TypeOK' /\ RowsAccountedFor'
    BY <2>1 DEF IInv, TypeOK, RowsAccountedFor
  <2>3. RequestsServed' /\ RowsRead' /\ DeletionsFinal' /\ ConfirmationsTrue'
    BY <2>1 DEF IInv, RequestsServed, RowsRead, RowRead, DeletionsFinal, Deleted, ConfirmationsTrue,
                Confirmed, StoredAsAsked, Working, Binds, Addressed, ContentOf, ParamsOf
  <2>4. QED
    BY <2>1, <2>2, <2>3 DEF IInv
<1>3. QED
  BY <1>1, <1>2

LEMMA NextPreserves == IInv /\ [Next]_vars => IInv'
<1> SUFFICES ASSUME IInv, [Next]_vars PROVE IInv'
  OBVIOUS
<1>1. CASE UNCHANGED vars
  BY <1>1 DEF vars, tableVars, reqVars, IInv, TypeOK, RowsAccountedFor, RequestsServed, RowsRead, RowRead,
              DeletionsFinal, Deleted, ConfirmationsTrue, Confirmed, StoredAsAsked, Working, Binds,
              Addressed, ContentOf, ParamsOf
<1>2. ASSUME NEW c \in Clients, Statement(c)
      PROVE  IInv'
  BY <1>2, CreatePreserves, UpdatePreserves, DeletePreserves, FetchPreserves DEF Statement
<1>3. QED
  BY <1>1, <1>2, ArrivalPreserves, ReplyPreserves, EnvironmentPreserves DEF Next

THEOREM Invariance == Spec => []IInv
<1>1. QED
  BY InitEstablishes, NextPreserves, PTL DEF Spec

------------------------------------------------------------------------------
(* The safety properties.                                                  *)

\* Every variable keeps its type: in particular no NULL gets into a row.
THEOREM TypeCorrect == Spec => []TypeOK
<1>1. IInv => TypeOK
  BY DEF IInv
<1>2. QED
  BY <1>1, Invariance, PTL

\* A creation or an update that was acknowledged was stored as it was asked for.
THEOREM ConfirmationsHold == Spec => []ConfirmedWasStored
<1>1. IInv => ConfirmedWasStored
  BY DEF IInv, ConfirmationsTrue, Confirmed, ConfirmedWasStored, Answered
<1>2. QED
  BY <1>1, Invariance, PTL

\* A prompt whose deletion was acknowledged does not come back.
THEOREM DeletionIsFinal == Spec => []DeletedStaysDeleted
<1>1. IInv => DeletedStaysDeleted
  BY DEF IInv, DeletionsFinal, Deleted, DeletedStaysDeleted, Answered
<1>2. QED
  BY <1>1, Invariance, PTL

\* At most one request to delete a prompt is acknowledged.
THEOREM DeletionIsOnce == Spec => []DeletedOnce
<1>1. IInv => DeletedOnce
  BY DEF IInv, DeletionsFinal, Deleted, DeletedOnce, Answered
<1>2. QED
  BY <1>1, Invariance, PTL

\* The content and the parameters given to the LLM were stored together.
THEOREM ExecutesStoredPrompt == Spec => []ExecutedTogether
<1>1. IInv => ExecutedTogether
  <2> SUFFICES ASSUME IInv, NEW c \in Clients, at[c] = "call"
               PROVE  \E v \in versions :
                        /\ v.row.tenant = req[c].tenant
                        /\ IF req[c].id = Nil THEN v.row.name = req[c].name
                                             ELSE v.id = req[c].id
                        /\ run[c] = [content |-> Or(req[c].body.content, v.row.content),
                                     params  |-> Or(req[c].body.params, v.row.params)]
    BY DEF ExecutedTogether
  <2>1. res[c].row # Nil /\ req[c].op = "ExecutePrompt"
    BY DEF IInv, RequestsServed
  <2>2. QED
    BY <2>1 DEF IInv, RowsRead, RowRead, ContentOf, ParamsOf
<1>2. QED
  BY <1>1, Invariance, PTL

------------------------------------------------------------------------------
(* The refinement.                                                         *)

\* What is seen of a row is a prompt.
LEMMA PromptFacts == \A row \in Rows : PromptOf(row) \in Prompts /\ PromptOf(row) # Nil
BY NilFacts DEF Rows, Prompts, PromptOf

\* new is stored under i, or nothing.
Replaced(i, new) == table' = [table EXCEPT ![i] = new]

\* Replacing what is stored under i for the tenant t, or for nobody, replaces
\* what t has under i and leaves the other catalogs alone.
LEMMA CatalogFollowsTable ==
  ASSUME TypeOK, NEW i \in Ids, NEW t \in Tenants, NEW new \in Rows \cup {Nil},
         Replaced(i, new),
         table[i] # Nil => table[i].tenant = t,
         new # Nil => new.tenant = t
  PROVE  /\ catalog' = [catalog EXCEPT ![t][i] = IF new = Nil THEN Nil ELSE PromptOf(new)]
         /\ catalog[t][i] = IF table[i] = Nil THEN Nil ELSE PromptOf(table[i])
<1> DEFINE p == IF new = Nil THEN Nil ELSE PromptOf(new)
<1>1. \A u \in Tenants, j \in Ids :
        catalog'[u][j] = IF u = t /\ j = i THEN p ELSE catalog[u][j]
  BY DEF TypeOK, catalog, Replaced
<1>2. /\ catalog = [u \in Tenants |-> [j \in Ids |-> catalog[u][j]]]
      /\ catalog' = [u \in Tenants |-> [j \in Ids |-> catalog'[u][j]]]
  BY DEF catalog
<1>3. catalog[t][i] = IF table[i] = Nil THEN Nil ELSE PromptOf(table[i])
  BY DEF catalog
<1> HIDE DEF p
<1>4. catalog' = [catalog EXCEPT ![t] = [catalog[t] EXCEPT ![i] = p]]
  <2>1. catalog'[t] = [catalog[t] EXCEPT ![i] = p]
    <3>1. /\ catalog[t] = [j \in Ids |-> catalog[t][j]]
          /\ catalog'[t] = [j \in Ids |-> catalog'[t][j]]
      BY <1>2
    <3>2. \A j \in Ids : catalog'[t][j] = IF j = i THEN p ELSE catalog[t][j]
      BY <1>1
    <3> HIDE DEF catalog
    <3>3. QED
      BY <3>1, <3>2
  <2>2. \A u \in Tenants : u # t => catalog'[u] = catalog[u]
    BY <1>1, <1>2
  <2>3. catalog = [u \in Tenants |-> catalog[u]] /\ catalog' = [u \in Tenants |-> catalog'[u]]
    BY <1>2
  <2>4. QED
    BY <2>1, <2>2, <2>3
<1>5. QED
  BY <1>3, <1>4 DEF p

\* A statement changes what its own client has got, and for whom nobody asks.
LEMMA ReportMapped ==
  ASSUME IInv, NEW c \in Clients, at[c] = "query", NEW r \in Results, Report(c, r)
  PROVE  /\ asks' = asks /\ asks[c] = req[c].tenant /\ got[c] = Nil
         /\ \/ UNCHANGED got
            \/ r.row # Nil /\ got' = [got EXCEPT ![c] = PromptOf(r.row)]
<1>1. asks' = asks /\ asks[c] = req[c].tenant
  BY DEF Report, asks, Working, IInv, TypeOK
<1>2. res[c].row = Nil
  BY DEF IInv, RequestsServed, NoResult
<1>3. PICK x \in {r, Failed} : res' = [res EXCEPT ![c] = x]
  BY DEF Report
<1>4. got[c] = Nil
  BY <1>2 DEF got
<1>5. \A d \in Clients : got'[d] = IF d = c THEN IF x.row # Nil THEN PromptOf(x.row) ELSE Nil
                                            ELSE got[d]
  BY <1>3 DEF got, IInv, TypeOK
<1>6. x.row # Nil => x = r
  BY <1>3 DEF Failed
<1>7. CASE x.row = Nil
  BY <1>1, <1>4, <1>5, <1>7 DEF got
<1>8. CASE x.row # Nil
  BY <1>1, <1>4, <1>5, <1>6, <1>8 DEF got
<1>9. QED
  BY <1>7, <1>8

\* An answer ends the request of its client.
LEMMA AnswerMapped ==
  ASSUME IInv, NEW c \in Clients, NEW s, Answer(c, s)
  PROVE  Catalogs!Finish({c})
<1>1. catalog' = catalog
  BY DEF Answer, tableVars, catalog
<1>2. asks' = [d \in Clients |-> IF d \in {c} THEN Nil ELSE asks[d]]
  BY DEF Answer, asks, Working, IInv, TypeOK
<1>3. got' = [d \in Clients |-> IF d \in {c} THEN Nil ELSE got[d]]
  BY DEF Answer, got, NoResult, IInv, TypeOK
<1>4. QED
  BY <1>1, <1>2, <1>3 DEF Catalogs!Finish

LEMMA StatementRefines ==
  ASSUME IInv, NEW c \in Clients, Statement(c)
  PROVE  Catalogs!Next \/ UNCHANGED Catalogs!vars
<1> DEFINE q == req[c]
           t == req[c].tenant
<1>1. at[c] = "query" /\ q \in Requests /\ t \in Tenants /\ Binds(q)
  BY DEF Statement, CreatePrompt, UpdatePrompt, DeletePrompt, GetPromptByID, GetPromptByName,
         StatementFails, Querying, IInv, RequestsServed, Working
<1>2. ASSUME NEW r \in {NoRows, Failed, Refused}, Report(c, r), UNCHANGED table
      PROVE  UNCHANGED Catalogs!vars
  <2>1. r \in Results /\ r.row = Nil
    BY ResultFacts
  <2>2. asks' = asks /\ got' = got
    BY <1>1, <1>2, <2>1, ReportMapped
  <2>3. catalog' = catalog
    BY <1>2 DEF catalog
  <2>4. QED
    BY <2>2, <2>3 DEF Catalogs!vars
<1>3. ASSUME NEW i \in Ids, Matches(i, t), Report(c, Returned(table[i])), UNCHANGED table
      PROVE  Catalogs!Next \/ UNCHANGED Catalogs!vars
  <2>1. table[i] \in Rows /\ table[i].tenant = t
    BY <1>3 DEF Matches, IInv, TypeOK
  <2>2. Returned(table[i]) \in Results /\ Returned(table[i]).row = table[i]
    BY <2>1, ResultFacts
  <2>3. /\ asks' = asks /\ asks[c] = t
        /\ UNCHANGED got \/ got' = [got EXCEPT ![c] = PromptOf(table[i])]
    BY <1>1, <1>3, <2>2, ReportMapped
  <2>4. catalog' = catalog /\ catalog[t][i] = PromptOf(table[i])
    BY <1>1, <1>3, <2>1, NilFacts DEF catalog
  <2>5. QED
    BY <1>1, <2>3, <2>4 DEF Catalogs!vars, Catalogs!Next, Catalogs!Read, Catalogs!Serving
<1>4. ASSUME NEW i \in Ids, NEW row \in Rows, row.tenant = t,
             table[i] # Nil => table[i].tenant = t,
             Store(i, row), Report(c, Returned(row))
      PROVE  Catalogs!Next
  <2>1. Returned(row) \in Results /\ Returned(row).row = row /\ row # Nil
    BY ResultFacts, NilFacts
  <2>2. /\ asks' = asks /\ asks[c] = t /\ got[c] = Nil
        /\ UNCHANGED got \/ got' = [got EXCEPT ![c] = PromptOf(row)]
    BY <1>1, <1>4, <2>1, ReportMapped
  <2>3. /\ catalog' = [catalog EXCEPT ![t][i] = PromptOf(row)]
        /\ PromptOf(row) \in Prompts /\ PromptOf(row) # Nil
    <3>1. TypeOK /\ t \in Tenants /\ row \in Rows \cup {Nil} /\ row # Nil
      BY <1>1, <2>1 DEF IInv
    <3>2. Replaced(i, row)
      BY <1>4 DEF Store, Replaced
    <3>3. catalog' = [catalog EXCEPT ![t][i] = IF row = Nil THEN Nil ELSE PromptOf(row)]
      BY <1>4, <3>1, <3>2, CatalogFollowsTable
    <3>4. QED
      BY <3>1, <3>3, PromptFacts
  <2>4. \E p \in {Nil, PromptOf(row), catalog[t][i]} : got' = [got EXCEPT ![c] = p]
    BY <2>2 DEF got
  <2>5. Catalogs!Write(c, t, i, PromptOf(row))
    BY <1>1, <2>2, <2>3, <2>4 DEF Catalogs!Write, Catalogs!Serving
  <2>6. Catalogs!Add(c, t, i, PromptOf(row)) \/ Catalogs!Change(c, t, i, PromptOf(row))
    BY <2>3, <2>5 DEF Catalogs!Add, Catalogs!Change
  <2>7. QED
    BY <1>1, <2>3, <2>6 DEF Catalogs!Next
<1>5. CASE CreatePrompt(c)
  <2> DEFINE row == [tenant |-> q.tenant, name |-> q.name, content |-> q.content,
                     params |-> q.params]
  <2>1. q.op = "AddPrompt"
    BY <1>5 DEF CreatePrompt, Querying
  <2>2. CASE q.params # Nil /\ NameFree(q.tenant, q.name, {})
    <3>1. row \in Rows /\ row.tenant = t
      BY <1>1, <2>1, <2>2, RequestFacts DEF Binds, Rows
    <3>2. PICK i \in Ids \ issued : Store(i, row) /\ Report(c, Returned(row))
      BY <1>5, <2>2 DEF CreatePrompt
    <3>3. table[i] = Nil
      BY DEF IInv, RowsAccountedFor
    <3>4. QED
      BY <1>4, <3>1, <3>2, <3>3
  <2>3. CASE ~(q.params # Nil /\ NameFree(q.tenant, q.name, {}))
    BY <1>2, <1>5, <2>3 DEF CreatePrompt
  <2>4. QED
    BY <2>2, <2>3
<1>6. CASE UpdatePrompt(c)
  <2> DEFINE old == table[q.id]
             row == [tenant |-> old.tenant, name |-> q.name, content |-> q.content,
                     params |-> IF q.params = Nil THEN old.params ELSE q.params]
  <2>1. q.op = "UpdatePrompt"
    BY <1>6 DEF UpdatePrompt, Querying
  <2>2. CASE Matches(q.id, q.tenant) /\ NameFree(q.tenant, q.name, {q.id})
    <3>1. q.id \in Ids /\ old \in Rows /\ old.tenant = t
      BY <1>1, <2>1, <2>2, RequestFacts DEF Matches, IInv, TypeOK
    <3>2. row \in Rows /\ row.tenant = t
      BY <1>1, <2>1, <3>1, RequestFacts DEF Binds, Rows
    <3>3. Store(q.id, row) /\ Report(c, Returned(row))
      BY <1>6, <2>2 DEF UpdatePrompt
    <3> HIDE DEF row
    <3>4. QED
      BY <1>4, <3>1, <3>2, <3>3
  <2>3. CASE ~(Matches(q.id, q.tenant) /\ NameFree(q.tenant, q.name, {q.id}))
    BY <1>2, <1>6, <2>3 DEF UpdatePrompt
  <2>4. QED
    BY <2>2, <2>3
<1>7. CASE DeletePrompt(c)
  <2>1. CASE /\ Matches(q.id, t) /\ Report(c, Returned(table[q.id]))
             /\ table' = [table EXCEPT ![q.id] = Nil]
    <3>1. q.id \in Ids
      BY <1>1, <1>7, RequestFacts DEF DeletePrompt, Querying
    <3>2. table[q.id] \in Rows /\ table[q.id].tenant = t /\ table[q.id] # Nil
      BY <2>1, <3>1, NilFacts DEF Matches, IInv, TypeOK
    <3>3. Returned(table[q.id]) \in Results /\ Returned(table[q.id]).row = table[q.id]
      BY <3>2, ResultFacts
    <3>4. /\ asks' = asks /\ asks[c] = t /\ got[c] = Nil
          /\ UNCHANGED got \/ got' = [got EXCEPT ![c] = PromptOf(table[q.id])]
      BY <1>1, <2>1, <3>3, ReportMapped
    <3>5. /\ catalog' = [catalog EXCEPT ![t][q.id] = Nil]
          /\ catalog[t][q.id] = PromptOf(table[q.id]) /\ catalog[t][q.id] # Nil
      <4>1. Replaced(q.id, Nil)
        BY <2>1 DEF Replaced
      <4>2. QED
        BY <1>1, <3>1, <3>2, <4>1, CatalogFollowsTable, PromptFacts DEF IInv
    <3>6. \E p \in {Nil, catalog[t][q.id]} : got' = [got EXCEPT ![c] = p]
      BY <3>4, <3>5 DEF got
    <3>7. Catalogs!Change(c, t, q.id, Nil)
      BY <1>1, <3>4, <3>5, <3>6 DEF Catalogs!Change, Catalogs!Write, Catalogs!Serving
    <3>8. QED
      BY <1>1, <3>1, <3>7 DEF Catalogs!Next
  <2>2. CASE (Report(c, Refused) \/ Report(c, NoRows)) /\ UNCHANGED table
    BY <1>2, <2>2
  <2>3. QED
    BY <1>7, <2>1, <2>2 DEF DeletePrompt
<1>8. CASE GetPromptByID(c)
  <2>1. q.id \in Ids /\ UNCHANGED table
    BY <1>1, <1>8, RequestFacts DEF GetPromptByID, Querying, tableVars
  <2>2. CASE Matches(q.id, t)
    BY <1>3, <1>8, <2>1, <2>2 DEF GetPromptByID
  <2>3. CASE ~Matches(q.id, t)
    BY <1>2, <1>8, <2>1, <2>3 DEF GetPromptByID
  <2>4. QED
    BY <2>2, <2>3
<1>9. CASE GetPromptByName(c)
  <2> DEFINE found == {i \in Ids : Matches(i, t) /\ table[i].name = q.name}
  <2>1. UNCHANGED table
    BY <1>9 DEF GetPromptByName, tableVars
  <2>2. CASE found = {}
    BY <1>2, <1>9, <2>1, <2>2 DEF GetPromptByName
  <2>3. CASE found # {}
    <3>1. PICK i \in found : Report(c, Returned(table[i]))
      BY <1>9, <2>3 DEF GetPromptByName
    <3>2. QED
      BY <1>3, <2>1, <3>1
  <2>4. QED
    BY <2>2, <2>3
<1>10. CASE StatementFails(c)
  BY <1>2, <1>10 DEF StatementFails, tableVars
<1>11. QED
  BY <1>5, <1>6, <1>7, <1>8, <1>9, <1>10 DEF Statement

\* Every step of the API is a step in the catalog of one tenant, or none.
LEMMA StepRefines ==
  ASSUME IInv, [Next]_vars
  PROVE  [Catalogs!Next]_(Catalogs!vars)
<1>1. CASE UNCHANGED vars \/ MigrateUp \/ MigrateDown
  BY <1>1 DEF vars, tableVars, reqVars, MigrateUp, MigrateDown, Catalogs!vars, catalog, asks, got,
              Working
<1>2. ASSUME NEW c \in Clients, NEW q \in Requests, Accept(c, q)
      PROVE  Catalogs!Next
  <2>1. q.tenant \in Tenants /\ asks[c] = Nil /\ UNCHANGED <<table, res>>
    BY <1>2, RequestFacts DEF Accept, Free, asks, Working, tableVars
  <2>2. asks' = [asks EXCEPT ![c] = q.tenant]
    BY <1>2 DEF Accept, asks, Working, IInv, TypeOK
  <2>3. UNCHANGED <<catalog, got>>
    BY <2>1 DEF catalog, got
  <2>4. QED
    BY <2>1, <2>2, <2>3 DEF Catalogs!Next, Catalogs!Ask
<1>3. ASSUME NEW c \in Clients, NEW q \in Requests, Reject(c, q)
      PROVE  UNCHANGED Catalogs!vars
  BY <1>3 DEF Reject, Free, tableVars, Catalogs!vars, catalog, asks, got, Working, IInv, TypeOK
<1>4. ASSUME NEW c \in Clients, Reply(c)
      PROVE  Catalogs!Next \/ UNCHANGED Catalogs!vars
  <2>1. CASE CallChain(c)
    BY <2>1 DEF CallChain, Replying, tableVars, Catalogs!vars, catalog, asks, got, Working,
                IInv, TypeOK
  <2>2. CASE \E s : Answer(c, s)
    <3>1. {c} \in SUBSET Clients /\ Catalogs!Finish({c})
      BY <2>2, AnswerMapped
    <3>2. QED
      BY <3>1 DEF Catalogs!Next
  <2>3. QED
    BY <1>4, <2>1, <2>2 DEF Reply, ReplyAdd, ReplyUpdate, ReplyDelete, ReplyGet, ReplyFormat,
                            ReplyExecute, ReturnAnswer
<1>5. CASE Restart
  <2>1. Catalogs!Finish(Clients)
    BY <1>5 DEF Restart, IInv, TypeOK, tableVars, Catalogs!Finish, catalog, asks, got, Working, NoResult
  <2>2. QED
    BY <2>1 DEF Catalogs!Next
<1>6. QED
  BY <1>1, <1>2, <1>3, <1>4, <1>5, StatementRefines DEF Next

\* The API implements one catalog per tenant: what a request changes and what
\* it is shown belongs to the tenant it was made for.
THEOREM ImplementsCatalogs == Spec => CatalogsSpec
<1>1. Init => Catalogs!Init
  BY DEF Init, Catalogs!Init, catalog, asks, got, Working, NoResult
<1>2. IInv /\ [Next]_vars => [Catalogs!Next]_(Catalogs!vars)
  BY StepRefines
<1>3. QED
  BY <1>1, <1>2, Invariance, PTL DEF Spec, CatalogsSpec, Catalogs!Spec
==============================================================================
