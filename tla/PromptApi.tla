------------------------------ MODULE PromptApi ------------------------------
(***************************************************************************)
(* PromptHandler over the table core_prompts: adding, updating, deleting,  *)
(* reading, formatting and executing (without streaming) a prompt.  Every  *)
(* request is a handler of its own; it issues one SQL statement and then   *)
(* answers, so that statements of other requests, a lost connection, a     *)
(* migration or a restart of the server may come in between.               *)
(*                                                                         *)
(* A prompt's content is abstracted to the set of variables its template   *)
(* mentions, its parameters to the set of their names.  Nil stands for an  *)
(* absent field, a NULL and a missing row.                                 *)
(***************************************************************************)
EXTENDS Naturals

CONSTANTS Clients,    \* concurrent API clients
          Tenants,    \* tenants
          Names,      \* prompt names
          Vars,       \* template variables and parameter names
          Ids,        \* uuids the database hands out (bounds the creations)
          Bodies,     \* bodies of format and execute requests
          Nil,        \* nothing
          AnObject    \* a JSON object where a list is expected

Contents  == SUBSET Vars
ParamSets == SUBSET Vars
Rows == [tenant : Tenants, name : Names, content : Contents, params : ParamSets]

\* A row without its tenant: what a tenant sees of it.
PromptOf(row) == [name |-> row.name, content |-> row.content, params |-> row.params]
Prompts == {PromptOf(row) : row \in Rows}

\* api.ExecutePromptJSONRequestBody
BodyType == [content : {Nil} \cup Contents,
             params  : {Nil, AnObject} \cup ParamSets,
             values  : {Nil} \cup SUBSET Vars]

ASSUME ApiAssumption ==
  /\ Bodies \subseteq BodyType
  /\ Nil # AnObject
  /\ \A x \in {Nil, AnObject} : x \notin Tenants /\ x \notin Names /\ x \notin Ids
  /\ \A x \in {Nil, AnObject} : x \notin Rows /\ x \notin Prompts /\ \A vs \in SUBSET Vars : x # vs

AddRequests == [op : {"AddPrompt"}, tenant : Tenants \cup {Nil}, name : Names,
                content : Contents, params : {Nil, AnObject} \cup ParamSets]
UpdateRequests == [op : {"UpdatePrompt"}, tenant : Tenants \cup {Nil}, id : Ids, name : Names,
                   content : Contents, params : {Nil, AnObject} \cup ParamSets]
IdRequests == [op : {"DeletePrompt", "GetPromptByID"}, tenant : Tenants \cup {Nil}, id : Ids]
\* By id or by name: the name is not looked at when there is an id.
RunRequests == {q \in [op : {"FormatPrompt", "ExecutePrompt"}, tenant : Tenants \cup {Nil},
                       id : Ids \cup {Nil}, name : Names \cup {Nil}, body : Bodies] :
                  q.id = Nil \/ q.name = Nil}
Requests == AddRequests \cup UpdateRequests \cup IdRequests \cup RunRequests

VARIABLES
  table,      \* table[i] : the row with id i, or Nil
  issued,     \* the ids gen_random_uuid has returned
  unique,     \* the constraint on (tenant_id, name) exists
  at,         \* at[c] : "idle", "query", "reply", "call" (the LLM), "done"
  req,        \* req[c] : the last request of c
  res,        \* res[c] : what the statement returned to the handler
  run,        \* run[c] : what the handler gave to the LLM
  status,     \* status[c] : the HTTP status c was answered with
  versions    \* every version of a row that was ever stored (history)

tableVars == <<table, issued, unique, versions>>
reqVars   == <<at, req, res, run, status>>
vars == <<tableVars, reqVars>>

NoResult == [kind |-> "none", row |-> Nil]
Failed   == [kind |-> "error", row |-> Nil]
NoRows   == [kind |-> "norows", row |-> Nil]
Refused  == [kind |-> "referenced", row |-> Nil]
Returned(row) == [kind |-> "row", row |-> row]

\* A row as it was stored at one time, under its id.
Versions == [id : Ids, row : Rows]

Results == [kind : {"none", "error", "norows", "referenced", "row"}, row : Rows \cup {Nil}]

Runs == [content : Contents, params : ParamSets]

TypeOK ==
  /\ table \in [Ids -> Rows \cup {Nil}]
  /\ issued \subseteq Ids
  /\ unique \in BOOLEAN
  /\ versions \subseteq Versions
  /\ at \in [Clients -> {"idle", "query", "reply", "call", "done"}]
  /\ req \in [Clients -> Requests \cup {Nil}]
  /\ res \in [Clients -> Results]
  /\ run \in [Clients -> Runs \cup {Nil}]
  /\ status \in [Clients -> {0, 200, 201, 204, 400, 404, 409, 500}]

Init ==
  /\ table = [i \in Ids |-> Nil]
  /\ issued = {}
  /\ unique = TRUE
  /\ versions = {}
  /\ at = [c \in Clients |-> "idle"]
  /\ req = [c \in Clients |-> Nil]
  /\ res = [c \in Clients |-> NoResult]
  /\ run = [c \in Clients |-> Nil]
  /\ status = [c \in Clients |-> 0]

------------------------------------------------------------------------------
(* The handlers, up to their statement.                                    *)

\* ShouldBindJSON: the body has the types of the request struct.
Binds(q) == /\ q.op \in {"AddPrompt", "UpdatePrompt"} => q.params # AnObject
            /\ q.op \in {"FormatPrompt", "ExecutePrompt"} => q.body.params # AnObject

\* "id or name must be provided"
Addressed(q) ==
  q.op \in {"FormatPrompt", "ExecutePrompt"} => q.id # Nil \/ q.name # Nil

Free(c) == at[c] \in {"idle", "done"}

\* Fault: the handlers do not look at whether there is a tenant.
AcceptWithoutTenant(c, q) == /\ Free(c)
                             /\ Binds(q) /\ Addressed(q)
                             /\ at' = [at EXCEPT ![c] = "query"]
                             /\ req' = [req EXCEPT ![c] = q]
                             /\ run' = [run EXCEPT ![c] = Nil]
                             /\ status' = [status EXCEPT ![c] = 0]
                             /\ UNCHANGED <<tableVars, res>>

\* A request that passes the checks made before the statement.
Accept(c, q) == /\ Free(c)
                /\ q.tenant # Nil /\ Binds(q) /\ Addressed(q)
                /\ at' = [at EXCEPT ![c] = "query"]
                /\ req' = [req EXCEPT ![c] = q]
                /\ run' = [run EXCEPT ![c] = Nil]
                /\ status' = [status EXCEPT ![c] = 0]
                /\ UNCHANGED <<tableVars, res>>

\* A request that does not: without tenant 500, with a bad body 400.  It
\* leaves nothing but its status.
Reject(c, q) == /\ Free(c)
                /\ ~(q.tenant # Nil /\ Binds(q) /\ Addressed(q))
                /\ at' = [at EXCEPT ![c] = "idle"]
                /\ req' = [req EXCEPT ![c] = Nil]
                /\ run' = [run EXCEPT ![c] = Nil]
                /\ status' = [status EXCEPT ![c] = IF q.tenant = Nil THEN 500 ELSE 400]
                /\ UNCHANGED <<tableVars, res>>

------------------------------------------------------------------------------
(* The statements.                                                         *)

\* The result reaches the handler, or the connection is lost first.
Report(c, r) == /\ at' = [at EXCEPT ![c] = "reply"]
                /\ \E x \in {r, Failed} : res' = [res EXCEPT ![c] = x]
                /\ UNCHANGED <<req, run, status>>

Querying(c, ops) == at[c] = "query" /\ req[c].op \in ops

\* No other row of the tenant has the name, while that is a constraint.
NameFree(t, n, but) ==
  unique => \A i \in Ids \ but : table[i] # Nil => <<table[i].tenant, table[i].name>> # <<t, n>>

Store(i, row) == /\ table' = [table EXCEPT ![i] = row]
                 /\ versions' = versions \cup {[id |-> i, row |-> row]}

\* INSERT ... RETURNING: a NULL for a NOT NULL column is refused, so is a
\* name that is taken.
CreatePrompt(c) ==
  /\ Querying(c, {"AddPrompt"})
  /\ LET q == req[c]
         row == [tenant |-> q.tenant, name |-> q.name, content |-> q.content, params |-> q.params]
     IN IF q.params # Nil /\ NameFree(q.tenant, q.name, {})
        THEN \E i \in Ids \ issued : /\ Store(i, row)
                                     /\ issued' = issued \cup {i}
                                     /\ Report(c, Returned(row))
        ELSE Report(c, Failed) /\ UNCHANGED <<table, issued, versions>>
  /\ UNCHANGED unique

\* Fault: WHERE id = $1
MatchesAnyTenant(i, t) == i # Nil /\ table[i] # Nil

\* WHERE id = $1 AND tenant_id = $2
Matches(i, t) == i # Nil /\ table[i] # Nil /\ table[i].tenant = t

\* Fault: an update of a missing row inserts it.
UpdatePromptUpserting(c) ==
  /\ Querying(c, {"UpdatePrompt"})
  /\ LET q == req[c]
         row == [tenant |-> q.tenant, name |-> q.name, content |-> q.content,
                 params |-> IF q.params = Nil THEN {} ELSE q.params]
     IN IF NameFree(q.tenant, q.name, {q.id})
        THEN Report(c, Returned(row)) /\ Store(q.id, row)
        ELSE Report(c, Failed) /\ UNCHANGED <<table, versions>>
  /\ UNCHANGED <<issued, unique>>

\* UPDATE ... SET name, content, parameters = COALESCE($5, parameters):
\* the name and the content are always given.
UpdatePrompt(c) ==
  /\ Querying(c, {"UpdatePrompt"})
  /\ LET q == req[c]
         old == table[q.id]
         row == [tenant |-> old.tenant, name |-> q.name, content |-> q.content,
                 params |-> IF q.params = Nil THEN old.params ELSE q.params]
     IN IF ~Matches(q.id, q.tenant)
        THEN Report(c, NoRows) /\ UNCHANGED <<table, versions>>
        ELSE IF NameFree(q.tenant, q.name, {q.id})
             THEN Report(c, Returned(row)) /\ Store(q.id, row)
             ELSE Report(c, Failed) /\ UNCHANGED <<table, versions>>
  /\ UNCHANGED <<issued, unique>>

\* Fault: deleting what is not there succeeds.
DeletePromptIdempotent(c) ==
  /\ Querying(c, {"DeletePrompt"})
  /\ Report(c, Returned(table[req[c].id]))
  /\ table' = [table EXCEPT ![req[c].id] = IF Matches(req[c].id, req[c].tenant) THEN Nil ELSE @]
  /\ UNCHANGED <<issued, unique, versions>>

\* DELETE ... RETURNING id: a row that another table refers to is refused.
DeletePrompt(c) ==
  /\ Querying(c, {"DeletePrompt"})
  /\ LET q == req[c]
     IN IF Matches(q.id, q.tenant)
        THEN \/ Report(c, Returned(table[q.id])) /\ table' = [table EXCEPT ![q.id] = Nil]
             \/ Report(c, Refused) /\ UNCHANGED table
        ELSE Report(c, NoRows) /\ UNCHANGED table
  /\ UNCHANGED <<issued, unique, versions>>

GetPromptByID(c) ==
  /\ Querying(c, {"GetPromptByID", "FormatPrompt", "ExecutePrompt"})
  /\ req[c].id # Nil
  /\ Report(c, IF Matches(req[c].id, req[c].tenant) THEN Returned(table[req[c].id]) ELSE NoRows)
  /\ UNCHANGED tableVars

\* WHERE name = $1 AND tenant_id = $2 LIMIT 1: any of the rows that match.
GetPromptByName(c) ==
  /\ Querying(c, {"FormatPrompt", "ExecutePrompt"})
  /\ req[c].id = Nil
  /\ LET found == {i \in Ids : Matches(i, req[c].tenant) /\ table[i].name = req[c].name}
     IN IF found = {} THEN Report(c, NoRows)
                      ELSE \E i \in found : Report(c, Returned(table[i]))
  /\ UNCHANGED tableVars

\* The statement never reaches the database.
StatementFails(c) == at[c] = "query" /\ Report(c, Failed) /\ UNCHANGED tableVars

------------------------------------------------------------------------------
(* The handlers, after their statement.                                    *)

Answer(c, s) == /\ at' = [at EXCEPT ![c] = "done"]
                /\ status' = [status EXCEPT ![c] = s]
                /\ res' = [res EXCEPT ![c] = NoResult]
                /\ UNCHANGED <<tableVars, req, run>>

Replying(c, op) == at[c] = "reply" /\ req[c].op = op

Succeeded(c) == res[c].kind = "row"

ReplyAdd(c) == /\ Replying(c, "AddPrompt")
               /\ Answer(c, IF Succeeded(c) THEN 201 ELSE 500)

\* Fault: an update that finds no row is no error (:exec without RETURNING).
ReplyUpdateAnyway(c) ==
  /\ Replying(c, "UpdatePrompt")
  /\ Answer(c, IF res[c].kind \in {"row", "norows"} THEN 204 ELSE 500)

ReplyUpdate(c) == /\ Replying(c, "UpdatePrompt")
                  /\ Answer(c, IF Succeeded(c) THEN 204 ELSE 500)

ReplyDelete(c) == /\ Replying(c, "DeletePrompt")
                  /\ Answer(c, IF Succeeded(c) THEN 204
                               ELSE IF res[c].kind = "referenced" THEN 409 ELSE 500)

\* The status for a prompt that could not be fetched.
Missing(c) == IF res[c].kind = "norows" THEN 404 ELSE 500

ReplyGet(c) == /\ Replying(c, "GetPromptByID")
               /\ Answer(c, IF Succeeded(c) THEN 200 ELSE Missing(c))

\* Content and parameters: those of the body, or else those of the row.
Or(override, stored) == IF override # Nil THEN override ELSE stored
ContentOf(c) == Or(req[c].body.content, res[c].row.content)
ParamsOf(c)  == Or(req[c].body.params, res[c].row.params)

\* *req.ParametersValues panics when it is nil; gin recovers with a 500.
FormatStatus(content, params, values) ==
  IF values = Nil THEN 500
  ELSE IF ~(params \subseteq values) THEN 400
  ELSE IF ~(content \subseteq values) THEN 500 ELSE 200

ReplyFormat(c) ==
  /\ Replying(c, "FormatPrompt")
  /\ Answer(c, IF Succeeded(c)
               THEN FormatStatus(ContentOf(c), ParamsOf(c), req[c].body.values)
               ELSE Missing(c))

\* An execution that ends before its chain is built: no prompt, no usable
\* provider or model in the query, or NewBaseChain fails.
ReplyExecute(c) ==
  /\ Replying(c, "ExecutePrompt")
  /\ Answer(c, IF Succeeded(c) THEN 400 ELSE Missing(c))

\* Fault: the parameters are read again when the chain is built.
CallChainRereading(c) ==
  /\ Replying(c, "ExecutePrompt")
  /\ Succeeded(c)
  /\ at' = [at EXCEPT ![c] = "call"]
  /\ \E i \in Ids : /\ Matches(i, req[c].tenant)
                     /\ run' = [run EXCEPT ![c] = [content |-> ContentOf(c),
                                                    params |-> Or(req[c].body.params, table[i].params)]]
  /\ UNCHANGED <<tableVars, req, res, status>>

\* The chain is built and called with the values of the body.
CallChain(c) ==
  /\ Replying(c, "ExecutePrompt")
  /\ Succeeded(c)
  /\ at' = [at EXCEPT ![c] = "call"]
  /\ run' = [run EXCEPT ![c] = [content |-> ContentOf(c), params |-> ParamsOf(c)]]
  /\ UNCHANGED <<tableVars, req, res, status>>

\* The chain refuses missing inputs; otherwise the LLM answers or fails.
ReturnAnswer(c) ==
  /\ at[c] = "call"
  /\ LET values == IF req[c].body.values = Nil THEN {} ELSE req[c].body.values
         complete == run[c].params \cup run[c].content \subseteq values
     IN \E s \in {500} \cup (IF complete THEN {200} ELSE {}) : Answer(c, s)

------------------------------------------------------------------------------
(* The environment.                                                        *)

\* A request is being served.
Working(c) == at[c] \in {"query", "reply", "call"}

\* The server stops and starts again: requests in flight are never answered,
\* while a client that was answered remembers what it was told.
Restart ==
  /\ at' = [c \in Clients |-> IF Working(c) THEN "idle" ELSE at[c]]
  /\ req' = [c \in Clients |-> IF Working(c) THEN Nil ELSE req[c]]
  /\ run' = [c \in Clients |-> IF Working(c) THEN Nil ELSE run[c]]
  /\ res' = [c \in Clients |-> NoResult]
  /\ UNCHANGED <<tableVars, status>>

\* 20240408130000_drop_unique_prompt_name.sql
MigrateUp == /\ unique
             /\ unique' = FALSE
             /\ UNCHANGED <<table, issued, versions, reqVars>>

NamesUnique ==
  \A i, j \in Ids :
    (/\ table[i] # Nil /\ table[j] # Nil
     /\ table[i].tenant = table[j].tenant
     /\ table[i].name = table[j].name) => i = j

\* Going down again fails while names are duplicated.
MigrateDown == /\ ~unique
               /\ NamesUnique
               /\ unique' = TRUE
               /\ UNCHANGED <<table, issued, versions, reqVars>>

Statement(c) == \/ CreatePrompt(c) \/ UpdatePrompt(c) \/ DeletePrompt(c)
                \/ GetPromptByID(c) \/ GetPromptByName(c) \/ StatementFails(c)

Reply(c) == \/ ReplyAdd(c) \/ ReplyUpdate(c) \/ ReplyDelete(c) \/ ReplyGet(c)
            \/ ReplyFormat(c) \/ ReplyExecute(c) \/ CallChain(c) \/ ReturnAnswer(c)

Next == \/ \E c \in Clients : \/ \E q \in Requests : Accept(c, q) \/ Reject(c, q)
                              \/ Statement(c)
                              \/ Reply(c)
        \/ Restart \/ MigrateUp \/ MigrateDown

Spec == Init /\ [][Next]_vars

------------------------------------------------------------------------------
(* Properties.                                                             *)

Answered(c, op, s) == at[c] = "done" /\ req[c].op = op /\ status[c] = s

\* What c asked to have stored was stored: for its tenant, under the id it gave
\* if it gave one, with the parameters it gave if it gave any.
StoredAsAsked(c) ==
  \E v \in versions :
    /\ v.row.tenant = req[c].tenant /\ v.row.name = req[c].name
    /\ v.row.content = req[c].content
    /\ req[c].params # Nil => v.row.params = req[c].params
    /\ req[c].op = "UpdatePrompt" => v.id = req[c].id

\* Nobody is told of a change that was not made: a creation answered with 201
\* and an update answered with 204 were stored as they were asked for, also when
\* the prompt was being deleted or renamed by another client, the name was taken
\* or given free by a migration, or the server stopped in between.
ConfirmedWasStored ==
  \A c \in Clients :
    Answered(c, "AddPrompt", 201) \/ Answered(c, "UpdatePrompt", 204) => StoredAsAsked(c)

\* A prompt whose deletion was answered with 204 is gone for good: no update
\* that was under way brings it back, no creation gets its id, and the server
\* stopping and starting again changes nothing about it.
DeletedStaysDeleted ==
  \A c \in Clients : Answered(c, "DeletePrompt", 204) => table[req[c].id] = Nil

\* Of all requests to delete a prompt at most one is answered with 204.
DeletedOnce ==
  \A c, d \in Clients :
    (/\ Answered(c, "DeletePrompt", 204) /\ Answered(d, "DeletePrompt", 204)
     /\ req[c].id = req[d].id) => c = d

\* What is given to the LLM was stored together: but for what the body
\* overrides, the content and the parameters are those of one version of one
\* prompt of the tenant, of the id or the name that was asked for, also when
\* several prompts have that name and when the prompt is changed or deleted
\* before the chain is built.
ExecutedTogether ==
  \A c \in Clients : at[c] = "call" =>
    \E v \in versions :
      /\ v.row.tenant = req[c].tenant
      /\ IF req[c].id = Nil THEN v.row.name = req[c].name ELSE v.id = req[c].id
      /\ run[c] = [content |-> Or(req[c].body.content, v.row.content),
                   params  |-> Or(req[c].body.params, v.row.params)]

\* The API implements one catalog per tenant.
catalog == [t \in Tenants |-> [i \in Ids |->
              IF table[i] # Nil /\ table[i].tenant = t THEN PromptOf(table[i]) ELSE Nil]]
asks == [c \in Clients |-> IF Working(c) THEN req[c].tenant ELSE Nil]
got  == [c \in Clients |-> IF res[c].row # Nil THEN PromptOf(res[c].row) ELSE Nil]

Catalogs == INSTANCE TenantCatalogs

CatalogsSpec == Catalogs!Spec

------------------------------------------------------------------------------
(* The inductive invariant.                                                *)

\* Every row has an id that was handed out, and is a version that was stored.
RowsAccountedFor ==
  \A i \in Ids : table[i] # Nil => i \in issued /\ [id |-> i, row |-> table[i]] \in versions

\* A request that is being served passed the checks of its handler; a result
\* is there from the statement to the answer.
RequestsServed ==
  \A c \in Clients :
    /\ Working(c) \/ at[c] = "done" => req[c] \in Requests
    /\ Working(c) => req[c].tenant \in Tenants /\ Binds(req[c]) /\ Addressed(req[c])
    /\ at[c] \notin {"reply", "call"} => res[c] = NoResult
    /\ res[c].kind = "row" <=> res[c].row # Nil
    /\ at[c] = "call" => req[c].op = "ExecutePrompt" /\ res[c].kind = "row"

\* The row a handler has read was stored for its tenant, under the id or the
\* name it was asked for; the chain is built from it.
RowRead(c) ==
  /\ res[c].row.tenant = req[c].tenant
  /\ req[c].op = "ExecutePrompt" =>
       \E i \in Ids : /\ [id |-> i, row |-> res[c].row] \in versions
                       /\ IF req[c].id = Nil THEN res[c].row.name = req[c].name
                                            ELSE i = req[c].id
  /\ at[c] = "call" => run[c] = [content |-> ContentOf(c), params |-> ParamsOf(c)]

RowsRead == \A c \in Clients : res[c].row # Nil => RowRead(c)

\* The request of c has deleted its prompt and was, or will be, told so.
Deleted(c) == /\ \/ at[c] = "reply" /\ res[c].kind = "row"
                 \/ at[c] = "done" /\ status[c] = 204
              /\ req[c].op = "DeletePrompt"

DeletionsFinal ==
  \A c \in Clients : Deleted(c) =>
    /\ req[c].id \in issued
    /\ table[req[c].id] = Nil
    /\ \A d \in Clients : Deleted(d) /\ req[d].id = req[c].id => d = c

\* The request of c has stored what it asked for and was, or will be, told so.
Confirmed(c) == /\ \/ at[c] = "reply" /\ res[c].kind = "row"
                   \/ at[c] = "done" /\ status[c] \in {201, 204}
                /\ req[c].op \in {"AddPrompt", "UpdatePrompt"}

ConfirmationsTrue == \A c \in Clients : Confirmed(c) => StoredAsAsked(c)

IInv == /\ TypeOK /\ RowsAccountedFor /\ RequestsServed /\ RowsRead
        /\ DeletionsFinal /\ ConfirmationsTrue
==============================================================================
