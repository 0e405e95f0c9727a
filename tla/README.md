# A TLA+ model of lcgo-be-lib

lcgo-be-lib is a Go library and service around LLM prompts. It stores prompts
per tenant in PostgreSQL, serves a REST API to manage, format and execute them,
runs them through langchaingo against one of five LLM providers, and streams the
answer to the client with server-sent events when it is asked to.

This directory holds TLA+ modules translated from the Go and SQL sources, TLC
configurations that check them on small instances, and TLAPS proofs of the
properties that matter most. `PROJECT.json` maps every definition to the lines
it translates, and lists the runs, the faults each property detects, the
hazards, the findings and the theorems.

## Inventory of the system

| Component | State it keeps | Operations | Hard behaviour | What makes it correct |
|---|---|---|---|---|
| `PromptHandler.ExecutePrompt`, streaming half (`pkg/core/api/prompt_handler.go` 501-549, callback in `generation_service.go` 64-72) | two channels, a timer, the response, the gin context, per request | start, chunk, answer, failure, close, timeout, disconnect | two goroutines per request, a select with several ready cases, a goroutine that outlives its handler, a context pool shared by all requests | chunks in order and complete, at most one error event and last, the handler always returns, a failed generator always ends, a context is not shared |
| Prompt store (`pkg/core/db`: migrations, `query/prompt.sql`, `repository/prompt.sql.go`) | the table `core_prompts`, the migration level | create, get by id, get by name, list, update, delete; migrate up and down | concurrent requests of several tenants, replies lost after the commit, NULL and COALESCE rules, names that are unique only before the second migration | tenants never see or change each other's rows, a read returns what was written, a change is confirmed only when it was made |
| `PromptHandler`, CRUD and format (`prompt_handler.go` 34-342, `prompt_execution_service.go`) | none of its own | add, update, delete, get, list, format; execute without streaming | several statements or a statement and an LLM call per request, status codes, optional fields | the answer tells what happened to the table; what is executed was stored |
| Chains (`pkg/core/service/gochains`) | `BaseChain.chainType`, the fields of `ChainBuilder` | constructors, builder calls in any order, `SetChainType` | a shared chain is mutated by `GenerateStructuredAnswer` while other calls read its type at four places; each setter overwrites what others have set | one call sees one type; what the prompt asks for is what is validated, whatever the order of the setters |
| Generation (`pkg/core/service/generation_service.go`) | none | generate text, generate structured, extract JSON, convert | failures of the LLM, of the JSON extraction and of the validation; fences anywhere in the answer | an answer as it was asked for is accepted; a structured answer has every field of its schema |
| Vector store (`pkg/shared/pgvector`) | a table of embedded documents, beside a table of documents of another program | add documents, similarity search | documents inserted one by one without a transaction, lost answers, crashes; errors while rows are read; NULL on both sides of a join | a call without error has stored all, a failed one a prefix; a search sees its tenant only, finds what was added, and gives the best first |
| LLM factory (`pkg/shared/llmmodels`) | environment variables | `NewLLM`, `Provider` | JSON mode, which one provider has and refuses for prompts that do not ask for JSON | an unknown provider or one without a key is refused; JSON mode fits the prompt |
| OpenAPI layer (`api/openapi/core`, generated) | none | routing, decoding of the query | absent and empty parameters | what the handler gets is what was sent |
| Command and example (`cmd/prompt`, `internal/example`) | two registrations for signals | start, two sample generations, wait for a signal | a signal at any point of a start-up that calls an LLM which may hang | a signal ends the command |

How they interact: gin routes a request through the generated OpenAPI layer to a
method of `PromptHandler`, which calls the store (one SQL statement per call, no
transaction) and, to execute a prompt, builds a `BaseChain` and calls
`GenerateTextAnswer`. A streaming request does so in a goroutine of its own,
which talks to the handler through `clientChan` and `errorChan`. The handler,
the goroutine and all other requests share gin's pool of contexts and the
connection pool of the database. A list is read page by page, one statement per
request. The command uses the library without the API; the vector store is used by
programs that import it.

## Modules

| Module | Models | Kind |
|---|---|---|
| `SseEvents` | the events of a streamed answer and which of them keep the stream open | shared definitions |
| `SseStream` | what the client of a stream is promised | abstract specification |
| `ExecuteStream` | the handler and the generator goroutine of every streaming request | detailed specification |
| `ExecuteStreamProofs` | theorems about `ExecuteStream` | proofs |
| `MCExecuteStream` | instances for TLC | model checking |
| `TenantCatalogs` | what the prompt API promises its tenants | abstract specification |
| `PromptApi` | the handlers that add, change, delete, read, format and execute a prompt, over the table `core_prompts` | detailed specification |
| `PromptApiProofs` | theorems about `PromptApi` | proofs |
| `MCPromptApi` | instances for TLC | model checking |
| `PromptList` | `ListPrompts`: clients that read a list page by page while the table changes | specification |
| `PromptListProofs` | theorems about `PromptList` | proofs |
| `MCPromptList` | instances for TLC | model checking |
| `AtomicChain` | what the callers of one chain can rely on | abstract specification |
| `SharedChain` | callers of `GenerateTextAnswer` and `GenerateStructuredAnswer` over one `BaseChain` | detailed specification |
| `SharedChainProofs` | theorems about `SharedChain` | proofs |
| `MCSharedChain` | instances for TLC | model checking |
| `JsonAnswer` | the JSON in an answer: extraction between fences, decoding, and reference definitions of both | pure operators |
| `ChainBuilder` | the builder: setters in any order, `Build` and the constructors it calls | specification, composed below |
| `BuiltChain` | `ChainBuilder` composed with `GenerateStructuredAnswer` over `JsonAnswer` | specification |
| `BuiltChainProofs` | theorems about `BuiltChain` and `JsonAnswer` | proofs |
| `MCBuiltChain` | an instance for TLC | model checking |
| `DocumentStore` | what a vector store promises | abstract specification |
| `VectorStore` | calls of `AddDocuments` and `SimilaritySearch` over one table | detailed specification |
| `VectorStoreProofs` | theorems about `VectorStore` | proofs |
| `MCVectorStore` | instances for TLC | model checking |
| `Command` | `main`, its two samples, the goroutine and the channels of its signals | specification |
| `CommandProofs` | theorems about `Command` | proofs |

### ExecuteStream and the code

Each request has two sequential processes, as in the code. `handler[r]` is where
the handler is: `"loop"` at the head of the loop of `c.Stream`, where gin looks
at the client's close notification, `"select"` inside the step function
(`prompt_handler.go` 529-548). `gen[r]` is where the goroutine of lines 512-525
is: inside the LLM call, blocked in the send of its callback
(`generation_service.go` 70), about to push an error, about to close, or gone.
`clientChan` is unbuffered, so it holds no message: a receive is a rendezvous of
the two (`ReceiveMsg`). `errorChan` holds the number of buffered errors, up to its
capacity of one. Each case of the select is an action, and several may be
enabled: Go's choice between ready cases is TLC's choice between actions. The
timer is restarted at every entry of the select, as `time.After` is evaluated
again, and may fire at any moment; the 60 seconds themselves are abstracted.
`pool` is gin's `sync.Pool` of contexts: a handler gives its context back when it
returns, and the goroutine keeps using it as its `context.Context`.

The words of a chunk are abstracted to its position. An answer has at most
`MaxChunks` chunks, as the token limit of the call bounds it in the code.

### PromptApi and the code

A client has one request at a time, and several clients work at once. A request
goes through three steps, which other requests may come between: the checks
before the statement (`Accept` or `Reject`), the one SQL statement of the handler
(`CreatePrompt` ... `GetPromptByName`), and the answer (the `Reply...` actions).
An execution has a fourth: `CallChain` builds the chain and calls the LLM,
`ReturnAnswer` ends it. A statement is atomic, as PostgreSQL makes it; no handler
opens a transaction. `Report` hands the result to the handler or loses it with
the connection after the statement took effect; `StatementFails` is a statement
that never reached the database. `Restart` stops the server between any two
steps: the table stays, requests in flight are forgotten, and clients that have
their answer keep it. `MigrateUp` and `MigrateDown` are the second migration, in
both directions. A statement that PostgreSQL carries out after its failure was
reported is in `VectorStore` and not here, where a failed statement either took
effect before its report or never does.

A content is the set of variables its template mentions, a parameter list the
set of its names, the values of a body the set of names it has values for: that
is what the statuses depend on. `Nil` is an absent field and a NULL, `AnObject`
a JSON object where the body should have a list. Format, format instructions,
tags (which follow the rules of the parameters), sample parameters, user and time
stamps are left out. A template that does not parse, and an execution by a
request that has both an id and a name (the id wins), are left out too.

`versions` is a history variable: every version of a row that was ever stored,
with its id.
`issued` keeps the ids that were handed out, so that `gen_random_uuid` never
repeats one; the size of `Ids` bounds the creations.

### PromptList and the code

A list is a loop of requests. Each is bound by the generated wrapper (`Bind`,
`Refuse`), goes through the handler's loop over the tags one element at a time
(`KeepTag`, `RemoveEmpty`, `TagsDone`), makes one SELECT (`Query`) and reads its
rows (`Reply`, or `ListFails` when the statement or the reading fails). The client
asks for the next page while pages are full, and may try a failed page again
(`Retry`); that is how a client uses the API and no code of this repository.
The order the database gives equal rows in is chosen anew at every `Query`, by a
bijection between places and rows that respects `ORDER BY`; sorting by a column
that is none leaves all orders open.

Between any two steps others add, change, rename and delete prompts, as
`PromptApi` allows, and the migration drops the unique constraint. Names and
contents are numbers in the place the database sorts them to, and the pattern of
`LIKE` is the set of the names it matches.

`known`, `left`, `came`, `twice` and `total` are history variables: what the list
was when the client asked for its first page, whether something on it was
deleted, renamed or untagged since, or was added, renamed or tagged, what was
given on two pages, and whether every page was selected in a total order.

### ChainBuilder, JsonAnswer, BuiltChain and the code

Each setter of the builder is an action with exactly its assignments:
`WithStructuredOutput` and `WithCustomJSONFormat` both overwrite the type and the
flag, and the latter writes instructions into the template from the schemas of that
moment. `Build` may be called between any two setters, and again. `NewLLM` knows
five providers, each with a key in the environment, and puts OpenAI alone into JSON
mode. A template is the sequence of the blocks of instructions in it, each with the
fields it asks for.

An answer is a sequence of tokens: objects with their fields, `null`, text and
fences. Objects with fences inside their strings have two halves around what is
between the first and the last of them, which may be anything, since the fences
may be in two strings. `extractJSONFromResponse` returns the tokens between the
first `` ```json `` and the next fence, or the whole; `Decodes` and `FieldsOf` say
what `json.Unmarshal` makes of it. `Clean` (the LLM did as it was told) is the
reference it is compared with. White space around the JSON is left out, as decoding
ignores it.

### VectorStore and the code

`AddDocuments` embeds all texts and then inserts row by row: `Insert`,
`InsertFails`, `Crash` at any point. After both the row may be stored all the same,
at once or later (`CommitLate`): a lost answer looks like a failure to the caller,
and PostgreSQL does not notice at once that a caller has gone. A caller who tries
again makes another call with the same documents, which may overtake that. `SimilaritySearch` takes its rows in one snapshot (`Query`) and
reads them one at a time; `SearchReturns` may come before the last row, because
`rows.Next` is false when the connection breaks and `rows.Err` is not looked at.
`docu_documents`, the table of another program that the statement joins, is
external: its contents are any of `Parents` and do not change.

A text stands for its embedding, `Score` for its similarity to what is searched. A
row remembers the call and the position it comes from, which the database does not,
to state what a call leaves behind. `saveMetadata` false leaves both columns NULL.

### Command and the code

`at` is where `main` is: checks of the environment, connection, the two samples and
the wait for `quit`. `relay` is the channel and the goroutine of
`signal.NotifyContext`, `quit` the channel of line 110. `Signal` is a SIGINT or
SIGTERM, which kills a process that has registered nothing and otherwise goes to
every channel registered at that moment. A call of the LLM answers, fails, or hangs
until its context is cancelled; one that begins with a cancelled context fails.

### SharedChain and the code

A chain is built in one of three ways (`kind`). The handlers of this repository
build a chain per request; the library exports the chain and both functions, so
several goroutines may use one. Each read of the chain's type is an action of its
own: the parser (`generation_service.go` 54), the temperature (59), after a
failure (81) or an answer (99), and the validation (`base_chain.go` 197).
`SetChainType` is an assignment to a Go string without synchronization, two words
in memory in either order; a reader compares what it finds with "structured", so
a half-written type counts as another one. Only `GenerateStructuredAnswer` sets
the type in this repository, and only to "structured"; a program that calls the
exported `SetChainType` itself is not modelled.

An answer is abstracted to whether it holds JSON that decodes to an object, and
to the fields of that. `null`, which decodes to a nil map, is JSON without fields.
What the fences around the JSON do is in `JsonAnswer`.

## What is checked

### Runs that pass

| Run | Instance | What it shows |
|---|---|---|
| `stream_promise` | 2 requests, 2 contexts, 2 chunks, `FairSpec` | Chunks in order and complete, an error last, a stream that ends by the closed channel is whole; only a timeout or a disconnect leaves a generator in its call, and only such a generator can run on a context that serves another request; nobody waits for what cannot come, and each step of a handler brings it nearer to its end; every handler returns and every failed generator ends, with an LLM that may hang for ever, and with one that goes on, a generator ends or is blocked for ever on an abandoned stream; the inductive invariant; the refinement of `SseStream` |
| `api_tenants` | 2 clients, 2 tenants, 1 id, 1 name, no variables, bodies with and without values | The types; the refinement of `TenantCatalogs` |
| `api_names` | 2 clients, 1 tenant, 2 ids, 2 names, no variables, symmetric | A creation or an update that was confirmed was stored as it was asked for, deletions are final and confirmed once, also across a restart |
| `api_versions` | 2 clients, 1 tenant, 2 ids, 1 name, 1 variable, at most 2 versions (`FewVersions`), symmetric | What reaches the LLM is one stored version of one prompt |
| `list_pages` | 1 client, 3 ids, 3 names, 4 lists (pages of one and of two, either direction, tags among empty ones, an order that tells rows apart only by chance), symmetric | The statement gets the tags that are not empty; a list in a total order misses nothing that stayed on it and repeats nothing unless something came, and nothing foreign is given, in any order; the inductive invariant |
| `chain_shared` | 3 callers, 2 fields, symmetric | Structured calls are undisturbed; the inductive invariant, which says that their maps are complete and that no call panics; the refinement of `AtomicChain` |
| `chain_built` | 2 fields, 3 providers, 17 answers, `MaxBlocks` = 1 | Whatever the order of the setters, an answer as it was asked for is accepted, a map lacks nothing, JSON mode fits the prompt; the inductive invariant |
| `vector_store` | 3 adds of two kinds, 1 search of six kinds, 5 states of the joined table, symmetric | What fails leaves a prefix; searches see their tenant, best first, and find what was added before; the inductive invariant; the refinement of `DocumentStore`, in which what returns is stored |
| `command_signals` | 3 signals, every environment, `FairSpec` | No signal is lost once `quit` is registered; a signal ends the command, or came when nothing listened; the inductive invariant |

Why these bounds are enough to meet the interesting cases. A context can only be
shared by a generator and a later request, so two requests over two contexts
include an abandoned generator, a request on its context and one on the other. Two
chunks distinguish the first, the next and the last one. Two clients are enough
for every race between two statements, and for a migration or a restart between
the steps of both. In `api_tenants` the one id belongs to one tenant and is asked
for by the other. In `api_names` two ids and two names allow a duplicate to be
made by a creation and by a renaming, an id to be deleted twice, and a deletion to
race with an update. In `api_versions` one variable makes the contents and the
parameters of two versions differ independently, and the two versions are of one
prompt that changes under an execution, or of two prompts of one name, of which
the read by name picks any. `FewVersions` cuts off tables with a third version
(`MaxVersions`), and what follows an answer that turned a request away, which is
what follows none; bodies that override a field are left to the theorem. In
`list_pages` three rows and pages of one give a first, a middle and a last page,
with a row before, on and behind the page at hand; one client is enough, since
clients that list change nothing. In `chain_shared` two callers can write the two
words of the type while a third reads them. In `chain_built` two fields make a set
of schemas smaller and larger than what is answered, and one block of the setter
before that of the constructor makes two; `MaxBlocks` bounds how often
`WithCustomJSONFormat` is called on one template, and the answers have each shape
of `JsonAnswer`: objects bare, in blocks, in two, in one that is not closed or of
another kind, with fences in one string and in two, `null`, and none. In
`vector_store` a call can fail, be tried again and run beside another while the
search reads; batches of two documents have a prefix, and a late row may land
while the next call inserts. In `command_signals` three signals can meet the
start, the samples and the wait. The theorems below hold without any of these
bounds but `MaxBlocks` and `MaxSignals`, for which they hold whatever the number.

The cfgs of `ExecuteStream`, `VectorStore` and `Command` turn the deadlock check
off: there requests come once and an abandoned generator blocks for ever, all calls
end, and the command ends or waits for a signal that nobody sends. Those of
`PromptApi`, `PromptList`, `SharedChain` and `BuiltChain` leave it on: clients and
callers come back.

### Runs that find a disagreement

| Run | Says | The code does |
|---|---|---|
| `stream_error_lost` | "Send error as SSE event instead of trying to change status code" (`prompt_handler.go` 537) | After a failure the error is buffered and the message channel closed; the select may take the closed channel first, and the stream then ends without its error event |
| `chain_text_lost` | "GenerateTextAnswer specifically returns string responses" (`generation_service.go` 163) | A structured call on the same chain, while the LLM answers, has the text decoded as JSON |
| `vector_two_tags` | "similarity search filtered by tenant, ACL roles, and tags" (`README.md` 16-17) | Two tags make a statement that the database rejects |

Also noticed and visible in the modules, but too plain to need a run:

- An execution that lacks the value of a parameter is answered with 500
  (`prompt_handler.go` 484-487), where `prompts-execute-path.yaml` 78 says 400. A
  prompt without its required lists reaches the INSERT as NULL and is answered
  with 500, where `prompts-path.yaml` 85 says "400: Invalid input". Formatting a
  body without `parametersValues` dereferences nil (`prompt_handler.go` 326), where
  `prompts-format-path.yaml` 22-38 documents a body without that field.
- An update is answered with 204 and no body (`prompt_handler.go` 106), where
  `prompts-id-path.yaml` 39-44 promises the prompt. A model that cannot answer in
  JSON makes the call fail, where the comment at `generation_service.go` 91
  announces a second call.
- A list whose order does not tell its rows apart, or that is sorted by a column
  that is none, may miss and repeat prompts between two pages although nothing
  changed (`total` in `PromptList`).
- `isJson` is set by three setters (`base_chain.go` 266, 273 and 295) and read by nothing.
  `GenerateStructuredAnswer` on a chain of `NewBaseChain` asks for no JSON mode and,
  like a chain with a custom format, validates no field; the JSON `null` is a nil
  map and no error.
- What stands between `` ```json `` in one string of an object and `` ``` `` in a later
  one may be an object itself (`generation_service.go` 153): of the answer
  `` {"k":["```json{", ":", "}```"]} `` a chain that validates nothing returns the map
  `{", ":", "}`. `chain_built` has such an answer, and a chain with schemas still
  returns no map without their fields.
- `AddDocuments` returns the texts of the documents and ignores its context while
  it inserts (`pgvector.go` 139-146). A call that is tried again stores its first
  documents twice.
- A signal that comes after the last sample noticed its context and before `quit`
  is registered (`main.go` 106-111) is lost: the first branch of `Obeys` fails and
  the second one says so.

### Faults

Next to some definitions of the modules stands a faulty variant of it, introduced
by a comment `Fault:`. It is not part of the specification: `PROJECT.json` lists,
under `mutants`, which property of which run fails when the variant takes the
place of the definition.

## Fairness

`ExecuteStream!FairSpec` assumes that the Go runtime runs every goroutine that can
go on (weak fairness of `HandlerStep` and `GenExit`, one per request) and that a
started timer fires. A write to the client is part of a step of the handler, so
that it is assumed to end, as it does when the kernel takes the bytes or the
connection is found broken. Nothing is assumed of the client, who need not leave, nor of
the LLM, which may hang in the middle of a call: `generateAnswer` sets no deadline.
`GeneratorSettles` is about the behaviours in which the LLM goes on with each call
(`LLMAnswers`, an assumption inside the property and not of the specification).

`Command!FairSpec` assumes that `main` and the goroutine of `NotifyContext` go on,
and that a call whose context is cancelled returns (`Cancelled`), as the HTTP
clients of langchaingo do with the context they are given. The LLM need not
answer, and nobody need send a signal.

The other modules have no fairness: their properties are safety properties, since
a client, a server or a database may stop at any time.

## What is proved

TLAPS checks the following for arbitrary constants under the named assumptions of
the modules: `StreamAssumption`, `ApiAssumption`, `ListAssumption`,
`BuilderAssumption`, `AnswerAssumption`, `StoreAssumption` and `SignalAssumption`.
They say that bounds are natural numbers, that the inputs have the shapes of the
code's types, that ids are finitely many, and that the constants standing for
nothing are no values of the other kinds.

| Theorem | Establishes |
|---|---|
| `ExecuteStreamProofs!Invariance`, `TypeCorrect` | the inductive invariant and the types |
| `ChunksDelivered`, `ErrorEndsResponse`, `EofComplete` | the order and the completeness of a response |
| `NoOrphanCall`, `ContextExclusive` | who outlives whom, and on which context |
| `NobodyIsStuck` | every select has its timer, and a failed generator finds room for its error |
| `StreamsAdvance` | each step of a handler brings it nearer to its end, and no other step takes it back |
| `ImplementsPromise` | `ExecuteStream` implements `SseStream` |
| `PromptApiProofs!Invariance`, `TypeCorrect` | the inductive invariant and the types |
| `ConfirmationsHold`, `DeletionIsFinal`, `DeletionIsOnce`, `ExecutesStoredPrompt` | the safety properties of the API |
| `ImplementsCatalogs` | `PromptApi` implements `TenantCatalogs` |
| `PromptListProofs!Invariance`, `TagsAreCleaned` | the inductive invariant; the loop over the tags computes what it should |
| `NothingMissed`, `NothingRepeated` | paging over a table that changes, for any page size |
| `NothingForeignListed` | what is given was on the list, in whatever order it is read |
| `SharedChainProofs!Invariance`, `TypeCorrect` | the inductive invariant and the types |
| `StructuredAnswersComplete`, `StructuredUndisturbed`, `AssertionSafe` | the safety properties of a shared chain |
| `ImplementsAtomicChain` | `SharedChain` implements `AtomicChain` |
| `CleanIsFound` | `extractJSONFromResponse` finds the object of an answer as it was asked for, for answers of any length |
| `BuiltChainProofs!Invariance` | the inductive invariant |
| `AskedAnswersAccepted`, `MapsAreComplete`, `JsonModeFits` | prompt, extraction, validation and JSON mode agree, for answers of any length |
| `VectorStoreProofs!Invariance` | the inductive invariant |
| `AddsAreStored`, `FailuresLeavePrefix`, `SearchesSeeTheirOwn`, `AnswersBestFirst`, `ReadYourWrites` | the promises of the store |
| `ImplementsDocumentStore` | `VectorStore` implements `DocumentStore` |
| `CommandProofs!Invariance`, `SignalsCount` | the inductive invariant; no signal is lost once `quit` is registered |
| `SignalsAreRelayed` | from the first signal on the context is cancelled or about to be |

`IInv` of `ExecuteStream`. None of the safety properties is inductive.
`Lifecycle` ties the two processes of a request together: a generator is absent
exactly while its handler is idle, the channel is closed exactly when it has
gone, a buffered error means that it is past its call, and the ending of the
handler says how far the generator got. `WireShape` says what is on the wire as a
function of `produced`, so that the next chunk is known to be the next number
when it is received. `ContextOwnership` says that an active handler's context is
not in the pool and nobody else's. Each property follows from these without a
further induction, but two. That a handler in its select has a timer
(`TimerStays`) is an induction of its own. `HandlerAdvances` is the ranking
argument of `HandlerReturns`: `Distance` counts two for each event that may still
be written and one for each place a handler has yet to pass, and it is never
negative as no response holds more than `MaxChunks` + 1 events (`HasRoom`, from
`WireShape`). A handler in the loop can always go on, and one in the select by its
timer when it fires (`NobodyStuck`); what is left to the model checker of
`HandlerReturns` is to combine these with the fairness.

`IInv` of `PromptApi`. `RowsAccountedFor` (each row has an issued id and is in
`versions`) is why a creation never meets an old id. `RequestsServed` keeps what
the handler checked before its statement, and that a result exists only between
statement and answer. `RowsRead` carries the tenant and the name a read was made
for up to the call of the chain; the table may have changed by then, so it speaks
of `versions`. `DeletionsFinal` extends both properties on deletions to a
deletion that has taken effect but is not yet answered, without which the answer
would prove nothing. `ConfirmationsTrue` does the same for creations and updates:
between the statement and the answer the row that was returned is the version that
was asked for. That names are unique while the constraint exists is PostgreSQL's
guarantee, used by the guards `NameFree` and `MigrateDown`, and no property.

`IInv` of `PromptList`. The argument is about ranks: the rank of a row is how many
rows of the client's list come before it. `PlaceIsRank` says that in a total order
a row stands at its rank plus one, whatever bijection the database chose.
`StillToCome`: while nothing leaves the list, ranks only grow, so that a row not
given yet ranks behind the pages given (`NoMiss` follows when a page is not full).
`AlreadyHad`: while nothing comes, ranks only shrink, so that a row given never
ranks behind its page again (`NoRepeat`). `WriteMovesRanks` is the step of both for
any change of the table. `Loop` is the invariant of the loop over the tags.
`OnList` is inductive beside `IInv` and carries `NothingForeign`: while nothing comes
on a list it stays within what it was, and so do the pages selected from it. It needs
no order, and of the rest only that the statement selects the list (`SelectsList`,
from `TagsCleaned`).

`IInv` of `SharedChain`. The argument is that the words of the type only grow
(`StaysStructured`): what a constructor or a caller has written stays written
(`TypeGrows`), so a structured caller past `SetChainType` reads "structured" for
ever (`SettersDone`). `RawWhereStructured` adds that a chain built structured
never uses its own parser, so that every answer is a string, which is what the
unchecked assertion of the default branch relies on. `SetBeforeValidated` is there
for the refinement: a map that is validated was seen as one after the type was set.

`IInv` of `BuiltChain`. `AsksForSchemas` (the last block of a chain with schemas
asks for them) is what the setters cannot spoil, as `NewStructuredChain` appends
after them. The rest is about `JsonAnswer`: `CleanIsFound` (an answer as it was
asked for is extracted whole, bare or in the first fenced block), which rests on
the extraction taking the first `` ```json `` and the next fence.

`IInv` of `VectorStore`. `RowsOfCalls` says exactly which rows a call has in the
table: those before `next`, and the one at `next` if it came after the call had
failed.
`SelectedOnly` and `Ranked` carry through a search what was selected, what of it
is still to be read, and that all of that is no better than what has been read.
`ReadOnce` adds that no row is read twice and none beyond the limit.

`IInv` of `Command`. `Registered` says what is registered at each place of `main`,
and that a heard signal is in `quit` or has been received.
`Relayed` is the safety half of `Obeys`: whenever a signal comes, a call of the LLM
that is under way or begins later has, or will have, a cancelled context.

Four modules implement an abstract specification. Each proof maps every step of the
detailed specification to a step of the abstract one or to a stutter
(`StepRefines`).

- `SseStream`: the goroutines, channels and timers of a request become one
  sequence of events that is opened once, extended in order and closed once.
- `TenantCatalogs`: the catalog of a tenant is the part of the table with its
  `tenant_id`, without that column; a request's `got` is the row its statement
  returned. The proof rests on `StatementRefines` and on lemmas that say how the
  catalogs follow the table.
- `AtomicChain`: the two words of the type become one flag, all places of a call
  one `pending`, and a call takes effect when it returns, on the flag as it is then.
  Only the writing of the words that completes "structured" (`SetTurns`) and the
  two ends of a call (`EnterCalls`, `ReturnEnds`) are steps; `InsideStutters` are all
  others. That this is enough is because the flag only grows (`TypeGrows`): a text
  call that finds it down returns in that very step, and one that finds it up (line
  99) finds it up again when it validates (`SetBeforeValidated`). What the parser and
  the temperature were chosen by makes no difference to what may be returned
  (`RawWhereStructured`).
- `DocumentStore`: a row of the table becomes the document that was to be stored at
  its place in its call's list (`AllListed`), without tenant, metadata and ids; what
  a search wants is worked out once from its filter and the joined table
  (`WantedIsSelected`: these are the rows its statement selects). `StoredSoFar` says
  that a call stores in the order of its list. Reading an answer row by row stutters,
  and the answer appears whole when the search returns.

## What is only model-checked

The liveness properties `HandlerReturns`, `FailureExits`, `GeneratorSettles` and
`Obeys`: the prover handles neither fairness nor `ENABLED`. Of the first, the second
and the last the safety half is proved (`StreamsAdvance`, `NobodyIsStuck`,
`SignalsAreRelayed`). The disagreements are counterexamples.

Every invariant of a passing run, every action property and every refinement is
proved. Some invariants are proved that no run lists by name: `StructuredComplete` and
`NeverPanics` are conjuncts of the `IInv` that `chain_shared` checks, `Relayed` of the
one of `command_signals`; `ReturnedIsStored` follows from `DocumentSpec`; of the `IInv` of
`PromptApi` the conjuncts a reader should know are checked by themselves.

## Not modelled, and why

- `PromptApi` and `ExecuteStream` composed, so that a streaming execution runs on
  the prompt that was fetched. Both halves meet in one hand-over of a content and
  its values, which `ExecutedTogether` covers for the other branch of the handler;
  the composition would mostly multiply their states. It is the next module to
  write.
- The text of prompts and answers: templates are the variables they mention,
  answers the tokens their extraction tells apart. `ConvertAnswerToString` formats
  a decoded value and has no state. White space is not modelled.
- The generated OpenAPI layer beyond what handlers see of it: routing and the other
  wrappers are generated from one template.
- Of the LLM factory, `Provider.Parse`, `String` and `Values` (a table of names)
  and the options that are passed to langchaingo.
- Of the vector store, the options that name its table and columns, and rows whose
  metadata are no strings.
- langchaingo, gin, pgx, PostgreSQL and goose are external: they are modelled as
  far as the code under `src/` depends on what they do.
