------------------------------ MODULE PromptList ------------------------------
(***************************************************************************)
(* ListPrompts: clients that read the prompts of their tenant page by page *)
(* while others add, rename, change and delete prompts and a migration     *)
(* drops the unique constraint.  Each page is one request, decoded by the  *)
(* generated wrapper, whose handler cleans the list of tags, issues one    *)
(* SELECT with a LIMIT and an OFFSET and reads its rows.                   *)
(*                                                                         *)
(* Names and contents are numbers in the place the database sorts them to; *)
(* the prefix looked for is the set of the names it matches.               *)
(***************************************************************************)
EXTENDS Integers, Sequences, FiniteSets, Functions

CONSTANTS Clients,   \* those who list
          Ids, Tenants, Names, Contents, Tags,
          Asks,      \* what clients list
          Empty,     \* the empty tag
          Nil

Rows == [tenant : Tenants, name : Names, content : Contents, tags : SUBSET Tags]

\* size is that of GetPagingSQL: 10 when not given and at most 50.
AskType == [tenant : Tenants, like : {Nil} \cup SUBSET Names,
            tags : {Nil} \cup Seq(Tags \cup {Empty}),
            sortBy : STRING, order : STRING, size : Nat \ {0}]

ASSUME ListAssumption ==
  /\ IsFiniteSet(Ids)
  /\ Names \subseteq Nat /\ Contents \subseteq Nat
  /\ Asks \subseteq AskType
  /\ Empty \notin Tags
  /\ Nil \notin Rows /\ Nil \notin Seq(Tags \cup {Empty}) /\ \A S \in SUBSET Names : Nil # S

VARIABLES
  table,     \* table[i] : the row with id i, or Nil
  unique,    \* the constraint on (tenant_id, name) exists
  at,        \* at[c] : where the request of c is
  ask,       \* ask[c] : the parameters of c's list
  page,      \* page[c] : the page c asks for
  tags,      \* tags[c] : the tags of the request, being cleaned
  index,     \* index[c] : the next of them to look at
  result,    \* result[c] : the ids of the page that was selected
  listed,    \* listed[c] : the ids c has been given, page by page
  twice,     \* twice[c] : those it has been given on two pages
  known,     \* known[c] : what c's list was when it asked for its first page (history)
  left,      \* left[c] : something has left c's list since (history)
  came,      \* came[c] : something has come into c's list since (history)
  total      \* total[c] : each page was selected in a total order (history)

dbVars   == <<table, unique>>
askVars  == <<ask, known>>
pageVars == <<page, listed, twice>>
loopVars == <<tags, index>>
since    == <<left, came>>
vars == <<dbVars, askVars, pageVars, loopVars, since, at, result, total>>

TypeOK ==
  /\ table \in [Ids -> Rows \cup {Nil}]
  /\ unique \in BOOLEAN
  /\ at \in [Clients -> {"idle", "binding", "tags", "query", "reading", "failed", "done"}]
  /\ ask \in [Clients -> Asks]
  /\ page \in [Clients -> Nat \ {0}]
  /\ tags \in [Clients -> {Nil} \cup Seq(Tags \cup {Empty})]
  /\ index \in [Clients -> Nat \ {0}]
  /\ result \in [Clients -> SUBSET Ids]
  /\ listed \in [Clients -> SUBSET Ids]
  /\ twice \in [Clients -> SUBSET Ids]
  /\ known \in [Clients -> SUBSET Ids]
  /\ left \in [Clients -> BOOLEAN]
  /\ came \in [Clients -> BOOLEAN]
  /\ total \in [Clients -> BOOLEAN]

Init ==
  /\ table \in [Ids -> {Nil}]
  /\ unique = TRUE
  /\ at = [c \in Clients |-> "idle"]
  /\ ask \in [Clients -> Asks]
  /\ page = [c \in Clients |-> 1]
  /\ tags = [c \in Clients |-> Nil]
  /\ index = [c \in Clients |-> 1]
  /\ result = [c \in Clients |-> {}]
  /\ listed = [c \in Clients |-> {}]
  /\ twice = [c \in Clients |-> {}]
  /\ known = [c \in Clients |-> {}]
  /\ left = [c \in Clients |-> FALSE]
  /\ came = [c \in Clients |-> FALSE]
  /\ total = [c \in Clients |-> TRUE]

------------------------------------------------------------------------------
(* The statement.                                                          *)

\* tenant_id = $3 AND (name LIKE $4 OR $4 IS NULL) AND ($5 IS NULL OR $5 && tags)
Meets(row, q, filter) ==
  /\ row # Nil
  /\ row.tenant = q.tenant
  /\ q.like # Nil => row.name \in q.like
  /\ filter # Nil => Range(filter) \cap row.tags # {}

\* Fault: the tags are not looked at.
MatchingUntagged(q, filter) == {i \in Ids : Meets(table[i], q, Nil)}

Matching(q, filter) == {i \in Ids : Meets(table[i], q, filter)}

\* ORDER BY: a name or a content, ascending or else descending; tags and
\* parameters are not told apart from columns that do not sort at all.
Key(i, q) == IF q.sortBy = "name" THEN table[i].name
             ELSE IF q.sortBy = "content" THEN table[i].content ELSE 0

\* Fault: nothing sorts the names of a list that is not ascending.
BeforeAscending(i, j, q) == q.order = "asc" /\ Key(i, q) < Key(j, q)

Before(i, j, q) == IF q.order = "asc" THEN Key(i, q) < Key(j, q) ELSE Key(i, q) > Key(j, q)

\* The orders the database may give n rows in.
Orders(S, n, q) ==
  {f \in Bijection(1 .. n, S) : \A j, k \in 1 .. n : j < k => ~Before(f[k], f[j], q)}

\* Whether the names tell the rows of S apart, and the rows of S before row i.
NamesDiffer(S) == \A i, j \in S : table[i].name = table[j].name => i = j
Earlier(S, i, q) == {j \in S : Before(j, i, q)}

\* LIMIT and OFFSET of a page.
Offset(c) == (page[c] - 1) * ask[c].size
Segment(f, n, c) == {f[k] : k \in {k \in 1 .. n : k > Offset(c) /\ k <= Offset(c) + ask[c].size}}

------------------------------------------------------------------------------
(* A client and the requests it makes.                                     *)

\* What c is to see, whatever becomes of its tags on the way: the rows with
\* one of the tags that are not empty, if there is such a tag.
Filter(q) == {t \in Tags : q.tags # Nil /\ t \in Range(q.tags)}
ListOf(q) == {i \in Ids : /\ Meets(table[i], q, Nil)
                          /\ Filter(q) # {} => Filter(q) \cap table[i].tags # {}}

ListPrompts(c) ==
  /\ at[c] \in {"idle", "done"}
  /\ at' = [at EXCEPT ![c] = "binding"]
  /\ ask' \in {[ask EXCEPT ![c] = q] : q \in Asks}
  /\ known' = [known EXCEPT ![c] = ListOf(ask'[c])]
  /\ page' = [page EXCEPT ![c] = 1]
  /\ listed' = [listed EXCEPT ![c] = {}]
  /\ twice' = [twice EXCEPT ![c] = {}]
  /\ left' = [left EXCEPT ![c] = FALSE]
  /\ came' = [came EXCEPT ![c] = FALSE]
  /\ total' = [total EXCEPT ![c] = TRUE]
  /\ UNCHANGED <<dbVars, loopVars, result>>

\* The wrapper binds the parameters, a middleware gives the tenant.
Bind(c) ==
  /\ at[c] = "binding"
  /\ at' = [at EXCEPT ![c] = "tags"]
  /\ tags' = [tags EXCEPT ![c] = IF ask[c].tags = <<>> THEN Nil ELSE ask[c].tags]
  /\ index' = [index EXCEPT ![c] = 1]
  /\ UNCHANGED <<dbVars, askVars, pageVars, since, result, total>>

\* A parameter is malformed, a middleware aborts, or there is no tenant.
Refuse(c) ==
  /\ at[c] = "binding"
  /\ at' = [at EXCEPT ![c] = "failed"]
  /\ UNCHANGED <<dbVars, askVars, pageVars, loopVars, since, result, total>>

Looking(c) == at[c] = "tags" /\ tags[c] # Nil /\ index[c] <= Len(tags[c])

KeepTag(c) ==
  /\ Looking(c) /\ tags[c][index[c]] # Empty
  /\ index' = [index EXCEPT ![c] = @ + 1]
  /\ UNCHANGED <<dbVars, askVars, pageVars, since, at, tags, result, total>>

\* append(tags[:i], tags[i+1:]...)
Without(s, i) == SubSeq(s, 1, i - 1) \o SubSeq(s, i + 1, Len(s))

\* Fault: the loop goes on to the next index although the list has moved up.
RemoveEmptyAndSkip(c) ==
  /\ Looking(c) /\ tags[c][index[c]] = Empty
  /\ tags' = [tags EXCEPT ![c] = Without(@, index[c])]
  /\ index' = [index EXCEPT ![c] = @ + 1]
  /\ UNCHANGED <<dbVars, askVars, pageVars, since, at, result, total>>

\* The index stays: i-- takes back what i++ will do.
RemoveEmpty(c) ==
  /\ Looking(c) /\ tags[c][index[c]] = Empty
  /\ tags' = [tags EXCEPT ![c] = Without(@, index[c])]
  /\ UNCHANGED <<dbVars, askVars, pageVars, since, at, index, result, total>>

TagsDone(c) ==
  /\ at[c] = "tags" /\ ~Looking(c)
  /\ at' = [at EXCEPT ![c] = "query"]
  /\ tags' = [tags EXCEPT ![c] = IF @ = <<>> THEN Nil ELSE @]
  /\ UNCHANGED <<dbVars, askVars, pageVars, since, index, result, total>>

\* The SELECT, one snapshot.
Query(c) ==
  /\ at[c] = "query"
  /\ at' = [at EXCEPT ![c] = "reading"]
  /\ LET S == Matching(ask[c], tags[c])
         n == Cardinality(S)
     IN  /\ \E f \in Orders(S, n, ask[c]) :
              result' = [result EXCEPT ![c] = Segment(f, n, c)]
         /\ total' = [total EXCEPT ![c] = @ /\ ask[c].sortBy = "name" /\ NamesDiffer(S)]
  /\ UNCHANGED <<dbVars, askVars, pageVars, loopVars, since>>

\* The request ends, and its variables with it.
EndRequest(c) == /\ tags' = [tags EXCEPT ![c] = Nil]
                 /\ index' = [index EXCEPT ![c] = 1]
                 /\ result' = [result EXCEPT ![c] = {}]

\* The statement fails, or the reading of its rows (rows.Err).
ListFails(c) ==
  /\ at[c] \in {"query", "reading"}
  /\ at' = [at EXCEPT ![c] = "failed"]
  /\ EndRequest(c)
  /\ UNCHANGED <<dbVars, askVars, pageVars, since, total>>

\* The page arrives; the client asks for the next one, if it was full.
Turn(c, given) ==
  /\ listed' = [listed EXCEPT ![c] = @ \cup given]
  /\ twice' = [twice EXCEPT ![c] = @ \cup (given \cap listed[c])]
  /\ \/ Cardinality(given) = ask[c].size
        /\ page' = [page EXCEPT ![c] = @ + 1]
        /\ at' = [at EXCEPT ![c] = "binding"]
     \/ Cardinality(given) < ask[c].size
        /\ page' = page
        /\ at' = [at EXCEPT ![c] = "done"]
  /\ EndRequest(c)
  /\ UNCHANGED <<dbVars, askVars, since, total>>

\* Fault: rows.Err is not looked at, and a part of the page is given out.
ReplyPart(c) == at[c] = "reading" /\ \E given \in SUBSET result[c] : Turn(c, given)

Reply(c) == at[c] = "reading" /\ Turn(c, result[c])

\* The client tries the page again.
Retry(c) ==
  /\ at[c] = "failed"
  /\ at' = [at EXCEPT ![c] = "binding"]
  /\ UNCHANGED <<dbVars, askVars, pageVars, loopVars, since, result, total>>

------------------------------------------------------------------------------
(* Others change the table meanwhile (see PromptApi).                      *)

Clash(i, row) == \E j \in Ids \ {i} : /\ table[j] # Nil /\ table[j].tenant = row.tenant
                                      /\ table[j].name = row.name

\* Row i becomes new; who has it in his list may lose it, or get it.
Write(i, new) ==
  /\ table' = [table EXCEPT ![i] = new]
  /\ UNCHANGED <<unique, askVars, pageVars, loopVars, at, result, total>>
  /\ left' = [c \in Clients |->
       left[c] \/ (i \in ListOf(ask[c]) /\ (i \notin ListOf(ask[c])' \/ new.name # table[i].name))]
  /\ came' = [c \in Clients |->
       came[c] \/ (i \in ListOf(ask[c])' /\ (i \notin ListOf(ask[c]) \/ new.name # table[i].name))]

AddPrompt(i, row) == table[i] = Nil /\ (unique => ~Clash(i, row)) /\ Write(i, row)

UpdatePrompt(i, row) ==
  /\ table[i] # Nil /\ row.tenant = table[i].tenant /\ row # table[i]
  /\ unique => ~Clash(i, row)
  /\ Write(i, row)

DeletePrompt(i) == table[i] # Nil /\ Write(i, Nil)

DropUnique ==
  /\ unique
  /\ unique' = FALSE
  /\ UNCHANGED <<table, askVars, pageVars, loopVars, since, at, result, total>>

Next ==
  \/ \E c \in Clients :
       \/ ListPrompts(c) \/ Bind(c) \/ Refuse(c) \/ KeepTag(c) \/ RemoveEmpty(c) \/ TagsDone(c)
       \/ Query(c) \/ ListFails(c) \/ Reply(c) \/ Retry(c)
  \/ \E i \in Ids : \/ \E row \in Rows : AddPrompt(i, row) \/ UpdatePrompt(i, row)
                    \/ DeletePrompt(i)
  \/ DropUnique

Spec == Init /\ [][Next]_vars

------------------------------------------------------------------------------
(* What a list promises.                                                   *)

\* The statement is given the tags that are not empty, and NULL when there is
\* none: no empty tag survives the loop that removes from the list it walks.
TagsCleaned ==
  \A c \in Clients : at[c] \in {"query", "reading"} =>
    IF Filter(ask[c]) = {} THEN tags[c] = Nil
    ELSE tags[c] # Nil /\ Range(tags[c]) = Filter(ask[c])

\* "Returns all prompts": whoever reads a list sorted by name to its end is
\* given everything that was on it, unless something on it was deleted,
\* renamed or untagged meanwhile; what is added does no harm.
NoMiss ==
  \A c \in Clients : at[c] = "done" /\ total[c] /\ ~left[c] => known[c] \subseteq listed[c]

\* Nothing is given twice, unless something came on the list meanwhile; what
\* is deleted does no harm.
NoRepeat == \A c \in Clients : total[c] /\ ~came[c] => twice[c] = {}

\* Nothing is given that was not on the list, unless something came on it
\* meanwhile: with NoMiss, a list that is left alone is given as it is.
NothingForeign == \A c \in Clients : ~came[c] => listed[c] \subseteq known[c]

------------------------------------------------------------------------------
(* The inductive invariant.                                                *)

\* How many rows of c's list come before row i.
Ahead(i, c) == Earlier(ListOf(ask[c]), i, ask[c])
Rank(i, c) == Cardinality(Ahead(i, c))

\* The loop over the tags: those before the index are kept, none is lost.
Loop ==
  \A c \in Clients : at[c] = "tags" =>
    IF tags[c] = Nil THEN Filter(ask[c]) = {}
    ELSE /\ Range(tags[c]) \ {Empty} = Filter(ask[c])
         /\ \A k \in 1 .. Len(tags[c]) : k < index[c] => tags[c][k] # Empty

\* While nothing leaves, what c has not been given yet is still to come: it
\* ranks behind the pages c has had, and behind the one c is reading.
StillToCome ==
  \A c \in Clients : total[c] /\ ~left[c] /\ at[c] \notin {"idle", "done"} =>
    /\ known[c] \subseteq ListOf(ask[c])
    /\ \A i \in known[c] \ listed[c] :
         /\ Rank(i, c) >= Offset(c)
         /\ at[c] = "reading" /\ i \notin result[c] =>
              Rank(i, c) >= Offset(c) + ask[c].size /\ Cardinality(result[c]) = ask[c].size

\* While nothing comes, what c has been given, and is being given, never ranks
\* behind the page it was on.
AlreadyHad ==
  \A c \in Clients : total[c] /\ ~came[c] =>
    /\ at[c] \notin {"idle", "done"} =>
         \A i \in listed[c] : i \in ListOf(ask[c]) => Rank(i, c) < Offset(c)
    /\ at[c] = "reading" =>
         /\ result[c] \cap listed[c] = {}
         /\ \A i \in result[c] : i \in ListOf(ask[c]) => Rank(i, c) < Offset(c) + ask[c].size

\* Before the first page there is nothing; behind it, a total order is by name.
Sorted ==
  \A c \in Clients :
    /\ total[c] /\ at[c] # "idle" /\ (page[c] > 1 \/ at[c] \in {"reading", "done"})
         => ask[c].sortBy = "name"
    /\ page[c] = 1 /\ at[c] # "done" => listed[c] = {}

\* A page is never larger than it may be.
PageSize == \A c \in Clients : at[c] = "reading" => Cardinality(result[c]) <= ask[c].size

\* While nothing comes, the list, what is being read of it and what was given
\* are part of what it was; nothing is given before the list is asked for.
OnList ==
  \A c \in Clients : ~came[c] =>
    /\ at[c] # "idle" => ListOf(ask[c]) \subseteq known[c]
    /\ at[c] = "reading" => result[c] \subseteq known[c]
    /\ listed[c] \subseteq known[c]

IInv == /\ TypeOK /\ Loop /\ TagsCleaned /\ Sorted /\ StillToCome /\ AlreadyHad /\ PageSize
        /\ NoMiss /\ NoRepeat
==============================================================================
