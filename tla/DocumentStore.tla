---------------------------- MODULE DocumentStore ----------------------------
(***************************************************************************)
(* What a vector store promises, without statements, connections and       *)
(* joined tables.  A call that adds documents stores those of its list one *)
(* by one in their order and may stop before any of them, which may be     *)
(* stored all the same, later; it returns when all are stored.  A search   *)
(* looks at the stored documents at one instant, and answers with the best *)
(* of those that it wants, as many as its limit allows, or with fewer when *)
(* the answer is cut.                                                      *)
(***************************************************************************)
EXTENDS Naturals, Sequences, Functions

CONSTANTS Adds, Searches,
          Score    \* Score[t] : how similar the text t is to what is searched

VARIABLES lists,     \* lists[c] : the documents that c is to store
          requests,  \* requests[s] : what s wants, and how many at the most
          stored,    \* the documents that are stored
          adds,      \* adds[c] : "idle", "running", "returned", "stopped", "ended"
          searches,  \* searches[s] : "idle", "begun", "looked", "answered", "failed"
          view,      \* view[s] : the wanted documents that s saw
          answer,    \* answer[s] : what s answered
          cut        \* cut[s] : the answer was cut

fixed == <<lists, requests>>
addVars == <<stored, adds>>
searchVars == <<searches, view, answer, cut>>
vars == <<fixed, addVars, searchVars>>

Init == /\ stored = {}
        /\ adds = [c \in Adds |-> "idle"]
        /\ searches = [s \in Searches |-> "idle"]
        /\ view = [s \in Searches |-> {}]
        /\ answer = [s \in Searches |-> <<>>]
        /\ cut = [s \in Searches |-> FALSE]

------------------------------------------------------------------------------
(* Adding documents.                                                       *)

AddMove(c, from, to) == /\ adds[c] = from
                        /\ adds' = [adds EXCEPT ![c] = to]
                        /\ UNCHANGED <<fixed, searchVars>>

Add(c) == AddMove(c, "idle", "running") /\ UNCHANGED stored

\* The first document of the list that is not stored yet, by a call that goes
\* on, or behind one that has stopped.
Store(c) ==
  \E i \in DOMAIN lists[c] :
    /\ \A j \in 1 .. i - 1 : lists[c][j] \in stored
    /\ lists[c][i] \notin stored
    /\ stored' = stored \cup {lists[c][i]}
    /\ AddMove(c, "running", "running") \/ AddMove(c, "stopped", "ended")

\* Only when everything is stored does the call return.
Finish(c) == /\ Range(lists[c]) \subseteq stored
             /\ AddMove(c, "running", "returned")
             /\ UNCHANGED stored

Stop(c) == /\ AddMove(c, "running", "stopped") \/ AddMove(c, "running", "ended")
           /\ UNCHANGED stored

------------------------------------------------------------------------------
(* Searching.                                                              *)

SearchMove(s, from, to) == /\ searches[s] = from
                           /\ searches' = [searches EXCEPT ![s] = to]
                           /\ UNCHANGED <<fixed, addVars>>

Search(s) == SearchMove(s, "idle", "begun") /\ UNCHANGED <<view, answer, cut>>

Look(s) == /\ SearchMove(s, "begun", "looked")
           /\ view' = [view EXCEPT ![s] = stored \cap requests[s].wants]
           /\ UNCHANGED <<answer, cut>>

Fail(s) == SearchMove(s, "begun", "failed") /\ UNCHANGED <<view, answer, cut>>

\* ds lists documents of v, none twice and the best ones first, and what it
\* leaves out is no better than what it lists.
BestOf(ds, v) ==
  /\ ds \in Seq(v)
  /\ \A j, k \in 1 .. Len(ds) :
       j < k => ds[j] # ds[k] /\ Score[ds[j].text] >= Score[ds[k].text]
  /\ \A d \in v \ Range(ds) : \A k \in 1 .. Len(ds) : Score[ds[k].text] >= Score[d.text]

Answer(s) ==
  /\ SearchMove(s, "looked", "answered")
  /\ answer' = [answer EXCEPT ![s] = answer'[s]]
  /\ BestOf(answer'[s], view[s]) /\ Len(answer'[s]) <= requests[s].limit
  /\ \/ cut' = [cut EXCEPT ![s] = TRUE]
     \/ /\ cut' = [cut EXCEPT ![s] = FALSE]
        /\ Range(answer'[s]) = view[s] \/ Len(answer'[s]) = requests[s].limit
  /\ UNCHANGED view

Next == \/ \E c \in Adds : Add(c) \/ Store(c) \/ Finish(c) \/ Stop(c)
        \/ \E s \in Searches : Search(s) \/ Look(s) \/ Fail(s) \/ Answer(s)

Spec == Init /\ [][Next]_vars
==============================================================================
