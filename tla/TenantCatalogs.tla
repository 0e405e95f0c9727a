--------------------------- MODULE TenantCatalogs ----------------------------
(***************************************************************************)
(* What the prompt API promises its tenants: each has a catalog of its     *)
(* own.  A client works for one tenant at a time; while it does, it adds,  *)
(* changes, removes and reads single prompts of that tenant's catalog, and *)
(* nothing it does touches or reveals another one.                         *)
(***************************************************************************)
CONSTANTS Clients,   \* API clients
          Tenants,   \* tenants
          Ids,       \* prompt ids
          Prompts,   \* what a catalog holds under an id
          Nil        \* nothing

VARIABLES catalog,   \* catalog[t][i] : the prompt of t with id i, or Nil
          asks,      \* asks[c] : the tenant c has a request for, or Nil
          got        \* got[c] : the prompt the request of c has read, or Nil

vars == <<catalog, asks, got>>

Init == /\ catalog = [t \in Tenants |-> [i \in Ids |-> Nil]]
        /\ asks = [c \in Clients |-> Nil]
        /\ got = [c \in Clients |-> Nil]

Ask(c, t) == /\ asks[c] = Nil
             /\ asks' = [asks EXCEPT ![c] = t]
             /\ UNCHANGED <<catalog, got>>

Serving(c, t) == t \in Tenants /\ asks[c] = t

\* The request of c replaces what its tenant has under i by p and learns
\* nothing, or one of the two.
Write(c, t, i, p) == /\ Serving(c, t)
                     /\ catalog' = [catalog EXCEPT ![t][i] = p]
                     /\ \E q \in {Nil, p, catalog[t][i]} : got' = [got EXCEPT ![c] = q]
                     /\ UNCHANGED asks

Add(c, t, i, p) == catalog[t][i] = Nil /\ p # Nil /\ Write(c, t, i, p)
Change(c, t, i, p) == catalog[t][i] # Nil /\ Write(c, t, i, p)

Read(c, t, i) == /\ Serving(c, t)
                 /\ got' = [got EXCEPT ![c] = catalog[t][i]]
                 /\ UNCHANGED <<catalog, asks>>

\* Requests end, one by one or, when the server stops, all together.
Finish(C) == /\ asks' = [c \in Clients |-> IF c \in C THEN Nil ELSE asks[c]]
             /\ got' = [c \in Clients |-> IF c \in C THEN Nil ELSE got[c]]
             /\ UNCHANGED catalog

Next == \/ \E c \in Clients, t \in Tenants :
             \/ Ask(c, t)
             \/ \E i \in Ids : \/ Read(c, t, i)
                              \/ \E p \in {Nil} \cup Prompts : Add(c, t, i, p) \/ Change(c, t, i, p)
        \/ \E C \in SUBSET Clients : Finish(C)

Spec == Init /\ [][Next]_vars
==============================================================================
