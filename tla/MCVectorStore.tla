--------------------------- MODULE MCVectorStore ----------------------------
(***************************************************************************)
(* Instances of VectorStore for TLC.                                       *)
(***************************************************************************)
EXTENDS VectorStore, TLC

CONSTANTS near, far, t1, t2, d1, r1, r2, g1, g2

Symmetry == Permutations(Adds)

MCScore == [t \in Texts |-> IF t = near THEN 2 ELSE 1]

Meta(t, d) == [tenant |-> t, doc |-> d]
Doc(x, t) == [text |-> x, metadata |-> Meta(t, d1)]

\* Two documents with the options of one tenant, of which one names another
\* tenant itself; a single document without options.
MCBatches == {[docs |-> <<Doc(far, Null), Doc(near, t2)>>, options |-> Meta(t1, d1)],
              [docs |-> <<Doc(near, t1)>>, options |-> Null]}

Ask(t, rs, gs, a, n) == [tenant |-> t, roles |-> rs, tags |-> gs, above |-> a, limit |-> n]

MCAsks == {Ask(t1, {r1}, <<>>, 0, 4), Ask(t1, {r1}, <<g1>>, 0, 2), Ask(t1, {}, <<>>, 1, 2),
           Ask(t2, {r1}, <<>>, 0, 4), Ask(t1, {r1}, <<g1, g2>>, 0, 4), Ask(Null, {}, <<>>, 0, 4)}

\* The document of both: unknown, open to all, for one role.
MCParents == {[d \in DocIds |-> p] :
                p \in {Null} \cup {[acl |-> a, tags |-> {g1}] : a \in {{}, {r1}}}
                             \cup {[acl |-> Null, tags |-> Null], [acl |-> {r2}, tags |-> {g2}]}}
=============================================================================
