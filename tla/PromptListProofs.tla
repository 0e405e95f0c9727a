-------------------------- MODULE PromptListProofs ---------------------------
(***************************************************************************)
(* The invariants of PromptList, for any number of clients and prompts and *)
(* any lists.  The heart of it: in a total order the place of a row is the *)
(* number of rows before it, which only grows while nothing leaves the     *)
(* list and only shrinks while nothing comes.                              *)
(***************************************************************************)
EXTENDS PromptList, FiniteSetTheorems, SequenceTheorems, TLAPS

USE DEF dbVars, askVars, pageVars, loopVars, since

Walking(c) == at[c] \notin {"idle", "done"}

------------------------------------------------------------------------------
(* Places and ranks.                                                       *)

\* What a client asks for has its type.
LEMMA AskFacts ==
  ASSUME NEW q \in Asks
  PROVE  /\ q \in AskType /\ q.size \in Nat \ {0}
         /\ q.tags = Nil \/ q.tags \in Seq(Tags \cup {Empty})
BY ListAssumption DEF AskType

\* A list is a finite set, and a rank a number.
LEMMA RankFacts ==
  ASSUME NEW i, NEW c
  PROVE  /\ ListOf(ask[c]) \subseteq Ids
         /\ IsFiniteSet(Ahead(i, c)) /\ Rank(i, c) \in Nat
<1>1. ListOf(ask[c]) \subseteq Ids /\ Ahead(i, c) \subseteq Ids
  BY DEF ListOf, Ahead, Earlier
<1>2. IsFiniteSet(Ahead(i, c))
  BY <1>1, FS_Subset, ListAssumption
<1> QED BY <1>1, <1>2, FS_CardinalityType DEF Rank

LEMMA NextRankFacts ==
  ASSUME NEW i, NEW c
  PROVE  /\ ListOf(ask[c])' \subseteq Ids
         /\ IsFiniteSet(Ahead(i, c)') /\ Rank(i, c)' \in Nat
<1>1. ListOf(ask[c])' \subseteq Ids /\ Ahead(i, c)' \subseteq Ids
  BY DEF ListOf, Ahead, Earlier
<1>2. IsFiniteSet(Ahead(i, c)')
  BY <1>1, FS_Subset, ListAssumption
<1> QED BY <1>1, <1>2, FS_CardinalityType DEF Rank

\* The place of a page.
LEMMA PageFacts ==
  ASSUME TypeOK, NEW c \in Clients
  PROVE  ask[c] \in Asks /\ ask[c].size \in Nat \ {0} /\ page[c] \in Nat \ {0} /\ Offset(c) \in Nat
<1>1. ask[c] \in Asks /\ ask[c].size \in Nat \ {0} /\ page[c] \in Nat \ {0}
  BY AskFacts DEF TypeOK
<1>2. page[c] - 1 \in Nat /\ \A a, b \in Nat : a * b \in Nat
  BY <1>1
<1>3. Offset(c) \in Nat
  BY <1>1, <1>2 DEF Offset
<1> QED BY <1>1, <1>3

\* Ranks depend on the table and the list only.
LEMMA RankStays ==
  ASSUME table' = table, ask' = ask, NEW i, NEW c
  PROVE  /\ Rank(i, c)' = Rank(i, c)
         /\ ListOf(ask[c])' = ListOf(ask[c])
BY DEF Rank, Ahead, Earlier, ListOf, Meets, Filter, Before, Key

\* The k-th row of a total order has k - 1 rows before it.
LEMMA PlaceIsRank ==
  ASSUME TypeOK, NEW q \in Asks, q.sortBy = "name",
         NEW S \in SUBSET Ids, \A i \in S : table[i] # Nil,
         NamesDiffer(S), NEW n \in Nat, NEW f \in Orders(S, n, q), NEW k \in 1 .. n
  PROVE  Cardinality(Earlier(S, f[k], q)) = k - 1
<1> DEFINE P == {j \in S : Before(j, f[k], q)}
           g == [m \in 1 .. (k - 1) |-> f[m]]
<1>1. /\ f \in [1 .. n -> S]
      /\ \A a, b \in 1 .. n : f[a] = f[b] => a = b
      /\ \A s \in S : \E m \in 1 .. n : f[m] = s
      /\ \A a, b \in 1 .. n : a < b => ~Before(f[b], f[a], q)
  BY DEF Orders, Bijection, Injection, Surjection, IsInjective
<1>2. \A i \in S : table[i].name \in Nat
  BY ListAssumption DEF TypeOK, Rows
<1>3. \A a, b \in S : a # b /\ ~Before(b, a, q) => Before(a, b, q)
  BY <1>2 DEF Before, Key, NamesDiffer
<1>4. \A a \in S : ~Before(a, a, q)
  BY <1>2 DEF Before, Key
<1>5. g \in [1 .. (k - 1) -> P]
  <2>1. \A m \in 1 .. (k - 1) : m \in 1 .. n /\ m < k /\ m # k
    OBVIOUS
  <2>2. \A m \in 1 .. (k - 1) : f[m] \in S /\ f[m] # f[k] /\ ~Before(f[k], f[m], q)
    BY <1>1, <2>1
  <2>3. \A m \in 1 .. (k - 1) : Before(f[m], f[k], q)
    BY <1>1, <1>3, <2>2
  <2> QED BY <2>2, <2>3
<1>6. \A a, b \in 1 .. (k - 1) : g[a] = g[b] => a = b
  BY <1>1
<1>7. \A s \in P : \E m \in 1 .. (k - 1) : g[m] = s
  <2> SUFFICES ASSUME NEW s \in P PROVE \E m \in 1 .. (k - 1) : g[m] = s
    OBVIOUS
  <2>1. PICK m \in 1 .. n : f[m] = s
    BY <1>1
  <2>2. m # k
    BY <1>1, <1>4, <2>1
  <2>3. ~(k < m)
    BY <1>1, <2>1
  <2>4. m \in 1 .. (k - 1)
    BY <2>2, <2>3
  <2> QED BY <2>1, <2>4
<1> HIDE DEF g, P
<1>8. g \in Bijection(1 .. (k - 1), P)
  <2>1. DOMAIN g = 1 .. (k - 1)
    BY <1>5
  <2> QED BY <1>5, <1>6, <1>7, <2>1 DEF Bijection, Injection, Surjection, IsInjective
<1>9. Cardinality(P) = k - 1
  BY <1>8, FS_CountingElements DEF ExistsBijection
<1> QED BY <1>9 DEF P, Earlier

\* A segment holds no more rows than a page, and as many when there are enough.
LEMMA SegmentSize ==
  ASSUME TypeOK, NEW c \in Clients, NEW S, NEW n \in Nat, NEW f \in Orders(S, n, ask[c])
  PROVE  /\ IsFiniteSet(Segment(f, n, c)) /\ Cardinality(Segment(f, n, c)) <= ask[c].size
         /\ n >= Offset(c) + ask[c].size => Cardinality(Segment(f, n, c)) = ask[c].size
<1> DEFINE z == ask[c].size
           o == Offset(c)
           D == {k \in 1 .. n : k > o /\ k <= o + z}
           T == Segment(f, n, c)
           g == [k \in D |-> f[k]]
<1>1. z \in Nat \ {0} /\ o \in Nat
  BY PageFacts
<1>2. /\ f \in [1 .. n -> S]
      /\ \A a, b \in 1 .. n : f[a] = f[b] => a = b
  BY DEF Orders, Bijection, Injection, IsInjective
<1>3. T = {f[k] : k \in D}
  BY DEF Segment
<1> HIDE DEF z, o, T
<1>4. IsFiniteSet(D) /\ Cardinality(D) <= z /\ (n >= o + z => Cardinality(D) = z)
  <2>1. IsFiniteSet((o + 1) .. (o + z)) /\ Cardinality((o + 1) .. (o + z)) = z
    <3>1. o + 1 \in Int /\ o + z \in Int /\ ~(o + 1 > o + z) /\ (o + z) - (o + 1) + 1 = z
      BY <1>1
    <3> QED BY <3>1, FS_Interval
  <2>2. D \in SUBSET ((o + 1) .. (o + z))
    BY <1>1
  <2>3. n >= o + z => D = (o + 1) .. (o + z)
    BY <1>1
  <2> HIDE DEF D
  <2>4. IsFiniteSet(D) /\ Cardinality(D) <= Cardinality((o + 1) .. (o + z))
    BY <2>1, <2>2, FS_Subset
  <2>5. n >= o + z => Cardinality(D) = z
    BY <2>1, <2>3
  <2> QED BY <2>1, <2>4, <2>5
<1>5. g \in Bijection(D, T)
  <2>1. g \in [D -> T] /\ DOMAIN g = D
    BY <1>3
  <2>2. \A a, b \in D : g[a] = g[b] => a = b
    BY <1>2
  <2>3. \A t \in T : \E k \in D : g[k] = t
    BY <1>3
  <2> HIDE DEF g, D
  <2> QED BY <2>1, <2>2, <2>3 DEF Bijection, Injection, Surjection, IsInjective
<1>6. IsFiniteSet(T) /\ Cardinality(T) = Cardinality(D)
  <2> HIDE DEF g, D
  <2> QED BY <1>4, <1>5, FS_Bijection DEF ExistsBijection
<1> QED BY <1>4, <1>6 DEF T, z, o

\* The statement selects the client's list.
LEMMA SelectsList ==
  ASSUME IInv, NEW c \in Clients, at[c] \in {"query", "reading"}
  PROVE  Matching(ask[c], tags[c]) = ListOf(ask[c])
<1>1. CASE Filter(ask[c]) = {}
  BY <1>1 DEF IInv, TagsCleaned, Matching, ListOf, Meets
<1>2. CASE Filter(ask[c]) # {}
  BY <1>2 DEF IInv, TagsCleaned, Matching, ListOf, Meets
<1> QED BY <1>1, <1>2

------------------------------------------------------------------------------
(* The steps of a request that leave the table and the list alone.         *)

\* What such a step keeps of the invariant, when it starts and ends between
\* the first request and the last.
LEMMA Steps ==
  ASSUME IInv, NEW c \in Clients, Walking(c), Walking(c)', at'[c] # "reading",
         \A d \in Clients \ {c} : at'[d] = at[d] /\ result'[d] = result[d],
         UNCHANGED <<dbVars, askVars, pageVars, since, total>>
  PROVE  Sorted' /\ StillToCome' /\ AlreadyHad' /\ PageSize' /\ NoMiss' /\ NoRepeat'
<1> USE DEF IInv, Walking
<1>1. Sorted' /\ PageSize' /\ NoMiss' /\ NoRepeat'
  BY DEF Sorted, PageSize, NoMiss, NoRepeat
<1>2. ASSUME NEW d \in Clients PROVE Offset(d)' = Offset(d)
  BY DEF Offset
<1>3. StillToCome'
  BY <1>2, RankStays DEF StillToCome
<1>4. AlreadyHad'
  BY <1>2, RankStays DEF AlreadyHad
<1> QED BY <1>1, <1>3, <1>4

\* The tags of other clients are as they were.
LEMMA OthersTags ==
  ASSUME IInv, NEW c \in Clients, ask' = ask,
         \A d \in Clients \ {c} : at'[d] = at[d] /\ tags'[d] = tags[d] /\ index'[d] = index[d],
         at'[c] = "tags" =>
           IF tags'[c] = Nil THEN Filter(ask[c]) = {}
           ELSE /\ Range(tags'[c]) \ {Empty} = Filter(ask[c])
                /\ \A k \in 1 .. Len(tags'[c]) : k < index'[c] => tags'[c][k] # Empty,
         at'[c] \in {"query", "reading"} =>
           IF Filter(ask[c]) = {} THEN tags'[c] = Nil
           ELSE tags'[c] # Nil /\ Range(tags'[c]) = Filter(ask[c])
  PROVE  Loop' /\ TagsCleaned'
<1>1. \A d \in Clients : Filter(ask[d])' = Filter(ask[d])
  BY DEF Filter
<1>2. Loop'
  BY <1>1, SMTT(20) DEF IInv, Loop
<1>3. TagsCleaned'
  BY <1>1 DEF IInv, TagsCleaned
<1> QED BY <1>2, <1>3

LEMMA RefuseOrRetry ==
  ASSUME IInv, NEW c \in Clients, Refuse(c) \/ Retry(c)
  PROVE  IInv'
<1>1. /\ at[c] \in {"binding", "failed"} /\ at'[c] \in {"binding", "failed"}
      /\ at' \in [Clients -> {"idle", "binding", "tags", "query", "reading", "failed", "done"}]
      /\ \A d \in Clients \ {c} : at'[d] = at[d]
      /\ UNCHANGED <<dbVars, askVars, pageVars, loopVars, since, result, total>>
  BY DEF Refuse, Retry, IInv, TypeOK
<1>2. TypeOK'
  BY <1>1 DEF IInv, TypeOK
<1>3. Loop' /\ TagsCleaned'
  BY <1>1, OthersTags
<1>4. Sorted' /\ StillToCome' /\ AlreadyHad' /\ PageSize' /\ NoMiss' /\ NoRepeat'
  BY <1>1, Steps DEF Walking
<1> QED BY <1>2, <1>3, <1>4 DEF IInv

LEMMA Binds ==
  ASSUME IInv, NEW c \in Clients, Bind(c)
  PROVE  IInv'
<1>1. ask[c] \in Asks /\ (ask[c].tags = Nil \/ ask[c].tags \in Seq(Tags \cup {Empty}))
  BY AskFacts DEF IInv, TypeOK
<1>2. /\ at[c] = "binding" /\ at'[c] = "tags"
      /\ tags'[c] = IF ask[c].tags = <<>> THEN Nil ELSE ask[c].tags
      /\ index'[c] = 1
      /\ \A d \in Clients \ {c} : at'[d] = at[d] /\ tags'[d] = tags[d] /\ index'[d] = index[d]
      /\ UNCHANGED <<dbVars, askVars, pageVars, since, result, total>>
  BY DEF Bind, IInv, TypeOK
<1>3. TypeOK'
  <2>1. tags' \in [Clients -> {Nil} \cup Seq(Tags \cup {Empty})]
    BY <1>1 DEF Bind, IInv, TypeOK
  <2>2. index' \in [Clients -> Nat \ {0}]
    BY DEF Bind, IInv, TypeOK
  <2>3. at' \in [Clients -> {"idle", "binding", "tags", "query", "reading", "failed", "done"}]
    BY DEF Bind, IInv, TypeOK
  <2> QED BY <1>2, <2>1, <2>2, <2>3 DEF IInv, TypeOK
<1>4. Loop' /\ TagsCleaned'
  <2>1. CASE ask[c].tags = Nil
    BY <1>2, <2>1, OthersTags, ListAssumption DEF Filter
  <2>2. CASE ask[c].tags # Nil
    <3>1. ask[c].tags \in Seq(Tags \cup {Empty})
      BY <1>1, <2>2
    <3>2. Range(ask[c].tags) \subseteq Tags \cup {Empty}
      BY <3>1 DEF Range
    <3>3. Range(ask[c].tags) \ {Empty} = Filter(ask[c])
      BY <2>2, <3>2, ListAssumption DEF Filter
    <3>4. ask[c].tags = <<>> => Range(ask[c].tags) = {}
      BY DEF Range
    <3> QED BY <1>2, <2>2, <3>3, <3>4, OthersTags
  <2> QED BY <2>1, <2>2
<1>5. Sorted' /\ StillToCome' /\ AlreadyHad' /\ PageSize' /\ NoMiss' /\ NoRepeat'
  BY <1>2, Steps DEF Walking
<1> QED BY <1>3, <1>4, <1>5 DEF IInv

------------------------------------------------------------------------------
(* The loop over the tags.                                                 *)

\* Where the loop is, it looks at a sequence, behind tags that stay.
LEMMA LoopFacts ==
  ASSUME IInv, NEW c \in Clients, Looking(c)
  PROVE  /\ tags[c] \in Seq(Tags \cup {Empty}) /\ tags[c] # Nil
         /\ index[c] \in 1 .. Len(tags[c]) /\ Len(tags[c]) \in Nat
         /\ Range(tags[c]) \ {Empty} = Filter(ask[c])
         /\ \A k \in 1 .. Len(tags[c]) : k < index[c] => tags[c][k] # Empty
<1>1. tags[c] \in Seq(Tags \cup {Empty}) /\ tags[c] # Nil /\ index[c] \in Nat \ {0}
  BY DEF IInv, TypeOK, Looking
<1> QED BY <1>1 DEF IInv, Loop, Looking

LEMMA Keeps ==
  ASSUME IInv, NEW c \in Clients, KeepTag(c)
  PROVE  IInv'
<1>1. /\ Looking(c) /\ tags[c][index[c]] # Empty
      /\ at' = at /\ at[c] = "tags" /\ tags' = tags /\ index'[c] = index[c] + 1
      /\ \A d \in Clients \ {c} : index'[d] = index[d]
      /\ UNCHANGED <<dbVars, askVars, pageVars, since, result, total>>
  BY DEF KeepTag, Looking, IInv, TypeOK
<1>2. TypeOK'
  <2>1. index' \in [Clients -> Nat \ {0}]
    BY DEF KeepTag, IInv, TypeOK
  <2> QED BY <1>1, <2>1 DEF IInv, TypeOK
<1>3. Loop' /\ TagsCleaned'
  <2>1. \A k \in 1 .. Len(tags[c]) : k < index[c] + 1 => tags[c][k] # Empty
    BY <1>1, LoopFacts
  <2>2. tags[c] # Nil /\ Range(tags[c]) \ {Empty} = Filter(ask[c])
    BY <1>1, LoopFacts
  <2> QED BY <1>1, <2>1, <2>2, OthersTags
<1>4. Sorted' /\ StillToCome' /\ AlreadyHad' /\ PageSize' /\ NoMiss' /\ NoRepeat'
  BY <1>1, Steps DEF Walking
<1> QED BY <1>2, <1>3, <1>4 DEF IInv

\* What append(tags[:i], tags[i+1:]...) makes of a list.
LEMMA Removal ==
  ASSUME NEW T, NEW s \in Seq(T), NEW i \in 1 .. Len(s)
  PROVE  /\ Without(s, i) \in Seq(T) /\ Len(Without(s, i)) = Len(s) - 1
         /\ \A k \in 1 .. Len(s) - 1 : Without(s, i)[k] = IF k < i THEN s[k] ELSE s[k + 1]
<1> DEFINE a == SubSeq(s, 1, i - 1)
           b == SubSeq(s, i + 1, Len(s))
<1>1. Len(s) \in Nat /\ i \in Nat /\ \A k \in 1 .. Len(s) : s[k] \in T
  OBVIOUS
<1>2. /\ a \in Seq(T) /\ Len(a) = i - 1
      /\ \A k \in 1 .. i - 1 : a[k] = s[k]
  <2>1. 1 \in Int /\ i - 1 \in Int /\ \A k \in 1 .. i - 1 : s[k] \in T
    BY <1>1
  <2>2. /\ a \in Seq(T) /\ Len(a) = IF 1 <= i - 1 THEN i - 1 - 1 + 1 ELSE 0
        /\ \A k \in 1 .. i - 1 - 1 + 1 : a[k] = s[1 + k - 1]
    BY <2>1, SubSeqProperties
  <2> HIDE DEF a
  <2> QED BY <1>1, <2>2
<1>3. /\ b \in Seq(T) /\ Len(b) = Len(s) - i
      /\ \A k \in 1 .. Len(s) - i : b[k] = s[i + k]
  <2>1. i + 1 \in Int /\ Len(s) \in Int /\ \A k \in i + 1 .. Len(s) : s[k] \in T
    BY <1>1
  <2>2. /\ b \in Seq(T) /\ Len(b) = IF i + 1 <= Len(s) THEN Len(s) - (i + 1) + 1 ELSE 0
        /\ \A k \in 1 .. Len(s) - (i + 1) + 1 : b[k] = s[(i + 1) + k - 1]
    BY <2>1, SubSeqProperties
  <2> HIDE DEF b
  <2> QED BY <1>1, <2>2
<1>4. Without(s, i) = a \o b
  BY DEF Without
<1> HIDE DEF a, b
<1>5. /\ a \o b \in Seq(T) /\ Len(a \o b) = Len(a) + Len(b)
      /\ \A k \in 1 .. Len(a) + Len(b) : (a \o b)[k] = IF k <= Len(a) THEN a[k] ELSE b[k - Len(a)]
  BY <1>2, <1>3, ConcatProperties
<1>6. ASSUME NEW k \in 1 .. Len(s) - 1
      PROVE  (a \o b)[k] = IF k < i THEN s[k] ELSE s[k + 1]
  <2>1. k \in 1 .. Len(a) + Len(b)
    BY <1>1, <1>2, <1>3
  <2>2. CASE k < i
    BY <1>1, <1>2, <1>5, <2>1, <2>2
  <2>3. CASE ~(k < i)
    <3>1. k - (i - 1) \in 1 .. Len(s) - i /\ i + (k - (i - 1)) = k + 1 /\ ~(k <= i - 1)
      BY <1>1, <2>3
    <3>2. (a \o b)[k] = b[k - (i - 1)]
      BY <1>2, <1>5, <2>1, <3>1
    <3>3. b[k - (i - 1)] = s[k + 1]
      BY <1>3, <3>1
    <3> QED BY <2>3, <3>2, <3>3
  <2> QED BY <2>2, <2>3
<1> QED BY <1>1, <1>2, <1>3, <1>4, <1>5, <1>6

LEMMA Removes ==
  ASSUME IInv, NEW c \in Clients, RemoveEmpty(c)
  PROVE  IInv'
<1> DEFINE s == tags[c]
           i == index[c]
           r == Without(s, i)
<1>1. /\ Looking(c) /\ s[i] = Empty
      /\ at' = at /\ at[c] = "tags" /\ index' = index /\ tags'[c] = r
      /\ \A d \in Clients \ {c} : tags'[d] = tags[d]
      /\ UNCHANGED <<dbVars, askVars, pageVars, since, result, total>>
  BY DEF RemoveEmpty, Looking, IInv, TypeOK
<1>2. /\ s \in Seq(Tags \cup {Empty}) /\ i \in 1 .. Len(s) /\ Len(s) \in Nat
      /\ Range(s) \ {Empty} = Filter(ask[c])
      /\ \A k \in 1 .. Len(s) : k < i => s[k] # Empty
  BY <1>1, LoopFacts
<1>3. /\ r \in Seq(Tags \cup {Empty}) /\ Len(r) = Len(s) - 1
      /\ \A k \in 1 .. Len(r) : r[k] = IF k < i THEN s[k] ELSE s[k + 1]
  <2>1. /\ r \in Seq(Tags \cup {Empty}) /\ Len(r) = Len(s) - 1
        /\ \A k \in 1 .. Len(s) - 1 : r[k] = IF k < i THEN s[k] ELSE s[k + 1]
    BY <1>2, Removal
  <2> HIDE DEF r
  <2> QED BY <2>1
<1>4. TypeOK'
  <2>1. tags' \in [Clients -> {Nil} \cup Seq(Tags \cup {Empty})]
    BY <1>3 DEF RemoveEmpty, IInv, TypeOK
  <2> QED BY <1>1, <2>1 DEF IInv, TypeOK
<1> HIDE DEF s, i, r
<1>5. \A k \in 1 .. Len(r) : k < i => r[k] # Empty
  BY <1>2, <1>3
<1>6. Range(r) \ {Empty} = Range(s) \ {Empty}
  <2>1. Range(r) = {r[k] : k \in 1 .. Len(r)} /\ Range(s) = {s[k] : k \in 1 .. Len(s)}
    BY <1>2, <1>3, SMTT(20) DEF Range
  <2>2. \A k \in 1 .. Len(r) : \E m \in 1 .. Len(s) : r[k] = s[m]
    BY <1>2, <1>3
  <2>3. ASSUME NEW m \in 1 .. Len(s), s[m] # Empty
        PROVE  \E k \in 1 .. Len(r) : r[k] = s[m]
    <3>1. CASE m < i
      <4>1. m \in 1 .. Len(r) /\ r[m] = s[m]
        BY <1>2, <1>3, <3>1
      <4> QED BY <4>1
    <3>2. CASE m > i
      <4>1. m - 1 \in 1 .. Len(r) /\ r[m - 1] = s[m]
        BY <1>2, <1>3, <3>2
      <4> QED BY <4>1
    <3>3. m # i
      BY <1>1, <2>3 DEF s, i
    <3> QED BY <1>2, <3>1, <3>2, <3>3
  <2> QED BY <2>1, <2>2, <2>3
<1>7. r # Nil
  BY <1>3, ListAssumption
<1>8. Loop' /\ TagsCleaned'
  BY <1>1, <1>2, <1>5, <1>6, <1>7, OthersTags DEF s, i
<1>9. Sorted' /\ StillToCome' /\ AlreadyHad' /\ PageSize' /\ NoMiss' /\ NoRepeat'
  BY <1>1, Steps DEF Walking
<1> QED BY <1>4, <1>8, <1>9 DEF IInv

LEMMA LoopEnds ==
  ASSUME IInv, NEW c \in Clients, TagsDone(c)
  PROVE  IInv'
<1>1. /\ at[c] = "tags" /\ ~Looking(c) /\ at'[c] = "query"
      /\ tags'[c] = IF tags[c] = <<>> THEN Nil ELSE tags[c]
      /\ \A d \in Clients \ {c} : at'[d] = at[d] /\ tags'[d] = tags[d]
      /\ UNCHANGED <<dbVars, askVars, pageVars, since, index, result, total>>
  BY DEF TagsDone, IInv, TypeOK
<1>2. TypeOK'
  <2>1. tags' \in [Clients -> {Nil} \cup Seq(Tags \cup {Empty})]
    BY DEF TagsDone, IInv, TypeOK
  <2>2. at' \in [Clients -> {"idle", "binding", "tags", "query", "reading", "failed", "done"}]
    BY DEF TagsDone, IInv, TypeOK
  <2> QED BY <1>1, <2>1, <2>2 DEF IInv, TypeOK
<1>3. Loop' /\ TagsCleaned'
  <2>1. CASE tags[c] = Nil
    <3>1. Filter(ask[c]) = {} /\ tags'[c] = Nil
      BY <1>1, <2>1 DEF IInv, Loop
    <3> QED BY <1>1, <3>1, OthersTags
  <2>2. CASE tags[c] # Nil
    <3>1. /\ tags[c] \in Seq(Tags \cup {Empty}) /\ index[c] \in Nat \ {0}
          /\ Range(tags[c]) \ {Empty} = Filter(ask[c])
          /\ \A k \in 1 .. Len(tags[c]) : k < index[c] => tags[c][k] # Empty
          /\ ~(index[c] <= Len(tags[c]))
      BY <1>1, <2>2 DEF IInv, TypeOK, Loop, Looking
    <3>2. Empty \notin Range(tags[c])
      BY <3>1 DEF Range
    <3>3. tags[c] = <<>> <=> Range(tags[c]) = {}
      <4>1. CASE tags[c] = <<>>
        BY <4>1 DEF Range
      <4>2. CASE tags[c] # <<>>
        <5>1. 1 \in DOMAIN tags[c]
          BY <3>1, <4>2
        <5> QED BY <4>2, <5>1 DEF Range
      <4> QED BY <4>1, <4>2
    <3> QED BY <1>1, <2>2, <3>1, <3>2, <3>3, OthersTags
  <2> QED BY <2>1, <2>2
<1>4. Sorted' /\ StillToCome' /\ AlreadyHad' /\ PageSize' /\ NoMiss' /\ NoRepeat'
  BY <1>1, Steps DEF Walking
<1> QED BY <1>2, <1>3, <1>4 DEF IInv

------------------------------------------------------------------------------
(* The first request, the statement and the reply.                         *)

LEMMA Lists ==
  ASSUME IInv, NEW c \in Clients, ListPrompts(c)
  PROVE  IInv'
<1> DEFINE q == ask'[c]
<1>1. /\ ask' \in [Clients -> Asks] /\ q \in Asks
      /\ \A d \in Clients \ {c} : ask'[d] = ask[d]
  BY DEF ListPrompts, IInv, TypeOK
<1>2. /\ known' = [known EXCEPT ![c] = ListOf(q)]
      /\ at' = [at EXCEPT ![c] = "binding"]
      /\ page' = [page EXCEPT ![c] = 1]
      /\ listed' = [listed EXCEPT ![c] = {}]
      /\ twice' = [twice EXCEPT ![c] = {}]
      /\ left' = [left EXCEPT ![c] = FALSE]
      /\ came' = [came EXCEPT ![c] = FALSE]
      /\ total' = [total EXCEPT ![c] = TRUE]
      /\ UNCHANGED <<dbVars, loopVars, result>>
  BY DEF ListPrompts
<1> HIDE DEF q
<1>3. ListOf(q) \subseteq Ids
  BY DEF ListOf
<1>4. /\ at'[c] = "binding" /\ known'[c] = ListOf(q) /\ page'[c] = 1
      /\ listed'[c] = {} /\ twice'[c] = {}
  BY <1>2 DEF IInv, TypeOK
<1>5. \A d \in Clients \ {c} :
        /\ at'[d] = at[d] /\ known'[d] = known[d] /\ page'[d] = page[d] /\ ask'[d] = ask[d]
        /\ listed'[d] = listed[d] /\ twice'[d] = twice[d]
        /\ left'[d] = left[d] /\ came'[d] = came[d] /\ total'[d] = total[d]
        /\ result'[d] = result[d] /\ tags'[d] = tags[d] /\ index'[d] = index[d]
  BY <1>1, <1>2 DEF IInv, TypeOK
<1>6. TypeOK'
  <2>1. page' \in [Clients -> Nat \ {0}]
    BY <1>2 DEF IInv, TypeOK
  <2>2. listed' \in [Clients -> SUBSET Ids] /\ twice' \in [Clients -> SUBSET Ids]
        /\ known' \in [Clients -> SUBSET Ids]
    BY <1>2, <1>3 DEF IInv, TypeOK
  <2>3. left' \in [Clients -> BOOLEAN] /\ came' \in [Clients -> BOOLEAN] /\ total' \in [Clients -> BOOLEAN]
    BY <1>2 DEF IInv, TypeOK
  <2>4. at' \in [Clients -> {"idle", "binding", "tags", "query", "reading", "failed", "done"}]
    BY <1>2 DEF IInv, TypeOK
  <2> QED BY <1>1, <1>2, <2>1, <2>2, <2>3, <2>4 DEF IInv, TypeOK
<1>7. Loop' /\ TagsCleaned'
  <2>1. ASSUME NEW d \in Clients \ {c} PROVE Filter(ask[d])' = Filter(ask[d])
    BY <1>5 DEF Filter
  <2>2. Loop'
    <3> SUFFICES ASSUME NEW d \in Clients, at'[d] = "tags"
                 PROVE  IF tags'[d] = Nil THEN Filter(ask[d])' = {}
                        ELSE /\ Range(tags'[d]) \ {Empty} = Filter(ask[d])'
                             /\ \A k \in 1 .. Len(tags'[d]) : k < index'[d] => tags'[d][k] # Empty
      BY DEF Loop
    <3>1. d \in Clients \ {c} /\ at[d] = "tags" /\ tags'[d] = tags[d] /\ index'[d] = index[d]
      BY <1>4, <1>5
    <3>2. Filter(ask[d])' = Filter(ask[d])
      BY <2>1, <3>1
    <3> QED BY <3>1, <3>2 DEF IInv, Loop
  <2>3. TagsCleaned'
    BY <1>4, <1>5, <2>1 DEF IInv, TagsCleaned
  <2> QED BY <2>2, <2>3
<1>8. ASSUME NEW d \in Clients \ {c}, NEW i
      PROVE  /\ Rank(i, d)' = Rank(i, d) /\ ListOf(ask[d])' = ListOf(ask[d])
             /\ Offset(d)' = Offset(d)
  <2>1. table' = table /\ ask'[d] = ask[d] /\ page'[d] = page[d]
    BY <1>2, <1>5
  <2>2. ListOf(ask[d])' = ListOf(ask[d])
    BY <2>1 DEF ListOf, Meets, Filter
  <2>3. \A j, k : Before(j, k, ask[d])' = Before(j, k, ask[d])
    BY <2>1 DEF Before, Key
  <2>4. Ahead(i, d)' = Ahead(i, d)
    BY <2>2, <2>3 DEF Ahead, Earlier
  <2> QED BY <2>1, <2>2, <2>4 DEF Rank, Offset
<1>9. ListOf(ask[c])' = ListOf(q) /\ Offset(c)' = 0
  <2>1. ListOf(ask[c])' = ListOf(q)
    BY <1>2 DEF ListOf, Meets, Filter, q
  <2>2. ask'[c].size \in Nat \ {0}
    BY <1>1, AskFacts DEF q
  <2>3. Offset(c)' = 0
    BY <1>4, <2>2 DEF Offset
  <2> QED BY <2>1, <2>3
<1>10. Sorted' /\ PageSize' /\ NoMiss' /\ NoRepeat'
  BY <1>4, <1>5 DEF IInv, Sorted, PageSize, NoMiss, NoRepeat
<1>11. StillToCome'
  <2> SUFFICES ASSUME NEW d \in Clients, total'[d], ~left'[d], at'[d] \notin {"idle", "done"}
               PROVE  /\ known'[d] \subseteq ListOf(ask[d])'
                      /\ \A i \in known'[d] \ listed'[d] :
                           /\ Rank(i, d)' >= Offset(d)'
                           /\ at'[d] = "reading" /\ i \notin result'[d] =>
                                /\ Rank(i, d)' >= Offset(d)' + ask'[d].size
                                /\ Cardinality(result'[d]) = ask'[d].size
    BY DEF StillToCome
  <2>1. CASE d = c
    <3>3. \A i : Rank(i, c)' >= Offset(c)'
      BY <1>9, NextRankFacts
    <3>4. known'[c] \subseteq ListOf(ask[c])' /\ at'[c] # "reading"
      BY <1>4, <1>9
    <3> QED BY <2>1, <3>3, <3>4
  <2>2. CASE d # c
    BY <1>5, <1>8, <2>2 DEF IInv, StillToCome
  <2> QED BY <2>1, <2>2
<1>12. AlreadyHad'
  <2> SUFFICES ASSUME NEW d \in Clients, total'[d], ~came'[d]
               PROVE  /\ at'[d] \notin {"idle", "done"} =>
                           \A i \in listed'[d] : i \in ListOf(ask[d])' => Rank(i, d)' < Offset(d)'
                      /\ at'[d] = "reading" =>
                           /\ result'[d] \cap listed'[d] = {}
                           /\ \A i \in result'[d] : i \in ListOf(ask[d])' =>
                                Rank(i, d)' < Offset(d)' + ask'[d].size
    BY DEF AlreadyHad
  <2>1. CASE d = c
    BY <1>4, <2>1
  <2>2. CASE d # c
    BY <1>5, <1>8, <2>2 DEF IInv, AlreadyHad
  <2> QED BY <2>1, <2>2
<1> QED BY <1>6, <1>7, <1>10, <1>11, <1>12 DEF IInv

LEMMA Fails ==
  ASSUME IInv, NEW c \in Clients, ListFails(c)
  PROVE  IInv'
<1>1. /\ at[c] \in {"query", "reading"} /\ at'[c] = "failed"
      /\ \A d \in Clients \ {c} : at'[d] = at[d] /\ result'[d] = result[d]
                                  /\ tags'[d] = tags[d] /\ index'[d] = index[d]
      /\ UNCHANGED <<dbVars, askVars, pageVars, since, total>>
  BY DEF ListFails, EndRequest, IInv, TypeOK
<1>2. TypeOK'
  <2>1. tags' \in [Clients -> {Nil} \cup Seq(Tags \cup {Empty})]
    BY DEF ListFails, EndRequest, IInv, TypeOK
  <2>2. index' \in [Clients -> Nat \ {0}] /\ result' \in [Clients -> SUBSET Ids]
    BY DEF ListFails, EndRequest, IInv, TypeOK
  <2>3. at' \in [Clients -> {"idle", "binding", "tags", "query", "reading", "failed", "done"}]
    BY DEF ListFails, IInv, TypeOK
  <2> QED BY <1>1, <2>1, <2>2, <2>3 DEF IInv, TypeOK
<1>3. Loop' /\ TagsCleaned'
  BY <1>1, OthersTags
<1>4. Sorted' /\ StillToCome' /\ AlreadyHad' /\ PageSize' /\ NoMiss' /\ NoRepeat'
  BY <1>1, Steps DEF Walking
<1> QED BY <1>2, <1>3, <1>4 DEF IInv

\* What the statement selects for c, when all orders have been total.
LEMMA Selects ==
  ASSUME IInv, NEW c \in Clients, at[c] = "query",
         NEW n, n = Cardinality(ListOf(ask[c])), NEW f \in Orders(ListOf(ask[c]), n, ask[c]),
         ask[c].sortBy = "name", NamesDiffer(ListOf(ask[c]))
  PROVE  /\ \A i \in Segment(f, n, c) :
              i \in ListOf(ask[c]) /\ Rank(i, c) >= Offset(c) /\ Rank(i, c) < Offset(c) + ask[c].size
         /\ \A i \in ListOf(ask[c]) \ Segment(f, n, c) : Rank(i, c) >= Offset(c) =>
              Rank(i, c) >= Offset(c) + ask[c].size /\ Cardinality(Segment(f, n, c)) = ask[c].size
<1> DEFINE S == ListOf(ask[c])
<1>1. S \in SUBSET Ids /\ IsFiniteSet(S) /\ n \in Nat
  <2>1. S \in SUBSET Ids
    BY DEF ListOf
  <2> QED BY <2>1, FS_Subset, FS_CardinalityType, ListAssumption
<1>2. \A i \in S : table[i] # Nil
  BY DEF ListOf, Meets
<1>3. ask[c] \in Asks /\ ask[c].size \in Nat \ {0}
  BY PageFacts DEF IInv
<1>4. Offset(c) \in Nat
  BY PageFacts DEF IInv
<1>5. ASSUME NEW k \in 1 .. n PROVE Rank(f[k], c) = k - 1
  <2>1. Cardinality(Earlier(ListOf(ask[c]), f[k], ask[c])) = k - 1
    <3>1. \A i \in ListOf(ask[c]) : table[i] # Nil
      BY <1>2
    <3>2. ListOf(ask[c]) \in SUBSET Ids /\ n \in Nat /\ TypeOK
      BY <1>1 DEF IInv
    <3> HIDE DEF S
    <3> QED BY <1>3, <3>1, <3>2, PlaceIsRank
  <2> QED BY <2>1 DEF Rank, Ahead
<1>6. f \in [1 .. n -> S] /\ \A s \in S : \E k \in 1 .. n : f[k] = s
  BY DEF Orders, Bijection, Injection, Surjection
<1> HIDE DEF S
<1>7. ASSUME NEW i \in Segment(f, n, c)
      PROVE  i \in S /\ Rank(i, c) >= Offset(c) /\ Rank(i, c) < Offset(c) + ask[c].size
  <2>1. PICK k \in 1 .. n : f[k] = i /\ k > Offset(c) /\ k <= Offset(c) + ask[c].size
    BY DEF Segment
  <2> QED BY <1>1, <1>3, <1>4, <1>5, <1>6, <2>1
<1>8. ASSUME NEW i \in S \ Segment(f, n, c), Rank(i, c) >= Offset(c)
      PROVE  Rank(i, c) >= Offset(c) + ask[c].size /\ Cardinality(Segment(f, n, c)) = ask[c].size
  <2>1. PICK k \in 1 .. n : f[k] = i
    BY <1>6
  <2>2. ~(k > Offset(c) /\ k <= Offset(c) + ask[c].size)
    BY <2>1 DEF Segment
  <2>3. k > Offset(c) + ask[c].size /\ Rank(i, c) = k - 1
    BY <1>3, <1>4, <1>5, <1>8, <2>1, <2>2
  <2>4. n >= Offset(c) + ask[c].size
    BY <1>1, <1>3, <1>4, <2>1, <2>3
  <2>5. Cardinality(Segment(f, n, c)) = ask[c].size
    BY <1>1, <2>4, SegmentSize DEF IInv
  <2> QED BY <1>3, <1>4, <2>1, <2>3, <2>5
<1> QED BY <1>7, <1>8 DEF S

LEMMA Queries ==
  ASSUME IInv, NEW c \in Clients, Query(c)
  PROVE  IInv'
<1> DEFINE S == ListOf(ask[c])
           n == Cardinality(S)
           distinct == NamesDiffer(S)
<1>1. at[c] = "query" /\ Matching(ask[c], tags[c]) = S
  BY SelectsList DEF Query
<1>2. PICK f \in Orders(S, n, ask[c]) : result' = [result EXCEPT ![c] = Segment(f, n, c)]
  BY <1>1 DEF Query
<1>3. total' = [total EXCEPT ![c] = @ /\ ask[c].sortBy = "name" /\ distinct]
  BY <1>1 DEF Query
<1>4. /\ at' = [at EXCEPT ![c] = "reading"]
      /\ UNCHANGED <<dbVars, askVars, pageVars, loopVars, since>>
  BY DEF Query
<1>5. S \in SUBSET Ids /\ IsFiniteSet(S) /\ n \in Nat
  <2>1. S \in SUBSET Ids
    BY DEF ListOf
  <2> QED BY <2>1, FS_Subset, FS_CardinalityType, ListAssumption
<1>6. Segment(f, n, c) \subseteq S
  BY DEF Segment, Orders, Bijection, Injection
<1>7. Cardinality(Segment(f, n, c)) <= ask[c].size
  BY <1>5, SegmentSize DEF IInv
<1>8. (total'[c] => total[c] /\ ask[c].sortBy = "name" /\ distinct) /\ total'[c] \in BOOLEAN
  BY <1>3 DEF IInv, TypeOK
<1>9. /\ result'[c] = Segment(f, n, c) /\ at'[c] = "reading"
      /\ \A d \in Clients \ {c} : at'[d] = at[d] /\ result'[d] = result[d] /\ total'[d] = total[d]
  BY <1>2, <1>3, <1>4 DEF IInv, TypeOK
<1>10. TypeOK'
  <2>1. result' \in [Clients -> SUBSET Ids]
    BY <1>2, <1>5, <1>6 DEF IInv, TypeOK
  <2>2. at' \in [Clients -> {"idle", "binding", "tags", "query", "reading", "failed", "done"}]
    BY <1>4 DEF IInv, TypeOK
  <2>3. total' \in [Clients -> BOOLEAN]
    BY <1>3 DEF IInv, TypeOK
  <2> QED BY <1>4, <2>1, <2>2, <2>3 DEF IInv, TypeOK
<1> HIDE DEF S, n, distinct
<1>11. Loop' /\ TagsCleaned'
  BY <1>1, <1>4, <1>9, OthersTags DEF IInv, TagsCleaned
<1>12. Sorted' /\ PageSize' /\ NoMiss' /\ NoRepeat'
  <2>1. Sorted'
    BY <1>1, <1>4, <1>8, <1>9 DEF IInv, Sorted
  <2>2. PageSize'
    BY <1>4, <1>7, <1>9 DEF IInv, PageSize
  <2>3. NoMiss' /\ NoRepeat'
    BY <1>4, <1>8, <1>9 DEF IInv, NoMiss, NoRepeat
  <2> QED BY <2>1, <2>2, <2>3
<1>13. ASSUME total'[c]
       PROVE  /\ \A i \in result'[c] :
                   i \in S /\ Rank(i, c) >= Offset(c) /\ Rank(i, c) < Offset(c) + ask[c].size
              /\ \A i \in S \ result'[c] : Rank(i, c) >= Offset(c) =>
                   Rank(i, c) >= Offset(c) + ask[c].size /\ Cardinality(result'[c]) = ask[c].size
  BY <1>1, <1>2, <1>8, <1>9, <1>13, Selects DEF S, n, distinct
<1>14. \A d, i : Rank(i, d)' = Rank(i, d) /\ ListOf(ask[d])' = ListOf(ask[d]) /\ Offset(d)' = Offset(d)
  BY <1>4, RankStays DEF Offset
<1>15. StillToCome'
  <2> SUFFICES ASSUME NEW d \in Clients, total'[d], ~left[d], at'[d] \notin {"idle", "done"}
               PROVE  /\ known[d] \subseteq ListOf(ask[d])
                      /\ \A i \in known[d] \ listed[d] :
                           /\ Rank(i, d) >= Offset(d)
                           /\ at'[d] = "reading" /\ i \notin result'[d] =>
                                /\ Rank(i, d) >= Offset(d) + ask[d].size
                                /\ Cardinality(result'[d]) = ask[d].size
    BY <1>4, <1>14 DEF StillToCome
  <2>1. CASE d = c
    <3>1. total[c] /\ known[c] \subseteq S /\ \A i \in known[c] \ listed[c] : Rank(i, c) >= Offset(c)
      BY <1>1, <1>8, <2>1 DEF IInv, StillToCome, S
    <3> QED BY <1>13, <2>1, <3>1 DEF S
  <2>2. CASE d # c
    BY <1>9, <2>2 DEF IInv, StillToCome
  <2> QED BY <2>1, <2>2
<1>16. AlreadyHad'
  <2> SUFFICES ASSUME NEW d \in Clients, total'[d], ~came[d]
               PROVE  /\ at'[d] \notin {"idle", "done"} =>
                           \A i \in listed[d] : i \in ListOf(ask[d]) => Rank(i, d) < Offset(d)
                      /\ at'[d] = "reading" =>
                           /\ result'[d] \cap listed[d] = {}
                           /\ \A i \in result'[d] : i \in ListOf(ask[d]) =>
                                Rank(i, d) < Offset(d) + ask[d].size
    BY <1>4, <1>14 DEF AlreadyHad
  <2>1. CASE d = c
    <3>1. \A i \in listed[c] : i \in S => Rank(i, c) < Offset(c)
      BY <1>1, <1>8, <2>1 DEF IInv, AlreadyHad, S
    <3>2. Offset(c) \in Nat
      BY PageFacts DEF IInv
    <3>3. \A i : Rank(i, c) \in Nat
      BY RankFacts
    <3>4. result'[c] \cap listed[c] = {}
      BY <1>13, <2>1, <3>1, <3>2, <3>3
    <3> QED BY <1>13, <2>1, <3>1, <3>4 DEF S
  <2>2. CASE d # c
    BY <1>9, <2>2 DEF IInv, AlreadyHad
  <2> QED BY <2>1, <2>2
<1> QED BY <1>10, <1>11, <1>12, <1>15, <1>16 DEF IInv

\* A full page moves the place of the next by its size.
LEMMA NextPage ==
  \A p \in Nat \ {0}, q \in Nat, z \in Nat : q = p + 1 => (q - 1) * z = (p - 1) * z + z
<1> TAKE p \in Nat \ {0}, q \in Nat, z \in Nat
<1> HAVE q = p + 1
<1>1. q - 1 = (p - 1) + 1
  OBVIOUS
<1>2. \A a \in Nat : (a + 1) * z = a * z + z
  OBVIOUS
<1>3. p - 1 \in Nat
  OBVIOUS
<1> QED BY <1>1, <1>2, <1>3

LEMMA NextOffset ==
  ASSUME TypeOK, NEW c \in Clients, ask' = ask
  PROVE  /\ page'[c] = page[c] => Offset(c)' = Offset(c)
         /\ page'[c] = page[c] + 1 => Offset(c)' = Offset(c) + ask[c].size
<1>1. page[c] \in Nat \ {0} /\ ask[c].size \in Nat
  BY PageFacts
<1>2. Offset(c)' = (page'[c] - 1) * ask[c].size /\ Offset(c) = (page[c] - 1) * ask[c].size
  BY DEF Offset
<1>3. page'[c] = page[c] => Offset(c)' = Offset(c)
  BY <1>2
<1>4. ASSUME page'[c] = page[c] + 1
      PROVE  Offset(c)' = Offset(c) + ask[c].size
  <2>1. page'[c] \in Nat
    BY <1>1, <1>4
  <2>2. (page'[c] - 1) * ask[c].size = (page[c] - 1) * ask[c].size + ask[c].size
    BY <1>1, <1>4, <2>1, NextPage
  <2> QED BY <1>2, <2>2
<1> QED BY <1>3, <1>4

LEMMA Replies ==
  ASSUME IInv, NEW c \in Clients, Reply(c)
  PROVE  IInv'
<1>1. /\ at[c] = "reading"
      /\ listed' = [listed EXCEPT ![c] = @ \cup result[c]]
      /\ twice' = [twice EXCEPT ![c] = @ \cup (result[c] \cap listed[c])]
      /\ UNCHANGED <<dbVars, askVars, since, total>>
  BY DEF Reply, Turn
<1>2. \/ /\ Cardinality(result[c]) = ask[c].size
         /\ page' = [page EXCEPT ![c] = @ + 1] /\ at' = [at EXCEPT ![c] = "binding"]
      \/ /\ Cardinality(result[c]) < ask[c].size
         /\ page' = page /\ at' = [at EXCEPT ![c] = "done"]
  BY DEF Reply, Turn
<1>3. /\ tags' = [tags EXCEPT ![c] = Nil] /\ index' = [index EXCEPT ![c] = 1]
      /\ result' = [result EXCEPT ![c] = {}]
  BY DEF Reply, Turn, EndRequest
<1>4. TypeOK'
  <2>1. listed' \in [Clients -> SUBSET Ids] /\ twice' \in [Clients -> SUBSET Ids]
        /\ result' \in [Clients -> SUBSET Ids]
    BY <1>1, <1>3 DEF IInv, TypeOK
  <2>2. tags' \in [Clients -> {Nil} \cup Seq(Tags \cup {Empty})] /\ index' \in [Clients -> Nat \ {0}]
    BY <1>3 DEF IInv, TypeOK
  <2>3. page' \in [Clients -> Nat \ {0}]
    BY <1>2 DEF IInv, TypeOK
  <2>4. at' \in [Clients -> {"idle", "binding", "tags", "query", "reading", "failed", "done"}]
    BY <1>2 DEF IInv, TypeOK
  <2> QED BY <1>1, <2>1, <2>2, <2>3, <2>4 DEF IInv, TypeOK
<1>5. /\ listed'[c] = listed[c] \cup result[c] /\ twice'[c] = twice[c] \cup (result[c] \cap listed[c])
      /\ at'[c] \in {"binding", "done"}
      /\ at'[c] = "binding" => page'[c] = page[c] + 1 /\ Cardinality(result[c]) = ask[c].size
      /\ at'[c] = "done" => page'[c] = page[c] /\ Cardinality(result[c]) # ask[c].size
  <2>1. Cardinality(result[c]) < ask[c].size => Cardinality(result[c]) # ask[c].size
    <3>1. IsFiniteSet(result[c]) /\ ask[c].size \in Nat
      BY FS_Subset, ListAssumption, PageFacts DEF IInv, TypeOK
    <3> QED BY <3>1, FS_CardinalityType
  <2> QED BY <1>1, <1>2, <2>1 DEF IInv, TypeOK
<1>6. \A d \in Clients \ {c} :
        /\ listed'[d] = listed[d] /\ twice'[d] = twice[d] /\ page'[d] = page[d] /\ at'[d] = at[d]
        /\ result'[d] = result[d] /\ tags'[d] = tags[d] /\ index'[d] = index[d]
  BY <1>1, <1>2, <1>3 DEF IInv, TypeOK
<1>7. Loop' /\ TagsCleaned'
  BY <1>1, <1>5, <1>6, OthersTags
<1>8. \A d, i : Rank(i, d)' = Rank(i, d) /\ ListOf(ask[d])' = ListOf(ask[d])
  BY <1>1, RankStays
<1>9. \A d \in Clients \ {c} : Offset(d)' = Offset(d)
  BY <1>1, <1>6, NextOffset DEF IInv
<1>10. /\ at'[c] = "binding" => Offset(c)' = Offset(c) + ask[c].size
       /\ Offset(c) \in Nat /\ ask[c].size \in Nat \ {0} /\ \A i : Rank(i, c) \in Nat
  BY <1>1, <1>5, NextOffset, PageFacts, RankFacts DEF IInv
<1>11. Sorted'
  <2> SUFFICES ASSUME NEW d \in Clients
               PROVE  /\ total'[d] /\ at'[d] # "idle" /\ (page'[d] > 1 \/ at'[d] \in {"reading", "done"})
                           => ask'[d].sortBy = "name"
                      /\ page'[d] = 1 /\ at'[d] # "done" => listed'[d] = {}
    BY DEF Sorted
  <2>1. CASE d = c
    <3>1. page[c] \in Nat \ {0}
      BY PageFacts DEF IInv
    <3>2. total[c] => ask[c].sortBy = "name"
      BY <1>1 DEF IInv, Sorted
    <3>3. at'[c] # "done" => page'[c] # 1
      BY <1>5, <3>1
    <3> QED BY <1>1, <2>1, <3>2, <3>3
  <2>2. CASE d # c
    BY <1>1, <1>6, <2>2 DEF IInv, Sorted
  <2> QED BY <2>1, <2>2
<1>12. PageSize'
  BY <1>1, <1>5, <1>6 DEF IInv, PageSize
<1>13. NoMiss'
  <2> SUFFICES ASSUME NEW d \in Clients, at'[d] = "done", total[d], ~left[d]
               PROVE  known[d] \subseteq listed'[d]
    BY <1>1 DEF NoMiss
  <2>1. CASE d = c
    BY <1>1, <1>5, <2>1 DEF IInv, StillToCome
  <2>2. CASE d # c
    BY <1>6, <2>2 DEF IInv, NoMiss
  <2> QED BY <2>1, <2>2
<1>14. NoRepeat'
  <2> SUFFICES ASSUME NEW d \in Clients, total[d], ~came[d] PROVE twice'[d] = {}
    BY <1>1 DEF NoRepeat
  <2>1. CASE d = c
    <3>1. twice[c] = {} /\ result[c] \cap listed[c] = {}
      BY <1>1, <2>1 DEF IInv, NoRepeat, AlreadyHad
    <3> QED BY <1>5, <2>1, <3>1
  <2>2. CASE d # c
    BY <1>6, <2>2 DEF IInv, NoRepeat
  <2> QED BY <2>1, <2>2
<1>15. StillToCome'
  <2> SUFFICES ASSUME NEW d \in Clients, total[d], ~left[d], at'[d] \notin {"idle", "done"}
               PROVE  /\ known[d] \subseteq ListOf(ask[d])
                      /\ \A i \in known[d] \ listed'[d] :
                           /\ Rank(i, d) >= Offset(d)'
                           /\ at'[d] = "reading" /\ i \notin result'[d] =>
                                /\ Rank(i, d) >= Offset(d)' + ask[d].size
                                /\ Cardinality(result'[d]) = ask[d].size
    BY <1>1, <1>8 DEF StillToCome
  <2>1. CASE d = c
    <3>1. at'[c] = "binding"
      BY <1>5, <2>1
    <3>2. /\ known[c] \subseteq ListOf(ask[c])
          /\ \A i \in known[c] \ listed[c] : i \notin result[c] => Rank(i, c) >= Offset(c) + ask[c].size
      BY <1>1, <2>1 DEF IInv, StillToCome
    <3>3. \A i \in known[c] \ listed'[c] : Rank(i, c) >= Offset(c)'
      BY <1>5, <1>10, <3>1, <3>2
    <3> QED BY <2>1, <3>1, <3>2, <3>3
  <2>2. CASE d # c
    BY <1>6, <1>9, <2>2 DEF IInv, StillToCome
  <2> QED BY <2>1, <2>2
<1>16. AlreadyHad'
  <2> SUFFICES ASSUME NEW d \in Clients, total[d], ~came[d]
               PROVE  /\ at'[d] \notin {"idle", "done"} =>
                           \A i \in listed'[d] : i \in ListOf(ask[d]) => Rank(i, d) < Offset(d)'
                      /\ at'[d] = "reading" =>
                           /\ result'[d] \cap listed'[d] = {}
                           /\ \A i \in result'[d] : i \in ListOf(ask[d]) =>
                                Rank(i, d) < Offset(d)' + ask[d].size
    BY <1>1, <1>8 DEF AlreadyHad
  <2>1. CASE d = c
    <3>1. /\ \A i \in listed[c] : i \in ListOf(ask[c]) => Rank(i, c) < Offset(c)
          /\ \A i \in result[c] : i \in ListOf(ask[c]) => Rank(i, c) < Offset(c) + ask[c].size
      BY <1>1, <2>1 DEF IInv, AlreadyHad
    <3>2. at'[c] = "binding" =>
            \A i \in listed'[c] : i \in ListOf(ask[c]) => Rank(i, c) < Offset(c)'
      BY <1>5, <1>10, <3>1
    <3> QED BY <1>5, <2>1, <3>2
  <2>2. CASE d # c
    BY <1>6, <1>9, <2>2 DEF IInv, AlreadyHad
  <2> QED BY <2>1, <2>2
<1> QED BY <1>4, <1>7, <1>11, <1>12, <1>13, <1>14, <1>15, <1>16 DEF IInv

------------------------------------------------------------------------------
(* The steps of others.                                                    *)

\* A write that does not take row i off c's list leaves every row of it there,
\* and every name; one that does not put i on the list adds none.
LEMMA WriteKeepsNames ==
  ASSUME IInv, NEW c \in Clients, NEW i \in Ids, NEW new \in Rows \cup {Nil}, Write(i, new)
  PROVE  /\ ~left'[c] => /\ ~left[c] /\ ListOf(ask[c]) \subseteq ListOf(ask[c])'
                         /\ \A j \in ListOf(ask[c]) : table'[j].name = table[j].name
         /\ ~came'[c] => /\ ~came[c] /\ ListOf(ask[c])' \subseteq ListOf(ask[c])
                         /\ \A j \in ListOf(ask[c])' : table'[j].name = table[j].name
<1>1. table' = [table EXCEPT ![i] = new] /\ ask' = ask
  BY DEF Write
<1>2. table'[i] = new /\ \A j \in Ids \ {i} : table'[j] = table[j]
  BY <1>1 DEF IInv, TypeOK
<1>3. \A j \in Ids \ {i} : j \in ListOf(ask[c])' <=> j \in ListOf(ask[c])
  BY <1>1, <1>2 DEF ListOf, Meets, Filter
<1>4. ListOf(ask[c]) \subseteq Ids /\ ListOf(ask[c])' \subseteq Ids
  BY RankFacts, NextRankFacts
<1>5. left'[c] <=> \/ left[c]
                   \/ i \in ListOf(ask[c]) /\ (i \notin ListOf(ask[c])' \/ new.name # table[i].name)
  BY DEF Write
<1>6. came'[c] <=> \/ came[c]
                   \/ i \in ListOf(ask[c])' /\ (i \notin ListOf(ask[c]) \/ new.name # table[i].name)
  BY DEF Write
<1>7. ASSUME ~left'[c]
      PROVE  /\ ~left[c] /\ ListOf(ask[c]) \subseteq ListOf(ask[c])'
             /\ \A j \in ListOf(ask[c]) : table'[j].name = table[j].name
  BY <1>2, <1>3, <1>4, <1>5, <1>7
<1>8. ASSUME ~came'[c]
      PROVE  /\ ~came[c] /\ ListOf(ask[c])' \subseteq ListOf(ask[c])
             /\ \A j \in ListOf(ask[c])' : table'[j].name = table[j].name
  BY <1>2, <1>3, <1>4, <1>6, <1>8
<1> QED BY <1>7, <1>8

\* So that, in a list by name, ranks only grow while nothing leaves, and only
\* shrink while nothing comes.
LEMMA WriteMovesRanks ==
  ASSUME IInv, NEW c \in Clients, NEW i \in Ids, NEW new \in Rows \cup {Nil}, Write(i, new),
         ask[c].sortBy = "name"
  PROVE  /\ ~left'[c] => \A j \in ListOf(ask[c]) : Rank(j, c)' >= Rank(j, c)
         /\ ~came'[c] => \A j \in ListOf(ask[c])' : Rank(j, c)' <= Rank(j, c)
<1>1. ask' = ask
  BY DEF Write
<1>2. ASSUME ~left'[c], NEW j \in ListOf(ask[c]) PROVE Rank(j, c)' >= Rank(j, c)
  <2>1. \A k \in ListOf(ask[c]) : k \in ListOf(ask[c])' /\ table'[k].name = table[k].name
    BY <1>2, WriteKeepsNames
  <2>2. Ahead(j, c) \subseteq Ahead(j, c)'
    BY <1>1, <2>1 DEF Ahead, Earlier, Before, Key
  <2>3. IsFiniteSet(Ahead(j, c)')
    BY NextRankFacts
  <2>4. Cardinality(Ahead(j, c)) <= Cardinality(Ahead(j, c)')
    BY <2>2, <2>3, FS_Subset
  <2> QED BY <2>4, RankFacts, NextRankFacts DEF Rank
<1>3. ASSUME ~came'[c], NEW j \in ListOf(ask[c])' PROVE Rank(j, c)' <= Rank(j, c)
  <2>1. \A k \in ListOf(ask[c])' : k \in ListOf(ask[c]) /\ table'[k].name = table[k].name
    BY <1>3, WriteKeepsNames
  <2>2. Ahead(j, c)' \subseteq Ahead(j, c)
    BY <1>1, <2>1 DEF Ahead, Earlier, Before, Key
  <2>3. IsFiniteSet(Ahead(j, c))
    BY RankFacts
  <2>4. Cardinality(Ahead(j, c)') <= Cardinality(Ahead(j, c))
    BY <2>2, <2>3, FS_Subset
  <2> QED BY <2>4, RankFacts, NextRankFacts DEF Rank
<1> QED BY <1>2, <1>3

LEMMA Writes ==
  ASSUME IInv, NEW i \in Ids, NEW new \in Rows \cup {Nil}, Write(i, new)
  PROVE  IInv'
<1>1. table' = [table EXCEPT ![i] = new] /\ UNCHANGED <<unique, askVars, pageVars, loopVars, at, result, total>>
  BY DEF Write
<1>2. TypeOK'
  <2>1. table' \in [Ids -> Rows \cup {Nil}]
    BY <1>1 DEF IInv, TypeOK
  <2>2. left' \in [Clients -> BOOLEAN] /\ came' \in [Clients -> BOOLEAN]
    <3>1. \A c \in Clients : left[c] \in BOOLEAN /\ came[c] \in BOOLEAN
      BY DEF IInv, TypeOK
    <3> QED BY <3>1, Zenon DEF Write
  <2> QED BY <1>1, <2>1, <2>2 DEF IInv, TypeOK
<1>3. Loop' /\ TagsCleaned'
  <2>1. \A d : Filter(ask[d])' = Filter(ask[d])
    BY <1>1 DEF Filter
  <2> QED BY <1>1, <2>1 DEF IInv, Loop, TagsCleaned
<1>4. Sorted' /\ PageSize'
  BY <1>1 DEF IInv, Sorted, PageSize
<1>5. NoMiss' /\ NoRepeat'
  BY <1>1, WriteKeepsNames DEF IInv, NoMiss, NoRepeat
<1>6. ASSUME NEW c \in Clients
      PROVE  /\ Offset(c)' = Offset(c) /\ Offset(c) \in Nat /\ ask[c].size \in Nat \ {0}
             /\ page[c] \in Nat \ {0}
             /\ page[c] = 1 => Offset(c) = 0
             /\ \A j : Rank(j, c) \in Nat /\ Rank(j, c)' \in Nat
  <2>1. page[c] \in Nat \ {0} /\ ask[c].size \in Nat \ {0} /\ Offset(c) \in Nat
    BY PageFacts DEF IInv
  <2> QED BY <1>1, <2>1, RankFacts, NextRankFacts DEF Offset
<1>7. StillToCome'
  <2> SUFFICES ASSUME NEW c \in Clients, total[c], ~left'[c], at[c] \notin {"idle", "done"}
               PROVE  /\ known[c] \subseteq ListOf(ask[c])'
                      /\ \A j \in known[c] \ listed[c] :
                           /\ Rank(j, c)' >= Offset(c)
                           /\ at[c] = "reading" /\ j \notin result[c] =>
                                /\ Rank(j, c)' >= Offset(c) + ask[c].size
                                /\ Cardinality(result[c]) = ask[c].size
    BY <1>1, <1>6 DEF StillToCome
  <2>1. /\ ~left[c] /\ ListOf(ask[c]) \subseteq ListOf(ask[c])'
    BY WriteKeepsNames
  <2>2. /\ known[c] \subseteq ListOf(ask[c])
        /\ \A j \in known[c] \ listed[c] :
             /\ Rank(j, c) >= Offset(c)
             /\ at[c] = "reading" /\ j \notin result[c] =>
                  Rank(j, c) >= Offset(c) + ask[c].size /\ Cardinality(result[c]) = ask[c].size
    BY <2>1 DEF IInv, StillToCome
  <2>3. CASE ask[c].sortBy = "name"
    <3>1. \A j \in ListOf(ask[c]) : Rank(j, c)' >= Rank(j, c)
      BY <2>3, WriteMovesRanks
    <3>2. \A j \in known[c] \ listed[c] :
            Rank(j, c)' >= Rank(j, c) /\ Rank(j, c)' \in Nat /\ Rank(j, c) \in Nat
      BY <1>6, <2>2, <3>1
    <3>3. Offset(c) \in Nat /\ ask[c].size \in Nat
      BY <1>6
    <3>4. known[c] \subseteq ListOf(ask[c])'
      BY <2>1, <2>2
    <3>5. ASSUME NEW j \in known[c] \ listed[c]
          PROVE  /\ Rank(j, c)' >= Offset(c)
                 /\ at[c] = "reading" /\ j \notin result[c] =>
                      Rank(j, c)' >= Offset(c) + ask[c].size /\ Cardinality(result[c]) = ask[c].size
      BY <2>2, <3>2, <3>3
    <3> QED BY <3>4, <3>5
  <2>4. CASE ask[c].sortBy # "name"
    <3>1. Offset(c) = 0 /\ at[c] # "reading"
      BY <1>6, <2>4 DEF IInv, Sorted
    <3> QED BY <1>6, <2>1, <2>2, <3>1
  <2> QED BY <2>3, <2>4
<1>8. AlreadyHad'
  <2> SUFFICES ASSUME NEW c \in Clients, total[c], ~came'[c]
               PROVE  /\ at[c] \notin {"idle", "done"} =>
                           \A j \in listed[c] : j \in ListOf(ask[c])' => Rank(j, c)' < Offset(c)
                      /\ at[c] = "reading" =>
                           /\ result[c] \cap listed[c] = {}
                           /\ \A j \in result[c] : j \in ListOf(ask[c])' =>
                                Rank(j, c)' < Offset(c) + ask[c].size
    BY <1>1, <1>6 DEF AlreadyHad
  <2>1. ~came[c] /\ ListOf(ask[c])' \subseteq ListOf(ask[c])
    BY WriteKeepsNames
  <2>2. CASE ask[c].sortBy = "name"
    <3>1. \A j \in ListOf(ask[c])' : j \in ListOf(ask[c]) /\ Rank(j, c)' <= Rank(j, c)
      BY <2>1, <2>2, WriteMovesRanks
    <3> QED BY <1>6, <2>1, <3>1 DEF IInv, AlreadyHad
  <2>3. CASE ask[c].sortBy # "name"
    <3>1. at[c] \notin {"idle", "done"} => at[c] # "reading" /\ listed[c] = {}
      BY <1>6, <2>3 DEF IInv, Sorted
    <3> QED BY <3>1
  <2> QED BY <2>2, <2>3
<1> QED BY <1>2, <1>3, <1>4, <1>5, <1>7, <1>8 DEF IInv

\* What no step of a client or of another writer changes.
LEMMA Stays ==
  ASSUME IInv, UNCHANGED <<table, askVars, pageVars, loopVars, since, at, result, total>>,
         unique' \in BOOLEAN
  PROVE  IInv'
<1>1. TypeOK' /\ Sorted' /\ PageSize' /\ NoMiss' /\ NoRepeat'
  BY DEF IInv, TypeOK, Sorted, PageSize, NoMiss, NoRepeat
<1>2. \A d : Filter(ask[d])' = Filter(ask[d])
  BY DEF Filter
<1>3. Loop' /\ TagsCleaned'
  BY <1>2 DEF IInv, Loop, TagsCleaned
<1>4. \A d, i : Rank(i, d)' = Rank(i, d) /\ ListOf(ask[d])' = ListOf(ask[d]) /\ Offset(d)' = Offset(d)
  BY RankStays DEF Offset
<1>5. StillToCome' /\ AlreadyHad'
  BY <1>4 DEF IInv, StillToCome, AlreadyHad
<1> QED BY <1>1, <1>3, <1>5 DEF IInv

------------------------------------------------------------------------------
(* The theorems.                                                           *)

LEMMA Initially == Init => IInv
<1> SUFFICES ASSUME Init PROVE IInv
  OBVIOUS
<1>1. TypeOK
  BY DEF Init, TypeOK
<1>2. Loop /\ TagsCleaned /\ Sorted /\ StillToCome /\ AlreadyHad /\ PageSize /\ NoMiss /\ NoRepeat
  BY DEF Init, Loop, TagsCleaned, Sorted, StillToCome, AlreadyHad, PageSize, NoMiss, NoRepeat
<1> QED BY <1>1, <1>2 DEF IInv

\* The inductive invariant holds in every reachable state.
THEOREM Invariance == Spec => []IInv
<1>1. IInv /\ [Next]_vars => IInv'
  <2> SUFFICES ASSUME IInv, [Next]_vars PROVE IInv'
    OBVIOUS
  <2>1. ASSUME NEW c \in Clients,
               \/ ListPrompts(c) \/ Bind(c) \/ Refuse(c) \/ KeepTag(c) \/ RemoveEmpty(c)
               \/ TagsDone(c) \/ Query(c) \/ ListFails(c) \/ Reply(c) \/ Retry(c)
        PROVE  IInv'
    BY <2>1, Lists, Binds, RefuseOrRetry, Keeps, Removes, LoopEnds, Queries, Fails, Replies
  <2>2. ASSUME NEW i \in Ids, \/ \E row \in Rows : AddPrompt(i, row) \/ UpdatePrompt(i, row)
                              \/ DeletePrompt(i)
        PROVE  IInv'
    BY <2>2, Writes DEF AddPrompt, UpdatePrompt, DeletePrompt
  <2>3. CASE DropUnique \/ UNCHANGED vars
    BY <2>3, Stays DEF DropUnique, vars, IInv, TypeOK
  <2> QED BY <2>1, <2>2, <2>3 DEF Next
<1> QED BY <1>1, Initially, PTL DEF Spec

\* The loop over the tags leaves no empty tag and loses no other.
THEOREM TagsAreCleaned == Spec => []TagsCleaned
<1>1. IInv => TagsCleaned
  BY DEF IInv
<1> QED BY <1>1, Invariance, PTL

\* A list read to its end by name misses nothing that stayed on it.
THEOREM NothingMissed == Spec => []NoMiss
<1>1. IInv => NoMiss
  BY DEF IInv
<1> QED BY <1>1, Invariance, PTL

\* A list read by name gives nothing twice while nothing comes.
THEOREM NothingRepeated == Spec => []NoRepeat
<1>1. IInv => NoRepeat
  BY DEF IInv
<1> QED BY <1>1, Invariance, PTL

------------------------------------------------------------------------------
(* Nothing foreign.                                                        *)

\* What a request step does to the sets OnList speaks of: it may take the
\* client out of its reading, or let it read a part of its list.
LEMMA OnListKept ==
  ASSUME OnList, NEW c \in Clients,
         UNCHANGED <<table, ask, known, came, listed>>, at[c] # "idle",
         \A d \in Clients \ {c} : at'[d] = at[d] /\ result'[d] = result[d],
         at'[c] = "reading" => result'[c] \subseteq ListOf(ask[c]) \/ result'[c] \subseteq known[c]
  PROVE  OnList'
<1> SUFFICES ASSUME NEW d \in Clients, ~came[d]
             PROVE  /\ at'[d] # "idle" => ListOf(ask[d]) \subseteq known[d]
                    /\ at'[d] = "reading" => result'[d] \subseteq known[d]
                    /\ listed[d] \subseteq known[d]
  <2>1. \A d \in Clients : ListOf(ask[d])' = ListOf(ask[d])
    BY RankStays
  <2> QED BY <2>1 DEF OnList
<1>1. CASE d = c
  BY <1>1 DEF OnList
<1>2. CASE d # c
  BY <1>2 DEF OnList
<1> QED BY <1>1, <1>2

\* A page that is selected is a part of the list.
LEMMA SelectsPart ==
  ASSUME IInv, NEW c \in Clients, Query(c)
  PROVE  result'[c] \subseteq ListOf(ask[c])
<1> DEFINE S == Matching(ask[c], tags[c])
           n == Cardinality(S)
<1>1. S = ListOf(ask[c]) /\ result \in [Clients -> SUBSET Ids]
  BY SelectsList DEF Query, IInv, TypeOK
<1>2. PICK f \in Orders(S, n, ask[c]) : result' = [result EXCEPT ![c] = Segment(f, n, c)]
  BY DEF Query
<1>3. f \in [1 .. n -> S]
  BY <1>2 DEF Orders, Bijection, Injection
<1> HIDE DEF S, n
<1>4. Segment(f, n, c) \subseteq S
  BY <1>3 DEF Segment
<1> QED BY <1>1, <1>2, <1>4

\* Every step keeps what is given on what the list was.
LEMMA OnListStays ==
  ASSUME IInv, OnList, [Next]_vars
  PROVE  OnList'
<1>1. CASE UNCHANGED vars \/ DropUnique
  <2>1. UNCHANGED <<table, ask, known, came, listed, at, result>>
    BY <1>1 DEF DropUnique, vars
  <2>2. \A d \in Clients : ListOf(ask[d])' = ListOf(ask[d])
    BY <2>1, RankStays
  <2> QED BY <2>1, <2>2 DEF OnList
<1>2. ASSUME NEW c \in Clients, ListPrompts(c) PROVE OnList'
  <2>1. /\ table' = table /\ at'[c] = "binding" /\ listed'[c] = {}
        /\ known'[c] = ListOf(ask'[c])
        /\ \A d \in Clients \ {c} :
             /\ at'[d] = at[d] /\ ask'[d] = ask[d] /\ known'[d] = known[d]
             /\ listed'[d] = listed[d] /\ came'[d] = came[d] /\ result'[d] = result[d]
    BY <1>2 DEF ListPrompts, IInv, TypeOK
  <2>2. \A d \in Clients : ListOf(ask[d])' = ListOf(ask'[d])
    BY <2>1 DEF ListOf, Meets, Filter
  <2>3. ASSUME NEW d \in Clients, ~came'[d]
        PROVE  /\ at'[d] # "idle" => ListOf(ask[d])' \subseteq known'[d]
               /\ at'[d] = "reading" => result'[d] \subseteq known'[d]
               /\ listed'[d] \subseteq known'[d]
    <3>1. CASE d = c
      BY <2>1, <2>2, <3>1
    <3>2. CASE d # c
      BY <2>1, <2>2, <2>3, <3>2 DEF OnList
    <3> QED BY <3>1, <3>2
  <2> QED BY <2>3 DEF OnList
<1>3. ASSUME NEW c \in Clients,
             Bind(c) \/ Refuse(c) \/ KeepTag(c) \/ RemoveEmpty(c) \/ TagsDone(c)
               \/ ListFails(c) \/ Retry(c)
      PROVE  OnList'
  <2>1. /\ UNCHANGED <<table, ask, known, came, listed>>
        /\ at[c] # "idle" /\ at'[c] # "reading"
        /\ \A d \in Clients \ {c} : at'[d] = at[d] /\ result'[d] = result[d]
    BY <1>3 DEF Bind, Refuse, KeepTag, RemoveEmpty, TagsDone, ListFails, Retry, EndRequest,
                Looking, IInv, TypeOK
  <2> QED BY <2>1, OnListKept
<1>4. ASSUME NEW c \in Clients, Query(c) PROVE OnList'
  <2>1. /\ UNCHANGED <<table, ask, known, came, listed>> /\ at[c] # "idle"
        /\ \A d \in Clients \ {c} : at'[d] = at[d] /\ result'[d] = result[d]
    BY <1>4 DEF Query, IInv, TypeOK
  <2> QED BY <1>4, <2>1, SelectsPart, OnListKept
<1>5. ASSUME NEW c \in Clients, Reply(c) PROVE OnList'
  <2>1. /\ UNCHANGED <<table, ask, known, came>> /\ at[c] = "reading" /\ at'[c] # "reading"
        /\ listed'[c] = listed[c] \cup result[c]
        /\ \A d \in Clients \ {c} :
             at'[d] = at[d] /\ result'[d] = result[d] /\ listed'[d] = listed[d]
    BY <1>5 DEF Reply, Turn, EndRequest, IInv, TypeOK
  <2>2. \A d \in Clients : ListOf(ask[d])' = ListOf(ask[d])
    BY <2>1, RankStays
  <2>3. ASSUME NEW d \in Clients, ~came[d]
        PROVE  /\ at'[d] # "idle" => ListOf(ask[d]) \subseteq known[d]
               /\ at'[d] = "reading" => result'[d] \subseteq known[d]
               /\ listed'[d] \subseteq known[d]
    <3>1. CASE d = c
      BY <2>1, <2>3, <3>1 DEF OnList
    <3>2. CASE d # c
      BY <2>1, <2>3, <3>2 DEF OnList
    <3> QED BY <3>1, <3>2
  <2> QED BY <2>1, <2>2, <2>3 DEF OnList
<1>6. ASSUME NEW i \in Ids, NEW new \in Rows \cup {Nil}, Write(i, new) PROVE OnList'
  <2>1. UNCHANGED <<at, known, listed, result>>
    BY <1>6 DEF Write
  <2>2. \A d \in Clients : ~came'[d] => ~came[d] /\ ListOf(ask[d])' \subseteq ListOf(ask[d])
    BY <1>6, WriteKeepsNames
  <2> QED BY <2>1, <2>2 DEF OnList
<1> QED
  BY <1>1, <1>2, <1>3, <1>4, <1>5, <1>6 DEF Next, AddPrompt, UpdatePrompt, DeletePrompt

\* A list gives nothing that was not on it, unless something came on it since
\* it was asked for: in whatever order it is read, and with tags as without.
THEOREM NothingForeignListed == Spec => []NothingForeign
<1>1. Init => OnList
  BY DEF Init, OnList
<1>2. IInv /\ OnList /\ [Next]_vars => OnList'
  BY OnListStays
<1>3. OnList => NothingForeign
  BY DEF OnList, NothingForeign
<1> QED BY <1>1, <1>2, <1>3, Invariance, PTL DEF Spec
==============================================================================
