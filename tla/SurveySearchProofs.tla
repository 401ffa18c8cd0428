--------------------------- MODULE SurveySearchProofs ---------------------------
(***************************************************************************)
(* What the two loops of SurveySearch compute, for every survey: a run of  *)
(* a loop is a function of the number of its turns, an invariant holds     *)
(* after each of them, and a measure of what is left goes down.            *)
(***************************************************************************)
EXTENDS SurveySearch, FiniteSetTheorems, SequenceTheorems, TLAPS

-----------------------------------------------------------------------------
(* Numbers: induction and definition by iteration, with sets and functions    *)
(* in the place of predicates and operators.                                  *)

\* A set of numbers that is not empty has a least element: sets 0..n that grow
\* smaller and smaller end.
LEMMA Smallest ==
    ASSUME NEW S \in SUBSET Nat, S # {}
    PROVE  \E n \in S : \A m \in S : n <= m
<1> DEFINE R == StrictSubsetOrdering(Nat)
           T == {0..n : n \in S}
<1>1. IsWellFoundedOn(R, FiniteSubsetsOf(Nat)) BY FS_StrictSubsetOrderingWellFounded
<1>2. T \subseteq FiniteSubsetsOf(Nat)
  <2>1. \A n \in S : n \in Nat /\ IsFiniteSet(0..n) /\ 0..n \in SUBSET Nat
    BY FS_Interval
  <2> QED BY <2>1, Zenon DEF FiniteSubsetsOf
<1>3. T # {} OBVIOUS
<1> HIDE DEF R, T
<1>4. \E x \in T : \A y \in T : ~(<<y, x>> \in R) BY <1>1, <1>2, <1>3, WFMin
<1>5. PICK n \in S : \A m \in S : <<0..m, 0..n>> \notin R BY <1>4 DEF T
<1>6. \A m \in S : m < n => <<0..m, 0..n>> \in R
  BY DEF R, StrictSubsetOrdering
<1>7. \A m \in S : n <= m
  <2> TAKE m \in S
  <2>1. m \in Nat /\ n \in Nat /\ ~(m < n) BY <1>5, <1>6
  <2> QED BY <2>1
<1> QED BY <1>7

\* Induction, for a property given as the set of numbers that have it.
LEMMA InductionOnSets ==
    ASSUME NEW S \in SUBSET Nat, 0 \in S, \A n \in S : n + 1 \in S
    PROVE  S = Nat
<1> SUFFICES ASSUME Nat \ S # {} PROVE FALSE OBVIOUS
<1>1. PICK n \in Nat \ S : \A m \in Nat \ S : n <= m
  <2>1. Nat \ S \in SUBSET Nat OBVIOUS
  <2> QED BY <2>1, Smallest, Zenon
<1>2. n # 0 OBVIOUS
<1>3. n - 1 \in Nat BY <1>2
<1>4. n - 1 \in S BY <1>1, <1>3
<1> QED BY <1>4

\* A step on V can be iterated: the runs up to each number exist and agree.
LEMMA Iteration ==
    ASSUME NEW V, NEW a \in V, NEW step \in [V -> V]
    PROVE  \E f \in [Nat -> V] : f[0] = a /\ \A n \in Nat : f[n + 1] = step[f[n]]
<1> DEFINE Upto(n, f) == f \in [0..n -> V] /\ f[0] = a /\ \A i \in 0..n : i # 0 => f[i] = step[f[i - 1]]
           Some == {n \in Nat : \E f : Upto(n, f)}
<1>1. Some = Nat
  <2>1. 0 \in Some
    <3>1. Upto(0, [i \in 0..0 |-> a]) OBVIOUS
    <3> QED BY <3>1
  <2>2. ASSUME NEW n \in Some PROVE n + 1 \in Some
    <3>0. n \in Nat OBVIOUS
    <3>1. PICK f : Upto(n, f) OBVIOUS
    <3> DEFINE h == [i \in 0..(n + 1) |-> IF i = n + 1 THEN step[f[n]] ELSE f[i]]
    <3>2. Upto(n + 1, h)
      <4>1. h \in [0..(n + 1) -> V] BY <3>0, <3>1
      <4>2. h[0] = a BY <3>0, <3>1
      <4>3. ASSUME NEW i \in 0..(n + 1), i # 0 PROVE h[i] = step[h[i - 1]] 
         BY <3>0, <3>1, <4>3
      <4> QED BY <4>1, <4>2, <4>3
    <3> HIDE DEF h
    <3> QED BY <3>0, <3>2
  <2>3. Some \in SUBSET Nat OBVIOUS
  <2> HIDE DEF Some
  <2> QED BY <2>1, <2>2, <2>3, InductionOnSets
<1>2. ASSUME NEW n \in Nat, NEW m \in Nat, n <= m, NEW f, NEW g, Upto(n, f), Upto(m, g)
      PROVE  \A i \in 0..n : f[i] = g[i]
  <2> DEFINE Same == {i \in Nat : i <= n => f[i] = g[i]}
  <2>1. 0 \in Same BY <1>2
  <2>2. ASSUME NEW i \in Same PROVE i + 1 \in Same 
    <3>1. CASE i + 1 <= n
      <4>1. i \in Nat /\ i <= n /\ f[i] = g[i] BY <3>1
      <4>2. i + 1 \in 0..n /\ i + 1 \in 0..m /\ i + 1 # 0 /\ (i + 1) - 1 = i BY <4>1, <3>1, <1>2
      <4>3. f[i + 1] = step[f[i]] /\ g[i + 1] = step[g[i]] BY <4>2, <1>2
      <4> QED BY <4>1, <4>3
    <3> QED BY <3>1
  <2>3. Same \in SUBSET Nat OBVIOUS
  <2>4. Same = Nat
    <3> HIDE DEF Same
    <3> QED BY <2>1, <2>2, <2>3, InductionOnSets
  <2> QED BY <2>4
<1> DEFINE at == [n \in Nat |-> CHOOSE f : Upto(n, f)]
           f == [n \in Nat |-> at[n][n]]
<1>3. \A n \in Nat : Upto(n, at[n]) 
  <2> TAKE n \in Nat
  <2>1. \E g : Upto(n, g) BY <1>1
  <2> HIDE DEF Upto
  <2> QED BY <2>1
<1> HIDE DEF at
<1>4. f \in [Nat -> V] BY <1>3
<1>5. f[0] = a BY <1>3
<1>6. ASSUME NEW n \in Nat PROVE f[n + 1] = step[f[n]]
  <2>1. Upto(n, at[n]) /\ Upto(n + 1, at[n + 1]) BY <1>3
  <2>2. at[n][n] = at[n + 1][n]
    <3>1. \A i \in 0..n : at[n][i] = at[n + 1][i] 
      <4> HIDE DEF Upto
      <4> QED BY <1>2, <2>1
    <3> QED BY <3>1
  <2>3. at[n + 1][n + 1] = step[at[n + 1][n]]
    BY <2>1
  <2> QED BY <2>2, <2>3
<1> QED BY <1>4, <1>5, <1>6


\* The run that starts at a and takes step in each turn.
RunFrom(a, step) == CHOOSE f : f = [k \in Nat |-> IF k = 0 THEN a ELSE step[f[k - 1]]]

LEMMA RunFromFacts ==
    ASSUME NEW V, NEW a \in V, NEW step \in [V -> V]
    PROVE  /\ RunFrom(a, step) \in [Nat -> V]
           /\ RunFrom(a, step) = [k \in Nat |-> IF k = 0 THEN a ELSE step[RunFrom(a, step)[k - 1]]]
<1>1. PICK f \in [Nat -> V] : f[0] = a /\ \A n \in Nat : f[n + 1] = step[f[n]]
  BY Iteration
<1>2. f = [k \in Nat |-> IF k = 0 THEN a ELSE step[f[k - 1]]]
  <2>1. ASSUME NEW k \in Nat PROVE f[k] = IF k = 0 THEN a ELSE step[f[k - 1]]
    <3>1. CASE k = 0
      BY <3>1, <1>1
    <3>2. CASE k # 0
      <4>1. k - 1 \in Nat /\ (k - 1) + 1 = k
        BY <3>2
      <4> QED BY <4>1, <1>1, <3>2
    <3> QED BY <3>1, <3>2
  <2> QED BY <2>1
<1> DEFINE r == RunFrom(a, step)
<1>3. r = [k \in Nat |-> IF k = 0 THEN a ELSE step[r[k - 1]]]
  BY <1>2 DEF RunFrom
<1> HIDE DEF r
<1>4. r[0] = a /\ \A n \in Nat : r[n + 1] = step[r[n]]
  <2>1. \A n \in Nat : n + 1 \in Nat /\ n + 1 # 0 /\ (n + 1) - 1 = n
    OBVIOUS
  <2> QED BY <1>3, <2>1
<1>5. \A n \in Nat : r[n] \in V
  <2> DEFINE In == {n \in Nat : r[n] \in V}
  <2>1. 0 \in In /\ \A n \in In : n + 1 \in In
    BY <1>4
  <2>2. In = Nat
    <3>1. In \in SUBSET Nat
      OBVIOUS
    <3> HIDE DEF In
    <3> QED BY <2>1, <3>1, InductionOnSets
  <2> QED BY <2>2
<1>6. r \in [Nat -> V]
  <2>1. DOMAIN r = Nat /\ r = [k \in Nat |-> r[k]]
    BY <1>3
  <2> QED BY <1>5, <2>1
<1> QED BY <1>3, <1>6 DEF r

-----------------------------------------------------------------------------
(* Lists. *)

\* A function on 1..n is a list of length n.
LEMMA FunctionIsSeq ==
    ASSUME NEW T, NEW n \in Nat, NEW f \in [1..n -> T]
    PROVE  f \in Seq(T) /\ Len(f) = n /\ DOMAIN f = 1..n
  OBVIOUS

\* A list has finitely many positions and elements, all of its type.
LEMMA ListFinite ==
    ASSUME NEW T, NEW s \in Seq(T)
    PROVE  /\ IsFiniteSet(DOMAIN s) /\ IsFiniteSet(ToSet(s)) /\ ToSet(s) \subseteq T
           /\ Cardinality(ToSet(s)) <= Len(s)
<1>1. Len(s) \in Nat /\ DOMAIN s = 1..Len(s) /\ s \in [1..Len(s) -> T]
  BY LenProperties
<1>2. IsFiniteSet(DOMAIN s) /\ Cardinality(DOMAIN s) = Len(s)
  BY <1>1, FS_Interval
<1>3. s \in Surjection(DOMAIN s, ToSet(s))
  BY <1>1 DEF Surjection, ToSet
<1>4. IsFiniteSet(ToSet(s)) /\ Cardinality(ToSet(s)) <= Len(s)
  BY <1>2, <1>3, FS_Surjection
<1> QED BY <1>1, <1>2, <1>4 DEF ToSet

\* SetToSeq lists every element once.
LEMMA ListOfSet ==
    ASSUME NEW T, IsFiniteSet(T)
    PROVE  /\ SetToSeq(T) \in Seq(T)
           /\ Len(SetToSeq(T)) = Cardinality(T)
           /\ ToSet(SetToSeq(T)) = T
<1> DEFINE n == Cardinality(T)
<1>1. n \in Nat /\ IsFiniteSet(1..n) /\ Cardinality(1..n) = n
  BY FS_CardinalityType, FS_Interval
<1>2. PICK f : f \in Bijection(1..n, T)
  BY FS_CardinalityType DEF ExistsBijection
<1>3. f \in [1..n -> T] /\ IsInjective(f)
  BY <1>2 DEF Bijection, Injection, IsInjective
<1> DEFINE h == SetToSeq(T)
<1>4. h \in [1..n -> T] /\ IsInjective(h)
  BY <1>3 DEF SetToSeq
<1> HIDE DEF h
<1>5. h \in Injection(1..n, T)
  BY <1>4 DEF Injection, IsInjective
<1>6. h \in Surjection(1..n, T)
  BY <1>1, <1>5, FS_Injection
<1>7. h \in Seq(T) /\ Len(h) = n /\ DOMAIN h = 1..n
  BY <1>1, <1>4, FunctionIsSeq
<1>8. ToSet(h) = T
  BY <1>4, <1>6, <1>7 DEF ToSet, Surjection
<1> QED BY <1>7, <1>8 DEF h

\* The queue loses its head and is continued by a list.
LEMMA QueueTurn ==
    ASSUME NEW T, NEW q \in Seq(T), q # <<>>, NEW r \in Seq(T)
    PROVE  /\ Head(q) \in T /\ Head(q) \in ToSet(q)
           /\ Tail(q) \o r \in Seq(T) /\ Tail(q) \in Seq(T)
           /\ Len(Tail(q)) = Len(q) - 1
           /\ Len(Tail(q) \o r) = Len(q) - 1 + Len(r)
           /\ ToSet(q) = {Head(q)} \cup ToSet(Tail(q))
           /\ ToSet(Tail(q) \o r) = ToSet(Tail(q)) \cup ToSet(r)
<1>1. /\ Len(q) \in Nat \ {0} /\ DOMAIN q = 1..Len(q) /\ Head(q) = q[1]
      /\ Tail(q) \in Seq(T) /\ Len(Tail(q)) = Len(q) - 1
      /\ \A i \in 1..(Len(q) - 1) : Tail(q)[i] = q[i + 1]
  OBVIOUS
<1> DEFINE t == Tail(q)
<1>2. ToSet(q) = {Head(q)} \cup ToSet(t)
  <2>1. ASSUME NEW i \in 1..Len(q), i # 1 PROVE i - 1 \in DOMAIN t /\ t[i - 1] = q[i]
    BY <1>1, <2>1
  <2>2. ASSUME NEW i \in DOMAIN t PROVE i + 1 \in 1..Len(q) /\ t[i] = q[i + 1]
    BY <1>1
  <2>3. 1 \in DOMAIN q /\ q[1] = Head(q)
    BY <1>1
  <2> HIDE DEF t
  <2>4. \A x : x \in ToSet(q) <=> \E i \in DOMAIN q : x = q[i]
    BY DEF ToSet
  <2>5. \A x : x \in ToSet(t) <=> \E i \in DOMAIN t : x = t[i]
    BY DEF ToSet
  <2>6. DOMAIN q = 1..Len(q)
    BY <1>1
  <2>7. ASSUME NEW x \in ToSet(q), x # Head(q) PROVE x \in ToSet(t)
    <3>1. PICK i \in 1..Len(q) : x = q[i]
      BY <2>4, <2>6
    <3>2. i # 1
      BY <3>1, <2>3, <2>7
    <3> QED BY <3>1, <3>2, <2>1, <2>5
  <2>8. ToSet(t) \subseteq ToSet(q)
    BY <2>2, <2>4, <2>5, <2>6, Zenon
  <2>9. Head(q) \in ToSet(q)
    BY <2>3, <2>4
  <2> QED BY <2>7, <2>8, <2>9
<1> HIDE DEF t
<1>3. t \in Seq(T) /\ Len(t) \in Nat /\ DOMAIN t = 1..Len(t)
  BY <1>1 DEF t
<1>4. Len(r) \in Nat /\ DOMAIN r = 1..Len(r)
  OBVIOUS
<1>5. /\ t \o r \in Seq(T) /\ Len(t \o r) = Len(t) + Len(r)
      /\ DOMAIN (t \o r) = 1..(Len(t) + Len(r))
      /\ \A i \in 1..(Len(t) + Len(r)) :
            (t \o r)[i] = IF i <= Len(t) THEN t[i] ELSE r[i - Len(t)]
  BY <1>3, <1>4
<1>6. ToSet(t \o r) = ToSet(t) \cup ToSet(r)
  <2>1. ASSUME NEW i \in DOMAIN r PROVE i + Len(t) \in DOMAIN (t \o r) /\ (t \o r)[i + Len(t)] = r[i]
    BY <1>3, <1>4, <1>5
  <2>2. ASSUME NEW i \in DOMAIN t PROVE i \in DOMAIN (t \o r) /\ (t \o r)[i] = t[i]
    BY <1>3, <1>4, <1>5
  <2>3. ASSUME NEW i \in DOMAIN (t \o r)
        PROVE  (i \in DOMAIN t /\ (t \o r)[i] = t[i])
                \/ (i - Len(t) \in DOMAIN r /\ (t \o r)[i] = r[i - Len(t)])
    BY <1>3, <1>4, <1>5
  <2> DEFINE u == t \o r
  <2> HIDE DEF u
  <2>4. ToSet(t) \subseteq ToSet(u)
    BY <2>2, Zenon DEF ToSet, u
  <2>5. ToSet(r) \subseteq ToSet(u)
    BY <2>1, Zenon DEF ToSet, u
  <2>6. ToSet(u) \subseteq ToSet(t) \cup ToSet(r)
    BY <2>3, Zenon DEF ToSet, u
  <2> QED BY <2>4, <2>5, <2>6 DEF u
<1>7. Head(q) \in T /\ Head(q) \in ToSet(q)
  <2>1. 1 \in DOMAIN q /\ q[1] \in T
    BY <1>1
  <2> QED BY <2>1, <1>1 DEF ToSet
<1> QED BY <1>1, <1>2, <1>5, <1>6, <1>7 DEF t
-----------------------------------------------------------------------------
(* Reached. *)

\* Reached is the least closed set around its start.
LEMMA ReachedFacts ==
    ASSUME NEW g \in SurveyGraph, NEW S \in SUBSET AnyID
    PROVE  /\ Reached(g, S) \subseteq AnyID /\ S \subseteq Reached(g, S)
           /\ Closed(g, Reached(g, S))
           /\ \A C \in SUBSET AnyID : S \subseteq C /\ Closed(g, C) => Reached(g, S) \subseteq C
<1>1. \A e \in EdgesOf(g) : e.from \in AnyID /\ e.to \in AnyID
  <2>1. g.edges \in Seq(Edge)
    BY DEF SurveyGraph
  <2>2. EdgesOf(g) \subseteq Edge
    BY <2>1, ListFinite DEF EdgesOf
  <2> QED BY <2>2 DEF Edge
<1> QED BY <1>1 DEF Reached, Closed

\* A place is reached from a set when it is reached from a member of it.
LEMMA ReachedFromOne ==
    ASSUME NEW g \in SurveyGraph, NEW S \in SUBSET AnyID, NEW n
    PROVE  n \in Reached(g, S) <=> \E m \in S : n \in Reached(g, {m})
<1>1. \A m \in S : Reached(g, {m}) \subseteq Reached(g, S)
  <2> TAKE m \in S
  <2>1. {m} \subseteq Reached(g, S) /\ Closed(g, Reached(g, S)) /\ Reached(g, S) \in SUBSET AnyID
    BY ReachedFacts
  <2>2. {m} \in SUBSET AnyID
    OBVIOUS
  <2> QED BY <2>1, <2>2, ReachedFacts
<1> DEFINE C == UNION {Reached(g, {m}) : m \in S}
<1>2. \A m \in S : /\ Reached(g, {m}) \subseteq AnyID /\ m \in Reached(g, {m})
                   /\ Closed(g, Reached(g, {m}))
  <2> TAKE m \in S
  <2>1. {m} \in SUBSET AnyID
    OBVIOUS
  <2> QED BY <2>1, ReachedFacts
<1>3. C \in SUBSET AnyID /\ S \subseteq C /\ Closed(g, C)
  BY <1>2 DEF Closed
<1>4. Reached(g, S) \subseteq C
  BY <1>3, ReachedFacts
<1> QED BY <1>1, <1>4

\* Edges between nodes lead from nodes to nodes only.
LEMMA ReachedNodes ==
    ASSUME NEW g \in SurveyGraph, EdgeListOK(g), NEW S \in SUBSET NodesOf(g)
    PROVE  Reached(g, S) \subseteq NodesOf(g)
<1>1. NodesOf(g) \in SUBSET AnyID /\ S \in SUBSET AnyID
  <2>1. g.nodes \in Seq([id : AnyID, kind : Kinds])
    BY DEF SurveyGraph
  <2>2. ToSet(g.nodes) \subseteq [id : AnyID, kind : Kinds]
    BY <2>1, ListFinite
  <2> QED BY <2>2 DEF NodesOf
<1>2. Closed(g, NodesOf(g))
  BY DEF Closed, EdgeListOK
<1> QED BY <1>1, <1>2, ReachedFacts

-----------------------------------------------------------------------------
(* Reachable. *)

ReachState == [queue : Seq(AnyID), seen : SUBSET AnyID]

\* What was seen or is queued is reachable, and what an entrance or a node seen
\* leads to is one of the two.
ReachInv(g, s) ==
    /\ s \in ReachState
    /\ s.seen \cup ToSet(s.queue) \subseteq Reachable(g)
    /\ ToSet(g.entranceIDs) \subseteq s.seen \cup ToSet(s.queue)
    /\ \A e \in EdgesOf(g) : e.from \in s.seen => e.to \in s.seen \cup ToSet(s.queue)

\* The turns left: the queue, and an entry of it for each edge still to follow.
ReachLeft(g, s) == Len(s.queue) + Cardinality({e \in EdgesOf(g) : e.from \notin s.seen})

LEMMA EdgeFacts ==
    ASSUME NEW g \in SurveyGraph
    PROVE  /\ IsFiniteSet(EdgesOf(g)) /\ Cardinality(EdgesOf(g)) <= Len(g.edges)
           /\ \A e \in EdgesOf(g) : e.from \in AnyID /\ e.to \in AnyID
           /\ Len(g.entranceIDs) \in Nat /\ Len(g.edges) \in Nat /\ Len(g.nodes) \in Nat
           /\ g.entranceIDs \in Seq(AnyID) /\ ToSet(g.entranceIDs) \subseteq AnyID
           /\ \A n : /\ IsFiniteSet(Targets(g, n)) /\ Targets(g, n) \subseteq AnyID
                    /\ Cardinality(Targets(g, n)) <= Cardinality({e \in EdgesOf(g) : e.from = n})
<1>1. g.edges \in Seq(Edge) /\ g.entranceIDs \in Seq(AnyID) /\ g.nodes \in Seq([id : AnyID, kind : Kinds])
  BY DEF SurveyGraph
<1>2. /\ IsFiniteSet(EdgesOf(g)) /\ Cardinality(EdgesOf(g)) <= Len(g.edges)
      /\ EdgesOf(g) \subseteq Edge
  BY <1>1, ListFinite DEF EdgesOf
<1>3. ToSet(g.entranceIDs) \subseteq AnyID
  BY <1>1, ListFinite
<1>4. \A e \in EdgesOf(g) : e.from \in AnyID /\ e.to \in AnyID
  BY <1>2 DEF Edge
<1>5. ASSUME NEW n
      PROVE  /\ IsFiniteSet(Targets(g, n)) /\ Targets(g, n) \subseteq AnyID
             /\ Cardinality(Targets(g, n)) <= Cardinality({e \in EdgesOf(g) : e.from = n})
  <2> DEFINE D == {e \in EdgesOf(g) : e.from = n}
             f == [e \in D |-> e.to]
  <2>1. IsFiniteSet(D)
    BY <1>2, FS_Subset
  <2>2. f \in Surjection(D, Targets(g, n))
    BY DEF Surjection, Targets
  <2>3. Targets(g, n) \subseteq AnyID
    BY <1>4 DEF Targets
  <2> HIDE DEF D, f
  <2>4. IsFiniteSet(Targets(g, n)) /\ Cardinality(Targets(g, n)) <= Cardinality(D)
    BY <2>1, <2>2, FS_Surjection
  <2> QED BY <2>3, <2>4 DEF D
<1>6. Len(g.entranceIDs) \in Nat /\ Len(g.edges) \in Nat /\ Len(g.nodes) \in Nat
  BY <1>1
<1> QED BY <1>1, <1>2, <1>3, <1>4, <1>5, <1>6

LEMMA ReachStartInv ==
    ASSUME NEW g \in SurveyGraph
    PROVE  /\ ReachInv(g, ReachStart(g))
           /\ ReachLeft(g, ReachStart(g)) <= Len(g.entranceIDs) + Len(g.edges)
<1> DEFINE s == ReachStart(g)
<1>1. s.queue = g.entranceIDs /\ s.seen = {} /\ s \in ReachState
  BY EdgeFacts DEF ReachStart, ReachState
<1>2. ToSet(g.entranceIDs) \subseteq Reachable(g)
  BY EdgeFacts, ReachedFacts DEF Reachable
<1> HIDE DEF s
<1>3. ReachInv(g, s)
  BY <1>1, <1>2 DEF ReachInv
<1>4. {e \in EdgesOf(g) : e.from \notin s.seen} = EdgesOf(g)
  BY <1>1
<1>5. Cardinality(EdgesOf(g)) \in Nat
  BY EdgeFacts, FS_CardinalityType
<1>6. ReachLeft(g, s) <= Len(g.entranceIDs) + Len(g.edges)
  <2>1. ReachLeft(g, s) = Len(g.entranceIDs) + Cardinality(EdgesOf(g))
    BY <1>1, <1>4, Zenon DEF ReachLeft
  <2>2. /\ Cardinality(EdgesOf(g)) <= Len(g.edges)
        /\ Len(g.entranceIDs) \in Nat /\ Len(g.edges) \in Nat
    BY EdgeFacts
  <2> DEFINE a == Cardinality(EdgesOf(g))
             b == Len(g.entranceIDs)
             c == Len(g.edges)
  <2>3. a \in Nat /\ b \in Nat /\ c \in Nat /\ a <= c /\ ReachLeft(g, s) = b + a
    BY <1>5, <2>1, <2>2
  <2> HIDE DEF a, b, c
  <2>4. ReachLeft(g, s) <= b + c
    BY <2>3
  <2> QED BY <2>4 DEF b, c
<1> QED BY <1>3, <1>6 DEF s

\* A turn keeps the invariant, and takes one from what is left.
LEMMA ReachStepInv ==
    ASSUME NEW g \in SurveyGraph, NEW s, ReachInv(g, s)
    PROVE  /\ ReachInv(g, ReachStep(g, s))
           /\ ReachLeft(g, s) \in Nat
           /\ s.queue = <<>> => ReachStep(g, s) = s
           /\ s.queue # <<>> => ReachLeft(g, ReachStep(g, s)) <= ReachLeft(g, s) - 1
<1> DEFINE open(seen) == {e \in EdgesOf(g) : e.from \notin seen}
<1>0. \A seen : IsFiniteSet(open(seen)) /\ Cardinality(open(seen)) \in Nat
  BY EdgeFacts, FS_Subset, FS_CardinalityType
<1>1. s \in ReachState /\ s.queue \in Seq(AnyID) /\ s.seen \subseteq AnyID /\ Len(s.queue) \in Nat
  BY DEF ReachInv, ReachState
<1>2. ReachLeft(g, s) = Len(s.queue) + Cardinality(open(s.seen)) /\ ReachLeft(g, s) \in Nat
  <2>1. ReachLeft(g, s) = Len(s.queue) + Cardinality(open(s.seen))
    BY Zenon DEF ReachLeft
  <2>2. Cardinality(open(s.seen)) \in Nat
    BY <1>0
  <2> HIDE DEF open
  <2> QED BY <1>1, <2>1, <2>2
<1>3. CASE s.queue = <<>>
  BY <1>2, <1>3 DEF ReachStep
<1>4. CASE s.queue # <<>> /\ Head(s.queue) \in s.seen
  <2> DEFINE t == [s EXCEPT !.queue = Tail(@)]
  <2>1. ReachStep(g, s) = t
    BY <1>4 DEF ReachStep
  <2>2. t.queue = Tail(s.queue) /\ t.seen = s.seen /\ t \in ReachState
    BY <1>1, <1>4, QueueTurn DEF ReachState
  <2> HIDE DEF t
  <2>3. ToSet(s.queue) = {Head(s.queue)} \cup ToSet(t.queue) /\ Len(t.queue) = Len(s.queue) - 1
    BY <1>1, <1>4, <2>2, QueueTurn
  <2>4. ReachInv(g, t)
    BY <1>4, <2>2, <2>3 DEF ReachInv
  <2>5. ReachLeft(g, t) = Len(s.queue) - 1 + Cardinality(open(s.seen))
    BY <2>2, <2>3 DEF ReachLeft
  <2> HIDE DEF open
  <2> QED BY <1>0, <1>1, <1>2, <1>4, <2>1, <2>4, <2>5
<1>5. CASE s.queue # <<>> /\ Head(s.queue) \notin s.seen
  <2> DEFINE n == Head(s.queue)
             r == SetToSeq(Targets(g, n))
             t == [queue |-> Tail(s.queue) \o r, seen |-> s.seen \cup {n}]
  <2>1. ReachStep(g, s) = t
    BY <1>5, Zenon DEF ReachStep
  <2>2. /\ r \in Seq(AnyID) /\ ToSet(r) = Targets(g, n)
        /\ Len(r) = Cardinality(Targets(g, n)) /\ Len(r) \in Nat
    <3>1. IsFiniteSet(Targets(g, n)) /\ Targets(g, n) \subseteq AnyID
      BY EdgeFacts
    <3>2. r \in Seq(Targets(g, n)) /\ ToSet(r) = Targets(g, n) /\ Len(r) = Cardinality(Targets(g, n))
      BY <3>1, ListOfSet
    <3> HIDE DEF r
    <3> QED BY <3>1, <3>2
  <2> HIDE DEF n, r, t
  <2>3. /\ n \in AnyID /\ n \in ToSet(s.queue) /\ Tail(s.queue) \o r \in Seq(AnyID)
        /\ ToSet(s.queue) = {n} \cup ToSet(Tail(s.queue))
        /\ ToSet(Tail(s.queue) \o r) = ToSet(Tail(s.queue)) \cup Targets(g, n)
        /\ Len(Tail(s.queue) \o r) = Len(s.queue) - 1 + Len(r)
    <3> DEFINE q == s.queue
    <3>1. q \in Seq(AnyID) /\ q # <<>> /\ r \in Seq(AnyID)
      BY <1>1, <1>5, <2>2
    <3> HIDE DEF q
    <3>2. /\ Head(q) \in AnyID /\ Head(q) \in ToSet(q)
          /\ Tail(q) \o r \in Seq(AnyID)
          /\ Len(Tail(q) \o r) = Len(q) - 1 + Len(r)
          /\ ToSet(q) = {Head(q)} \cup ToSet(Tail(q))
          /\ ToSet(Tail(q) \o r) = ToSet(Tail(q)) \cup ToSet(r)
      BY <3>1, QueueTurn
    <3> QED BY <2>2, <3>2, Zenon DEF n, q
  <2>4. /\ t.queue = Tail(s.queue) \o r /\ t.seen = s.seen \cup {n} /\ t \in ReachState
    BY <1>1, <2>3 DEF ReachState, t
  <2>5. n \in Reachable(g) /\ Targets(g, n) \subseteq Reachable(g)
    <3>1. n \in Reachable(g)
      BY <2>3 DEF ReachInv
    <3>2. Closed(g, Reachable(g))
      BY EdgeFacts, ReachedFacts DEF Reachable
    <3> QED BY <3>1, <3>2 DEF Closed, Targets
  <2>6. ReachInv(g, t)
    <3>1. ASSUME NEW e \in EdgesOf(g), e.from = n PROVE e.to \in Targets(g, n)
      BY <3>1 DEF Targets
    <3> QED BY <2>3, <2>4, <2>5, <3>1 DEF ReachInv
  <2>7. Cardinality(open(t.seen)) = Cardinality(open(s.seen)) - Cardinality({e \in EdgesOf(g) : e.from = n})
    <3>1. open(t.seen) = open(s.seen) \ {e \in EdgesOf(g) : e.from = n}
      BY <2>4
    <3>2. open(s.seen) \cap {e \in EdgesOf(g) : e.from = n} = {e \in EdgesOf(g) : e.from = n}
      BY <1>5 DEF n
    <3> HIDE DEF open
    <3> QED BY <1>0, <3>1, <3>2, FS_Difference
  <2>8. ReachLeft(g, t) = Len(t.queue) + Cardinality(open(t.seen))
    BY DEF ReachLeft
  <2>9. /\ Len(r) <= Cardinality({e \in EdgesOf(g) : e.from = n})
        /\ Cardinality({e \in EdgesOf(g) : e.from = n}) \in Nat
    <3>1. IsFiniteSet({e \in EdgesOf(g) : e.from = n})
      BY EdgeFacts, FS_Subset
    <3> QED BY <2>2, <3>1, EdgeFacts, FS_CardinalityType
  <2> HIDE DEF open
  <2>10. ReachLeft(g, t) <= ReachLeft(g, s) - 1
    <3> DEFINE a == Cardinality(open(s.seen))
               b == Cardinality({e \in EdgesOf(g) : e.from = n})
    <3>1. a \in Nat /\ b \in Nat /\ Len(r) \in Nat /\ Len(r) <= b /\ Len(s.queue) \in Nat
      BY <1>0, <1>1, <2>2, <2>9
    <3>2. ReachLeft(g, s) = Len(s.queue) + a
      BY <1>2
    <3>3. ReachLeft(g, t) = (Len(s.queue) - 1 + Len(r)) + (a - b)
      BY <2>3, <2>4, <2>7, <2>8, Zenon
    <3> HIDE DEF a, b
    <3> QED BY <3>1, <3>2, <3>3
  <2> QED BY <1>2, <1>5, <2>1, <2>6, <2>10
<1> QED BY <1>3, <1>4, <1>5

\* The run exists, and the invariant holds after each of its turns.
LEMMA ReachRunFacts ==
    ASSUME NEW g \in SurveyGraph
    PROVE  /\ ReachRun(g)[0] = ReachStart(g)
           /\ \A n \in Nat : ReachRun(g)[n + 1] = ReachStep(g, ReachRun(g)[n])
           /\ \A n \in Nat : ReachInv(g, ReachRun(g)[n])
<1> DEFINE V == {s \in ReachState : ReachInv(g, s)}
           turn == [s \in V |-> ReachStep(g, s)]
           Goes(f) == f = [k \in Nat |-> IF k = 0 THEN ReachStart(g) ELSE ReachStep(g, f[k - 1])]
<1>1. ReachStart(g) \in V
  BY ReachStartInv DEF ReachInv
<1>2. turn \in [V -> V]
  BY ReachStepInv DEF ReachInv
<1> HIDE DEF turn
<1> DEFINE f == RunFrom(ReachStart(g), turn)
<1>3. f \in [Nat -> V] /\ f = [k \in Nat |-> IF k = 0 THEN ReachStart(g) ELSE turn[f[k - 1]]]
  BY <1>1, <1>2, RunFromFacts
<1> HIDE DEF f
<1>4. \A k \in Nat : k # 0 => k - 1 \in Nat /\ turn[f[k - 1]] = ReachStep(g, f[k - 1])
  BY <1>3 DEF turn
<1> HIDE DEF V
<1>5. Goes(f)
  BY <1>3, <1>4
<1> DEFINE r == ReachRun(g)
<1>6. Goes(r)
  BY <1>5 DEF ReachRun
<1> HIDE DEF r
<1>7. r[0] = ReachStart(g)
  BY <1>6
<1>8. \A n \in Nat : r[n + 1] = ReachStep(g, r[n])
  <2> TAKE n \in Nat
  <2>1. n + 1 \in Nat /\ n + 1 # 0 /\ (n + 1) - 1 = n
    OBVIOUS
  <2> QED BY <1>6, <2>1
<1> HIDE DEF Goes
<1>9. \A n \in Nat : ReachInv(g, r[n])
  <2> DEFINE Kept == {n \in Nat : ReachInv(g, r[n])}
  <2>1. 0 \in Kept
    BY <1>1, <1>7 DEF V
  <2>2. \A n \in Kept : n + 1 \in Kept
    BY <1>8, ReachStepInv
  <2>3. Kept \in SUBSET Nat
    OBVIOUS
  <2>4. Kept = Nat
    <3> HIDE DEF Kept
    <3> QED BY <2>1, <2>2, <2>3, InductionOnSets
  <2> QED BY <2>4
<1> QED BY <1>7, <1>8, <1>9 DEF r

\* The queue is empty in the end, and what was seen is what is reachable.
THEOREM ReachableLoop ==
    ASSUME NEW g \in SurveyGraph
    PROVE  ReachableIsReached(g)
<1> DEFINE r == ReachRun(g)
           m == Len(g.entranceIDs) + Len(g.edges)
           Down == {n \in Nat : r[n].queue = <<>> \/ ReachLeft(g, r[n]) + n <= m}
<1>1. m \in Nat
  <2>1. Len(g.entranceIDs) \in Nat /\ Len(g.edges) \in Nat
    BY EdgeFacts
  <2> DEFINE a == Len(g.entranceIDs)
             b == Len(g.edges)
  <2>2. a \in Nat /\ b \in Nat
    BY <2>1
  <2> HIDE DEF a, b
  <2>3. a + b \in Nat
    BY <2>2
  <2> QED BY <2>3 DEF a, b
<1>2. /\ r[0] = ReachStart(g)
      /\ \A n \in Nat : r[n + 1] = ReachStep(g, r[n]) /\ ReachInv(g, r[n])
  BY ReachRunFacts
<1>3. ReachLeft(g, r[0]) <= m /\ ReachLeft(g, r[0]) \in Nat
  <2>1. ReachInv(g, r[0])
    BY <1>2
  <2> HIDE DEF r
  <2>2. ReachLeft(g, r[0]) \in Nat
    BY <2>1, ReachStepInv
  <2> QED BY <1>2, <2>2, ReachStartInv
<1> HIDE DEF r, m
<1>4. Down = Nat
  <2>1. 0 \in Down
    BY <1>1, <1>3
  <2>2. ASSUME NEW n \in Down PROVE n + 1 \in Down
    <3>1. n \in Nat /\ ReachInv(g, r[n]) /\ ReachInv(g, r[n + 1]) /\ r[n + 1] = ReachStep(g, r[n])
      <4>1. n \in Nat
        OBVIOUS
      <4> HIDE DEF Down
      <4>2. n + 1 \in Nat
        BY <4>1
      <4> QED BY <1>2, <4>1, <4>2, Zenon
    <3>2. CASE r[n].queue = <<>>
      BY <3>1, <3>2, ReachStepInv
    <3>3. CASE r[n].queue # <<>>
      <4>1. /\ ReachLeft(g, r[n]) \in Nat /\ ReachLeft(g, r[n + 1]) \in Nat
            /\ ReachLeft(g, r[n + 1]) <= ReachLeft(g, r[n]) - 1
        BY <3>1, <3>3, ReachStepInv
      <4>2. ReachLeft(g, r[n]) + n <= m
        BY <3>3
      <4>3. ReachLeft(g, r[n + 1]) + (n + 1) <= m
        BY <1>1, <3>1, <4>1, <4>2
      <4> QED BY <3>1, <4>3
    <3> QED BY <3>2, <3>3
  <2>3. Down \in SUBSET Nat
    OBVIOUS
  <2> HIDE DEF Down
  <2> QED BY <2>1, <2>2, <2>3, InductionOnSets
<1> DEFINE s == r[m]
<1>5. ReachInv(g, s)
  BY <1>1, <1>2
<1>6. s.queue = <<>> \/ ReachLeft(g, s) + m <= m
  BY <1>1, <1>4
<1> HIDE DEF s
<1>7. s.queue = <<>>
  <2> SUFFICES ASSUME s.queue # <<>> PROVE FALSE
    OBVIOUS
  <2>1. ReachLeft(g, s) \in Nat /\ ReachLeft(g, ReachStep(g, s)) <= ReachLeft(g, s) - 1
    BY <1>5, ReachStepInv
  <2>2. ReachLeft(g, ReachStep(g, s)) \in Nat
    BY <1>5, ReachStepInv
  <2> QED BY <1>1, <1>6, <2>1, <2>2
<1>8. ToSet(s.queue) = {}
  BY <1>7 DEF ToSet
<1>9. /\ s.seen \in SUBSET AnyID /\ s.seen \subseteq Reachable(g)
      /\ ToSet(g.entranceIDs) \subseteq s.seen /\ Closed(g, s.seen)
  BY <1>5, <1>8 DEF ReachInv, ReachState, Closed
<1>10. Reachable(g) \subseteq s.seen
  BY <1>9, EdgeFacts, ReachedFacts DEF Reachable
<1>11. s = ReachEnd(g)
  BY DEF s, r, m, ReachEnd
<1> QED BY <1>7, <1>9, <1>10, <1>11 DEF ReachableIsReached

-----------------------------------------------------------------------------
(* deterministicPath. *)

\* The nodes of a survey.
LEMMA NodeFacts ==
    ASSUME NEW g \in SurveyGraph
    PROVE  /\ NodesOf(g) \in SUBSET AnyID /\ IsFiniteSet(NodesOf(g))
           /\ Cardinality(NodesOf(g)) \in Nat /\ Cardinality(NodesOf(g)) <= Len(g.nodes)
<1> DEFINE N == ToSet(g.nodes)
           ids == {n.id : n \in N}
           f == [n \in N |-> n.id]
<1>1. g.nodes \in Seq([id : AnyID, kind : Kinds])
  BY DEF SurveyGraph
<1>2. IsFiniteSet(N) /\ N \subseteq [id : AnyID, kind : Kinds] /\ Cardinality(N) <= Len(g.nodes)
  BY <1>1, ListFinite
<1>3. ids \subseteq AnyID /\ NodesOf(g) \in SUBSET ids
  BY <1>2 DEF NodesOf
<1>4. f \in Surjection(N, ids)
  BY DEF Surjection
<1> DEFINE l == Len(g.nodes)
<1>5. l \in Nat
  BY <1>1
<1> HIDE DEF N, ids, f, l
<1>6. IsFiniteSet(ids) /\ Cardinality(ids) <= Cardinality(N)
  BY <1>2, <1>4, FS_Surjection
<1>7. IsFiniteSet(NodesOf(g)) /\ Cardinality(NodesOf(g)) <= Cardinality(ids)
  BY <1>3, <1>6, FS_Subset
<1>8. Cardinality(N) \in Nat /\ Cardinality(ids) \in Nat /\ Cardinality(NodesOf(g)) \in Nat
  BY <1>2, <1>6, <1>7, FS_CardinalityType
<1>9. Cardinality(NodesOf(g)) <= l
  BY <1>2, <1>5, <1>6, <1>7, <1>8 DEF l
<1> QED BY <1>3, <1>7, <1>8, <1>9 DEF l

\* The rings of Within grow by the targets of the ring before.
LEMMA WithinFacts ==
    ASSUME NEW g \in SurveyGraph, NEW from \in AnyID
    PROVE  /\ Within(g, from)[0] = {from}
           /\ \A k \in Nat : \A n \in Within(g, from)[k + 1] :
                 n \in Within(g, from)[k] \/ \E m \in Within(g, from)[k] : n \in Targets(g, m)
<1> DEFINE V == SUBSET AnyID
           next(S) == S \cup {e.to : e \in {d \in EdgesOf(g) : d.from \in S}}
           grow == [S \in V |-> next(S)]
           start == {from}
           Goes(f) == f = [k \in Nat |-> IF k = 0 THEN start ELSE next(f[k - 1])]
           f == RunFrom(start, grow)
<1>1. start \in V
  OBVIOUS
<1>2. grow \in [V -> V]
  BY EdgeFacts
<1> HIDE DEF V, next, grow, start, Goes, f
<1>3. f \in [Nat -> V] /\ f = [k \in Nat |-> IF k = 0 THEN start ELSE grow[f[k - 1]]]
  BY <1>1, <1>2, RunFromFacts DEF f
<1>4. \A k \in Nat : k # 0 => k - 1 \in Nat /\ grow[f[k - 1]] = next(f[k - 1])
  BY <1>3 DEF grow
<1>5. Goes(f)
  BY <1>3, <1>4 DEF Goes
<1> DEFINE r == Within(g, from)
<1>6. Goes(r)
  BY <1>5 DEF Within, Goes, next, start
<1> HIDE DEF r
<1>7. r[0] = {from}
  BY <1>6 DEF Goes, start
<1>8. ASSUME NEW k \in Nat
      PROVE  r[k + 1] = r[k] \cup {e.to : e \in {d \in EdgesOf(g) : d.from \in r[k]}}
  <2>1. k + 1 \in Nat /\ k + 1 # 0 /\ (k + 1) - 1 = k
    OBVIOUS
  <2>2. r[k + 1] = next(r[k])
    BY <1>6, <2>1 DEF Goes
  <2> QED BY <2>2 DEF next
<1>9. ASSUME NEW k \in Nat, NEW n \in r[k + 1]
      PROVE  n \in r[k] \/ \E m \in r[k] : n \in Targets(g, m)
  BY <1>8 DEF Targets
<1> QED BY <1>7, <1>9 DEF r

\* The queue is sorted by length, and holds two lengths at most.
Ordered(q) == \A i, j \in DOMAIN q : i < j => Len(q[i]) <= Len(q[j]) /\ Len(q[j]) <= Len(q[i]) + 1

LEMMA OrderedTurn ==
    ASSUME NEW T, NEW q \in Seq(Seq(T)), q # <<>>, Ordered(q),
           NEW r \in Seq(Seq(T)), \A i \in DOMAIN r : Len(r[i]) = Len(Head(q)) + 1
    PROVE  /\ Ordered(Tail(q) \o r)
           /\ \A p \in ToSet(q) : Len(Head(q)) <= Len(p) /\ Len(p) <= Len(Head(q)) + 1
<1>1. /\ Len(q) \in Nat \ {0} /\ DOMAIN q = 1..Len(q) /\ Head(q) = q[1]
      /\ \A i \in 1..Len(q) : q[i] \in Seq(T)
  OBVIOUS
<1> DEFINE d == Len(q[1])
           u == Tail(q) \o r
<1>2. d \in Nat /\ \A i \in 1..Len(q) : Len(q[i]) \in Nat
  BY <1>1
<1>3. \A i \in 1..Len(q) : d <= Len(q[i]) /\ Len(q[i]) <= d + 1
  <2> TAKE i \in 1..Len(q)
  <2>1. CASE i = 1
    BY <1>2, <2>1
  <2>2. CASE i # 1
    <3>1. 1 \in DOMAIN q /\ i \in DOMAIN q /\ 1 < i
      BY <1>1, <2>2
    <3> HIDE DEF u
    <3> QED BY <3>1 DEF Ordered
  <2> QED BY <2>1, <2>2
<1> DEFINE l == Len(q) - 1
<1>4. /\ l \in Nat /\ l + 1 = Len(q) /\ Len(r) \in Nat /\ DOMAIN u = 1..(l + Len(r)) /\ DOMAIN r = 1..Len(r)
      /\ \A i \in 1..(l + Len(r)) : u[i] = IF i <= l THEN q[i + 1] ELSE r[i - l]
  BY <1>1
<1> HIDE DEF u, l
<1>5. ASSUME NEW i \in DOMAIN u, NEW j \in DOMAIN u, i < j
      PROVE  Len(u[i]) <= Len(u[j]) /\ Len(u[j]) <= Len(u[i]) + 1
  <2>1. CASE j <= l
    <3>1. u[i] = q[i + 1] /\ u[j] = q[j + 1] /\ i + 1 < j + 1 /\ i + 1 \in DOMAIN q /\ j + 1 \in DOMAIN q
      BY <1>1, <1>4, <1>5, <2>1, SMTT(30)
    <3> QED BY <3>1 DEF Ordered
  <2>2. CASE i <= l /\ ~(j <= l)
    <3>1. u[i] = q[i + 1] /\ i + 1 \in 1..Len(q) /\ u[j] = r[j - l] /\ j - l \in DOMAIN r
      BY <1>1, <1>4, <1>5, <2>2, SMTT(30)
    <3>2. Len(u[j]) = d + 1
      BY <1>1, <3>1
    <3>3. d <= Len(u[i]) /\ Len(u[i]) <= d + 1 /\ Len(u[i]) \in Nat
      BY <1>2, <1>3, <3>1
    <3> HIDE DEF d
    <3> QED BY <1>2, <3>2, <3>3
  <2>3. CASE ~(i <= l)
    <3>1. u[i] = r[i - l] /\ i - l \in DOMAIN r /\ u[j] = r[j - l] /\ j - l \in DOMAIN r
      BY <1>4, <1>5, <2>3, SMTT(30)
    <3>2. Len(u[i]) = d + 1 /\ Len(u[j]) = d + 1
      BY <1>1, <3>1
    <3> HIDE DEF d
    <3> QED BY <1>2, <3>2
  <2> QED BY <1>4, <1>5, <2>1, <2>2, <2>3
<1>6. Ordered(u)
  BY <1>5 DEF Ordered
<1>7. \A p \in ToSet(q) : Len(Head(q)) <= Len(p) /\ Len(p) <= Len(Head(q)) + 1
  BY <1>1, <1>3 DEF ToSet
<1> QED BY <1>6, <1>7 DEF u

\* A walk is longer by an edge.
LEMMA WalkOn ==
    ASSUME NEW g \in SurveyGraph, NEW from, NEW p \in Seq(AnyID),
           IsWalk(g, p, from, Last(p)), NEW n \in Targets(g, Last(p)), n \in AnyID
    PROVE  /\ Append(p, n) \in Seq(AnyID) /\ Append(p, n) # <<>>
           /\ Len(Append(p, n)) = Len(p) + 1 /\ Last(Append(p, n)) = n
           /\ IsWalk(g, Append(p, n), from, n)
<1> DEFINE w == Append(p, n)
<1>1. /\ Len(p) \in Nat \ {0} /\ w \in Seq(AnyID) /\ Len(w) = Len(p) + 1
      /\ w[Len(p) + 1] = n /\ \A i \in 1..Len(p) : w[i] = p[i]
  BY DEF IsWalk
<1> HIDE DEF w
<1>2. w # <<>> /\ Last(w) = n /\ w[1] = from
  BY <1>1 DEF Last, IsWalk
<1>3. ASSUME NEW i \in 1..(Len(w) - 1)
      PROVE  \E e \in EdgesOf(g) : e.from = w[i] /\ e.to = w[i + 1]
  <2>1. CASE i = Len(p)
    <3>1. w[i] = Last(p) /\ w[i + 1] = n
      BY <1>1, <2>1 DEF Last
    <3> QED BY <3>1 DEF Targets
  <2>2. CASE i # Len(p)
    <3>1. i \in 1..(Len(p) - 1) /\ w[i] = p[i] /\ w[i + 1] = p[i + 1]
      BY <1>1, <2>2
    <3> QED BY <3>1 DEF IsWalk
  <2> QED BY <2>1, <2>2
<1>4. IsWalk(g, w, from, n)
  BY <1>2, <1>3 DEF IsWalk
<1> QED BY <1>1, <1>2, <1>4 DEF w

SearchState == [queue : Seq(Seq(AnyID)), seen : SUBSET AnyID, path : Seq(AnyID)]

\* A walk that no shorter one replaces.
Shortest(g, from, p) ==
    /\ IsWalk(g, p, from, Last(p))
    /\ Len(p) > 1 => Last(p) \notin Within(g, from)[Len(p) - 2]

\* The queue holds shortest walks to places seen, in the order of their length;
\* a place seen that none of them ends at is not the one looked for, and all it
\* leads to was seen; everything nearer than the end of the head was seen.
SearchInv(g, from, to, s) ==
    /\ s \in SearchState
    /\ from \in s.seen /\ s.seen \subseteq Reached(g, {from}) /\ s.seen \subseteq NodesOf(g)
    /\ \A p \in ToSet(s.queue) : Shortest(g, from, p) /\ Last(p) \in s.seen
    /\ Ordered(s.queue)
    /\ \A n \in s.seen : \/ \E p \in ToSet(s.queue) : Last(p) = n
                         \/ n # to /\ Targets(g, n) \subseteq s.seen
    /\ s.queue # <<>> => Within(g, from)[Len(Head(s.queue)) - 1] \subseteq s.seen
    /\ s.path # <<>> => Shortest(g, from, s.path) /\ Last(s.path) = to /\ to \in s.seen

\* The turns left: the queue, and an entry of it for each node not yet seen.
SearchLeft(g, s) == Len(s.queue) + Cardinality(NodesOf(g) \ s.seen)

SearchOver(s) == s.queue = <<>> \/ s.path # <<>>

LEMMA SearchStartInv ==
    ASSUME NEW g \in SurveyGraph, NEW from \in NodesOf(g), NEW to
    PROVE  /\ SearchInv(g, from, to, SearchStart(from))
           /\ SearchLeft(g, SearchStart(from)) <= Len(g.nodes)
<1> DEFINE s == SearchStart(from)
<1>0. from \in AnyID
  BY NodeFacts
<1>1. /\ s.queue = << <<from>> >> /\ s.seen = {from} /\ s.path = <<>> /\ s \in SearchState
      /\ Len(s.queue) = 1 /\ DOMAIN s.queue = 1..1 /\ s.queue[1] = <<from>>
  BY <1>0 DEF SearchStart, SearchState
<1> HIDE DEF s
<1>2. ToSet(s.queue) = { <<from>> }
  BY <1>1 DEF ToSet
<1>3. Shortest(g, from, <<from>>) /\ Last(<<from>>) = from
  BY DEF Shortest, IsWalk, Last
<1>4. Ordered(s.queue)
  BY <1>1 DEF Ordered
<1>5. {from} \subseteq Reached(g, {from})
  <2>1. {from} \in SUBSET AnyID
    BY <1>0
  <2> QED BY <2>1, ReachedFacts
<1>6. Within(g, from)[Len(Head(s.queue)) - 1] \subseteq s.seen
  <2>1. Len(Head(s.queue)) - 1 = 0
    BY <1>1
  <2> QED BY <1>0, <1>1, <2>1, WithinFacts
<1>7. SearchInv(g, from, to, s)
  BY <1>1, <1>2, <1>3, <1>4, <1>5, <1>6 DEF SearchInv
<1>8. SearchLeft(g, s) <= Len(g.nodes)
  <2> DEFINE l == Len(g.nodes)
             c == Cardinality(NodesOf(g) \ {from})
  <2>1. c = Cardinality(NodesOf(g)) - 1
    BY NodeFacts, FS_RemoveElement
  <2>2. SearchLeft(g, s) = 1 + c
    BY <1>1, Zenon DEF SearchLeft
  <2>3. Cardinality(NodesOf(g)) \in Nat /\ Cardinality(NodesOf(g)) <= l /\ l \in Nat
    BY NodeFacts, EdgeFacts
  <2> HIDE DEF c, l
  <2>4. SearchLeft(g, s) <= l
    BY <2>1, <2>2, <2>3
  <2> QED BY <2>4 DEF l
<1> QED BY <1>7, <1>8 DEF s

\* A turn keeps the invariant; unless the search is over it takes one from what
\* is left, or finds the path.
LEMMA SearchStepInv ==
    ASSUME NEW g \in SurveyGraph, EdgeListOK(g), NEW from \in NodesOf(g), NEW to,
           NEW s, SearchInv(g, from, to, s)
    PROVE  /\ SearchInv(g, from, to, SearchStep(g, to, s))
           /\ SearchLeft(g, s) \in Nat
           /\ SearchOver(s) => SearchStep(g, to, s) = s
           /\ ~SearchOver(s) => \/ SearchOver(SearchStep(g, to, s))
                                \/ SearchLeft(g, SearchStep(g, to, s)) = SearchLeft(g, s) - 1
<1>0. from \in AnyID
  BY NodeFacts
<1>1. /\ s \in SearchState /\ s.queue \in Seq(Seq(AnyID)) /\ s.seen \subseteq AnyID
      /\ s.path \in Seq(AnyID) /\ Len(s.queue) \in Nat /\ s.seen \subseteq NodesOf(g)
  BY DEF SearchInv, SearchState
<1>2. \A S : IsFiniteSet(NodesOf(g) \ S) /\ Cardinality(NodesOf(g) \ S) \in Nat
  BY NodeFacts, FS_Difference, FS_CardinalityType
<1>3. SearchLeft(g, s) \in Nat
  <2> DEFINE c == Cardinality(NodesOf(g) \ s.seen)
             l == Len(s.queue)
  <2>1. c \in Nat /\ l \in Nat
    BY <1>1, <1>2
  <2> HIDE DEF c, l
  <2>2. c + l \in Nat /\ l + c \in Nat
    BY <2>1
  <2> QED BY <2>2 DEF c, l, SearchLeft
<1>4. CASE SearchOver(s)
  BY <1>3, <1>4 DEF SearchOver, SearchStep
<1> DEFINE path == Head(s.queue)
           d == Len(path)
           last == Last(path)
<1>5. ASSUME ~SearchOver(s)
      PROVE  /\ path \in ToSet(s.queue) /\ path \in Seq(AnyID) /\ d \in Nat \ {0}
             /\ Shortest(g, from, path) /\ last \in s.seen
             /\ Within(g, from)[d - 1] \subseteq s.seen
  <2>1. s.queue # <<>>
    BY <1>5 DEF SearchOver
  <2>2. path \in ToSet(s.queue) /\ path \in Seq(AnyID)
    <3> DEFINE T == Seq(AnyID)
               r == <<>>
    <3>1. r \in Seq(T)
      OBVIOUS
    <3> HIDE DEF T, r
    <3> QED BY <1>1, <2>1, <3>1, QueueTurn DEF T
  <2> HIDE DEF path
  <2>3. Shortest(g, from, path) /\ last \in s.seen
    BY <2>2 DEF SearchInv
  <2>4. path # <<>>
    BY <2>3 DEF Shortest, IsWalk
  <2> QED BY <2>1, <2>2, <2>3, <2>4 DEF SearchInv, path
<1>6. CASE ~SearchOver(s) /\ last = to
  <2> DEFINE t == [s EXCEPT !.path = path]
  <2>1. SearchStep(g, to, s) = t
    BY <1>6 DEF SearchStep, SearchOver
  <2> HIDE DEF path
  <2>2. t.queue = s.queue /\ t.seen = s.seen /\ t.path = path /\ t \in SearchState
    BY <1>1, <1>5, <1>6 DEF SearchState
  <2>3. path # <<>>
    BY <1>5, <1>6 DEF Shortest, IsWalk
  <2> HIDE DEF t
  <2>4. SearchInv(g, from, to, t)
    BY <1>5, <1>6, <2>2 DEF SearchInv
  <2> QED BY <1>3, <1>6, <2>1, <2>2, <2>3, <2>4 DEF SearchOver
<1>7. CASE ~SearchOver(s) /\ last # to
  <2> DEFINE T == Targets(g, last) \ s.seen
             new == SetToSeq(T)
             r == [i \in DOMAIN new |-> Append(path, new[i])]
             t == [s EXCEPT !.queue = Tail(@) \o r, !.seen = @ \cup ToSet(new)]
  <2>1. SearchStep(g, to, s) = t
    BY <1>7 DEF SearchStep, SearchOver
  <2> HIDE DEF path
  <2>2. /\ IsFiniteSet(T) /\ T \subseteq AnyID /\ T \subseteq NodesOf(g)
        /\ new \in Seq(T) /\ ToSet(new) = T /\ Len(new) = Cardinality(T) /\ Len(new) \in Nat
    <3>1. IsFiniteSet(Targets(g, last)) /\ Targets(g, last) \subseteq AnyID
      BY EdgeFacts
    <3>2. Targets(g, last) \subseteq NodesOf(g)
      BY DEF EdgeListOK, Targets
    <3>3. IsFiniteSet(T)
      BY <3>1, FS_Difference
    <3>4. T \subseteq AnyID /\ T \subseteq NodesOf(g)
      BY <3>1, <3>2
    <3> HIDE DEF T
    <3>5. new \in Seq(T) /\ ToSet(new) = T /\ Len(new) = Cardinality(T)
      BY <3>3, ListOfSet
    <3>6. Len(new) \in Nat
      BY <3>5
    <3> QED BY <3>3, <3>4, <3>5, <3>6
  <2> HIDE DEF new
  <2>3. ASSUME NEW n \in T
        PROVE  /\ Append(path, n) \in Seq(AnyID) /\ Len(Append(path, n)) = d + 1
               /\ Last(Append(path, n)) = n /\ Shortest(g, from, Append(path, n))
    <3>1. n \in Targets(g, Last(path)) /\ n \in AnyID /\ n \notin s.seen
      BY <2>2
    <3>2. IsWalk(g, path, from, Last(path)) /\ path \in Seq(AnyID)
      BY <1>5, <1>7 DEF Shortest
    <3> DEFINE w == Append(path, n)
    <3>3. w \in Seq(AnyID) /\ Len(w) = d + 1 /\ Last(w) = n /\ IsWalk(g, w, from, n)
      BY <3>1, <3>2, WalkOn
    <3> HIDE DEF w
    <3>4. Len(w) - 2 = d - 1
      BY <1>5, <1>7, <3>3
    <3>5. n \notin Within(g, from)[d - 1]
      BY <1>5, <1>7, <3>1
    <3> QED BY <3>3, <3>4, <3>5 DEF w, Shortest
  <2>4. /\ r \in Seq(Seq(AnyID)) /\ Len(r) = Cardinality(T)
        /\ \A i \in DOMAIN r : Len(r[i]) = d + 1
        /\ ToSet(r) = {Append(path, n) : n \in T}
    <3>1. DOMAIN new = 1..Len(new) /\ \A i \in DOMAIN new : new[i] \in T
      BY <2>2
    <3> HIDE DEF T
    <3>2. r \in [1..Len(new) -> Seq(AnyID)] /\ \A i \in DOMAIN r : Len(r[i]) = d + 1
      BY <2>3, <3>1
    <3>3. r \in Seq(Seq(AnyID)) /\ Len(r) = Len(new)
      <4> DEFINE V == Seq(AnyID)
      <4> HIDE DEF V, r
      <4> QED BY <2>2, <3>2, FunctionIsSeq DEF V
    <3>4. ToSet(r) = {Append(path, n) : n \in T}
      <4>1. ToSet(r) = {Append(path, new[i]) : i \in DOMAIN new}
        BY <3>1 DEF ToSet
      <4>2. T = {new[i] : i \in DOMAIN new}
        BY <2>2 DEF ToSet
      <4> HIDE DEF r
      <4> QED BY <4>1, <4>2
    <3> QED BY <2>2, <3>2, <3>3, <3>4
  <2> DEFINE u == Tail(s.queue) \o r
  <2> HIDE DEF r, T
  <2>5. /\ u \in Seq(Seq(AnyID)) /\ Len(u) = Len(s.queue) - 1 + Len(r)
        /\ ToSet(s.queue) = {path} \cup ToSet(Tail(s.queue))
        /\ ToSet(u) = ToSet(Tail(s.queue)) \cup {Append(path, n) : n \in T}
    <3> DEFINE q == s.queue
               V == Seq(AnyID)
    <3>1. q \in Seq(V) /\ q # <<>> /\ r \in Seq(V)
      BY <1>1, <1>7, <2>4 DEF SearchOver
    <3> HIDE DEF q, V
    <3>2. /\ Tail(q) \o r \in Seq(V) /\ Len(Tail(q) \o r) = Len(q) - 1 + Len(r)
          /\ ToSet(q) = {Head(q)} \cup ToSet(Tail(q))
          /\ ToSet(Tail(q) \o r) = ToSet(Tail(q)) \cup ToSet(r)
      BY <3>1, QueueTurn
    <3> QED BY <2>4, <3>2, Zenon DEF q, V, path
  <2>6. /\ Ordered(u)
        /\ \A p \in ToSet(s.queue) : d <= Len(p) /\ Len(p) <= d + 1
    BY <1>1, <1>7, <2>4, OrderedTurn DEF SearchOver, SearchInv, path
  <2>7. t.queue = u /\ t.seen = s.seen \cup T /\ t.path = s.path /\ t \in SearchState
    <3> HIDE DEF u
    <3> QED BY <1>1, <2>2, <2>5 DEF SearchState, u
  <2> HIDE DEF u, t
  <2>8. SearchInv(g, from, to, t)
    <3>1. from \in t.seen /\ t.seen \subseteq NodesOf(g)
      BY <2>2, <2>7 DEF SearchInv
    <3>2. t.seen \subseteq Reached(g, {from})
      <4>1. {from} \in SUBSET AnyID
        BY <1>0
      <4>2. Closed(g, Reached(g, {from}))
        BY <4>1, ReachedFacts
      <4>3. last \in Reached(g, {from})
        BY <1>5, <1>7 DEF SearchInv
      <4>4. T \subseteq Reached(g, {from})
        BY <4>2, <4>3 DEF T, Targets, Closed
      <4> QED BY <2>7, <4>4 DEF SearchInv
    <3>3. \A p \in ToSet(t.queue) : Shortest(g, from, p) /\ Last(p) \in t.seen
      <4>1. \A p \in ToSet(s.queue) : Shortest(g, from, p) /\ Last(p) \in s.seen
        BY DEF SearchInv
      <4>2. ASSUME NEW n \in T
            PROVE  Shortest(g, from, Append(path, n)) /\ Last(Append(path, n)) \in t.seen
        BY <2>3, <2>7
      <4>3. ASSUME NEW p \in ToSet(t.queue) PROVE Shortest(g, from, p) /\ Last(p) \in t.seen
        <5>1. CASE p \in ToSet(s.queue)
          BY <2>7, <4>1, <5>1
        <5>2. CASE p \notin ToSet(s.queue)
          <6>1. PICK n \in T : p = Append(path, n)
            BY <2>5, <2>7, <5>2
          <6> QED BY <4>2, <6>1
        <5> QED BY <5>1, <5>2
      <4> QED BY <4>3
    <3>4. Ordered(t.queue)
      BY <2>6, <2>7
    <3>5. ASSUME NEW n \in t.seen
          PROVE  \/ \E p \in ToSet(t.queue) : Last(p) = n
                 \/ n # to /\ Targets(g, n) \subseteq t.seen
      <4>1. CASE n \in T
        BY <2>3, <2>5, <2>7, <4>1
      <4>2. CASE n \in s.seen /\ n = last
        BY <1>7, <2>7, <4>2 DEF T
      <4>3. CASE n \in s.seen /\ n # last
        <5>1. \/ \E p \in ToSet(s.queue) : Last(p) = n
              \/ n # to /\ Targets(g, n) \subseteq s.seen
          BY <4>3 DEF SearchInv
        <5> QED BY <2>5, <2>7, <4>3, <5>1
      <4> QED BY <2>7, <4>1, <4>2, <4>3
    <3>6. ASSUME t.queue # <<>> PROVE Within(g, from)[Len(Head(t.queue)) - 1] \subseteq t.seen
      <4> DEFINE h == Head(t.queue)
      <4>1. h \in ToSet(u) /\ \A p \in ToSet(u) : Len(h) <= Len(p)
        <5> DEFINE V == AnyID
                   e == <<>>
        <5>1. u # <<>> /\ h = Head(u) /\ e \in Seq(Seq(V)) /\ DOMAIN e = {}
          BY <2>7, <3>6
        <5>2. u \in Seq(Seq(V)) /\ \A i \in DOMAIN e : Len(e[i]) = Len(Head(u)) + 1
          BY <2>5, <5>1
        <5> HIDE DEF V, e, h
        <5>3. h \in ToSet(u)
          <6> DEFINE W == Seq(V)
          <6>1. u \in Seq(W) /\ e \in Seq(W)
            BY <5>1, <5>2
          <6> HIDE DEF W
          <6> QED BY <5>1, <6>1, QueueTurn
        <5>4. \A p \in ToSet(u) : Len(h) <= Len(p)
          BY <2>6, <5>1, <5>2, OrderedTurn
        <5> QED BY <5>3, <5>4
      <4> HIDE DEF h
      <4>2. \A p \in ToSet(u) : d <= Len(p) /\ Len(p) <= d + 1 /\ Len(p) \in Nat
        <5>1. \A p \in ToSet(u) : Len(p) \in Nat
          <6>1. ToSet(u) \subseteq Seq(AnyID)
            <7> DEFINE V == Seq(AnyID)
            <7>1. u \in Seq(V)
              BY <2>5
            <7> HIDE DEF V
            <7>2. ToSet(u) \subseteq V
              BY <7>1, ListFinite
            <7> QED BY <7>2 DEF V
          <6> QED BY <6>1
        <5>2. ASSUME NEW n \in T PROVE d <= Len(Append(path, n)) /\ Len(Append(path, n)) <= d + 1
          <6>1. Len(Append(path, n)) = d + 1 /\ d \in Nat
            BY <1>5, <1>7, <2>3
          <6> HIDE DEF d
          <6> QED BY <6>1
        <5> HIDE DEF d
        <5> QED BY <2>5, <2>6, <5>1, <5>2
      <4>3. CASE Len(h) = d
        BY <1>5, <1>7, <2>7, <4>3 DEF h
      <4>4. CASE Len(h) = d + 1
        <5>1. ASSUME NEW p \in ToSet(u) PROVE Len(p) = d + 1
          <6> HIDE DEF d
          <6> QED BY <1>5, <1>7, <4>1, <4>2, <4>4
        <5>2. ASSUME NEW x \in Within(g, from)[d], x \notin s.seen PROVE x \in t.seen
          <6>1. d - 1 \in Nat /\ (d - 1) + 1 = d
            BY <1>5, <1>7
          <6>2. PICK m \in Within(g, from)[d - 1] : x \in Targets(g, m)
            BY <1>0, <1>5, <1>7, <5>2, <6>1, WithinFacts
          <6>3. m \in t.seen
            BY <1>5, <1>7, <2>7
          <6>4. ASSUME NEW p \in ToSet(t.queue), Last(p) = m PROVE FALSE
            <7>1. Len(p) = d + 1 /\ Shortest(g, from, p)
              BY <2>7, <3>3, <5>1, <6>4
            <7>2. Len(p) > 1 /\ Len(p) - 2 = d - 1
              BY <1>5, <1>7, <7>1
            <7> QED BY <6>2, <6>4, <7>1, <7>2 DEF Shortest
          <6> QED BY <3>5, <6>2, <6>3, <6>4
        <5>3. Len(Head(t.queue)) - 1 = d
          BY <1>5, <1>7, <4>4 DEF h
        <5> QED BY <2>7, <5>2, <5>3
      <4>5. Len(h) = d \/ Len(h) = d + 1
        <5>1. d \in Nat /\ d <= Len(h) /\ Len(h) <= d + 1 /\ Len(h) \in Nat
          BY <1>5, <1>7, <4>1, <4>2
        <5> HIDE DEF d
        <5> QED BY <5>1
      <4> QED BY <4>3, <4>4, <4>5
    <3>7. t.path = <<>>
      BY <1>7, <2>7 DEF SearchOver
    <3> QED BY <2>7, <3>1, <3>2, <3>3, <3>4, <3>5, <3>6, <3>7 DEF SearchInv
  <2>9. SearchLeft(g, t) = SearchLeft(g, s) - 1
    <3> DEFINE a == Cardinality(NodesOf(g) \ s.seen)
               b == Cardinality(T)
               l == Len(s.queue)
    <3>1. Cardinality(NodesOf(g) \ t.seen) = a - b
      <4>1. NodesOf(g) \ t.seen = (NodesOf(g) \ s.seen) \ T
        BY <2>7
      <4>2. (NodesOf(g) \ s.seen) \cap T = T
        BY <2>2 DEF T
      <4> QED BY <1>2, <4>1, <4>2, FS_Difference
    <3>2. a \in Nat /\ b \in Nat /\ l \in Nat
      BY <1>1, <1>2, <2>2, FS_CardinalityType
    <3>3. SearchLeft(g, t) = (l - 1 + b) + (a - b)
      BY <2>4, <2>5, <2>7, <3>1, Zenon DEF SearchLeft
    <3>4. SearchLeft(g, s) = l + a
      BY DEF SearchLeft
    <3> HIDE DEF a, b, l
    <3> QED BY <3>2, <3>3, <3>4
  <2> QED BY <1>3, <1>7, <2>1, <2>8, <2>9
<1> QED BY <1>4, <1>6, <1>7

\* The run exists, and the invariant holds after each of its turns.
LEMMA SearchRunFacts ==
    ASSUME NEW g \in SurveyGraph, EdgeListOK(g), NEW from \in NodesOf(g), NEW to
    PROVE  /\ SearchRun(g, from, to)[0] = SearchStart(from)
           /\ \A n \in Nat : SearchRun(g, from, to)[n + 1] = SearchStep(g, to, SearchRun(g, from, to)[n])
           /\ \A n \in Nat : SearchInv(g, from, to, SearchRun(g, from, to)[n])
<1> DEFINE V == {s \in SearchState : SearchInv(g, from, to, s)}
           start == SearchStart(from)
           turn == [s \in V |-> SearchStep(g, to, s)]
           Goes(f) == f = [k \in Nat |-> IF k = 0 THEN start ELSE SearchStep(g, to, f[k - 1])]
           f == RunFrom(start, turn)
<1>1. start \in V
  BY SearchStartInv DEF SearchInv
<1>2. turn \in [V -> V]
  BY SearchStepInv DEF SearchInv
<1> HIDE DEF V, start, turn, Goes, f
<1>3. f \in [Nat -> V] /\ f = [k \in Nat |-> IF k = 0 THEN start ELSE turn[f[k - 1]]]
  BY <1>1, <1>2, RunFromFacts DEF f
<1>4. \A k \in Nat : k # 0 => k - 1 \in Nat /\ turn[f[k - 1]] = SearchStep(g, to, f[k - 1])
  BY <1>3 DEF turn
<1>5. Goes(f)
  BY <1>3, <1>4 DEF Goes
<1> DEFINE r == SearchRun(g, from, to)
<1>6. Goes(r)
  BY <1>5 DEF SearchRun, Goes, start
<1> HIDE DEF r
<1>7. r[0] = start
  BY <1>6 DEF Goes
<1>8. \A n \in Nat : r[n + 1] = SearchStep(g, to, r[n])
  <2> TAKE n \in Nat
  <2>1. n + 1 \in Nat /\ n + 1 # 0 /\ (n + 1) - 1 = n
    OBVIOUS
  <2> QED BY <1>6, <2>1 DEF Goes
<1>9. \A n \in Nat : SearchInv(g, from, to, r[n])
  <2> DEFINE Kept == {n \in Nat : SearchInv(g, from, to, r[n])}
  <2>1. 0 \in Kept
    BY <1>1, <1>7 DEF V
  <2>2. \A n \in Kept : n + 1 \in Kept
    BY <1>8, SearchStepInv
  <2>3. Kept = Nat
    <3>1. Kept \in SUBSET Nat
      OBVIOUS
    <3> HIDE DEF Kept
    <3> QED BY <2>1, <2>2, <3>1, InductionOnSets
  <2> QED BY <2>3
<1> QED BY <1>7, <1>8, <1>9 DEF r, start

\* As many turns as there are nodes end the search.
LEMMA SearchEnds ==
    ASSUME NEW g \in SurveyGraph, EdgeListOK(g), NEW from \in NodesOf(g), NEW to
    PROVE  SearchInv(g, from, to, SearchEnd(g, from, to)) /\ SearchOver(SearchEnd(g, from, to))
<1> DEFINE r == SearchRun(g, from, to)
           m == Len(g.nodes)
           Down == {n \in Nat : SearchOver(r[n]) \/ SearchLeft(g, r[n]) + n <= m}
<1>1. m \in Nat
  BY EdgeFacts
<1>2. /\ r[0] = SearchStart(from)
      /\ \A n \in Nat : r[n + 1] = SearchStep(g, to, r[n]) /\ SearchInv(g, from, to, r[n])
  BY SearchRunFacts
<1> HIDE DEF r, m
<1>3. \A n \in Nat : SearchLeft(g, r[n]) \in Nat
  BY <1>2, SearchStepInv
<1>4. SearchLeft(g, r[0]) <= m
  BY <1>2, SearchStartInv DEF m
<1>5. Down = Nat
  <2>1. 0 \in Down
    BY <1>1, <1>3, <1>4
  <2>2. ASSUME NEW n \in Down PROVE n + 1 \in Down
    <3>1. n \in Nat /\ SearchInv(g, from, to, r[n]) /\ r[n + 1] = SearchStep(g, to, r[n])
      BY <1>2
    <3>2. CASE SearchOver(r[n])
      BY <3>1, <3>2, SearchStepInv
    <3>3. CASE ~SearchOver(r[n])
      <4>1. SearchOver(r[n + 1]) \/ SearchLeft(g, r[n + 1]) = SearchLeft(g, r[n]) - 1
        BY <3>1, <3>3, SearchStepInv
      <4>2. SearchLeft(g, r[n]) + n <= m
        BY <3>3
      <4>3. SearchOver(r[n + 1]) \/ SearchLeft(g, r[n + 1]) + (n + 1) <= m
        BY <1>1, <1>3, <3>1, <4>1, <4>2
      <4> QED BY <3>1, <4>3
    <3> QED BY <3>2, <3>3
  <2>3. Down \in SUBSET Nat
    OBVIOUS
  <2> HIDE DEF Down
  <2> QED BY <2>1, <2>2, <2>3, InductionOnSets
<1> DEFINE s == r[m]
<1>6. SearchInv(g, from, to, s)
  BY <1>1, <1>2
<1>7. SearchOver(s) \/ SearchLeft(g, s) + m <= m
  BY <1>1, <1>5
<1>8. SearchLeft(g, s) \in Nat
  BY <1>1, <1>3
<1> HIDE DEF s
<1>9. SearchOver(s)
  <2> SUFFICES ASSUME ~SearchOver(s) PROVE FALSE
    OBVIOUS
  <2>1. SearchLeft(g, s) = 0
    BY <1>1, <1>7, <1>8
  <2>2. Len(s.queue) = 0
    <3> DEFINE a == Len(s.queue)
               b == Cardinality(NodesOf(g) \ s.seen)
    <3>1. a \in Nat /\ b \in Nat
      <4>1. s.queue \in Seq(Seq(AnyID))
        BY <1>6 DEF SearchInv, SearchState
      <4>2. IsFiniteSet(NodesOf(g) \ s.seen)
        BY NodeFacts, FS_Difference
      <4>3. b \in Nat
        BY <4>2, FS_CardinalityType
      <4>4. a \in Nat
        BY <4>1
      <4> QED BY <4>3, <4>4
    <3>2. a + b = 0
      BY <2>1 DEF SearchLeft
    <3> HIDE DEF a, b
    <3>3. a = 0
      BY <3>1, <3>2
    <3> QED BY <3>3 DEF a
  <2>3. s.queue \in Seq(Seq(AnyID))
    BY <1>6 DEF SearchInv, SearchState
  <2>4. s.queue = <<>>
    BY <2>2, <2>3
  <2> QED BY <2>4 DEF SearchOver
<1>10. s = SearchEnd(g, from, to)
  BY DEF s, r, m, SearchEnd
<1> QED BY <1>6, <1>9, <1>10

\* A path is found exactly to what can be reached.
LEMMA PathFound ==
    ASSUME NEW g \in SurveyGraph, EdgeListOK(g), NEW from \in NodesOf(g), NEW to
    PROVE  /\ deterministicPath(g, from, to) # <<>> <=> to \in Reached(g, {from})
           /\ deterministicPath(g, from, to) # <<>> =>
                 /\ Shortest(g, from, deterministicPath(g, from, to))
                 /\ Last(deterministicPath(g, from, to)) = to
<1> DEFINE s == SearchEnd(g, from, to)
<1>1. SearchInv(g, from, to, s) /\ SearchOver(s)
  BY SearchEnds
<1>2. s.path = deterministicPath(g, from, to)
  BY DEF deterministicPath
<1> HIDE DEF s
<1>3. s.path # <<>> => /\ to \in Reached(g, {from})
                      /\ Shortest(g, from, s.path) /\ Last(s.path) = to
  BY <1>1 DEF SearchInv
<1>4. ASSUME s.path = <<>> PROVE to \notin Reached(g, {from})
  <2>1. ToSet(s.queue) = {}
    BY <1>1, <1>4 DEF SearchOver, ToSet
  <2>2. \A n \in s.seen : n # to /\ Targets(g, n) \subseteq s.seen
    BY <1>1, <2>1 DEF SearchInv
  <2>3. Closed(g, s.seen)
    BY <2>2 DEF Closed, Targets
  <2>4. {from} \subseteq s.seen /\ s.seen \in SUBSET AnyID /\ {from} \in SUBSET AnyID
    BY <1>1, NodeFacts DEF SearchInv
  <2>5. Reached(g, {from}) \subseteq s.seen
    BY <2>3, <2>4, ReachedFacts
  <2> QED BY <2>2, <2>5
<1> QED BY <1>2, <1>3, <1>4

\* A path that is found is a walk and none is shorter; where none is found none
\* exists, and the search saw all there is.
THEOREM PathLoop ==
    ASSUME NEW g \in SurveyGraph, EdgeListOK(g), NEW from \in NodesOf(g), NEW to
    PROVE  PathIsShortest(g, from, to)
<1> DEFINE path == deterministicPath(g, from, to)
<1>1. path # <<>> <=> to \in Reached(g, {from})
  BY PathFound
<1>2. path # <<>> => Shortest(g, from, path) /\ Last(path) = to
  BY PathFound
<1>3. path = <<>> => SearchEnd(g, from, to).queue = <<>>
  BY SearchEnds DEF SearchOver, deterministicPath
<1> HIDE DEF path
<1> QED BY <1>1, <1>2, <1>3 DEF PathIsShortest, Shortest, path

\* The impact of an issue names the destinations ImpactDestinations defines.
THEOREM ImpactLoop ==
    ASSUME NEW g \in SurveyGraph, EdgeListOK(g), NEW key,
           ToSet(g.entranceIDs) \subseteq NodesOf(g)
    PROVE  AnalyzeIssueImpact(g, key).destinations = ImpactDestinations(g, key)
<1> DEFINE E == ToSet(g.entranceIDs)
           D == ToSet(g.destinationIDs)
           n == key.node
           ends == {p \in E \X D : /\ deterministicPath(g, p[1], n) # <<>>
                                  /\ deterministicPath(g, n, p[2]) # <<>>}
<1>1. CASE key.rule = "DESTINATION_REACHABILITY"
  BY <1>1 DEF AnalyzeIssueImpact, ImpactDestinations
<1>2. CASE key.rule # "DESTINATION_REACHABILITY"
  <2>1. AnalyzeIssueImpact(g, key).destinations = {p[2] : p \in ends}
    BY <1>2 DEF AnalyzeIssueImpact
  <2>2. \A a \in E : deterministicPath(g, a, n) # <<>> <=> n \in Reached(g, {a})
    BY PathFound
  <2>3. n \in Reachable(g) <=> \E a \in E : n \in Reached(g, {a})
    <3>1. E \in SUBSET AnyID
      BY EdgeFacts
    <3> QED BY <3>1, ReachedFromOne DEF Reachable
  <2>4. n \in Reachable(g) => n \in NodesOf(g)
    <3>1. E \in SUBSET NodesOf(g)
      OBVIOUS
    <3> QED BY <3>1, ReachedNodes DEF Reachable
  <2>5. n \in NodesOf(g) => \A b \in D : deterministicPath(g, n, b) # <<>> <=> b \in Reached(g, {n})
    BY PathFound
  <2>6. ASSUME NEW b
        PROVE  b \in {p[2] : p \in ends} <=> n \in Reachable(g) /\ b \in D /\ b \in Reached(g, {n})
    <3>1. ASSUME NEW p \in ends, b = p[2]
          PROVE  n \in Reachable(g) /\ b \in D /\ b \in Reached(g, {n})
      <4>1. p[1] \in E /\ b \in D /\ deterministicPath(g, p[1], n) # <<>> /\ deterministicPath(g, n, b) # <<>>
        BY <3>1
      <4> QED BY <2>2, <2>3, <2>4, <2>5, <4>1
    <3>2. ASSUME n \in Reachable(g), b \in D, b \in Reached(g, {n})
          PROVE  b \in {p[2] : p \in ends}
      <4>1. PICK a \in E : n \in Reached(g, {a})
        BY <2>3, <3>2
      <4>2. <<a, b>> \in ends
        BY <2>2, <2>4, <2>5, <3>2, <4>1
      <4> QED BY <4>2
    <3> QED BY <3>1, <3>2
  <2> QED BY <1>2, <2>1, <2>6 DEF ImpactDestinations
<1> QED BY <1>1, <1>2
=============================================================================
