---------------------------- MODULE RouteFirstProofs ----------------------------
(***************************************************************************)
(* Proofs about the route-first engine: for every graph, policy and        *)
(* request, the enumeration emits every loopless path once, works no       *)
(* longer than its budget and visits no more states than its certificate   *)
(* says, and a meeting that is not refused rests on all of the paths; its  *)
(* components are the connected ones, and what the client's contract       *)
(* counts and compares of an outcome agrees with what the service says.    *)
(***************************************************************************)
EXTENDS RouteFirstContract, FiniteSetTheorems, FunctionTheorems, SequenceTheorems,
        WellFoundedInduction, TLAPS

-------------------------------------------------------------------------------
(* Numbers, and the time along a sequence of edges.                        *)

\* A nonempty set of numbers has a least one.
LEMMA LeastOf ==
  ASSUME NEW S \in SUBSET Nat, S # {}
  PROVE  \E m \in S : \A i \in S : m <= i
<1>1. PICK m \in S : \A i \in S : ~(<<i, m>> \in OpToRel(<, Nat))
  BY NatLessThanWellFounded, WFMin
<1>2. \A i \in S : <<i, m>> \in OpToRel(<, Nat) <=> i < m
  BY DEF OpToRel
<1>3. \A i \in S : ~(i < m)
  BY <1>1, <1>2, Zenon
<1> QED BY <1>3

\* What holds of 0, and of i if of i - 1, holds of all numbers up to n.
LEMMA UpTo ==
  ASSUME NEW n \in Nat, NEW S, 0 \in S,
         \A i \in 1 .. n : i - 1 \in S => i \in S
  PROVE  \A i \in 0 .. n : i \in S
<1> DEFINE Missing == (0 .. n) \ S
<1>1. SUFFICES ASSUME Missing # {} PROVE FALSE
  OBVIOUS
<1>2. Missing \in SUBSET Nat
  OBVIOUS
<1>3. PICK m \in Missing : \A i \in Missing : m <= i
  <2> HIDE DEF Missing
  <2> QED BY <1>1, <1>2, LeastOf
<1>4. m \in 1 .. n /\ m - 1 \in 0 .. n /\ m - 1 \notin Missing
  BY <1>3
<1>5. m - 1 \in S
  BY <1>4
<1> QED BY <1>3, <1>4, <1>5

\* Numbers can be summed up.
LEMMA Sums ==
  ASSUME NEW n \in Nat, NEW d \in [1 .. n -> Nat]
  PROVE  \E f \in [0 .. n -> Nat] :
           f[0] = 0 /\ \A i \in 1 .. n : f[i] = f[i - 1] + d[i]
<1> DEFINE Sum(m, f) == f[0] = 0 /\ \A i \in 1 .. m : f[i] = f[i - 1] + d[i]
           S == {m \in 0 .. n : \E f \in [0 .. m -> Nat] : Sum(m, f)}
<1>1. 0 \in S
  <2>1. [i \in 0 .. 0 |-> 0] \in [0 .. 0 -> Nat]
    OBVIOUS
  <2>2. Sum(0, [i \in 0 .. 0 |-> 0])
    OBVIOUS
  <2>3. 0 \in 0 .. n
    OBVIOUS
  <2> HIDE DEF Sum
  <2> QED BY <2>1, <2>2, <2>3
<1>2. ASSUME NEW m \in 1 .. n, m - 1 \in S PROVE m \in S
  <2>1. PICK f \in [0 .. m - 1 -> Nat] : Sum(m - 1, f)
    BY <1>2
  <2> DEFINE g == [i \in 0 .. m |-> IF i = m THEN f[m - 1] + d[m] ELSE f[i]]
  <2>2. m - 1 \in 0 .. m - 1 /\ m \in Nat /\ m # 0
    OBVIOUS
  <2>3. f[m - 1] + d[m] \in Nat
    BY <2>2
  <2>4. g \in [0 .. m -> Nat]
    BY <2>3
  <2>5. g[0] = 0
    BY <2>1, <2>2
  <2>6. ASSUME NEW i \in 1 .. m PROVE g[i] = g[i - 1] + d[i]
    <3>1. CASE i = m
      BY <3>1, <2>2
    <3>2. CASE i # m
      <4>1. i \in 1 .. m - 1 /\ i - 1 # m /\ i - 1 \in 0 .. m /\ i \in 0 .. m
        BY <3>2
      <4>2. g[i] = f[i] /\ g[i - 1] = f[i - 1]
        BY <4>1, <3>2
      <4> QED BY <2>1, <4>1, <4>2
    <3> QED BY <3>1, <3>2
  <2>7. Sum(m, g)
    BY <2>5, <2>6
  <2> HIDE DEF g, Sum
  <2> QED BY <2>4, <2>7
<1>3. n \in S
  <2> HIDE DEF S
  <2>1. n \in 0 .. n
    OBVIOUS
  <2> QED BY <1>1, <1>2, <2>1, UpTo
<1> QED BY <1>3

\* The time along a sequence of edges is the sum of the edges' times.
LEMMA TimeAfterSums ==
  ASSUME NEW g, g.duration \in [Edges -> Nat], NEW s \in Seq(Edges)
  PROVE  /\ TimeAfter(g, s)[0] = 0
         /\ \A i \in 1 .. Len(s) :
              TimeAfter(g, s)[i] = TimeAfter(g, s)[i - 1] + g.duration[s[i]]
         /\ \A i \in 0 .. Len(s) : TimeAfter(g, s)[i] \in Nat
<1> DEFINE n == Len(s)
           D == g.duration
           Is(f) == f = [i \in 0 .. n |-> IF i = 0 THEN 0 ELSE f[i - 1] + D[s[i]]]
           t == TimeAfter(g, s)
<1>0. n \in Nat /\ \A i \in 1 .. n : s[i] \in Edges
  OBVIOUS
<1>1. PICK f \in [0 .. n -> Nat] :
        f[0] = 0 /\ \A i \in 1 .. n : f[i] = f[i - 1] + [j \in 1 .. n |-> D[s[j]]][i]
  <2>1. [j \in 1 .. n |-> D[s[j]]] \in [1 .. n -> Nat]
    BY <1>0
  <2> HIDE DEF n, D
  <2> QED BY <1>0, <2>1, Sums
<1>2. Is(f)
  <2> HIDE DEF n, D
  <2>1. \A i \in 0 .. n : i # 0 => i \in 1 .. n
    BY <1>0
  <2>2. \A i \in 0 .. n : f[i] = IF i = 0 THEN 0 ELSE f[i - 1] + D[s[i]]
    BY <1>1, <2>1
  <2> QED BY <2>2
<1>3. t = CHOOSE h : Is(h)
  BY DEF TimeAfter
<1>4. Is(t)
  <2> HIDE DEF t, Is
  <2> QED BY <1>2, <1>3
<1>5. t[0] = 0 /\ \A i \in 1 .. n : t[i] = t[i - 1] + D[s[i]]
  <2> HIDE DEF t, n, D
  <2>1. \A i \in 1 .. n : i \in 0 .. n /\ i # 0
    BY <1>0
  <2>2. 0 \in 0 .. n
    BY <1>0
  <2> QED BY <1>4, <2>1, <2>2
<1>6. \A i \in 0 .. n : i \in {j \in 0 .. n : t[j] \in Nat}
  <2> HIDE DEF t, n
  <2>1. 0 \in {j \in 0 .. n : t[j] \in Nat}
    BY <1>0, <1>5
  <2>2. \A i \in 1 .. n : D[s[i]] \in Nat
    BY <1>0
  <2>3. ASSUME NEW i \in 1 .. n, i - 1 \in {j \in 0 .. n : t[j] \in Nat}
        PROVE  i \in {j \in 0 .. n : t[j] \in Nat}
    <3>1. t[i - 1] \in Nat /\ D[s[i]] \in Nat /\ i \in 0 .. n
      BY <1>0, <2>2, <2>3
    <3> HIDE DEF D
    <3>2. t[i] = t[i - 1] + D[s[i]]
      BY <1>5
    <3> QED BY <3>1, <3>2
  <2> QED BY <1>0, <2>1, <2>3, UpTo
<1> QED BY <1>5, <1>6

\* Two sequences that begin alike take the same time so far.
LEMMA TimeAgrees ==
  ASSUME NEW g, g.duration \in [Edges -> Nat], NEW s \in Seq(Edges), NEW t \in Seq(Edges),
         NEW k \in Nat, k <= Len(s), k <= Len(t), \A i \in 1 .. k : s[i] = t[i]
  PROVE  TimeAfter(g, s)[k] = TimeAfter(g, t)[k]
<1> DEFINE a == TimeAfter(g, s)
           b == TimeAfter(g, t)
           S == {i \in 0 .. k : a[i] = b[i]}
<1>1. a[0] = 0 /\ \A i \in 1 .. Len(s) : a[i] = a[i - 1] + g.duration[s[i]]
  BY TimeAfterSums
<1>2. b[0] = 0 /\ \A i \in 1 .. Len(t) : b[i] = b[i - 1] + g.duration[t[i]]
  BY TimeAfterSums
<1> HIDE DEF a, b
<1>3. 0 \in S
  BY <1>1, <1>2
<1>4. ASSUME NEW i \in 1 .. k, i - 1 \in S PROVE i \in S
  <2>1. i \in 1 .. Len(s) /\ i \in 1 .. Len(t) /\ i \in 0 .. k
    OBVIOUS
  <2> QED BY <1>1, <1>2, <1>4, <2>1
<1>5. \A i \in 0 .. k : i \in S
  <2> HIDE DEF S
  <2> QED BY <1>3, <1>4, UpTo
<1> QED BY <1>5 DEF a, b

\* Time does not run backwards along a sequence of edges.
LEMMA TimeGrows ==
  ASSUME NEW g, g.duration \in [Edges -> Nat], NEW s \in Seq(Edges), NEW k \in 0 .. Len(s)
  PROVE  TimeAfter(g, s)[k] <= TimeAfter(g, s)[Len(s)]
<1> DEFINE a == TimeAfter(g, s)
           n == Len(s) - k
           S == {i \in 0 .. n : a[k] <= a[k + i]}
<1>1. /\ \A i \in 1 .. Len(s) : a[i] = a[i - 1] + g.duration[s[i]]
      /\ \A i \in 0 .. Len(s) : a[i] \in Nat
  BY TimeAfterSums
<1>2. \A i \in 1 .. Len(s) : g.duration[s[i]] \in Nat
  OBVIOUS
<1>3. n \in Nat /\ k \in Nat /\ Len(s) \in Nat
  OBVIOUS
<1> HIDE DEF a
<1>4. 0 \in S
  <2>1. k + 0 = k /\ a[k] <= a[k]
    BY <1>1, <1>3
  <2> QED BY <2>1, <1>3
<1>5. ASSUME NEW i \in 1 .. n, i - 1 \in S PROVE i \in S
  <2>1. k + i \in 1 .. Len(s) /\ (k + i) - 1 = k + (i - 1) /\ k + (i - 1) \in 0 .. Len(s) /\ k + i \in 0 .. Len(s)
    BY <1>3
  <2>2. a[k + i] = a[k + (i - 1)] + g.duration[s[k + i]]
    BY <1>1, <2>1
  <2>3. a[k] <= a[k + (i - 1)] /\ i \in 0 .. n
    BY <1>5
  <2>4. a[k] \in Nat /\ a[k + (i - 1)] \in Nat /\ g.duration[s[k + i]] \in Nat
    BY <1>1, <1>2, <2>1
  <2> QED BY <2>2, <2>3, <2>4
<1>6. n \in S
  <2> HIDE DEF S, n
  <2>1. n \in 0 .. n
    BY <1>3
  <2> QED BY <1>3, <1>4, <1>5, <2>1, UpTo
<1>7. k + n = Len(s)
  BY <1>3
<1> QED BY <1>6, <1>7 DEF a

-------------------------------------------------------------------------------
(* The paths of a search.                                                  *)

\* What a query is made of.
LEMMA QueryTypes ==
  ASSUME NEW q \in Queries
  PROVE  /\ q.graph.from \in [Edges -> Vertices] /\ q.graph.to \in [Edges -> Vertices]
         /\ q.graph.duration \in [Edges -> Nat]
         /\ q.policy.maxHops \in Nat
         /\ q.policy.maxDuration \in Nat \cup {None}
         /\ q.policy.workBudget \in (Nat \ {0}) \cup {None}
         /\ q.origins \subseteq Vertices /\ q.origins # {} /\ q.targets \subseteq Vertices
<1>1. Cardinality(Vertices) \in Nat
  BY EnumerationAssumption, FS_CardinalityType
<1>2. q.graph \in RouteGraphs /\ q.policy \in Policies
  BY DEF Queries
<1>3. q.policy.maxHops \in Nat
  BY <1>1, <1>2 DEF Policies
<1>4. /\ q.policy.maxDuration \in Nat \cup {None}
      /\ q.policy.workBudget \in (Nat \ {0}) \cup {None}
  BY <1>2 DEF Policies
<1>5. /\ q.graph.from \in [Edges -> Vertices] /\ q.graph.to \in [Edges -> Vertices]
      /\ q.graph.duration \in [Edges -> Nat]
  BY <1>2 DEF RouteGraphs
<1>6. q.origins \subseteq Vertices /\ q.origins # {} /\ q.targets \subseteq Vertices
  <2>1. /\ q.origins \in (SUBSET Vertices) \ {{}}
        /\ q.targets \in (SUBSET Vertices) \ {{}}
    BY DEF Queries
  <2> QED BY <2>1
<1> QED BY <1>3, <1>4, <1>5, <1>6

\* The time along edges of a query's graph.
LEMMA QueryTimes ==
  ASSUME NEW q \in Queries, NEW s \in Seq(Edges)
  PROVE  /\ TimeAfter(q.graph, s)[0] = 0
         /\ \A i \in 1 .. Len(s) :
              TimeAfter(q.graph, s)[i] = TimeAfter(q.graph, s)[i - 1] + q.graph.duration[s[i]]
<1>1. q.graph.duration \in [Edges -> Nat]
  BY QueryTypes
<1>2. ASSUME NEW g, g.duration \in [Edges -> Nat]
      PROVE  /\ TimeAfter(g, s)[0] = 0
             /\ \A i \in 1 .. Len(s) : TimeAfter(g, s)[i] = TimeAfter(g, s)[i - 1] + g.duration[s[i]]
  BY <1>2, TimeAfterSums
<1> QED BY <1>1, <1>2

LEMMA QueryTimesAgree ==
  ASSUME NEW q \in Queries, NEW s \in Seq(Edges), NEW t \in Seq(Edges),
         NEW k \in Nat, k <= Len(s), k <= Len(t), \A i \in 1 .. k : s[i] = t[i]
  PROVE  TimeAfter(q.graph, s)[k] = TimeAfter(q.graph, t)[k]
<1>1. q.graph.duration \in [Edges -> Nat]
  BY QueryTypes
<1>2. ASSUME NEW g, g.duration \in [Edges -> Nat]
      PROVE  TimeAfter(g, s)[k] = TimeAfter(g, t)[k]
  BY <1>2, TimeAgrees
<1> QED BY <1>1, <1>2

\* A path a search of q may be at: legal but for its end, and it met no
\* target before.
Partial(q, p) ==
    /\ p \in PathRecords
    /\ Len(p.vertices) = Len(p.edges) + 1
    /\ Len(p.edges) <= q.policy.maxHops
    /\ p.vertices[1] \in q.origins
    /\ \A i, j \in 1 .. Len(p.vertices) : p.vertices[i] = p.vertices[j] => i = j
    /\ \A i \in 1 .. Len(p.edges) :
          /\ q.graph.from[p.edges[i]] = p.vertices[i]
          /\ q.graph.to[p.edges[i]] = p.vertices[i + 1]
          /\ q.graph.mode[p.edges[i]] \in q.policy.allowedModes
    /\ \A i \in 1 .. Len(p.edges) : p.vertices[i] \notin q.targets
    /\ p.duration = TimeAfter(q.graph, p.edges)[Len(p.edges)]
    /\ q.policy.maxDuration # None => p.duration <= q.policy.maxDuration

LEMMA SameSequence ==
  ASSUME NEW S, NEW s \in Seq(S), NEW t \in Seq(S), Len(s) = Len(t),
         \A i \in 1 .. Len(s) : s[i] = t[i]
  PROVE  s = t
OBVIOUS

LEMMA BeginningOf ==
  ASSUME NEW S, NEW s \in Seq(S), NEW n \in 0 .. Len(s)
  PROVE  /\ SubSeq(s, 1, n) \in Seq(S) /\ Len(SubSeq(s, 1, n)) = n
         /\ \A i \in 1 .. n : SubSeq(s, 1, n)[i] = s[i]
<1>1. n \in Int /\ 1 \in Int /\ \A i \in 1 .. n : s[i] \in S
  OBVIOUS
<1>2. SubSeq(s, 1, n) \in Seq(S)
  BY <1>1, SubSeqProperties
<1>3. Len(SubSeq(s, 1, n)) = n
  OBVIOUS
<1>4. \A i \in 1 .. n : SubSeq(s, 1, n)[i] = s[i]
  OBVIOUS
<1> QED BY <1>2, <1>3, <1>4

LEMMA PathOfEdges ==
  ASSUME NEW q \in Queries, NEW o \in q.origins, NEW s \in Seq(Edges)
  PROVE  LET p == PathOf(q, o, s)
         IN  /\ p \in PathRecords /\ p.edges = s
             /\ Len(p.vertices) = Len(s) + 1 /\ p.vertices[1] = o
             /\ \A i \in 1 .. Len(s) : p.vertices[i + 1] = q.graph.to[s[i]]
             /\ p.duration = TimeAfter(q.graph, s)[Len(s)]
<1> DEFINE t == [i \in DOMAIN s |-> q.graph.to[s[i]]]
           p == PathOf(q, o, s)
<1>1. q.graph.to \in [Edges -> Vertices] /\ q.graph.duration \in [Edges -> Nat] /\ o \in Vertices
  BY QueryTypes
<1>2. t \in Seq(Vertices) /\ Len(t) = Len(s) /\ \A i \in 1 .. Len(s) : t[i] = q.graph.to[s[i]]
  BY <1>1
<1>3. <<o>> \in Seq(Vertices) /\ Len(<<o>>) = 1 /\ <<o>>[1] = o
  BY <1>1
<1>4. /\ p.vertices = <<o>> \o t /\ p.edges = s
      /\ p.duration = TimeAfter(q.graph, s)[Len(s)]
      /\ p = [vertices |-> <<o>> \o t, edges |-> s, duration |-> TimeAfter(q.graph, s)[Len(s)]]
  BY DEF PathOf
<1> HIDE DEF t, p
<1>5. /\ <<o>> \o t \in Seq(Vertices) /\ Len(<<o>> \o t) = Len(s) + 1
      /\ (<<o>> \o t)[1] = o
      /\ \A i \in 1 .. Len(s) : (<<o>> \o t)[i + 1] = t[i]
  BY <1>2, <1>3
<1>6. TimeAfter(q.graph, s)[Len(s)] \in Nat
  <2>1. Len(s) \in 0 .. Len(s)
    OBVIOUS
  <2> QED BY <1>1, <2>1, TimeAfterSums
<1>7. p \in PathRecords
  BY <1>4, <1>5, <1>6 DEF PathRecords
<1> QED BY <1>2, <1>4, <1>5, <1>7 DEF p

\* The paths to be found are those at which a search may be and that end in a
\* target.
LEMMA AllPathsArePartial ==
  ASSUME NEW q \in Queries, NEW p \in AllPaths(q)
  PROVE  Partial(q, p) /\ End(p) \in q.targets
<1>1. PICK o \in q.origins, s \in UNION {[1 .. n -> Edges] : n \in 0 .. q.policy.maxHops} :
        p = PathOf(q, o, s)
  BY DEF AllPaths
<1>2. PICK n \in 0 .. q.policy.maxHops : s \in [1 .. n -> Edges]
  OBVIOUS
<1>3. s \in Seq(Edges)
  <2>1. n \in Nat
    BY QueryTypes
  <2> QED BY <1>2, <2>1
<1>4. /\ p \in PathRecords
      /\ Len(p.vertices) = Len(p.edges) + 1
      /\ p.duration = TimeAfter(q.graph, p.edges)[Len(p.edges)]
  BY <1>1, <1>3, PathOfEdges
<1>5. LegalPath(q, p) /\ \A i \in 1 .. Len(p.edges) : p.vertices[i] \notin q.targets
  BY DEF AllPaths
<1> QED BY <1>4, <1>5 DEF Partial, LegalPath

LEMMA PartialAreAllPaths ==
  ASSUME NEW q \in Queries, NEW p, Partial(q, p), End(p) \in q.targets
  PROVE  p \in AllPaths(q)
<1> DEFINE o == p.vertices[1]
           r == PathOf(q, o, p.edges)
<1>1. p.edges \in Seq(Edges) /\ p.vertices \in Seq(Vertices) /\ o \in q.origins
  BY DEF Partial, PathRecords
<1>2. /\ r \in PathRecords /\ r.edges = p.edges
      /\ Len(r.vertices) = Len(p.edges) + 1 /\ r.vertices[1] = o
      /\ \A i \in 1 .. Len(p.edges) : r.vertices[i + 1] = q.graph.to[p.edges[i]]
      /\ r.duration = TimeAfter(q.graph, p.edges)[Len(p.edges)]
  BY <1>1, PathOfEdges
<1> HIDE DEF r
<1>3. r.vertices = p.vertices
  <2>1. r.vertices \in Seq(Vertices) /\ Len(r.vertices) = Len(p.vertices)
    BY <1>2 DEF Partial, PathRecords
  <2>2. ASSUME NEW i \in 1 .. Len(p.vertices) PROVE r.vertices[i] = p.vertices[i]
    <3>1. CASE i = 1
      BY <3>1, <1>2
    <3>2. CASE i # 1
      <4>1. i - 1 \in 1 .. Len(p.edges) /\ (i - 1) + 1 = i
        BY <3>2, <1>1 DEF Partial
      <4>2. q.graph.to[p.edges[i - 1]] = p.vertices[(i - 1) + 1]
        BY <4>1 DEF Partial
      <4>3. r.vertices[(i - 1) + 1] = q.graph.to[p.edges[i - 1]]
        BY <4>1, <1>2
      <4> QED BY <4>1, <4>2, <4>3
    <3> QED BY <3>1, <3>2
  <2>3. Len(r.vertices) = Len(p.vertices) /\ \A i \in 1 .. Len(r.vertices) : r.vertices[i] = p.vertices[i]
    BY <2>1, <2>2
  <2> QED BY <1>1, <2>1, <2>3, SameSequence
<1>4. r = p
  <2>1. \A a, b \in PathRecords :
          a.vertices = b.vertices /\ a.edges = b.edges /\ a.duration = b.duration => a = b
    BY DEF PathRecords
  <2>2. p \in PathRecords /\ r.duration = p.duration
    BY <1>2 DEF Partial
  <2> QED BY <1>2, <1>3, <2>1, <2>2
<1>5. p.edges \in UNION {[1 .. n -> Edges] : n \in 0 .. q.policy.maxHops}
  <2>1. Len(p.edges) \in 0 .. q.policy.maxHops
    BY <1>1, QueryTypes DEF Partial
  <2>2. p.edges \in [1 .. Len(p.edges) -> Edges]
    BY <1>1
  <2> QED BY <2>1, <2>2
<1>6. LegalPath(q, p) /\ \A i \in 1 .. Len(p.edges) : p.vertices[i] \notin q.targets
  BY DEF Partial, LegalPath
<1> QED BY <1>1, <1>4, <1>5, <1>6 DEF AllPaths, r

-------------------------------------------------------------------------------
(* A path that goes on from another one.                                   *)

\* p begins with c.
Continues(p, c) ==
    /\ Len(c.edges) <= Len(p.edges)
    /\ p.vertices[1] = c.vertices[1]
    /\ \A i \in 1 .. Len(c.edges) : p.edges[i] = c.edges[i]

\* The path extended by an edge of q's graph.
Longer(q, p, e) ==
    [vertices |-> Append(p.vertices, q.graph.to[e]),
     edges |-> Append(p.edges, e),
     duration |-> p.duration + q.graph.duration[e]]

After(p) == Len(p.edges) + 1

\* What the types of a path are.
LEMMA PartialTypes ==
  ASSUME NEW q \in Queries, NEW p, Partial(q, p)
  PROVE  /\ p.vertices \in Seq(Vertices) /\ p.edges \in Seq(Edges) /\ p.duration \in Nat
         /\ Len(p.edges) \in Nat /\ Len(p.vertices) = Len(p.edges) + 1
         /\ \A i \in 1 .. Len(p.edges) : p.edges[i] \in Edges
         /\ \A i \in 1 .. Len(p.edges) + 1 : p.vertices[i] \in Vertices
BY DEF Partial, PathRecords

\* Two paths that begin alike visit the same vertices so far.
LEMMA SameVertices ==
  ASSUME NEW q \in Queries, NEW p, NEW c, Partial(q, p), Partial(q, c), Continues(p, c)
  PROVE  \A i \in 1 .. Len(c.edges) + 1 : p.vertices[i] = c.vertices[i]
<1> SUFFICES ASSUME NEW i \in 1 .. Len(c.edges) + 1 PROVE p.vertices[i] = c.vertices[i]
  OBVIOUS
<1>1. Len(c.edges) \in Nat /\ Len(p.edges) \in Nat /\ Len(c.edges) <= Len(p.edges)
  BY PartialTypes DEF Continues
<1>2. CASE i = 1
  BY <1>2 DEF Continues
<1>3. CASE i # 1
  <2>1. /\ i - 1 \in 1 .. Len(c.edges) /\ i - 1 \in 1 .. Len(p.edges)
        /\ (i - 1) + 1 = i
    BY <1>1, <1>3
  <2>2. p.edges[i - 1] = c.edges[i - 1]
    BY <2>1 DEF Continues
  <2>3. q.graph.to[p.edges[i - 1]] = p.vertices[(i - 1) + 1]
    BY <2>1 DEF Partial
  <2>4. q.graph.to[c.edges[i - 1]] = c.vertices[(i - 1) + 1]
    BY <2>1 DEF Partial
  <2> QED BY <2>1, <2>2, <2>3, <2>4
<1> QED BY <1>2, <1>3

\* Two paths of one origin along the same edges are one.
LEMMA SamePath ==
  ASSUME NEW q \in Queries, NEW p, NEW c, Partial(q, p), Partial(q, c), Continues(p, c),
         Len(p.edges) = Len(c.edges)
  PROVE  p = c
<1>1. p.edges = c.edges
  <2>1. p.edges \in Seq(Edges) /\ c.edges \in Seq(Edges)
    BY PartialTypes
  <2>2. \A i \in 1 .. Len(p.edges) : p.edges[i] = c.edges[i]
    BY DEF Continues
  <2> QED BY <2>1, <2>2, SameSequence
<1>2. p.vertices = c.vertices
  <2>1. /\ p.vertices \in Seq(Vertices) /\ c.vertices \in Seq(Vertices)
        /\ Len(p.vertices) = Len(p.edges) + 1 /\ Len(c.vertices) = Len(c.edges) + 1
    BY PartialTypes
  <2>2. \A i \in 1 .. Len(c.edges) + 1 : p.vertices[i] = c.vertices[i]
    BY SameVertices
  <2>3. Len(p.vertices) = Len(c.vertices) /\ \A i \in 1 .. Len(p.vertices) : p.vertices[i] = c.vertices[i]
    BY <2>1, <2>2
  <2> QED BY <2>1, <2>3, SameSequence
<1>3. p.duration = c.duration
  BY <1>1 DEF Partial
<1>4. \A a, b \in PathRecords :
        a.vertices = b.vertices /\ a.edges = b.edges /\ a.duration = b.duration => a = b
  BY DEF PathRecords
<1>5. p \in PathRecords /\ c \in PathRecords
  BY DEF Partial
<1> QED BY <1>1, <1>2, <1>3, <1>4, <1>5

\* No path to be found goes on from a target.
LEMMA EndsAtTarget ==
  ASSUME NEW q \in Queries, NEW p \in AllPaths(q), NEW c, Partial(q, c),
         End(c) \in q.targets, Continues(p, c)
  PROVE  p = c
<1>1. Partial(q, p)
  BY AllPathsArePartial
<1>2. Len(c.edges) \in Nat /\ Len(p.edges) \in Nat /\ Len(c.edges) <= Len(p.edges)
      /\ Len(c.vertices) = Len(c.edges) + 1
  BY <1>1, PartialTypes DEF Continues
<1>3. Len(p.edges) = Len(c.edges)
  <2>1. SUFFICES ASSUME Len(c.edges) < Len(p.edges) PROVE FALSE
    BY <1>2
  <2>2. Len(c.edges) + 1 \in 1 .. Len(p.edges) /\ Len(c.edges) + 1 \in 1 .. Len(c.edges) + 1
    BY <1>2, <2>1
  <2>3. p.vertices[Len(c.edges) + 1] = End(c)
    BY <1>1, <1>2, <2>2, SameVertices DEF End
  <2>4. p.vertices[Len(c.edges) + 1] \notin q.targets
    BY <1>1, <2>2 DEF Partial
  <2> QED BY <2>3, <2>4
<1> QED BY <1>1, <1>3, SamePath

\* A path to be found that goes on from c, which ends in no target, follows an
\* edge that the search tries and may follow.
LEMMA GoesOn ==
  ASSUME NEW q \in Queries, NEW p \in AllPaths(q), NEW c, Partial(q, c),
         End(c) \notin q.targets, Continues(p, c)
  PROVE  /\ Len(c.edges) < Len(p.edges) /\ Len(c.edges) < q.policy.maxHops
         /\ p.edges[After(c)] \in Edges
         /\ q.graph.from[p.edges[After(c)]] = End(c)
         /\ q.graph.mode[p.edges[After(c)]] \in q.policy.allowedModes
         /\ q.graph.to[p.edges[After(c)]] \notin Visited(c)
         /\ q.policy.maxDuration # None =>
              c.duration + q.graph.duration[p.edges[After(c)]] <= q.policy.maxDuration
<1> DEFINE n == Len(c.edges)
           k == Len(c.edges) + 1
           e == p.edges[k]
<1>1. Partial(q, p) /\ End(p) \in q.targets
  BY AllPathsArePartial
<1>2. n \in Nat /\ Len(p.edges) \in Nat /\ n <= Len(p.edges) /\ Len(c.vertices) = k
      /\ Len(p.vertices) = Len(p.edges) + 1
  BY <1>1, PartialTypes DEF Continues
<1>3. n < Len(p.edges)
  <2>1. SUFFICES ASSUME n = Len(p.edges) PROVE FALSE
    BY <1>2
  <2>2. p = c
    BY <1>1, <2>1, SamePath
  <2> QED BY <1>1, <2>2
<1>4. k \in 1 .. Len(p.edges) /\ After(c) = k
  BY <1>2, <1>3 DEF After
<1>5. \A i \in 1 .. k : p.vertices[i] = c.vertices[i]
  BY <1>1, SameVertices
<1>6. n < q.policy.maxHops
  <2>1. Len(p.edges) <= q.policy.maxHops /\ q.policy.maxHops \in Nat
    BY <1>1, QueryTypes DEF Partial
  <2> QED BY <1>2, <1>3, <2>1
<1>7. e \in Edges
  BY <1>1, <1>4, PartialTypes
<1>8. /\ q.graph.from[e] = p.vertices[k] /\ q.graph.to[e] = p.vertices[k + 1]
      /\ q.graph.mode[e] \in q.policy.allowedModes
  BY <1>1, <1>4 DEF Partial
<1>9. q.graph.from[e] = End(c)
  <2>1. k \in 1 .. k
    BY <1>2
  <2> QED BY <1>2, <1>5, <1>8, <2>1 DEF End
<1>10. q.graph.to[e] \notin Visited(c)
  <2>1. SUFFICES ASSUME NEW i \in 1 .. Len(c.vertices), q.graph.to[e] = c.vertices[i] PROVE FALSE
    BY DEF Visited
  <2>2. i \in 1 .. k /\ i \in 1 .. Len(p.vertices) /\ k + 1 \in 1 .. Len(p.vertices) /\ i # k + 1
    BY <1>2, <1>4
  <2>3. p.vertices[i] = p.vertices[k + 1]
    BY <1>5, <1>8, <2>1, <2>2
  <2> QED BY <1>1, <2>2, <2>3 DEF Partial
<1>11. ASSUME q.policy.maxDuration # None
       PROVE  c.duration + q.graph.duration[e] <= q.policy.maxDuration
  <2>1. /\ c.edges \in Seq(Edges) /\ p.edges \in Seq(Edges)
        /\ q.graph.duration \in [Edges -> Nat] /\ q.policy.maxDuration \in Nat
    BY <1>1, <1>11, PartialTypes, QueryTypes
  <2>2. c.duration = TimeAfter(q.graph, c.edges)[n]
    BY DEF Partial
  <2>3. TimeAfter(q.graph, c.edges)[n] = TimeAfter(q.graph, p.edges)[n]
    <3>1. \A i \in 1 .. n : c.edges[i] = p.edges[i]
      BY DEF Continues
    <3>2. n \in Nat /\ n <= Len(c.edges) /\ n <= Len(p.edges)
      BY <1>2
    <3> HIDE DEF n
    <3> QED BY <2>1, <3>1, <3>2, QueryTimesAgree
  <2>4. TimeAfter(q.graph, p.edges)[k] = TimeAfter(q.graph, p.edges)[k - 1] + q.graph.duration[p.edges[k]]
    <3>1. \A i \in 1 .. Len(p.edges) :
            TimeAfter(q.graph, p.edges)[i] = TimeAfter(q.graph, p.edges)[i - 1] + q.graph.duration[p.edges[i]]
      BY <2>1, QueryTimes
    <3> HIDE DEF k
    <3> QED BY <1>4, <3>1
  <2>5. k - 1 = n
    BY <1>2
  <2>6. k \in 0 .. Len(p.edges) /\ Len(p.edges) \in 0 .. Len(p.edges)
    BY <1>2, <1>4
  <2>7. TimeAfter(q.graph, p.edges)[k] <= TimeAfter(q.graph, p.edges)[Len(p.edges)]
    BY <2>1, <2>6, TimeGrows
  <2>8. p.duration = TimeAfter(q.graph, p.edges)[Len(p.edges)] /\ p.duration <= q.policy.maxDuration
    BY <1>1, <1>11 DEF Partial
  <2>9. c.duration + q.graph.duration[e] <= p.duration
    BY <2>2, <2>3, <2>4, <2>5, <2>7, <2>8
  <2>10. c.duration \in Nat /\ q.graph.duration[e] \in Nat /\ p.duration \in Nat
    BY <1>1, <1>7, <2>1, PartialTypes
  <2> HIDE DEF n, k, e
  <2> QED BY <2>1, <2>8, <2>9, <2>10
<1> QED BY <1>3, <1>4, <1>6, <1>7, <1>8, <1>9, <1>10, <1>11

\* A path extended by an edge the search may follow.
LEMMA LongerIsPartial ==
  ASSUME NEW q \in Queries, NEW c, Partial(q, c), End(c) \notin q.targets, NEW e \in Edges,
         Len(c.edges) < q.policy.maxHops, q.graph.from[e] = End(c),
         q.graph.mode[e] \in q.policy.allowedModes, q.graph.to[e] \notin Visited(c),
         q.policy.maxDuration # None => c.duration + q.graph.duration[e] <= q.policy.maxDuration
  PROVE  Partial(q, Longer(q, c, e))
<1> DEFINE n == Len(c.edges)
           v == Append(c.vertices, q.graph.to[e])
           s == Append(c.edges, e)
           p == Longer(q, c, e)
<1>1. /\ c.vertices \in Seq(Vertices) /\ c.edges \in Seq(Edges) /\ c.duration \in Nat
      /\ n \in Nat /\ Len(c.vertices) = n + 1
  BY PartialTypes
<1>2. /\ q.graph.duration \in [Edges -> Nat] /\ q.graph.to[e] \in Vertices /\ q.policy.maxHops \in Nat
      /\ q.graph.duration[e] \in Nat
  BY QueryTypes
<1>3. /\ p.vertices = v /\ p.edges = s /\ p.duration = c.duration + q.graph.duration[e]
      /\ p = [vertices |-> v, edges |-> s, duration |-> c.duration + q.graph.duration[e]]
  BY DEF Longer
<1>4. /\ v \in Seq(Vertices) /\ Len(v) = n + 2 /\ v[n + 2] = q.graph.to[e]
      /\ \A i \in 1 .. n + 1 : v[i] = c.vertices[i]
  BY <1>1, <1>2
<1>5. /\ s \in Seq(Edges) /\ Len(s) = n + 1 /\ s[n + 1] = e
      /\ \A i \in 1 .. n : s[i] = c.edges[i]
  BY <1>1
<1> HIDE DEF p, v, s
<1>6. p \in PathRecords
  <2>1. c.duration + q.graph.duration[e] \in Nat
    BY <1>1, <1>2
  <2> QED BY <1>3, <1>4, <1>5, <2>1 DEF PathRecords
<1>7. Len(p.vertices) = Len(p.edges) + 1 /\ Len(p.edges) <= q.policy.maxHops
  BY <1>1, <1>2, <1>3, <1>4, <1>5
<1>8. p.vertices[1] \in q.origins
  <2>1. 1 \in 1 .. n + 1 /\ c.vertices[1] \in q.origins
    BY <1>1 DEF Partial
  <2> QED BY <1>3, <1>4, <2>1
<1>9. ASSUME NEW i \in 1 .. Len(p.vertices), NEW j \in 1 .. Len(p.vertices), p.vertices[i] = p.vertices[j]
      PROVE  i = j
  <2>1. /\ i = n + 2 \/ i \in 1 .. n + 1
        /\ j = n + 2 \/ j \in 1 .. n + 1
    BY <1>1, <1>3, <1>4
  <2>2. \A h \in 1 .. n + 1 : v[h] \in Visited(c) /\ v[h] = c.vertices[h]
    BY <1>1, <1>4 DEF Visited
  <2>3. v[n + 2] \notin Visited(c)
    BY <1>4
  <2>4. \A g, h \in 1 .. n + 1 : c.vertices[g] = c.vertices[h] => g = h
    BY <1>1 DEF Partial
  <2>5. v[i] = v[j]
    BY <1>3, <1>9
  <2> QED BY <2>1, <2>2, <2>3, <2>4, <2>5
<1>10. ASSUME NEW i \in 1 .. Len(p.edges)
       PROVE  /\ q.graph.from[p.edges[i]] = p.vertices[i]
              /\ q.graph.to[p.edges[i]] = p.vertices[i + 1]
              /\ q.graph.mode[p.edges[i]] \in q.policy.allowedModes
              /\ p.vertices[i] \notin q.targets
  <2>1. CASE i = n + 1
    <3>1. p.edges[i] = e /\ p.vertices[i + 1] = q.graph.to[e]
      BY <2>1, <1>1, <1>3, <1>4, <1>5
    <3>2. n + 1 \in 1 .. n + 1
      BY <1>1
    <3>3. p.vertices[i] = End(c)
      BY <2>1, <1>1, <1>3, <1>4, <3>2 DEF End
    <3> QED BY <3>1, <3>3
  <2>2. CASE i # n + 1
    <3>1. i \in 1 .. n /\ i \in 1 .. n + 1 /\ i + 1 \in 1 .. n + 1
      BY <2>2, <1>1, <1>3, <1>5
    <3>2. p.edges[i] = c.edges[i] /\ p.vertices[i] = c.vertices[i] /\ p.vertices[i + 1] = c.vertices[i + 1]
      BY <3>1, <1>3, <1>4, <1>5
    <3>3. /\ q.graph.from[c.edges[i]] = c.vertices[i]
          /\ q.graph.to[c.edges[i]] = c.vertices[i + 1]
          /\ q.graph.mode[c.edges[i]] \in q.policy.allowedModes
          /\ c.vertices[i] \notin q.targets
      BY <3>1 DEF Partial
    <3> QED BY <3>2, <3>3
  <2> QED BY <2>1, <2>2
<1>11. p.duration = TimeAfter(q.graph, p.edges)[Len(p.edges)]
  <2>1. TimeAfter(q.graph, s)[n + 1] = TimeAfter(q.graph, s)[(n + 1) - 1] + q.graph.duration[s[n + 1]]
    <3>1. n + 1 \in 1 .. Len(s)
      BY <1>1, <1>5
    <3>2. \A i \in 1 .. Len(s) :
            TimeAfter(q.graph, s)[i] = TimeAfter(q.graph, s)[i - 1] + q.graph.duration[s[i]]
      BY <1>5, QueryTimes
    <3> HIDE DEF n
    <3> QED BY <3>1, <3>2
  <2>2. (n + 1) - 1 = n /\ n <= Len(s) /\ n <= Len(c.edges)
    BY <1>1, <1>5
  <2>3. TimeAfter(q.graph, s)[n] = TimeAfter(q.graph, c.edges)[n]
    <3>1. n \in Nat /\ s \in Seq(Edges) /\ c.edges \in Seq(Edges) /\ q.graph.duration \in [Edges -> Nat]
          /\ \A i \in 1 .. n : s[i] = c.edges[i]
      BY <1>1, <1>2, <1>5
    <3> HIDE DEF n
    <3> QED BY <2>2, <3>1, QueryTimesAgree
  <2>4. c.duration = TimeAfter(q.graph, c.edges)[n]
    BY DEF Partial
  <2> QED BY <1>3, <1>5, <2>1, <2>2, <2>3, <2>4
<1>12. q.policy.maxDuration # None => p.duration <= q.policy.maxDuration
  BY <1>3
<1> QED BY <1>6, <1>7, <1>8, <1>9, <1>10, <1>11, <1>12 DEF Partial, p

-------------------------------------------------------------------------------
(* What a search has still to do: st are the origins not yet visited, c is *)
(* the path it calls visit() with, fr are its frames, ps the paths it has  *)
(* emitted.                                                                *)

\* p leaves a frame's path along an edge that is still to be tried, or along
\* another one.
Via(p, frame) ==
    /\ Continues(p, frame.path) /\ Len(frame.path.edges) < Len(p.edges)
    /\ p.edges[After(frame.path)] \in frame.left

Beyond(p, frame) ==
    /\ Continues(p, frame.path) /\ Len(frame.path.edges) < Len(p.edges)
    /\ p.edges[After(frame.path)] \notin frame.left

\* The search is still to come to p.
Pending(st, c, fr, p) ==
    \/ p.vertices[1] \in st
    \/ c # None /\ Continues(p, c)
    \/ \E k \in 1 .. Len(fr) : Via(p, fr[k])

FrameRecords == [path : PathRecords, left : SUBSET Edges]

\* A frame tries edges that leave the end of its path, which is no target.
Resting(q, frame) ==
    /\ Partial(q, frame.path) /\ End(frame.path) \notin q.targets
    /\ \A e \in frame.left :
          Len(frame.path.edges) < q.policy.maxHops /\ q.graph.from[e] = End(frame.path)

\* Each path on the stack goes on from those below it, along an edge already
\* tried, and from an origin already visited.
Stack(q, st, c, fr) ==
    /\ st \subseteq q.origins /\ fr \in Seq(FrameRecords)
    /\ \A k \in 1 .. Len(fr) : Resting(q, fr[k]) /\ fr[k].path.vertices[1] \notin st
    /\ \A k \in 1 .. Len(fr) : \A j \in 1 .. k - 1 : Beyond(fr[k].path, fr[j])
    /\ c # None =>
          /\ Partial(q, c) /\ c.vertices[1] \notin st
          /\ \A k \in 1 .. Len(fr) : Beyond(c, fr[k])

\* What was emitted was to be found, will not be met again, and was emitted
\* once.
Emitted(q, st, c, fr, ps) ==
    /\ ps \in Seq(PathRecords)
    /\ \A i \in 1 .. Len(ps) : ps[i] \in AllPaths(q) /\ ~Pending(st, c, fr, ps[i])
    /\ \A i, j \in 1 .. Len(ps) : ps[i] = ps[j] => i = j

\* What is to be found was emitted or is still to come.
Covered(q, st, c, fr, ps) ==
    \A p \in AllPaths(q) : Pending(st, c, fr, p) \/ \E i \in 1 .. Len(ps) : ps[i] = p

\* A step that leaves open what was open neither loses nor repeats a path.
LEMMA SamePending ==
  ASSUME NEW q, NEW st, NEW c, NEW fr, NEW ps, NEW st2, NEW c2, NEW fr2,
         \A p \in AllPaths(q) : Pending(st2, c2, fr2, p) <=> Pending(st, c, fr, p)
  PROVE  /\ Emitted(q, st, c, fr, ps) => Emitted(q, st2, c2, fr2, ps)
         /\ Covered(q, st, c, fr, ps) => Covered(q, st2, c2, fr2, ps)
BY DEF Emitted, Covered

\* The search begins at an origin.
LEMMA OriginStep ==
  ASSUME NEW q \in Queries, NEW st, Stack(q, st, None, <<>>), NEW s \in st,
         NEW c, c = [vertices |-> <<s>>, edges |-> <<>>, duration |-> 0]
  PROVE  /\ Stack(q, st \ {s}, c, <<>>)
         /\ \A p \in AllPaths(q) : Pending(st \ {s}, c, <<>>, p) <=> Pending(st, None, <<>>, p)
<1>1. s \in q.origins /\ s \in Vertices
  BY QueryTypes DEF Stack
<1>2. /\ c.vertices = <<s>> /\ c.edges = <<>> /\ c.duration = 0
      /\ Len(c.vertices) = 1 /\ Len(c.edges) = 0 /\ c.vertices[1] = s
  OBVIOUS
<1>3. c \in PathRecords /\ c # None
  <2>1. <<s>> \in Seq(Vertices) /\ <<>> \in Seq(Edges) /\ 0 \in Nat
    BY <1>1
  <2>2. c \in PathRecords
    BY <2>1 DEF PathRecords
  <2> QED BY <2>2, EnumerationAssumption
<1>4. Partial(q, c)
  <2>1. TimeAfter(q.graph, <<>>)[0] = 0
    <3>1. <<>> \in Seq(Edges)
      OBVIOUS
    <3> QED BY <3>1, QueryTimes
  <2>2. 0 <= q.policy.maxHops
    BY QueryTypes
  <2>3. q.policy.maxDuration # None => 0 <= q.policy.maxDuration
    BY QueryTypes
  <2>4. \A i, j \in 1 .. Len(c.vertices) : c.vertices[i] = c.vertices[j] => i = j
    BY <1>2
  <2>5. \A i \in 1 .. Len(c.edges) : FALSE
    BY <1>2
  <2> QED BY <1>1, <1>2, <1>3, <2>1, <2>2, <2>3, <2>4, <2>5 DEF Partial
<1>5. <<>> \in Seq(FrameRecords) /\ Len(<<>>) = 0 /\ \A k \in 1 .. Len(<<>>) : FALSE
  OBVIOUS
<1>6. Stack(q, st \ {s}, c, <<>>)
  <2>1. st \ {s} \subseteq q.origins
    BY DEF Stack
  <2> QED BY <1>2, <1>4, <1>5, <2>1 DEF Stack
<1>7. ASSUME NEW p \in AllPaths(q)
      PROVE  Pending(st \ {s}, c, <<>>, p) <=> Pending(st, None, <<>>, p)
  <2>1. Continues(p, c) <=> p.vertices[1] = s
    <3>1. Len(p.edges) \in Nat
      BY AllPathsArePartial, PartialTypes
    <3>2. \A i \in 1 .. Len(c.edges) : p.edges[i] = c.edges[i]
      BY <1>2
    <3> QED BY <1>2, <3>1, <3>2 DEF Continues
  <2> QED BY <1>3, <1>5, <2>1 DEF Pending
<1> QED BY <1>6, <1>7

\* The search has come to a vertex that is no target.
LEMMA InnerStep ==
  ASSUME NEW q \in Queries, NEW st, NEW c, NEW fr, Stack(q, st, c, fr), c # None,
         End(c) \notin q.targets, NEW L,
         L = IF Len(c.edges) >= q.policy.maxHops THEN {} ELSE {e \in Edges : q.graph.from[e] = End(c)},
         NEW fr2, fr2 = Append(fr, [path |-> c, left |-> L])
  PROVE  /\ Stack(q, st, None, fr2)
         /\ \A p \in AllPaths(q) : Pending(st, None, fr2, p) <=> Pending(st, c, fr, p)
<1> DEFINE n == Len(fr) + 1
           frame == [path |-> c, left |-> L]
<1>1. /\ st \subseteq q.origins /\ fr \in Seq(FrameRecords) /\ Len(fr) \in Nat
      /\ Partial(q, c) /\ c.vertices[1] \notin st
      /\ \A k \in 1 .. Len(fr) : Beyond(c, fr[k])
      /\ \A k \in 1 .. Len(fr) : Resting(q, fr[k]) /\ fr[k].path.vertices[1] \notin st
      /\ \A k \in 1 .. Len(fr) : \A j \in 1 .. k - 1 : Beyond(fr[k].path, fr[j])
  BY DEF Stack
<1>2. Len(c.edges) \in Nat /\ q.policy.maxHops \in Nat
  BY <1>1, PartialTypes, QueryTypes
<1>3. frame \in FrameRecords /\ frame.path = c /\ frame.left = L
  BY <1>1 DEF FrameRecords, Partial
<1>4. /\ fr2 \in Seq(FrameRecords) /\ Len(fr2) = n /\ fr2[n] = frame
      /\ \A k \in 1 .. Len(fr) : fr2[k] = fr[k]
      /\ \A k \in 1 .. Len(fr2) : k \in 1 .. Len(fr) \/ k = n
      /\ n \in 1 .. Len(fr2) /\ \A k \in 1 .. Len(fr) : k \in 1 .. Len(fr2)
  <2> HIDE DEF frame
  <2>1. fr2 = Append(fr, frame)
    BY DEF frame
  <2> QED BY <1>1, <1>3, <2>1
<1> HIDE DEF frame
<1>5. Resting(q, frame)
  <2>1. \A e \in L : Len(c.edges) < q.policy.maxHops /\ q.graph.from[e] = End(c)
    BY <1>2
  <2> QED BY <1>1, <1>3, <2>1 DEF Resting
<1>6. \A k \in 1 .. Len(fr2) : Resting(q, fr2[k]) /\ fr2[k].path.vertices[1] \notin st
  BY <1>1, <1>3, <1>4, <1>5
<1>7. ASSUME NEW k \in 1 .. Len(fr2), NEW j \in 1 .. k - 1 PROVE Beyond(fr2[k].path, fr2[j])
  <2>1. CASE k = n
    <3>1. j \in 1 .. Len(fr)
      BY <2>1, <1>1
    <3> QED BY <2>1, <3>1, <1>1, <1>3, <1>4
  <2>2. CASE k \in 1 .. Len(fr)
    <3>1. j \in 1 .. Len(fr)
      BY <2>2, <1>1
    <3> QED BY <2>2, <3>1, <1>1, <1>4
  <2> QED BY <1>4, <2>1, <2>2
<1>8. Stack(q, st, None, fr2)
  BY <1>1, <1>4, <1>6, <1>7 DEF Stack
<1>9. ASSUME NEW p \in AllPaths(q)
      PROVE  Pending(st, None, fr2, p) <=> Pending(st, c, fr, p)
  <2>1. Via(p, frame) <=> Continues(p, c)
    <3>1. ASSUME Continues(p, c) PROVE Via(p, frame)
      <4>1. /\ Len(c.edges) < Len(p.edges) /\ Len(c.edges) < q.policy.maxHops
            /\ p.edges[After(c)] \in Edges /\ q.graph.from[p.edges[After(c)]] = End(c)
        BY <1>1, <3>1, GoesOn
      <4>2. p.edges[After(c)] \in L
        BY <1>2, <4>1
      <4> QED BY <1>3, <3>1, <4>1, <4>2 DEF Via
    <3> QED BY <1>3, <3>1 DEF Via
  <2>2. (\E k \in 1 .. Len(fr2) : Via(p, fr2[k])) <=> Via(p, frame) \/ \E k \in 1 .. Len(fr) : Via(p, fr[k])
    BY <1>4
  <2> QED BY <2>1, <2>2 DEF Pending
<1> QED BY <1>8, <1>9

\* A frame has tried all edges.
LEMMA ReturnStep ==
  ASSUME NEW q \in Queries, NEW st, NEW fr, Stack(q, st, None, fr), fr # <<>>,
         fr[Len(fr)].left = {}, NEW fr2, fr2 = SubSeq(fr, 1, Len(fr) - 1)
  PROVE  /\ Stack(q, st, None, fr2)
         /\ \A p \in AllPaths(q) : Pending(st, None, fr2, p) <=> Pending(st, None, fr, p)
<1> DEFINE n == Len(fr)
<1>1. /\ st \subseteq q.origins /\ fr \in Seq(FrameRecords) /\ n \in Nat /\ n # 0
      /\ \A k \in 1 .. n : Resting(q, fr[k]) /\ fr[k].path.vertices[1] \notin st
      /\ \A k \in 1 .. n : \A j \in 1 .. k - 1 : Beyond(fr[k].path, fr[j])
  BY DEF Stack
<1>2. /\ fr2 \in Seq(FrameRecords) /\ Len(fr2) = n - 1
      /\ \A k \in 1 .. n - 1 : fr2[k] = fr[k]
  <2>1. n - 1 \in 0 .. Len(fr)
    BY <1>1
  <2> QED BY <1>1, <2>1, BeginningOf
<1>3. Stack(q, st, None, fr2)
  <2>1. \A k \in 1 .. n - 1 : k \in 1 .. n /\ \A j \in 1 .. k - 1 : j \in 1 .. n - 1
    BY <1>1
  <2>2. \A k \in 1 .. Len(fr2) : Resting(q, fr2[k]) /\ fr2[k].path.vertices[1] \notin st
    BY <1>1, <1>2, <2>1
  <2>3. \A k \in 1 .. Len(fr2) : \A j \in 1 .. k - 1 : Beyond(fr2[k].path, fr2[j])
    BY <1>1, <1>2, <2>1
  <2> QED BY <1>1, <1>2, <2>2, <2>3 DEF Stack
<1>4. ASSUME NEW p \in AllPaths(q)
      PROVE  Pending(st, None, fr2, p) <=> Pending(st, None, fr, p)
  <2>1. ~Via(p, fr[n])
    BY DEF Via
  <2>2. \A k \in 1 .. n : k = n \/ k \in 1 .. n - 1
    BY <1>1
  <2>3. \A k \in 1 .. n - 1 : k \in 1 .. n
    BY <1>1
  <2>4. (\E k \in 1 .. Len(fr2) : Via(p, fr2[k])) <=> \E k \in 1 .. n : Via(p, fr[k])
    BY <1>2, <2>1, <2>2, <2>3
  <2> QED BY <2>4 DEF Pending
<1> QED BY <1>3, <1>4

\* The search may follow an edge of q's graph.
Allowed(q, path, e) ==
    /\ q.graph.mode[e] \in q.policy.allowedModes
    /\ q.graph.to[e] \notin Visited(path)
    /\ \/ q.policy.maxDuration = None
       \/ path.duration + q.graph.duration[e] <= q.policy.maxDuration

\* A path that goes on from c along an edge begins with c extended by it.
LEMMA ContinuesLonger ==
  ASSUME NEW q \in Queries, NEW c, Partial(q, c), NEW e \in Edges, NEW p, Len(p.edges) \in Nat
  PROVE  Continues(p, Longer(q, c, e)) <=>
           Continues(p, c) /\ Len(c.edges) < Len(p.edges) /\ p.edges[After(c)] = e
<1> DEFINE n == Len(c.edges)
           l == Longer(q, c, e)
<1>1. /\ c.vertices \in Seq(Vertices) /\ c.edges \in Seq(Edges) /\ n \in Nat /\ Len(c.vertices) = n + 1
      /\ q.graph.to[e] \in Vertices
  BY PartialTypes, QueryTypes
<1>2. /\ Len(l.edges) = n + 1 /\ l.edges[n + 1] = e /\ \A i \in 1 .. n : l.edges[i] = c.edges[i]
      /\ l.vertices[1] = c.vertices[1]
  BY <1>1 DEF Longer
<1>3. \A i \in 1 .. n + 1 : i \in 1 .. n \/ i = n + 1
  BY <1>1
<1>4. n + 1 \in 1 .. n + 1 /\ \A i \in 1 .. n : i \in 1 .. n + 1
  BY <1>1
<1> HIDE DEF l
<1>5. ASSUME Continues(p, l)
      PROVE  Continues(p, c) /\ n < Len(p.edges) /\ p.edges[n + 1] = e
  BY <1>1, <1>2, <1>4, <1>5 DEF Continues
<1>6. ASSUME Continues(p, c), n < Len(p.edges), p.edges[n + 1] = e
      PROVE  Continues(p, l)
  <2>1. \A i \in 1 .. n + 1 : p.edges[i] = l.edges[i]
    BY <1>2, <1>3, <1>6 DEF Continues
  <2> QED BY <1>1, <1>2, <1>6, <2>1 DEF Continues
<1> QED BY <1>5, <1>6 DEF After, l

\* What goes on from a path goes on from where the path does.
LEMMA LongerBeyond ==
  ASSUME NEW q \in Queries, NEW c, Partial(q, c), NEW e \in Edges, NEW frame \in FrameRecords,
         Beyond(c, frame)
  PROVE  Beyond(Longer(q, c, e), frame)
<1> DEFINE n == Len(c.edges)
           m == Len(frame.path.edges)
           l == Longer(q, c, e)
<1>1. /\ c.vertices \in Seq(Vertices) /\ c.edges \in Seq(Edges) /\ n \in Nat /\ Len(c.vertices) = n + 1
      /\ q.graph.to[e] \in Vertices
  BY PartialTypes, QueryTypes
<1>2. /\ Len(l.edges) = n + 1 /\ \A i \in 1 .. n : l.edges[i] = c.edges[i]
      /\ l.vertices[1] = c.vertices[1]
  BY <1>1 DEF Longer
<1>3. m \in Nat /\ m < n
  BY DEF Beyond, FrameRecords, PathRecords
<1> HIDE DEF l
<1>4. m + 1 \in 1 .. n /\ \A i \in 1 .. m : i \in 1 .. n
  BY <1>1, <1>3
<1>5. Continues(l, frame.path)
  BY <1>1, <1>2, <1>3, <1>4 DEF Beyond, Continues
<1>6. l.edges[m + 1] = c.edges[m + 1]
  BY <1>2, <1>4
<1> QED BY <1>1, <1>2, <1>3, <1>5, <1>6 DEF Beyond, After, l

\* The frames when the last has tried an edge, and the path visit() is called
\* with, if any.
Tried(fr, e) == [fr EXCEPT ![Len(fr)].left = @ \ {e}]
Onward(q, path, e) == IF Allowed(q, path, e) THEN Longer(q, path, e) ELSE None

\* A frame tries its next edge.
LEMMA TryStep ==
  ASSUME NEW q \in Queries, NEW st, NEW fr, Stack(q, st, None, fr), fr # <<>>,
         NEW e, e \in fr[Len(fr)].left,
         NEW fr2, fr2 = Tried(fr, e), NEW c2, c2 = Onward(q, fr[Len(fr)].path, e)
  PROVE  /\ Stack(q, st, c2, fr2)
         /\ \A p \in AllPaths(q) : Pending(st, c2, fr2, p) <=> Pending(st, None, fr, p)
<1> DEFINE n == Len(fr)
           old == fr[n]
           new == [path |-> old.path, left |-> old.left \ {e}]
<1>1. /\ st \subseteq q.origins /\ fr \in Seq(FrameRecords) /\ n \in Nat /\ n \in 1 .. n
      /\ \A k \in 1 .. n : Resting(q, fr[k]) /\ fr[k].path.vertices[1] \notin st
      /\ \A k \in 1 .. n : \A j \in 1 .. k - 1 : Beyond(fr[k].path, fr[j])
  BY DEF Stack
<1>2. old \in FrameRecords /\ old = [path |-> old.path, left |-> old.left]
      /\ old.path \in PathRecords /\ old.left \subseteq Edges /\ e \in Edges
  <2>1. old \in FrameRecords
    BY <1>1
  <2>2. e \in old.left
    OBVIOUS
  <2> HIDE DEF old
  <2> QED BY <2>1, <2>2 DEF FrameRecords
<1>3. /\ fr2 \in Seq(FrameRecords) /\ Len(fr2) = n /\ fr2[n] = new
      /\ \A k \in 1 .. n - 1 : fr2[k] = fr[k]
  <2>1. new \in FrameRecords
    BY <1>2 DEF FrameRecords
  <2>2. fr2 = [fr EXCEPT ![n] = [old EXCEPT !.left = old.left \ {e}]]
    BY DEF Tried
  <2>3. [old EXCEPT !.left = old.left \ {e}] = new
    <3>1. \A a \in FrameRecords : \A L : [a EXCEPT !.left = L] = [path |-> a.path, left |-> L]
      BY DEF FrameRecords
    <3> HIDE DEF old
    <3> QED BY <1>2, <3>1
  <2>4. fr2 = [fr EXCEPT ![n] = new]
    BY <2>2, <2>3
  <2>5. /\ fr2 \in [1 .. n -> FrameRecords] /\ fr2[n] = new
        /\ \A k \in 1 .. n - 1 : fr2[k] = fr[k]
    <3>1. fr \in [1 .. n -> FrameRecords]
      BY <1>1
    <3>2. \A k \in 1 .. n - 1 : k \in 1 .. n /\ k # n
      BY <1>1
    <3> HIDE DEF new, old, n
    <3> QED BY <1>1, <2>1, <2>4, <3>1, <3>2
  <2> HIDE DEF new, old
  <2>6. fr2 \in Seq(FrameRecords) /\ Len(fr2) = n
    BY <1>1, <2>5
  <2> QED BY <2>5, <2>6
<1>4. Resting(q, old) /\ Partial(q, old.path) /\ End(old.path) \notin q.targets
      /\ Len(old.path.edges) < q.policy.maxHops /\ q.graph.from[e] = End(old.path)
  BY <1>1 DEF Resting
<1>5. new.path = old.path /\ new.left = old.left \ {e}
  OBVIOUS
<1>6. Resting(q, new)
  BY <1>4, <1>5 DEF Resting
<1> HIDE DEF new, old
<1>7. \A k \in 1 .. n : k \in 1 .. n - 1 \/ k = n
  BY <1>1
<1>8. \A k \in 1 .. n - 1 : k \in 1 .. n
  BY <1>1
<1>9. \A k \in 1 .. n : fr2[k].path = fr[k].path /\ Resting(q, fr2[k])
  BY <1>1, <1>3, <1>5, <1>6, <1>7, <1>8 DEF old
<1>10. ASSUME NEW k \in 1 .. n, NEW j \in 1 .. k - 1 PROVE Beyond(fr2[k].path, fr2[j])
  <2>1. j \in 1 .. n - 1
    BY <1>1
  <2> QED BY <1>1, <1>3, <1>9, <2>1
<1>11. ASSUME Allowed(q, old.path, e)
       PROVE  /\ c2 = Longer(q, old.path, e) /\ Partial(q, c2) /\ c2 # None
              /\ c2.vertices[1] = old.path.vertices[1]
  <2>1. c2 = Longer(q, old.path, e)
    BY <1>11 DEF old, Onward
  <2>2. Partial(q, c2)
    BY <1>2, <1>4, <1>11, <2>1, LongerIsPartial DEF Allowed
  <2>3. c2 # None
    BY <2>2, EnumerationAssumption DEF Partial
  <2>4. old.path.vertices \in Seq(Vertices) /\ Len(old.path.vertices) = Len(old.path.edges) + 1
        /\ Len(old.path.edges) \in Nat /\ q.graph.to[e] \in Vertices
    BY <1>2, <1>4, PartialTypes, QueryTypes
  <2>5. c2.vertices[1] = old.path.vertices[1]
    <3>1. c2.vertices = Append(old.path.vertices, q.graph.to[e])
      BY <2>1 DEF Longer
    <3>2. 1 \in 1 .. Len(old.path.vertices)
      BY <2>4
    <3> QED BY <2>4, <3>1, <3>2
  <2> QED BY <2>1, <2>2, <2>3, <2>5
<1>12. ASSUME ~Allowed(q, old.path, e) PROVE c2 = None
  BY <1>12 DEF old, Onward
<1>13. ASSUME Allowed(q, old.path, e), NEW k \in 1 .. n PROVE Beyond(c2, fr2[k])
  <2>1. CASE k = n
    <3>1. Len(c2.edges) \in Nat
      BY <1>11, <1>13, PartialTypes
    <3>2. Continues(c2, c2)
      BY <3>1 DEF Continues
    <3>3. Continues(c2, old.path) /\ Len(old.path.edges) < Len(c2.edges) /\ c2.edges[After(old.path)] = e
      BY <1>2, <1>4, <1>11, <1>13, <3>1, <3>2, ContinuesLonger
    <3> QED BY <2>1, <1>3, <1>5, <3>3 DEF Beyond
  <2>2. CASE k \in 1 .. n - 1
    <3>1. Beyond(old.path, fr[k]) /\ fr[k] \in FrameRecords
      BY <1>1, <1>8, <2>2 DEF old
    <3>2. Beyond(Longer(q, old.path, e), fr[k])
      BY <1>2, <1>4, <3>1, LongerBeyond
    <3> QED BY <1>3, <1>11, <1>13, <2>2, <3>2
  <2> QED BY <1>7, <2>1, <2>2
<1>14. Stack(q, st, c2, fr2)
  <2>1. \A k \in 1 .. Len(fr2) : Resting(q, fr2[k]) /\ fr2[k].path.vertices[1] \notin st
    BY <1>1, <1>3, <1>9
  <2>2. \A k \in 1 .. Len(fr2) : \A j \in 1 .. k - 1 : Beyond(fr2[k].path, fr2[j])
    BY <1>3, <1>10
  <2>3. ASSUME c2 # None
        PROVE  /\ Partial(q, c2) /\ c2.vertices[1] \notin st
               /\ \A k \in 1 .. Len(fr2) : Beyond(c2, fr2[k])
    <3>1. Allowed(q, old.path, e)
      BY <1>12, <2>3
    <3>2. old.path.vertices[1] \notin st
      BY <1>1 DEF old
    <3> QED BY <1>3, <1>11, <1>13, <3>1, <3>2
  <2> QED BY <1>1, <1>3, <2>1, <2>2, <2>3 DEF Stack
<1>15. ASSUME NEW p \in AllPaths(q)
       PROVE  Pending(st, c2, fr2, p) <=> Pending(st, None, fr, p)
  <2>1. Len(p.edges) \in Nat
    BY AllPathsArePartial, PartialTypes
  <2>2. (c2 # None /\ Continues(p, c2)) <=>
          Continues(p, old.path) /\ Len(old.path.edges) < Len(p.edges) /\ p.edges[After(old.path)] = e
    <3>1. CASE Allowed(q, old.path, e)
      BY <1>2, <1>4, <1>11, <2>1, <3>1, ContinuesLonger
    <3>2. CASE ~Allowed(q, old.path, e)
      <4>1. ASSUME Continues(p, old.path), p.edges[After(old.path)] = e PROVE FALSE
        <5>1. /\ q.graph.mode[e] \in q.policy.allowedModes
              /\ q.graph.to[e] \notin Visited(old.path)
              /\ q.policy.maxDuration # None =>
                   old.path.duration + q.graph.duration[e] <= q.policy.maxDuration
          BY <1>4, <4>1, GoesOn
        <5> QED BY <3>2, <5>1 DEF Allowed
      <4> QED BY <1>12, <3>2, <4>1
    <3> QED BY <3>1, <3>2
  <2>3. (c2 # None /\ Continues(p, c2)) \/ Via(p, new) <=> Via(p, old)
    BY <1>5, <2>2 DEF Via, old
  <2>4. (\E k \in 1 .. n : Via(p, fr2[k])) <=> Via(p, new) \/ \E k \in 1 .. n - 1 : Via(p, fr[k])
    BY <1>1, <1>3, <1>7, <1>8
  <2>5. (\E k \in 1 .. n : Via(p, fr[k])) <=> Via(p, old) \/ \E k \in 1 .. n - 1 : Via(p, fr[k])
    BY <1>1, <1>7, <1>8 DEF old
  <2> QED BY <1>3, <2>3, <2>4, <2>5 DEF Pending
<1> QED BY <1>14, <1>15

\* The search emits a path.
LEMMA TargetStep ==
  ASSUME NEW q \in Queries, NEW st, NEW c, NEW fr, NEW ps, Stack(q, st, c, fr), c # None,
         End(c) \in q.targets, Emitted(q, st, c, fr, ps)
  PROVE  /\ Stack(q, st, None, fr)
         /\ Emitted(q, st, None, fr, Append(ps, c))
         /\ Covered(q, st, c, fr, ps) => Covered(q, st, None, fr, Append(ps, c))
<1> DEFINE n == Len(ps)
           ps2 == Append(ps, c)
<1>1. Partial(q, c) /\ c.vertices[1] \notin st /\ \A k \in 1 .. Len(fr) : Beyond(c, fr[k])
  BY DEF Stack
<1>2. c \in AllPaths(q) /\ c \in PathRecords /\ Len(c.edges) \in Nat
  BY <1>1, PartialAreAllPaths, PartialTypes DEF Partial
<1>3. /\ ps \in Seq(PathRecords) /\ n \in Nat
      /\ \A i \in 1 .. n : ps[i] \in AllPaths(q) /\ ~Pending(st, c, fr, ps[i])
      /\ \A i, j \in 1 .. n : ps[i] = ps[j] => i = j
  BY DEF Emitted
<1>4. /\ ps2 \in Seq(PathRecords) /\ Len(ps2) = n + 1 /\ ps2[n + 1] = c
      /\ \A i \in 1 .. n : ps2[i] = ps[i]
  BY <1>2, <1>3
<1>5. \A i \in 1 .. n + 1 : i \in 1 .. n \/ i = n + 1
  BY <1>3
<1>6. n + 1 \in 1 .. n + 1 /\ \A i \in 1 .. n : i \in 1 .. n + 1
  BY <1>3
<1> HIDE DEF ps2
<1>7. Stack(q, st, None, fr)
  BY DEF Stack
<1>8. Continues(c, c)
  BY <1>2 DEF Continues
<1>9. ~Pending(st, None, fr, c)
  BY <1>1 DEF Pending, Via, Beyond
<1>10. \A p : Pending(st, None, fr, p) => Pending(st, c, fr, p)
  BY DEF Pending
<1>11. \A i \in 1 .. n : ps[i] # c
  BY <1>3, <1>8 DEF Pending
<1>12. Emitted(q, st, None, fr, ps2)
  <2>1. \A i \in 1 .. n + 1 : ps2[i] \in AllPaths(q) /\ ~Pending(st, None, fr, ps2[i])
    BY <1>2, <1>3, <1>4, <1>5, <1>9, <1>10
  <2>2. \A i, j \in 1 .. n + 1 : ps2[i] = ps2[j] => i = j
    BY <1>3, <1>4, <1>5, <1>11
  <2> QED BY <1>4, <2>1, <2>2 DEF Emitted
<1>13. ASSUME Covered(q, st, c, fr, ps), NEW p \in AllPaths(q), ~Pending(st, None, fr, p)
       PROVE  \E i \in 1 .. n + 1 : ps2[i] = p
  <2>1. CASE Continues(p, c)
    <3>1. p = c
      BY <1>1, <2>1, EndsAtTarget
    <3> QED BY <1>4, <1>6, <3>1
  <2>2. CASE ~Continues(p, c)
    <3>1. ~Pending(st, c, fr, p)
      BY <1>13, <2>2 DEF Pending
    <3>2. PICK i \in 1 .. n : ps[i] = p
      BY <1>13, <3>1 DEF Covered
    <3> QED BY <1>4, <1>6, <3>2
  <2> QED BY <2>1, <2>2
<1>14. Covered(q, st, c, fr, ps) => Covered(q, st, None, fr, ps2)
  BY <1>4, <1>13 DEF Covered
<1> QED BY <1>7, <1>12, <1>14 DEF ps2

\* The search is given up.
LEMMA GiveUpStep ==
  ASSUME NEW q \in Queries, NEW st, NEW c, NEW fr, NEW ps, Stack(q, st, c, fr),
         Emitted(q, st, c, fr, ps)
  PROVE  Stack(q, st, None, <<>>) /\ Emitted(q, st, None, <<>>, ps)
<1>1. <<>> \in Seq(FrameRecords) /\ Len(<<>>) = 0 /\ \A k \in 1 .. Len(<<>>) : FALSE
  OBVIOUS
<1>2. Stack(q, st, None, <<>>)
  BY <1>1 DEF Stack
<1>3. \A p : Pending(st, None, <<>>, p) => Pending(st, c, fr, p)
  BY <1>1 DEF Pending
<1> QED BY <1>2, <1>3 DEF Emitted

-------------------------------------------------------------------------------
(* How many states a search can visit: numbers that depend on the one      *)
(* before them.                                                            *)

\* A linear recurrence has a solution in the natural numbers.
LEMMA Recurrence ==
  ASSUME NEW n \in Nat, NEW c \in Nat, NEW a \in [1 .. n -> Nat], NEW d \in [1 .. n -> Nat]
  PROVE  \E f \in [0 .. n -> Nat] :
           f[0] = c /\ \A i \in 1 .. n : f[i] = f[i - 1] * a[i] + d[i]
<1> DEFINE Solves(m, f) == f[0] = c /\ \A i \in 1 .. m : f[i] = f[i - 1] * a[i] + d[i]
           S == {m \in 0 .. n : \E f \in [0 .. m -> Nat] : Solves(m, f)}
<1>1. 0 \in S
  <2>1. [i \in 0 .. 0 |-> c] \in [0 .. 0 -> Nat]
    OBVIOUS
  <2>2. Solves(0, [i \in 0 .. 0 |-> c])
    OBVIOUS
  <2>3. 0 \in 0 .. n
    OBVIOUS
  <2> HIDE DEF Solves
  <2> QED BY <2>1, <2>2, <2>3
<1>2. ASSUME NEW m \in 1 .. n, m - 1 \in S PROVE m \in S
  <2>1. PICK f \in [0 .. m - 1 -> Nat] : Solves(m - 1, f)
    BY <1>2
  <2> DEFINE next == f[m - 1] * a[m] + d[m]
             g == [i \in 0 .. m |-> IF i = m THEN next ELSE f[i]]
  <2>2. m - 1 \in 0 .. m - 1 /\ m \in Nat /\ m # 0
    OBVIOUS
  <2>3. next \in Nat
    <3>1. f[m - 1] \in Nat /\ a[m] \in Nat /\ d[m] \in Nat
      BY <2>2
    <3>2. f[m - 1] * a[m] \in Nat
      BY <3>1
    <3> QED BY <3>1, <3>2
  <2> HIDE DEF next
  <2>4. g \in [0 .. m -> Nat]
    BY <2>3
  <2>5. g[0] = c
    BY <2>1, <2>2
  <2>6. ASSUME NEW i \in 1 .. m PROVE g[i] = g[i - 1] * a[i] + d[i]
    <3>1. CASE i = m
      BY <3>1, <2>2 DEF next
    <3>2. CASE i # m
      <4>1. i \in 1 .. m - 1 /\ i - 1 # m /\ i - 1 \in 0 .. m /\ i \in 0 .. m
        BY <3>2
      <4>2. g[i] = f[i] /\ g[i - 1] = f[i - 1]
        BY <4>1, <3>2
      <4> QED BY <2>1, <4>1, <4>2
    <3> QED BY <3>1, <3>2
  <2>7. Solves(m, g)
    BY <2>5, <2>6
  <2>8. m \in 0 .. n
    OBVIOUS
  <2> HIDE DEF g, Solves
  <2> QED BY <2>4, <2>7, <2>8
<1>3. n \in S
  <2> HIDE DEF S
  <2>1. n \in 0 .. n
    OBVIOUS
  <2> QED BY <1>1, <1>2, <2>1, UpTo
<1> QED BY <1>3

\* A nonempty set of numbers up to n has a greatest one.
LEMMA GreatestOf ==
  ASSUME NEW n \in Nat, NEW S \in SUBSET (1 .. n), S # {}
  PROVE  \E m \in S : \A i \in S : i <= m
<1> DEFINE bounds == {b \in Nat : \A i \in S : i <= b}
<1>1. PICK m \in bounds : \A b \in bounds : m <= b
  <2>1. n \in bounds /\ bounds \in SUBSET Nat
    OBVIOUS
  <2> HIDE DEF bounds
  <2> QED BY <2>1, LeastOf
<1>2. m \in S
  <2>1. SUFFICES ASSUME m \notin S PROVE FALSE
    OBVIOUS
  <2>2. PICK i \in S : TRUE
    OBVIOUS
  <2>3. i \in Nat /\ 1 <= i /\ m \in Nat /\ i <= m
    BY <1>1
  <2>4. m - 1 \in Nat
    BY <2>3
  <2>5. \A j \in S : j <= m - 1
    BY <1>1, <2>1, <2>3
  <2>6. m - 1 \in bounds
    BY <2>4, <2>5
  <2> QED BY <1>1, <2>3, <2>6
<1> QED BY <1>1, <1>2

\* The edges from and to the same vertices as e.
Parallel(g, e) == {f \in Edges : g.from[f] = g.from[e] /\ g.to[f] = g.to[e]}

\* Of no edge are there more parallels than the factor says.
LEMMA FactorBounds ==
  ASSUME NEW g
  PROVE  /\ ParallelEdgeFactor(g) \in Nat /\ ParallelEdgeFactor(g) >= 1
         /\ \A e \in Edges : Cardinality(Parallel(g, e)) <= ParallelEdgeFactor(g)
<1> DEFINE K == Cardinality(Edges) + 1
           count(e) == Cardinality(Parallel(g, e))
           sizes == {1} \cup {count(e) : e \in Edges}
           Is(n) == (n = 1 \/ \E e \in Edges : count(e) = n) /\ \A e \in Edges : count(e) <= n
<1>1. IsFiniteSet(Edges) /\ Cardinality(Edges) \in Nat
  BY EnumerationAssumption, FS_CardinalityType
<1>2. ASSUME NEW e \in Edges PROVE count(e) \in 1 .. K
  <2>1. Parallel(g, e) \in SUBSET Edges /\ e \in Parallel(g, e)
    BY DEF Parallel
  <2>2. IsFiniteSet(Parallel(g, e)) /\ count(e) \in Nat /\ count(e) <= Cardinality(Edges)
    BY <1>1, <2>1, FS_Subset, FS_CardinalityType
  <2>3. count(e) # 0
    BY <2>1, <2>2, FS_EmptySet
  <2> HIDE DEF count
  <2> QED BY <1>1, <2>2, <2>3
<1>3. PICK m \in sizes : \A i \in sizes : i <= m
  <2>1. sizes \in SUBSET (1 .. K) /\ sizes # {} /\ K \in Nat
    BY <1>1, <1>2
  <2> HIDE DEF sizes, K
  <2> QED BY <2>1, GreatestOf
<1>4. m \in 1 .. K
  BY <1>1, <1>2, <1>3
<1>5. Is(m)
  BY <1>3
<1>6. ParallelEdgeFactor(g) = CHOOSE n \in 1 .. K : Is(n)
  BY DEF ParallelEdgeFactor, Parallel
<1>7. ParallelEdgeFactor(g) \in 1 .. K /\ Is(ParallelEdgeFactor(g))
  <2> HIDE DEF Is, K
  <2> QED BY <1>4, <1>5, <1>6
<1> QED BY <1>1, <1>7

\* The edges from u to vertices of U.
Into(g, u, U) == {e \in Edges : g.from[e] = u /\ g.to[e] \in U}

\* There are at most so many edges from one vertex to others.
LEMMA FewEdges ==
  ASSUME NEW g, NEW u, NEW n \in Nat
  PROVE  \A U : IsFiniteSet(U) /\ Cardinality(U) = n =>
           Cardinality(Into(g, u, U)) <= n * ParallelEdgeFactor(g)
<1> DEFINE P == ParallelEdgeFactor(g)
           Few(m) == \A U : IsFiniteSet(U) /\ Cardinality(U) = m =>
                       Cardinality(Into(g, u, U)) <= m * P
           S == {m \in 0 .. n : Few(m)}
<1>1. /\ P \in Nat /\ P >= 1 /\ \A e \in Edges : Cardinality(Parallel(g, e)) <= P
  BY FactorBounds
<1>2. \A U : Into(g, u, U) \in SUBSET Edges /\ IsFiniteSet(Into(g, u, U)) /\ Cardinality(Into(g, u, U)) \in Nat
  <2> TAKE U
  <2>1. Into(g, u, U) \in SUBSET Edges
    BY DEF Into
  <2> QED BY <2>1, EnumerationAssumption, FS_Subset, FS_CardinalityType
<1>3. \A x : Cardinality(Into(g, u, {x})) <= P
  <2> TAKE x
  <2>1. CASE Into(g, u, {x}) = {}
    BY <1>1, <2>1, FS_EmptySet
  <2>2. CASE Into(g, u, {x}) # {}
    <3>1. PICK e \in Into(g, u, {x}) : TRUE
      BY <2>2
    <3>2. e \in Edges /\ Into(g, u, {x}) = Parallel(g, e)
      BY <3>1 DEF Into, Parallel
    <3> QED BY <1>1, <3>2
  <2> QED BY <2>1, <2>2
<1> HIDE DEF P
<1>4. 0 \in S
  <2>1. ASSUME NEW U, IsFiniteSet(U), Cardinality(U) = 0 PROVE Cardinality(Into(g, u, U)) <= 0 * P
    <3>1. U = {}
      BY <2>1, FS_EmptySet
    <3>2. Into(g, u, U) = {}
      BY <3>1 DEF Into
    <3>3. Cardinality(Into(g, u, U)) = 0
      BY <3>2, FS_EmptySet
    <3> QED BY <1>1, <3>3
  <2>2. 0 \in 0 .. n
    OBVIOUS
  <2> QED BY <2>1, <2>2
<1>5. ASSUME NEW m \in 1 .. n, m - 1 \in S PROVE m \in S
  <2>1. ASSUME NEW U, IsFiniteSet(U), Cardinality(U) = m PROVE Cardinality(Into(g, u, U)) <= m * P
    <3>1. PICK x \in U : TRUE
      <4>1. U # {}
        BY <2>1, FS_EmptySet
      <4> QED BY <4>1
    <3>2. IsFiniteSet(U \ {x}) /\ Cardinality(U \ {x}) = m - 1
      BY <2>1, <3>1, FS_RemoveElement
    <3> DEFINE A == Into(g, u, U \ {x})
               B == Into(g, u, {x})
    <3>3. Cardinality(A) <= (m - 1) * P
      BY <1>5, <3>2
    <3>4. Into(g, u, U) = A \cup B
      BY <3>1 DEF Into
    <3>5. /\ IsFiniteSet(A) /\ IsFiniteSet(B) /\ Cardinality(A) \in Nat /\ Cardinality(B) \in Nat
          /\ Cardinality(B) <= P
      BY <1>2, <1>3
    <3> HIDE DEF A, B
    <3>6. Cardinality(A \cup B) = Cardinality(A) + Cardinality(B) - Cardinality(A \cap B)
      BY <3>5, FS_Union
    <3>7. Cardinality(A \cap B) \in Nat
      BY <3>5, FS_Intersection, FS_CardinalityType
    <3>8. Cardinality(A \cup B) <= (m - 1) * P + P
      BY <1>1, <3>3, <3>5, <3>6, <3>7
    <3>9. (m - 1) * P + P = m * P
      BY <1>1
    <3> QED BY <3>4, <3>8, <3>9
  <2>2. m \in 0 .. n
    OBVIOUS
  <2> QED BY <2>1, <2>2
<1>6. n \in S
  <2> HIDE DEF S
  <2>1. n \in 0 .. n
    OBVIOUS
  <2> QED BY <1>4, <1>5, <2>1, UpTo
<1> QED BY <1>6 DEF P

-------------------------------------------------------------------------------
(* The bound of the visited states.                                        *)

\* As many edges as leave a path of h hops for a vertex it has not visited, at
\* most.
Branches(q, h) == Others(h) * ParallelEdgeFactor(q.graph)

\* The states below a path with i hops left, itself included.
Grows(q, f) ==
    f[0] = 1 /\ \A i \in 1 .. q.policy.maxHops :
                   f[i] = f[i - 1] * Branches(q, q.policy.maxHops - i) + 1

Below(q) == CHOOSE f \in [0 .. q.policy.maxHops -> Nat] : Grows(q, f)

LEMMA BranchTypes ==
  ASSUME NEW q \in Queries, NEW h \in 0 .. q.policy.maxHops
  PROVE  Others(h) \in Nat /\ Branches(q, h) \in Nat
<1>1. Cardinality(Vertices) \in Nat /\ h \in Nat
  BY EnumerationAssumption, FS_CardinalityType, QueryTypes
<1>2. Others(h) \in Nat
  BY <1>1 DEF Others
<1>3. ParallelEdgeFactor(q.graph) \in Nat
  BY FactorBounds
<1> QED BY <1>2, <1>3 DEF Branches

LEMMA BelowGrows ==
  ASSUME NEW q \in Queries
  PROVE  /\ \A i \in 0 .. q.policy.maxHops : Below(q)[i] \in Nat /\ Below(q)[i] >= 1
         /\ Below(q)[0] = 1
         /\ \A i \in 1 .. q.policy.maxHops :
              Below(q)[i] = Below(q)[i - 1] * Branches(q, q.policy.maxHops - i) + 1
<1> DEFINE H == q.policy.maxHops
           a == [i \in 1 .. H |-> Branches(q, H - i)]
           d == [i \in 1 .. H |-> 1]
<1>1. H \in Nat
  BY QueryTypes
<1>2. \A i \in 1 .. H : H - i \in 0 .. H
  BY <1>1
<1>3. a \in [1 .. H -> Nat] /\ d \in [1 .. H -> Nat]
  BY <1>2, BranchTypes
<1>4. PICK f \in [0 .. H -> Nat] : f[0] = 1 /\ \A i \in 1 .. H : f[i] = f[i - 1] * a[i] + d[i]
  <2>1. 1 \in Nat
    OBVIOUS
  <2> HIDE DEF H, a, d
  <2> QED BY <1>1, <1>3, <2>1, Recurrence, Zenon
<1>5. Grows(q, f)
  BY <1>4 DEF Grows
<1>6. Below(q) \in [0 .. H -> Nat] /\ Grows(q, Below(q))
  BY <1>4, <1>5 DEF Below
<1> DEFINE W == Below(q)
<1>7. W[0] = 1 /\ \A i \in 1 .. H : W[i] = W[i - 1] * Branches(q, H - i) + 1
  BY <1>6 DEF Grows
<1>8. ASSUME NEW i \in 0 .. H PROVE W[i] \in Nat /\ W[i] >= 1
  <2>1. CASE i = 0
    BY <1>7, <2>1
  <2>2. CASE i # 0
    <3>1. i \in 1 .. H /\ i - 1 \in 0 .. H
      BY <1>1, <2>2
    <3>2. W[i - 1] \in Nat /\ Branches(q, H - i) \in Nat /\ W[i] \in Nat
      BY <1>2, <1>6, <3>1, BranchTypes
    <3>3. W[i] = W[i - 1] * Branches(q, H - i) + 1
      BY <1>7, <3>1
    <3> HIDE DEF W, H
    <3>4. W[i - 1] * Branches(q, H - i) \in Nat
      BY <3>2
    <3> QED BY <3>2, <3>3, <3>4
  <2> QED BY <2>1, <2>2
<1> QED BY <1>7, <1>8

\* The numbers the certificate's bound is computed from.
LEMMA LooplessPathsAre ==
  ASSUME NEW q \in Queries
  PROVE  LET s == LooplessPaths(q.graph, q.policy.maxHops)
         IN  /\ s[0] = 1
             /\ \A h \in 1 .. q.policy.maxHops : s[h] = s[h - 1] * Branches(q, h - 1)
             /\ \A h \in 0 .. q.policy.maxHops : s[h] \in Nat
<1> DEFINE H == q.policy.maxHops
           s == LooplessPaths(q.graph, H)
           P == ParallelEdgeFactor(q.graph)
           a == [i \in 1 .. H |-> Branches(q, i - 1)]
           d == [i \in 1 .. H |-> 0]
           Is(f) == f = [h \in 0 .. H |-> IF h = 0 THEN 1 ELSE f[h - 1] * (Others(h - 1) * P)]
<1>1. H \in Nat
  BY QueryTypes
<1>2. \A i \in 1 .. H : i - 1 \in 0 .. H
  BY <1>1
<1>3. a \in [1 .. H -> Nat] /\ d \in [1 .. H -> Nat]
  BY <1>2, BranchTypes
<1>4. PICK f \in [0 .. H -> Nat] : f[0] = 1 /\ \A i \in 1 .. H : f[i] = f[i - 1] * a[i] + d[i]
  <2>1. 1 \in Nat
    OBVIOUS
  <2> HIDE DEF H, a, d
  <2> QED BY <1>1, <1>3, <2>1, Recurrence, Zenon
<1>5. Is(f)
  <2>1. ASSUME NEW h \in 0 .. H PROVE f[h] = IF h = 0 THEN 1 ELSE f[h - 1] * (Others(h - 1) * P)
    <3>1. CASE h = 0
      BY <1>4, <3>1
    <3>2. CASE h # 0
      <4>1. h \in 1 .. H /\ h - 1 \in 0 .. H
        BY <1>1, <3>2
      <4>2. f[h] = f[h - 1] * a[h] + d[h] /\ a[h] = Others(h - 1) * P /\ d[h] = 0
        BY <1>4, <4>1 DEF Branches
      <4>3. f[h - 1] \in Nat /\ a[h] \in Nat
        BY <1>3, <1>4, <4>1
      <4>4. f[h - 1] * a[h] \in Nat
        BY <4>3
      <4>5. f[h] = f[h - 1] * a[h]
        <5> HIDE DEF a, d
        <5> QED BY <4>2, <4>4
      <4> QED BY <3>2, <4>2, <4>5
    <3> QED BY <3>1, <3>2
  <2> HIDE DEF H, P
  <2> QED BY <1>4, <2>1
<1>6. s = CHOOSE f_ : Is(f_)
  BY DEF LooplessPaths
<1>7. Is(s)
  <2> HIDE DEF s, Is
  <2> QED BY <1>5, <1>6
<1>8. s[0] = 1 /\ \A h \in 1 .. H : s[h] = s[h - 1] * Branches(q, h - 1)
  <2> HIDE DEF s, H
  <2>1. 0 \in 0 .. H /\ \A h \in 1 .. H : h \in 0 .. H /\ h # 0
    BY <1>1
  <2> QED BY <1>7, <2>1 DEF Branches
<1>9. \A h \in 0 .. H : s[h] \in Nat
  <2>1. \A i \in 1 .. H : s[i] = s[i - 1] * a[i]
    BY <1>8
  <2>2. ASSUME NEW i \in 0 .. H PROVE i \in {j \in 0 .. H : s[j] \in Nat}
    <3> DEFINE S == {j \in 0 .. H : s[j] \in Nat}
    <3>1. 0 \in S
      BY <1>1, <1>8
    <3>2. ASSUME NEW j \in 1 .. H, j - 1 \in S PROVE j \in S
      <4>1. s[j - 1] \in Nat /\ a[j] \in Nat /\ j \in 0 .. H
        BY <1>3, <3>2
      <4>2. s[j] = s[j - 1] * a[j]
        BY <2>1
      <4>3. s[j] \in Nat
        <5> HIDE DEF s, a
        <5> QED BY <4>1, <4>2
      <4> QED BY <4>1, <4>3
    <3> HIDE DEF S
    <3>3. \A j \in 0 .. H : j \in S
      BY <1>1, <3>1, <3>2, UpTo
    <3> QED BY <3>3 DEF S
  <2> QED BY <2>2
<1> QED BY <1>8, <1>9

LEMMA StatesAreTotals ==
  ASSUME NEW q \in Queries
  PROVE  \E t :
           /\ SimplePathStates(q.graph, q.policy.maxHops) = t[q.policy.maxHops]
           /\ t[0] = 1
           /\ \A h \in 1 .. q.policy.maxHops :
                t[h] = t[h - 1] + LooplessPaths(q.graph, q.policy.maxHops)[h]
           /\ \A h \in 0 .. q.policy.maxHops : t[h] \in Nat
<1> DEFINE H == q.policy.maxHops
           s == LooplessPaths(q.graph, H)
           a == [i \in 1 .. H |-> 1]
           d == [i \in 1 .. H |-> s[i]]
           Is(f) == f = [h \in 0 .. H |-> IF h = 0 THEN 1 ELSE f[h - 1] + s[h]]
           t == CHOOSE f : Is(f)
<1>1. H \in Nat /\ \A i \in 0 .. H : s[i] \in Nat
  BY QueryTypes, LooplessPathsAre
<1>2. \A i \in 1 .. H : i \in 0 .. H
  BY <1>1
<1>3. a \in [1 .. H -> Nat] /\ d \in [1 .. H -> Nat]
  BY <1>1, <1>2
<1>4. PICK f \in [0 .. H -> Nat] : f[0] = 1 /\ \A i \in 1 .. H : f[i] = f[i - 1] * a[i] + d[i]
  <2>1. 1 \in Nat
    OBVIOUS
  <2> HIDE DEF H, a, d
  <2> QED BY <1>1, <1>3, <2>1, Recurrence, Zenon
<1>5. Is(f)
  <2>1. ASSUME NEW h \in 0 .. H PROVE f[h] = IF h = 0 THEN 1 ELSE f[h - 1] + s[h]
    <3>1. CASE h = 0
      BY <1>4, <3>1
    <3>2. CASE h # 0
      <4>1. h \in 1 .. H /\ h - 1 \in 0 .. H
        BY <1>1, <3>2
      <4>2. f[h] = f[h - 1] * a[h] + d[h] /\ a[h] = 1 /\ d[h] = s[h]
        BY <1>4, <4>1
      <4>3. f[h - 1] \in Nat
        BY <1>4, <4>1
      <4>4. f[h - 1] * 1 = f[h - 1]
        BY <4>3
      <4> QED BY <3>2, <4>2, <4>4
    <3> QED BY <3>1, <3>2
  <2> HIDE DEF H, s
  <2> QED BY <1>4, <2>1
<1>6. SimplePathStates(q.graph, H) = t[H]
  BY DEF SimplePathStates
<1>7. Is(t)
  <2> HIDE DEF Is
  <2> QED BY <1>5
<1> HIDE DEF t
<1>8. t[0] = 1 /\ \A h \in 1 .. H : t[h] = t[h - 1] + s[h]
  <2> HIDE DEF s, H
  <2>1. 0 \in 0 .. H /\ \A h \in 1 .. H : h \in 0 .. H /\ h # 0
    BY <1>1
  <2> QED BY <1>7, <2>1
<1>9. \A h \in 0 .. H : t[h] \in Nat
  <2> DEFINE S == {j \in 0 .. H : t[j] \in Nat}
  <2>1. 0 \in S
    BY <1>1, <1>8
  <2>2. ASSUME NEW j \in 1 .. H, j - 1 \in S PROVE j \in S
    <3>1. t[j - 1] \in Nat /\ s[j] \in Nat /\ j \in 0 .. H
      BY <1>1, <1>2, <2>2
    <3>2. t[j] = t[j - 1] + s[j]
      BY <1>8
    <3> HIDE DEF s
    <3> QED BY <3>1, <3>2
  <2> HIDE DEF S
  <2>3. \A j \in 0 .. H : j \in S
    BY <1>1, <2>1, <2>2, UpTo
  <2> QED BY <2>3 DEF S
<1> QED BY <1>6, <1>8, <1>9

\* The certificate's bound is the number of states below an origin.
LEMMA BoundIsBelow ==
  ASSUME NEW q \in Queries
  PROVE  SimplePathStates(q.graph, q.policy.maxHops) = Below(q)[q.policy.maxHops]
<1> DEFINE H == q.policy.maxHops
           s == LooplessPaths(q.graph, H)
           W == Below(q)
<1>1. H \in Nat
  BY QueryTypes
<1>2. /\ s[0] = 1 /\ \A h \in 1 .. H : s[h] = s[h - 1] * Branches(q, h - 1)
      /\ \A h \in 0 .. H : s[h] \in Nat
  BY LooplessPathsAre
<1>3. PICK t :
        /\ SimplePathStates(q.graph, H) = t[H] /\ t[0] = 1
        /\ \A h \in 1 .. H : t[h] = t[h - 1] + s[h]
        /\ \A h \in 0 .. H : t[h] \in Nat
  BY StatesAreTotals
<1>4. /\ \A i \in 0 .. H : W[i] \in Nat
      /\ W[0] = 1 /\ \A i \in 1 .. H : W[i] = W[i - 1] * Branches(q, H - i) + 1
  BY BelowGrows
<1> DEFINE S == {h \in 0 .. H : t[h] + s[h] * (W[H - h] - 1) = W[H]}
<1> HIDE DEF s, W
<1>5. 0 \in S
  <2>1. H - 0 = H /\ 0 \in 0 .. H /\ W[H] \in Nat
    BY <1>1, <1>4
  <2>2. 1 + 1 * (W[H] - 1) = W[H]
    BY <2>1
  <2> QED BY <1>2, <1>3, <2>1, <2>2
<1>6. ASSUME NEW h \in 1 .. H, h - 1 \in S PROVE h \in S
  <2> DEFINE i == H - (h - 1)
  <2>1. /\ i \in 1 .. H /\ i - 1 = H - h /\ H - i = h - 1 /\ h \in 0 .. H /\ H - h \in 0 .. H
        /\ i \in 0 .. H /\ h - 1 \in 0 .. H
    BY <1>1
  <2>2. t[h - 1] + s[h - 1] * (W[i] - 1) = W[H]
    BY <1>6
  <2>3. W[i] = W[H - h] * Branches(q, h - 1) + 1
    BY <1>4, <2>1
  <2>4. s[h] = s[h - 1] * Branches(q, h - 1) /\ t[h] = t[h - 1] + s[h]
    BY <1>2, <1>3
  <2>5. /\ t[h - 1] \in Nat /\ s[h - 1] \in Nat /\ s[h] \in Nat /\ W[H - h] \in Nat /\ W[i] \in Nat
        /\ Branches(q, h - 1) \in Nat /\ W[H] \in Nat
    <3>1. H \in 0 .. H
      BY <1>1
    <3> QED BY <1>2, <1>3, <1>4, <2>1, <3>1, BranchTypes
  <2>6. \A x, b, w \in Nat : x * ((w * b + 1) - 1) = (x * b) * w
    OBVIOUS
  <2>7. \A x, w \in Nat : x + x * (w - 1) = x * w
    OBVIOUS
  <2>8. s[h - 1] * (W[i] - 1) = s[h] * W[H - h]
    BY <2>3, <2>4, <2>5, <2>6
  <2>9. s[h] + s[h] * (W[H - h] - 1) = s[h] * W[H - h]
    BY <2>5, <2>7
  <2> DEFINE x == s[h] * W[H - h]
             y == s[h] * (W[H - h] - 1)
  <2>10. x \in Int /\ y \in Int
    BY <2>5
  <2> HIDE DEF x, y, i
  <2>11. t[h - 1] + x = W[H] /\ s[h] + y = x
    BY <2>2, <2>8, <2>9 DEF x, y
  <2>12. t[h] + y = W[H]
    BY <2>4, <2>5, <2>10, <2>11
  <2> QED BY <2>1, <2>12 DEF y
<1>7. H \in S
  <2> HIDE DEF S, H
  <2>1. H \in 0 .. H
    BY <1>1
  <2> QED BY <1>1, <1>5, <1>6, <2>1, UpTo
<1>8. t[H] = W[H]
  <2>1. H - H = 0 /\ W[0] - 1 = 0 /\ H \in 0 .. H
    BY <1>1, <1>4
  <2>2. t[H] + s[H] * (W[H - H] - 1) = W[H]
    BY <1>7
  <2>3. t[H] \in Nat /\ s[H] \in Nat
    BY <1>2, <1>3, <2>1
  <2>4. s[H] * 0 = 0
    BY <2>3
  <2> QED BY <2>1, <2>2, <2>3, <2>4
<1> QED BY <1>3, <1>8 DEF W

\* What a frame, a call and the origins may still add to the visited states.
Fresh(q, frame) == {e \in frame.left : q.graph.to[e] \notin Visited(frame.path)}

Weight(q, frame) ==
    IF Fresh(q, frame) = {} THEN 0
    ELSE Cardinality(Fresh(q, frame)) * Below(q)[q.policy.maxHops - Len(frame.path.edges) - 1]

CallWeight(q, c) == IF c = None THEN 0 ELSE Below(q)[q.policy.maxHops - Len(c.edges)]

\* The frames may add t states.
Weighs(q, fr, t) ==
    \E f \in [0 .. Len(fr) -> Nat] :
        f[0] = 0 /\ f[Len(fr)] = t /\ \A k \in 1 .. Len(fr) : f[k] = f[k - 1] + Weight(q, fr[k])

\* With n states visited, what may be added stays within the bound.
Room(q, st, c, fr, n) ==
    \E t \in Nat :
        /\ Weighs(q, fr, t)
        /\ n + CallWeight(q, c) + t + Cardinality(st) * Below(q)[q.policy.maxHops]
             <= Cardinality(q.origins) * Below(q)[q.policy.maxHops]

\* Nothing is left when there are no frames.
LEMMA NoFrames ==
  ASSUME NEW q
  PROVE  /\ Weighs(q, <<>>, 0)
         /\ \A t : Weighs(q, <<>>, t) => t = 0
<1>1. Len(<<>>) = 0 /\ \A k \in 1 .. Len(<<>>) : FALSE
  OBVIOUS
<1>2. [i \in 0 .. 0 |-> 0] \in [0 .. 0 -> Nat] /\ [i \in 0 .. 0 |-> 0][0] = 0
  OBVIOUS
<1> QED BY <1>1, <1>2 DEF Weighs

\* A frame more.
LEMMA OneFrameMore ==
  ASSUME NEW q, NEW fr \in Seq(FrameRecords), NEW frame \in FrameRecords, NEW t \in Nat,
         Weighs(q, fr, t), Weight(q, frame) \in Nat
  PROVE  Weighs(q, Append(fr, frame), t + Weight(q, frame))
<1> DEFINE n == Len(fr)
           w == Weight(q, frame)
           fr2 == Append(fr, frame)
<1>1. PICK f \in [0 .. n -> Nat] :
        f[0] = 0 /\ f[n] = t /\ \A k \in 1 .. n : f[k] = f[k - 1] + Weight(q, fr[k])
  BY DEF Weighs
<1> DEFINE g == [k \in 0 .. n + 1 |-> IF k = n + 1 THEN t + w ELSE f[k]]
<1>2. n \in Nat /\ Len(fr2) = n + 1 /\ fr2[n + 1] = frame /\ \A k \in 1 .. n : fr2[k] = fr[k]
  OBVIOUS
<1>3. /\ \A k \in 0 .. n : k \in 0 .. n + 1 /\ k # n + 1
      /\ \A k \in 1 .. n + 1 : k = n + 1 \/ k \in 1 .. n
      /\ \A k \in 1 .. n : k \in 0 .. n /\ k - 1 \in 0 .. n
      /\ (n + 1) - 1 = n /\ 0 \in 0 .. n /\ n \in 0 .. n /\ n + 1 \in 0 .. n + 1
  BY <1>2
<1>4. t + w \in Nat
  OBVIOUS
<1> HIDE DEF n, w, fr2
<1>5. g \in [0 .. n + 1 -> Nat]
  <2>1. \A k \in 0 .. n + 1 : k # n + 1 => k \in 0 .. n
    BY <1>2
  <2> QED BY <1>1, <1>4, <2>1
<1>6. g[0] = 0 /\ g[n + 1] = t + w /\ \A k \in 0 .. n : g[k] = f[k]
  BY <1>1, <1>3
<1> HIDE DEF g
<1>7. \A k \in 1 .. n : g[k] = g[k - 1] + Weight(q, fr2[k])
  BY <1>1, <1>2, <1>3, <1>6
<1>8. g[n + 1] = g[(n + 1) - 1] + Weight(q, fr2[n + 1])
  BY <1>1, <1>2, <1>3, <1>6 DEF w
<1>9. \A k \in 1 .. n + 1 : g[k] = g[k - 1] + Weight(q, fr2[k])
  BY <1>3, <1>7, <1>8
<1> QED BY <1>2, <1>5, <1>6, <1>9 DEF Weighs, fr2, w

\* A frame less.
LEMMA OneFrameLess ==
  ASSUME NEW q, NEW fr \in Seq(FrameRecords), fr # <<>>, NEW t \in Nat, Weighs(q, fr, t)
  PROVE  \E s \in Nat :
           /\ Weighs(q, SubSeq(fr, 1, Len(fr) - 1), s)
           /\ t = s + Weight(q, fr[Len(fr)])
<1> DEFINE n == Len(fr)
           fr2 == SubSeq(fr, 1, n - 1)
<1>1. PICK f \in [0 .. n -> Nat] :
        f[0] = 0 /\ f[n] = t /\ \A k \in 1 .. n : f[k] = f[k - 1] + Weight(q, fr[k])
  BY DEF Weighs
<1>2. n \in Nat /\ n # 0 /\ n - 1 \in 0 .. n
  OBVIOUS
<1>3. Len(fr2) = n - 1 /\ \A k \in 1 .. n - 1 : fr2[k] = fr[k]
  BY <1>2, BeginningOf
<1> DEFINE g == [k \in 0 .. n - 1 |-> f[k]]
<1> HIDE DEF n, fr2
<1>4. /\ \A k \in 0 .. n - 1 : k \in 0 .. n
      /\ \A k \in 1 .. n - 1 : k \in 1 .. n /\ k \in 0 .. n - 1 /\ k - 1 \in 0 .. n - 1
      /\ n - 1 \in 0 .. n - 1 /\ 0 \in 0 .. n - 1 /\ n \in 1 .. n
  BY <1>2
<1>5. g \in [0 .. n - 1 -> Nat] /\ g[0] = 0 /\ g[n - 1] = f[n - 1]
  BY <1>1, <1>4
<1>6. \A k \in 1 .. n - 1 : g[k] = g[k - 1] + Weight(q, fr2[k])
  BY <1>1, <1>3, <1>4
<1>7. Weighs(q, fr2, f[n - 1])
  <2> HIDE DEF g
  <2> QED BY <1>3, <1>5, <1>6 DEF Weighs
<1>8. f[n - 1] \in Nat /\ t = f[n - 1] + Weight(q, fr[n])
  BY <1>1, <1>2, <1>4
<1> QED BY <1>7, <1>8 DEF n, fr2

\* What is below a path that a search may be at.
LEMMA BelowPath ==
  ASSUME NEW q \in Queries, NEW c, Partial(q, c)
  PROVE  /\ Below(q)[q.policy.maxHops - Len(c.edges)] \in Nat
         /\ Below(q)[q.policy.maxHops - Len(c.edges)] >= 1
         /\ Len(c.edges) = q.policy.maxHops => Below(q)[q.policy.maxHops - Len(c.edges)] = 1
         /\ Len(c.edges) < q.policy.maxHops =>
              /\ Below(q)[q.policy.maxHops - Len(c.edges) - 1] \in Nat
              /\ Below(q)[q.policy.maxHops - Len(c.edges)] =
                   Below(q)[q.policy.maxHops - Len(c.edges) - 1] * Branches(q, Len(c.edges)) + 1
<1> DEFINE H == q.policy.maxHops
           n == Len(c.edges)
           W == Below(q)
<1>1. H \in Nat /\ n \in Nat /\ n <= H
  BY QueryTypes, PartialTypes DEF Partial
<1>2. /\ \A i \in 0 .. H : W[i] \in Nat /\ W[i] >= 1
      /\ W[0] = 1 /\ \A i \in 1 .. H : W[i] = W[i - 1] * Branches(q, H - i) + 1
  BY BelowGrows
<1> HIDE DEF H, n, W
<1>3. H - n \in 0 .. H /\ (n = H => H - n = 0)
  BY <1>1
<1>4. ASSUME n < H PROVE H - n \in 1 .. H /\ (H - n) - 1 \in 0 .. H /\ H - (H - n) = n
  BY <1>1, <1>4
<1>5. ASSUME n < H PROVE W[H - n - 1] \in Nat /\ W[H - n] = W[H - n - 1] * Branches(q, n) + 1
  BY <1>2, <1>4, <1>5
<1> QED BY <1>2, <1>3, <1>5 DEF H, n, W

\* The edges that go on from a path are at most as many as the bound counts.
LEMMA FewFresh ==
  ASSUME NEW q \in Queries, NEW c, Partial(q, c)
  PROVE  Cardinality(Into(q.graph, End(c), Vertices \ Visited(c))) <= Branches(q, Len(c.edges))
<1> DEFINE n == Len(c.edges)
           V == Visited(c)
<1>1. /\ n \in Nat /\ Len(c.vertices) = n + 1 /\ c.vertices \in Seq(Vertices)
      /\ \A i \in 1 .. n + 1 : c.vertices[i] \in Vertices
  BY PartialTypes
<1>2. IsFiniteSet(Vertices) /\ Cardinality(Vertices) \in Nat
  BY EnumerationAssumption, FS_CardinalityType
<1>3. V \in SUBSET Vertices
  BY <1>1 DEF Visited
<1>4. IsFiniteSet(V) /\ Cardinality(V) \in Nat /\ Cardinality(V) <= Cardinality(Vertices)
  BY <1>2, <1>3, FS_Subset, FS_CardinalityType
<1>5. Cardinality(V) = n + 1
  <2> DEFINE f == [i \in 1 .. n + 1 |-> c.vertices[i]]
  <2>1. \A i, j \in 1 .. n + 1 : c.vertices[i] = c.vertices[j] => i = j
    BY <1>1 DEF Partial
  <2>2. f \in Bijection(1 .. n + 1, V)
    <3>1. f \in [1 .. n + 1 -> V]
      BY <1>1 DEF Visited
    <3>2. \A v \in V : \E i \in 1 .. n + 1 : f[i] = v
      BY <1>1 DEF Visited
    <3> QED BY <2>1, <3>1, <3>2, Fun_IsBij
  <2>4. ExistsBijection(1 .. n + 1, V)
    BY <2>2 DEF ExistsBijection
  <2>3. IsFiniteSet(1 .. n + 1) /\ Cardinality(1 .. n + 1) = n + 1
    <3>1. 1 \in Int /\ n + 1 \in Int /\ ~(1 > n + 1) /\ (n + 1) - 1 + 1 = n + 1
      BY <1>1
    <3> QED BY <3>1, FS_Interval
  <2> HIDE DEF f
  <2> QED BY <2>3, <2>4, FS_Bijection
<1>6. IsFiniteSet(Vertices \ V) /\ Cardinality(Vertices \ V) = Others(n)
  <2>1. Vertices \cap V = V
    BY <1>3
  <2>2. IsFiniteSet(Vertices \ V) /\ Cardinality(Vertices \ V) = Cardinality(Vertices) - Cardinality(V)
    BY <1>2, <2>1, FS_Difference
  <2> HIDE DEF V, n
  <2>3. Others(n) = Cardinality(Vertices) - (n + 1)
    BY <1>1, <1>2, <1>4, <1>5 DEF Others
  <2> QED BY <1>5, <2>2, <2>3
<1>7. Others(n) \in Nat
  BY <1>6, FS_CardinalityType
<1> HIDE DEF V, n
<1>8. Cardinality(Into(q.graph, End(c), Vertices \ V)) <= Others(n) * ParallelEdgeFactor(q.graph)
  BY <1>6, <1>7, FewEdges
<1> QED BY <1>8 DEF Branches, V, n

\* What a frame may add is a number; nothing, if it has tried all edges.
LEMMA WeightTypes ==
  ASSUME NEW q \in Queries, NEW frame \in FrameRecords, Resting(q, frame)
  PROVE  /\ Weight(q, frame) \in Nat
         /\ IsFiniteSet(Fresh(q, frame)) /\ Cardinality(Fresh(q, frame)) \in Nat
         /\ frame.left = {} => Weight(q, frame) = 0
<1>1. frame.left \in SUBSET Edges /\ Partial(q, frame.path)
  BY DEF FrameRecords, Resting
<1>2. Fresh(q, frame) \in SUBSET Edges
  BY <1>1 DEF Fresh
<1>3. IsFiniteSet(Fresh(q, frame)) /\ Cardinality(Fresh(q, frame)) \in Nat
  BY <1>2, EnumerationAssumption, FS_Subset, FS_CardinalityType
<1>4. CASE Fresh(q, frame) = {}
  BY <1>3, <1>4 DEF Weight
<1>5. CASE Fresh(q, frame) # {}
  <2>1. PICK e \in frame.left : TRUE
    BY <1>5 DEF Fresh
  <2>2. Len(frame.path.edges) < q.policy.maxHops
    BY <2>1 DEF Resting
  <2>3. Below(q)[q.policy.maxHops - Len(frame.path.edges) - 1] \in Nat
    BY <1>1, <2>2, BelowPath
  <2>4. Cardinality(Fresh(q, frame)) * Below(q)[q.policy.maxHops - Len(frame.path.edges) - 1] \in Nat
    BY <1>3, <2>3
  <2> QED BY <1>3, <1>5, <2>1, <2>4 DEF Weight
<1> QED BY <1>4, <1>5

\* A frame adds as much as the path it has come to, but for the state that was
\* just visited.
LEMMA FrameOfCall ==
  ASSUME NEW q \in Queries, NEW c, Partial(q, c), c # None, NEW frame \in FrameRecords,
         Resting(q, frame), frame.path = c
  PROVE  Weight(q, frame) + 1 <= CallWeight(q, c) /\ CallWeight(q, c) \in Nat
<1> DEFINE H == q.policy.maxHops
           n == Len(c.edges)
           F == Fresh(q, frame)
<1>1. CallWeight(q, c) = Below(q)[H - n] /\ Below(q)[H - n] \in Nat /\ Below(q)[H - n] >= 1
  BY BelowPath DEF CallWeight
<1>2. CASE F = {}
  <2>1. Weight(q, frame) = 0
    BY <1>2 DEF Weight
  <2> HIDE DEF H, n
  <2> QED BY <1>1, <2>1
<1>3. CASE F # {}
  <2>1. PICK e \in frame.left : TRUE
    BY <1>3 DEF Fresh
  <2>2. n < H
    BY <2>1 DEF Resting
  <2> DEFINE w == Below(q)[H - n - 1]
             b == Branches(q, n)
             k == Cardinality(F)
  <2>3. w \in Nat /\ Below(q)[H - n] = w * b + 1
    BY <2>2, BelowPath
  <2>4. Weight(q, frame) = k * w
    BY <1>3 DEF Weight
  <2>5. F \subseteq Into(q.graph, End(c), Vertices \ Visited(c))
    <3>1. q.graph.to \in [Edges -> Vertices]
      BY QueryTypes
    <3>2. frame.left \subseteq Edges
      BY DEF FrameRecords
    <3> QED BY <3>1, <3>2 DEF Fresh, Into, Resting
  <2>6. k \in Nat /\ k <= Cardinality(Into(q.graph, End(c), Vertices \ Visited(c)))
        /\ Cardinality(Into(q.graph, End(c), Vertices \ Visited(c))) \in Nat
    <3>1. IsFiniteSet(Into(q.graph, End(c), Vertices \ Visited(c)))
      <4>1. Into(q.graph, End(c), Vertices \ Visited(c)) \in SUBSET Edges
        BY DEF Into
      <4> QED BY <4>1, EnumerationAssumption, FS_Subset
    <3> QED BY <2>5, <3>1, FS_Subset, FS_CardinalityType
  <2>7. Cardinality(Into(q.graph, End(c), Vertices \ Visited(c))) <= b
    BY FewFresh
  <2>8. b \in Nat
    <3>1. n \in 0 .. H
      BY <2>2, QueryTypes, PartialTypes
    <3> QED BY <3>1, BranchTypes
  <2>9. k <= b
    <3> HIDE DEF k, b
    <3> QED BY <2>6, <2>7, <2>8
  <2>10. \A x, y, z \in Nat : x <= y => x * z <= z * y
    OBVIOUS
  <2>11. k * w <= w * b /\ k * w \in Nat /\ w * b \in Nat
    <3> HIDE DEF k, w, b
    <3> QED BY <2>3, <2>6, <2>8, <2>9, <2>10
  <2> DEFINE x == k * w
             y == w * b
  <2>12. x <= y /\ x \in Nat /\ y \in Nat /\ Weight(q, frame) = x /\ CallWeight(q, c) = y + 1
    BY <1>1, <2>3, <2>4, <2>11
  <2> HIDE DEF x, y
  <2> QED BY <2>12
<1> QED BY <1>2, <1>3

\* The origins leave room for what is below each of them.
LEMMA RoomFirst ==
  ASSUME NEW q \in Queries
  PROVE  Room(q, q.origins, None, <<>>, 0)
<1> DEFINE W == Below(q)[q.policy.maxHops]
           k == Cardinality(q.origins)
<1>1. k \in Nat /\ W \in Nat
  <2>1. q.policy.maxHops \in 0 .. q.policy.maxHops /\ q.origins \in SUBSET Vertices
    BY QueryTypes
  <2>2. IsFiniteSet(q.origins)
    BY <2>1, EnumerationAssumption, FS_Subset
  <2> QED BY <2>1, <2>2, BelowGrows, FS_CardinalityType
<1> HIDE DEF W, k
<1>2. k * W \in Nat
  BY <1>1
<1>3. 0 + 0 + 0 + k * W <= k * W
  BY <1>2
<1> QED BY <1>3, NoFrames DEF Room, CallWeight, W, k

\* An origin is visited.
LEMMA RoomOrigin ==
  ASSUME NEW q \in Queries, NEW st \in SUBSET q.origins, NEW n \in Nat,
         Room(q, st, None, <<>>, n), NEW s, s \in st,
         NEW c, c # None, c.edges = <<>>
  PROVE  Room(q, st \ {s}, c, <<>>, n)
<1> DEFINE W == Below(q)[q.policy.maxHops]
           total == Cardinality(q.origins) * W
           k == Cardinality(st)
<1>1. /\ IsFiniteSet(st) /\ k \in Nat /\ W \in Nat /\ q.policy.maxHops \in Nat
      /\ Cardinality(q.origins) \in Nat
  <2>1. q.policy.maxHops \in 0 .. q.policy.maxHops /\ q.origins \in SUBSET Vertices
    BY QueryTypes
  <2>2. IsFiniteSet(q.origins)
    BY <2>1, EnumerationAssumption, FS_Subset
  <2> QED BY <2>1, <2>2, BelowGrows, FS_Subset, FS_CardinalityType, QueryTypes
<1>2. Cardinality(st \ {s}) = k - 1
  BY <1>1, FS_RemoveElement
<1>3. CallWeight(q, c) = W
  <2>1. Len(c.edges) = 0 /\ q.policy.maxHops - 0 = q.policy.maxHops
    BY <1>1
  <2> QED BY <2>1 DEF CallWeight
<1>4. CallWeight(q, None) = 0
  BY DEF CallWeight
<1>5. n + 0 + 0 + k * W <= total
  BY <1>4, NoFrames DEF Room
<1>6. k - 1 \in Nat
  BY <1>2, <1>1, FS_Subset, FS_CardinalityType
<1>7. \A x, w \in Nat : x * w = w + (x - 1) * w
  OBVIOUS
<1>8. k * W = W + (k - 1) * W /\ k * W \in Nat /\ (k - 1) * W \in Nat /\ total \in Nat
  <2> HIDE DEF k, W
  <2>1. total \in Nat
    BY <1>1
  <2> QED BY <1>1, <1>6, <1>7, <2>1
<1> DEFINE x == k * W
           y == (k - 1) * W
<1> HIDE DEF W, total, k, x, y
<1>9. n + W + 0 + y <= total
  <2>1. x = W + y /\ x \in Nat /\ y \in Nat /\ total \in Nat /\ n + 0 + 0 + x <= total
    BY <1>5, <1>8 DEF x, y
  <2> QED BY <1>1, <2>1
<1>10. Weighs(q, <<>>, 0)
  BY NoFrames
<1>11. n + CallWeight(q, c) + 0 + Cardinality(st \ {s}) * W <= total
  BY <1>2, <1>3, <1>9 DEF y
<1> QED BY <1>10, <1>11 DEF Room, W, total

\* What the origins add, and the bound, are numbers.
LEMMA OriginNumbers ==
  ASSUME NEW q \in Queries, NEW st \in SUBSET q.origins
  PROVE  /\ Cardinality(st) * Below(q)[q.policy.maxHops] \in Nat
         /\ Cardinality(q.origins) * Below(q)[q.policy.maxHops] \in Nat
<1>1. q.policy.maxHops \in 0 .. q.policy.maxHops /\ q.origins \in SUBSET Vertices
  BY QueryTypes
<1>2. IsFiniteSet(q.origins) /\ IsFiniteSet(st)
  BY <1>1, EnumerationAssumption, FS_Subset
<1>3. /\ Cardinality(q.origins) \in Nat /\ Cardinality(st) \in Nat
      /\ Below(q)[q.policy.maxHops] \in Nat
  BY <1>1, <1>2, BelowGrows, FS_CardinalityType
<1>4. \A x, y \in Nat : x * y \in Nat
  OBVIOUS
<1> QED BY <1>3, <1>4

\* A step adds no more than what it takes away.
LEMMA RoomExchange ==
  ASSUME NEW q \in Queries, NEW st \in SUBSET q.origins, NEW n \in Nat,
         NEW c, NEW t \in Nat, CallWeight(q, c) \in Nat,
         n + CallWeight(q, c) + t + Cardinality(st) * Below(q)[q.policy.maxHops]
           <= Cardinality(q.origins) * Below(q)[q.policy.maxHops],
         NEW c2, NEW fr2, NEW t2 \in Nat, NEW m \in Nat, Weighs(q, fr2, t2),
         CallWeight(q, c2) \in Nat,
         m + CallWeight(q, c2) + t2 <= n + CallWeight(q, c) + t
  PROVE  Room(q, st, c2, fr2, m)
<1> DEFINE x == Cardinality(st) * Below(q)[q.policy.maxHops]
           y == Cardinality(q.origins) * Below(q)[q.policy.maxHops]
           a == CallWeight(q, c)
           b == CallWeight(q, c2)
<1>1. x \in Nat /\ y \in Nat
  BY OriginNumbers
<1>2. m + b + t2 + x <= y
  <2>1. a \in Nat /\ b \in Nat /\ n + a + t + x <= y /\ m + b + t2 <= n + a + t
    OBVIOUS
  <2> HIDE DEF x, y, a, b
  <2> QED BY <1>1, <2>1
<1> QED BY <1>2 DEF Room

LEMMA CallTypes ==
  ASSUME NEW q \in Queries, NEW c, c # None => Partial(q, c)
  PROVE  CallWeight(q, c) \in Nat /\ (c # None => CallWeight(q, c) >= 1) /\ (c = None => CallWeight(q, c) = 0)
<1>1. CASE c = None
  BY <1>1 DEF CallWeight
<1>2. CASE c # None
  BY <1>2, BelowPath DEF CallWeight
<1> QED BY <1>1, <1>2

\* A target is visited.
LEMMA RoomTarget ==
  ASSUME NEW q \in Queries, NEW st, NEW c, NEW fr, Stack(q, st, c, fr), c # None,
         NEW n \in Nat, Room(q, st, c, fr, n)
  PROVE  Room(q, st, None, fr, n + 1)
<1>1. st \in SUBSET q.origins /\ Partial(q, c)
  BY DEF Stack
<1>2. PICK t \in Nat :
        /\ Weighs(q, fr, t)
        /\ n + CallWeight(q, c) + t + Cardinality(st) * Below(q)[q.policy.maxHops]
             <= Cardinality(q.origins) * Below(q)[q.policy.maxHops]
  BY DEF Room
<1>3. CallWeight(q, c) \in Nat /\ CallWeight(q, c) >= 1 /\ CallWeight(q, None) = 0
  BY <1>1, CallTypes DEF CallWeight
<1>4. n + 1 \in Nat /\ (n + 1) + CallWeight(q, None) + t <= n + CallWeight(q, c) + t
  BY <1>2, <1>3
<1>5. CallWeight(q, None) \in Nat
  BY <1>3
<1> QED BY <1>1, <1>2, <1>3, <1>4, <1>5, RoomExchange

\* A vertex that is no target is visited.
LEMMA RoomInner ==
  ASSUME NEW q \in Queries, NEW st, NEW c, NEW fr, Stack(q, st, c, fr), c # None,
         NEW n \in Nat, Room(q, st, c, fr, n), NEW frame \in FrameRecords,
         Resting(q, frame), frame.path = c
  PROVE  Room(q, st, None, Append(fr, frame), n + 1)
<1>1. st \in SUBSET q.origins /\ Partial(q, c) /\ fr \in Seq(FrameRecords)
  BY DEF Stack
<1>2. PICK t \in Nat :
        /\ Weighs(q, fr, t)
        /\ n + CallWeight(q, c) + t + Cardinality(st) * Below(q)[q.policy.maxHops]
             <= Cardinality(q.origins) * Below(q)[q.policy.maxHops]
  BY DEF Room
<1>3. Weight(q, frame) \in Nat
  BY WeightTypes
<1>4. Weight(q, frame) + 1 <= CallWeight(q, c) /\ CallWeight(q, c) \in Nat
  BY <1>1, FrameOfCall
<1>5. CallWeight(q, None) = 0 /\ CallWeight(q, None) \in Nat
  BY DEF CallWeight
<1>6. Weighs(q, Append(fr, frame), t + Weight(q, frame))
  BY <1>1, <1>2, <1>3, OneFrameMore
<1> DEFINE t2 == t + Weight(q, frame)
           m == n + 1
<1>7. t2 \in Nat /\ m \in Nat /\ m + CallWeight(q, None) + t2 <= n + CallWeight(q, c) + t
  BY <1>2, <1>3, <1>4, <1>5
<1> HIDE DEF t2, m
<1>8. Weighs(q, Append(fr, frame), t2)
  BY <1>6 DEF t2
<1>9. Room(q, st, None, Append(fr, frame), m)
  BY <1>1, <1>2, <1>4, <1>5, <1>7, <1>8, RoomExchange
<1> QED BY <1>9 DEF m

\* A frame has tried all edges.
LEMMA RoomReturn ==
  ASSUME NEW q \in Queries, NEW st, NEW fr, Stack(q, st, None, fr), fr # <<>>,
         fr[Len(fr)].left = {}, NEW n \in Nat, Room(q, st, None, fr, n)
  PROVE  Room(q, st, None, SubSeq(fr, 1, Len(fr) - 1), n)
<1>1. st \in SUBSET q.origins /\ fr \in Seq(FrameRecords) /\ Len(fr) \in 1 .. Len(fr)
  BY DEF Stack
<1>2. PICK t \in Nat :
        /\ Weighs(q, fr, t)
        /\ n + CallWeight(q, None) + t + Cardinality(st) * Below(q)[q.policy.maxHops]
             <= Cardinality(q.origins) * Below(q)[q.policy.maxHops]
  BY DEF Room
<1>3. fr[Len(fr)] \in FrameRecords /\ Resting(q, fr[Len(fr)])
  BY <1>1 DEF Stack
<1>4. Weight(q, fr[Len(fr)]) = 0
  BY <1>3, WeightTypes
<1>5. PICK s \in Nat : Weighs(q, SubSeq(fr, 1, Len(fr) - 1), s) /\ t = s + Weight(q, fr[Len(fr)])
  BY <1>1, <1>2, OneFrameLess
<1>6. s = t
  BY <1>4, <1>5
<1> QED BY <1>2, <1>5, <1>6 DEF Room

\* The search is given up.
LEMMA RoomGivenUp ==
  ASSUME NEW q \in Queries, NEW st, NEW c, NEW fr, Stack(q, st, c, fr),
         NEW n \in Nat, Room(q, st, c, fr, n)
  PROVE  Room(q, st, None, <<>>, n)
<1>1. st \in SUBSET q.origins /\ (c # None => Partial(q, c))
  BY DEF Stack
<1>2. PICK t \in Nat :
        /\ Weighs(q, fr, t)
        /\ n + CallWeight(q, c) + t + Cardinality(st) * Below(q)[q.policy.maxHops]
             <= Cardinality(q.origins) * Below(q)[q.policy.maxHops]
  BY DEF Room
<1>3. CallWeight(q, c) \in Nat
  BY <1>1, CallTypes
<1>4. CallWeight(q, None) = 0 /\ CallWeight(q, None) \in Nat /\ 0 \in Nat
  BY DEF CallWeight
<1>5. n + CallWeight(q, None) + 0 <= n + CallWeight(q, c) + t
  BY <1>2, <1>3, <1>4
<1> QED BY <1>1, <1>2, <1>3, <1>4, <1>5, NoFrames, RoomExchange

\* The search tries an edge.
LEMMA TriedWeighs ==
  ASSUME NEW q \in Queries, NEW frame \in FrameRecords, Resting(q, frame), NEW e, e \in frame.left,
         NEW rest \in FrameRecords, rest.path = frame.path, rest.left = frame.left \ {e}
  PROVE  /\ Weight(q, rest) \in Nat /\ Weight(q, frame) \in Nat
         /\ CallWeight(q, Onward(q, frame.path, e)) \in Nat
         /\ CallWeight(q, Onward(q, frame.path, e)) + Weight(q, rest) <= Weight(q, frame)
<1> DEFINE H == q.policy.maxHops
           n == Len(frame.path.edges)
           w == Below(q)[H - n - 1]
           F == Fresh(q, frame)
           G == Fresh(q, rest)
           c == Onward(q, frame.path, e)
<1>1. /\ Partial(q, frame.path) /\ End(frame.path) \notin q.targets /\ n < H
      /\ q.graph.from[e] = End(frame.path) /\ e \in Edges
  BY DEF Resting, FrameRecords
<1>2. H \in Nat /\ n \in Nat /\ frame.path.edges \in Seq(Edges)
  BY <1>1, QueryTypes, PartialTypes
<1>3. w \in Nat
  BY <1>1, BelowPath
<1>4. Resting(q, rest)
  BY DEF Resting
<1>5. /\ Weight(q, rest) \in Nat /\ Weight(q, frame) \in Nat
      /\ IsFiniteSet(F) /\ IsFiniteSet(G) /\ Cardinality(F) \in Nat /\ Cardinality(G) \in Nat
  BY <1>4, WeightTypes
<1>6. G = F \ {e}
  BY DEF Fresh
<1>7. Weight(q, frame) = Cardinality(F) * w /\ Weight(q, rest) = Cardinality(G) * w
  <2>1. 0 * w = 0 /\ Cardinality({}) = 0
    BY <1>3, FS_EmptySet
  <2>2. Weight(q, frame) = IF F = {} THEN 0 ELSE Cardinality(F) * w
    BY DEF Weight
  <2>3. Weight(q, rest) = IF G = {} THEN 0 ELSE Cardinality(G) * w
    BY DEF Weight
  <2> HIDE DEF F, G, w
  <2> QED BY <2>1, <2>2, <2>3
<1>8. CASE Allowed(q, frame.path, e)
  <2>1. e \in F
    BY <1>8 DEF Allowed, Fresh
  <2>2. Cardinality(G) = Cardinality(F) - 1
    BY <1>5, <1>6, <2>1, FS_RemoveElement
  <2>3. c = Longer(q, frame.path, e)
    BY <1>8 DEF Onward
  <2>4. Partial(q, Longer(q, frame.path, e))
    BY <1>1, <1>8, LongerIsPartial DEF Allowed
  <2>5. c # None /\ Len(c.edges) = n + 1
    <3>1. Longer(q, frame.path, e) # None
      BY <2>4, EnumerationAssumption DEF Partial
    <3>2. Longer(q, frame.path, e).edges = Append(frame.path.edges, e)
      BY DEF Longer
    <3>3. Len(Append(frame.path.edges, e)) = n + 1
      BY <1>1, <1>2
    <3> QED BY <2>3, <3>1, <3>2, <3>3
  <2>6. CallWeight(q, c) = w
    <3>1. H - (n + 1) = H - n - 1
      BY <1>2
    <3> QED BY <2>5, <3>1 DEF CallWeight
  <2>7. \A k, x \in Nat : k - 1 \in Nat => x + (k - 1) * x = k * x
    OBVIOUS
  <2>8. w + Cardinality(G) * w = Cardinality(F) * w
    <3> HIDE DEF w, F, G
    <3> QED BY <1>3, <1>5, <2>2, <2>7
  <2> HIDE DEF w, F, G, c
  <2>9. CallWeight(q, c) + Weight(q, rest) = Weight(q, frame) /\ CallWeight(q, c) \in Nat
    BY <1>3, <1>7, <2>6, <2>8
  <2>10. CallWeight(q, c) + Weight(q, rest) <= Weight(q, frame)
    BY <1>5, <2>9
  <2> QED BY <1>5, <2>9, <2>10 DEF c
<1>9. CASE ~Allowed(q, frame.path, e)
  <2>1. CallWeight(q, c) = 0
    BY <1>9 DEF Onward, CallWeight
  <2>2. Cardinality(G) <= Cardinality(F)
    BY <1>5, <1>6, FS_Subset
  <2>3. \A x, y, z \in Nat : x <= y => x * z <= y * z
    OBVIOUS
  <2>4. Cardinality(G) * w <= Cardinality(F) * w
    <3> HIDE DEF w, F, G
    <3> QED BY <1>3, <1>5, <2>2, <2>3
  <2> HIDE DEF w, F, G, c
  <2>5. CallWeight(q, c) + Weight(q, rest) <= Weight(q, frame) /\ CallWeight(q, c) \in Nat
    BY <1>5, <1>7, <2>1, <2>4
  <2> QED BY <1>5, <2>5 DEF c
<1> QED BY <1>8, <1>9

\* The frames below the last are left alone.
LEMMA TriedFrames ==
  ASSUME NEW fr \in Seq(FrameRecords), fr # <<>>, NEW e
  PROVE  LET rest == [path |-> fr[Len(fr)].path, left |-> fr[Len(fr)].left \ {e}]
         IN  /\ rest \in FrameRecords
             /\ SubSeq(fr, 1, Len(fr) - 1) \in Seq(FrameRecords)
             /\ Tried(fr, e) = Append(SubSeq(fr, 1, Len(fr) - 1), rest)
<1> DEFINE n == Len(fr)
           old == fr[n]
           rest == [path |-> old.path, left |-> old.left \ {e}]
           below == SubSeq(fr, 1, n - 1)
<1>1. n \in Nat /\ n # 0 /\ n \in 1 .. n /\ n - 1 \in 0 .. n /\ old \in FrameRecords
      /\ fr \in [1 .. n -> FrameRecords]
  OBVIOUS
<1>2. rest \in FrameRecords
  <2> HIDE DEF old
  <2> QED BY <1>1 DEF FrameRecords
<1>3. below \in Seq(FrameRecords) /\ Len(below) = n - 1 /\ \A i \in 1 .. n - 1 : below[i] = fr[i]
  BY <1>1, BeginningOf
<1>4. [old EXCEPT !.left = old.left \ {e}] = rest
  <2>1. \A a \in FrameRecords : \A L : [a EXCEPT !.left = L] = [path |-> a.path, left |-> L]
    BY DEF FrameRecords
  <2> HIDE DEF old
  <2> QED BY <1>1, <2>1
<1>5. Tried(fr, e) = [fr EXCEPT ![n] = rest]
  <2>1. Tried(fr, e) = [fr EXCEPT ![n] = [old EXCEPT !.left = old.left \ {e}]]
    BY DEF Tried
  <2> QED BY <1>4, <2>1
<1> DEFINE a == [fr EXCEPT ![n] = rest]
           b == Append(below, rest)
<1> HIDE DEF rest, below, old, n
<1>6. /\ \A i \in 1 .. n - 1 : i \in 1 .. n /\ i # n
      /\ \A i \in 1 .. n : i = n \/ i \in 1 .. n - 1
      /\ (n - 1) + 1 = n
  BY <1>1
<1>7. a \in Seq(FrameRecords) /\ Len(a) = n /\ a[n] = rest /\ \A i \in 1 .. n - 1 : a[i] = fr[i]
  <2>2. a \in [1 .. n -> FrameRecords] /\ a[n] = rest /\ \A i \in 1 .. n - 1 : a[i] = fr[i]
    BY <1>1, <1>2, <1>6
  <2>3. a \in Seq(FrameRecords) /\ Len(a) = n
    <3> HIDE DEF a
    <3> QED BY <1>1, <2>2
  <2> QED BY <2>2, <2>3
<1>8. b \in Seq(FrameRecords) /\ Len(b) = n /\ b[n] = rest /\ \A i \in 1 .. n - 1 : b[i] = fr[i]
  <2>1. Len(b) = (n - 1) + 1 /\ b[(n - 1) + 1] = rest /\ \A i \in 1 .. n - 1 : b[i] = below[i]
    BY <1>1, <1>2, <1>3
  <2>2. b \in Seq(FrameRecords)
    BY <1>2, <1>3
  <2> HIDE DEF b
  <2> QED BY <1>3, <1>6, <2>1, <2>2
<1>9. a = b
  <2> HIDE DEF a, b
  <2>2. \A i \in 1 .. Len(a) : a[i] = b[i]
    BY <1>7, <1>8, <1>6
  <2> QED BY <1>7, <1>8, <2>2, SameSequence
<1> QED BY <1>2, <1>3, <1>5, <1>9 DEF rest, below, old, n

LEMMA RoomTried ==
  ASSUME NEW q \in Queries, NEW st, NEW fr, Stack(q, st, None, fr), fr # <<>>,
         NEW e, e \in fr[Len(fr)].left, NEW n \in Nat, Room(q, st, None, fr, n)
  PROVE  Room(q, st, Onward(q, fr[Len(fr)].path, e), Tried(fr, e), n)
<1> DEFINE old == fr[Len(fr)]
           rest == [path |-> old.path, left |-> old.left \ {e}]
           below == SubSeq(fr, 1, Len(fr) - 1)
           c == Onward(q, old.path, e)
<1>1. st \in SUBSET q.origins /\ fr \in Seq(FrameRecords) /\ Len(fr) \in 1 .. Len(fr)
  BY DEF Stack
<1>2. PICK t \in Nat :
        /\ Weighs(q, fr, t)
        /\ n + CallWeight(q, None) + t + Cardinality(st) * Below(q)[q.policy.maxHops]
             <= Cardinality(q.origins) * Below(q)[q.policy.maxHops]
  BY DEF Room
<1>3. old \in FrameRecords /\ Resting(q, old)
  BY <1>1 DEF Stack
<1>4. rest \in FrameRecords /\ below \in Seq(FrameRecords) /\ Tried(fr, e) = Append(below, rest)
  BY <1>1, TriedFrames
<1>5. PICK s \in Nat : Weighs(q, below, s) /\ t = s + Weight(q, old)
  BY <1>1, <1>2, OneFrameLess
<1>6. rest.path = old.path /\ rest.left = old.left \ {e} /\ e \in old.left
  OBVIOUS
<1> HIDE DEF old, rest, below
<1>7. /\ Weight(q, rest) \in Nat /\ Weight(q, old) \in Nat /\ CallWeight(q, c) \in Nat
      /\ CallWeight(q, c) + Weight(q, rest) <= Weight(q, old)
  BY <1>3, <1>4, <1>6, TriedWeighs
<1>8. Weighs(q, Append(below, rest), s + Weight(q, rest))
  BY <1>4, <1>5, <1>7, OneFrameMore
<1>9. CallWeight(q, None) = 0 /\ CallWeight(q, None) \in Nat
  BY DEF CallWeight
<1> DEFINE t2 == s + Weight(q, rest)
<1> HIDE DEF c
<1>10. t2 \in Nat /\ n + CallWeight(q, c) + t2 <= n + CallWeight(q, None) + t
  BY <1>5, <1>7, <1>9
<1> HIDE DEF t2
<1>11. Weighs(q, Tried(fr, e), t2)
  BY <1>4, <1>8 DEF t2
<1>12. Room(q, st, c, Tried(fr, e), n)
  BY <1>1, <1>2, <1>7, <1>9, <1>10, <1>11, RoomExchange
<1> QED BY <1>12 DEF c, old

\* A search that has ended has visited no more states than the certificate's
\* bound.
LEMMA RoomIsBound ==
  ASSUME NEW q \in Queries, NEW st \in SUBSET q.origins, NEW n \in Nat, Room(q, st, None, <<>>, n)
  PROVE  n <= MaxSimplePathStateBound(q)
<1> DEFINE W == Below(q)[q.policy.maxHops]
           k == Cardinality(q.origins)
           x == Cardinality(st) * W
           y == k * W
<1>1. n + 0 + 0 + x <= y
  BY NoFrames DEF Room, CallWeight
<1>2. x \in Nat /\ y \in Nat
  BY OriginNumbers
<1>3. n <= y
  <2> HIDE DEF x, y
  <2> QED BY <1>1, <1>2
<1>4. MaxSimplePathStateBound(q) = W * k
  BY BoundIsBelow DEF MaxSimplePathStateBound
<1>5. k \in Nat /\ W \in Nat
  <2>1. q.policy.maxHops \in 0 .. q.policy.maxHops /\ q.origins \in SUBSET Vertices
    BY QueryTypes
  <2>2. IsFiniteSet(q.origins)
    BY <2>1, EnumerationAssumption, FS_Subset
  <2> QED BY <2>1, <2>2, BelowGrows, FS_CardinalityType
<1>6. W * k = k * W
  <2> HIDE DEF W, k
  <2> QED BY <1>5
<1> QED BY <1>3, <1>4, <1>6

-------------------------------------------------------------------------------
(* The enumeration, step by step.                                          *)

Work ==
    /\ statesVisited \in Nat /\ edgeTransitions \in Nat
    /\ workUnits = statesVisited + edgeTransitions
    /\ query.policy.workBudget # None => workUnits <= query.policy.workBudget
    /\ stopped => query.policy.workBudget # None /\ workUnits = query.policy.workBudget

EnumInv ==
    /\ query \in Queries /\ stopped \in BOOLEAN
    /\ Stack(query, starts, call, frames)
    /\ Emitted(query, starts, call, frames, paths)
    /\ ~stopped => Covered(query, starts, call, frames, paths)
    /\ Room(query, starts, call, frames, statesVisited)
    /\ Work

\* Before the first visit everything is still to come.
LEMMA NothingYet ==
  ASSUME NEW q \in Queries
  PROVE  /\ Stack(q, q.origins, None, <<>>)
         /\ Emitted(q, q.origins, None, <<>>, <<>>)
         /\ Covered(q, q.origins, None, <<>>, <<>>)
<1>1. <<>> \in Seq(FrameRecords) /\ Len(<<>>) = 0 /\ \A k \in 1 .. Len(<<>>) : FALSE
  OBVIOUS
<1>2. <<>> \in Seq(PathRecords)
  OBVIOUS
<1>3. \A p \in AllPaths(q) : p.vertices[1] \in q.origins
  BY AllPathsArePartial DEF Partial
<1>4. Stack(q, q.origins, None, <<>>)
  BY <1>1 DEF Stack
<1>5. Emitted(q, q.origins, None, <<>>, <<>>)
  BY <1>1, <1>2 DEF Emitted
<1>6. Covered(q, q.origins, None, <<>>, <<>>)
  BY <1>3 DEF Covered, Pending
<1> QED BY <1>4, <1>5, <1>6

LEMMA NoWorkYet ==
  ASSUME NEW q \in Queries
  PROVE  q.policy.workBudget # None => 0 <= q.policy.workBudget
BY QueryTypes

LEMMA EnumInvInitially ==
  ASSUME NEW q \in Queries, EnumInit(q)
  PROVE  EnumInv
<1>1. Work
  BY NoWorkYet DEF EnumInit, Work
<1> QED BY <1>1, NothingYet, RoomFirst DEF EnumInit, EnumInv

LEMMA EnumInvBegins ==
  ASSUME NEW q \in Queries, Begins(q)
  PROVE  EnumInv'
<1>1. Work'
  BY NoWorkYet DEF Begins, Work
<1>2. /\ query' \in Queries /\ stopped' \in BOOLEAN
      /\ Stack(query', starts', call', frames')
      /\ Emitted(query', starts', call', frames', paths')
      /\ Covered(query', starts', call', frames', paths')
      /\ Room(query', starts', call', frames', statesVisited')
  BY NothingYet, RoomFirst DEF Begins
<1> QED BY <1>1, <1>2 DEF EnumInv

\* The next origin or edge is one of those that are left.
LEMMA LeastIsMember ==
  ASSUME NEW S \in SUBSET Nat, S # {}
  PROVE  Least(S) \in S
BY LeastOf DEF Least

\* Every step of the enumeration keeps its invariant.
LEMMA EnumInvKept ==
  ASSUME EnumInv, Enumerate
  PROVE  EnumInv'
<1>1. /\ query \in Queries /\ stopped \in BOOLEAN
      /\ Stack(query, starts, call, frames)
      /\ Emitted(query, starts, call, frames, paths)
      /\ ~stopped => Covered(query, starts, call, frames, paths)
      /\ Room(query, starts, call, frames, statesVisited)
      /\ Work
  BY DEF EnumInv
<1>2. query.policy.workBudget \in (Nat \ {0}) \cup {None} /\ None \notin Nat
  BY <1>1, QueryTypes, EnumerationAssumption
<1>3. workUnits \in Nat /\ statesVisited \in Nat
  BY <1>1 DEF Work
<1>4. CASE VisitOrigin
  <2>1. /\ call = None /\ frames = <<>> /\ starts # {} /\ ~stopped
        /\ UNCHANGED <<query, frames, paths, statesVisited, edgeTransitions, workUnits, stopped>>
        /\ call' = [vertices |-> <<Least(starts)>>, edges |-> <<>>, duration |-> 0]
        /\ starts' = starts \ {Least(starts)}
    BY <1>4 DEF VisitOrigin
  <2>2. Least(starts) \in starts
    <3>1. starts \subseteq Vertices
      BY <1>1, QueryTypes DEF Stack
    <3> QED BY <2>1, <3>1, EnumerationAssumption, LeastIsMember
  <2>3. /\ Stack(query, starts', call', frames)
        /\ \A p \in AllPaths(query) : Pending(starts', call', frames, p) <=> Pending(starts, call, frames, p)
    BY <1>1, <2>1, <2>2, OriginStep
  <2>4. /\ Emitted(query, starts', call', frames, paths)
        /\ Covered(query, starts', call', frames, paths)
    <3>1. Emitted(query, starts, call, frames, paths) /\ Covered(query, starts, call, frames, paths)
      BY <1>1, <2>1
    <3> QED BY <2>3, <3>1, SamePending
  <2>5. Work'
    <3>1. Work
      BY <1>1
    <3>2. UNCHANGED <<query, statesVisited, edgeTransitions, workUnits, stopped>>
      BY <2>1
    <3> QED BY <3>1, <3>2 DEF Work
  <2>6. Room(query, starts', call', <<>>, statesVisited)
    <3>1. call'.edges = <<>>
      BY <2>1
    <3>2. call' # None
      <4>1. Least(starts) \in Vertices
        BY <1>1, <2>2, QueryTypes DEF Stack
      <4>2. call' \in PathRecords
        BY <2>1, <4>1 DEF PathRecords
      <4> QED BY <4>2, EnumerationAssumption
    <3>3. starts \in SUBSET query.origins
      BY <1>1 DEF Stack
    <3>4. Room(query, starts, None, <<>>, statesVisited)
      BY <1>1, <2>1
    <3> QED BY <1>1, <1>3, <2>1, <2>2, <3>1, <3>2, <3>3, <3>4, RoomOrigin
  <2> QED BY <1>1, <2>1, <2>3, <2>4, <2>5, <2>6 DEF EnumInv
<1>5. CASE VisitRefused
  <2>1. /\ Exhausted /\ stopped' = TRUE /\ call' = None /\ frames' = <<>>
        /\ UNCHANGED <<query, starts, paths, statesVisited, edgeTransitions, workUnits>>
    BY <1>5 DEF VisitRefused
  <2>2. Stack(query, starts, None, <<>>) /\ Emitted(query, starts, None, <<>>, paths)
    BY <1>1, GiveUpStep
  <2>3. Work'
    BY <1>1, <1>2, <1>3, <2>1 DEF Work, Exhausted
  <2>4. Room(query, starts, None, <<>>, statesVisited)
    BY <1>1, <1>3, RoomGivenUp
  <2> QED BY <1>1, <2>1, <2>2, <2>3, <2>4 DEF EnumInv
<1>6. CASE VisitTarget
  <2>1. /\ call # None /\ ~Exhausted /\ End(call) \in query.targets
        /\ workUnits' = workUnits + 1 /\ statesVisited' = statesVisited + 1
        /\ paths' = Append(paths, call) /\ call' = None
        /\ UNCHANGED <<query, starts, frames, edgeTransitions, stopped>>
    BY <1>6 DEF VisitTarget, CountVisit
  <2>2. /\ Stack(query, starts, None, frames)
        /\ Emitted(query, starts, None, frames, Append(paths, call))
        /\ Covered(query, starts, call, frames, paths) =>
             Covered(query, starts, None, frames, Append(paths, call))
    BY <1>1, <2>1, TargetStep
  <2>3. Work'
    BY <1>1, <1>2, <1>3, <2>1 DEF Work, Exhausted
  <2>4. Room(query, starts, None, frames, statesVisited + 1)
    BY <1>1, <1>3, <2>1, RoomTarget
  <2> QED BY <1>1, <2>1, <2>2, <2>3, <2>4 DEF EnumInv
<1>7. CASE VisitInner
  <2>1. /\ call # None /\ ~Exhausted /\ End(call) \notin query.targets
        /\ workUnits' = workUnits + 1 /\ statesVisited' = statesVisited + 1
        /\ frames' = Append(frames, [path |-> call, left |-> Outgoing(call)])
        /\ call' = None
        /\ UNCHANGED <<query, starts, paths, edgeTransitions, stopped>>
    BY <1>7 DEF VisitInner, CountVisit
  <2>2. Outgoing(call) = IF Len(call.edges) >= query.policy.maxHops THEN {}
                         ELSE {e \in Edges : query.graph.from[e] = End(call)}
    BY DEF Outgoing
  <2>3. /\ Stack(query, starts, None, frames')
        /\ \A p \in AllPaths(query) : Pending(starts, None, frames', p) <=> Pending(starts, call, frames, p)
    BY <1>1, <2>1, <2>2, InnerStep
  <2>4. /\ Emitted(query, starts, None, frames', paths)
        /\ ~stopped => Covered(query, starts, None, frames', paths)
    BY <1>1, <2>3, SamePending
  <2>5. Work'
    <3>1. Work
      BY <1>1
    <3>2. /\ ~Exhausted /\ workUnits' = workUnits + 1 /\ statesVisited' = statesVisited + 1
          /\ UNCHANGED <<query, edgeTransitions, stopped>>
      BY <2>1
    <3> QED BY <1>2, <1>3, <3>1, <3>2 DEF Work, Exhausted
  <2>6. Room(query, starts, None, frames', statesVisited + 1)
    <3> DEFINE frame == [path |-> call, left |-> Outgoing(call)]
    <3>1. frame.path = call /\ frame.left = Outgoing(call)
      OBVIOUS
    <3>2. Partial(query, call)
      BY <1>1, <2>1 DEF Stack
    <3>3. frame \in FrameRecords
      BY <2>2, <3>2 DEF Partial, FrameRecords
    <3> HIDE DEF frame
    <3>4. Resting(query, frame)
      <4>1. Len(call.edges) \in Nat /\ query.policy.maxHops \in Nat
        BY <1>1, <3>2, PartialTypes, QueryTypes
      <4>2. \A e \in Outgoing(call) : Len(call.edges) < query.policy.maxHops /\ query.graph.from[e] = End(call)
        BY <2>2, <4>1
      <4> QED BY <2>1, <3>1, <3>2, <4>2 DEF Resting
    <3>5. Room(query, starts, None, Append(frames, frame), statesVisited + 1)
      BY <1>1, <1>3, <2>1, <3>1, <3>3, <3>4, RoomInner
    <3> QED BY <2>1, <3>5 DEF frame
  <2> QED BY <1>1, <2>1, <2>3, <2>4, <2>5, <2>6 DEF EnumInv
<1>8. CASE TryRefused
  <2>1. /\ Exhausted /\ stopped' = TRUE /\ call = None /\ call' = None /\ frames' = <<>>
        /\ UNCHANGED <<query, starts, paths, statesVisited, edgeTransitions, workUnits>>
    BY <1>8 DEF TryRefused
  <2>2. Stack(query, starts, None, <<>>) /\ Emitted(query, starts, None, <<>>, paths)
    BY <1>1, GiveUpStep
  <2>3. Work'
    BY <1>1, <1>2, <1>3, <2>1 DEF Work, Exhausted
  <2>4. Room(query, starts, None, <<>>, statesVisited)
    BY <1>1, <1>3, RoomGivenUp
  <2> QED BY <1>1, <2>1, <2>2, <2>3, <2>4 DEF EnumInv
<1>9. CASE TryEdge
  <2> DEFINE e == Least(Top.left)
  <2>1. /\ call = None /\ frames # <<>> /\ Top.left # {} /\ ~Exhausted
        /\ workUnits' = workUnits + 1 /\ edgeTransitions' = edgeTransitions + 1
        /\ frames' = [frames EXCEPT ![Len(frames)].left = @ \ {e}]
        /\ call' = IF Follows(Top.path, e) THEN Extended(Top.path, e) ELSE None
        /\ UNCHANGED <<query, starts, paths, statesVisited, stopped>>
    BY <1>9 DEF TryEdge
  <2>2. e \in frames[Len(frames)].left
    <3>1. Top.left \subseteq Edges
      <4>1. frames \in Seq(FrameRecords)
        BY <1>1 DEF Stack
      <4>2. Top \in FrameRecords
        BY <2>1, <4>1 DEF Top
      <4> QED BY <4>2 DEF FrameRecords
    <3>2. Top.left \in SUBSET Nat
      BY <3>1, EnumerationAssumption
    <3>3. e \in Top.left
      BY <2>1, <3>2, LeastIsMember
    <3> QED BY <3>3 DEF Top
  <2>3. call' = IF Allowed(query, frames[Len(frames)].path, e)
                THEN Longer(query, frames[Len(frames)].path, e) ELSE None
    BY <2>1 DEF Follows, Extended, Allowed, Longer, Top
  <2> HIDE DEF e
  <2>4. /\ Stack(query, starts, call', frames')
        /\ \A p \in AllPaths(query) : Pending(starts, call', frames', p) <=> Pending(starts, call, frames, p)
    <3>1. Stack(query, starts, None, frames)
      BY <1>1, <2>1
    <3>2. frames # <<>> /\ frames' = [frames EXCEPT ![Len(frames)].left = @ \ {e}]
      BY <2>1
    <3>3. /\ Stack(query, starts, call', frames')
          /\ \A p \in AllPaths(query) : Pending(starts, call', frames', p) <=> Pending(starts, None, frames, p)
      <4>1. query \in Queries
        BY <1>1
      <4>2. frames' = Tried(frames, e) /\ call' = Onward(query, frames[Len(frames)].path, e)
        BY <2>3, <3>2 DEF Tried, Onward
      <4>3. frames # <<>>
        BY <3>2
      <4>4. /\ Stack(query, starts, Onward(query, frames[Len(frames)].path, e), Tried(frames, e))
            /\ \A p \in AllPaths(query) :
                  Pending(starts, Onward(query, frames[Len(frames)].path, e), Tried(frames, e), p)
                    <=> Pending(starts, None, frames, p)
        BY <2>2, <3>1, <4>1, <4>3, TryStep
      <4> QED BY <4>2, <4>4
    <3> QED BY <2>1, <3>3
  <2>5. /\ Emitted(query, starts, call', frames', paths)
        /\ ~stopped => Covered(query, starts, call', frames', paths)
    BY <1>1, <2>4, SamePending
  <2>6. Work'
    BY <1>1, <1>2, <1>3, <2>1 DEF Work, Exhausted
  <2>7. Room(query, starts, call', frames', statesVisited)
    <3>1. frames' = Tried(frames, e) /\ call' = Onward(query, frames[Len(frames)].path, e)
      BY <2>1, <2>3 DEF Tried, Onward
    <3>2. Stack(query, starts, None, frames) /\ Room(query, starts, None, frames, statesVisited)
      BY <1>1, <2>1
    <3>3. Room(query, starts, Onward(query, frames[Len(frames)].path, e), Tried(frames, e), statesVisited)
      BY <1>1, <1>3, <2>1, <2>2, <3>2, RoomTried
    <3> QED BY <3>1, <3>3
  <2> QED BY <1>1, <2>1, <2>4, <2>5, <2>6, <2>7 DEF EnumInv
<1>10. CASE Return
  <2>1. /\ call = None /\ frames # <<>> /\ frames[Len(frames)].left = {}
        /\ frames' = SubSeq(frames, 1, Len(frames) - 1) /\ call' = None
        /\ UNCHANGED <<query, starts, paths, statesVisited, edgeTransitions, workUnits, stopped>>
    BY <1>10 DEF Return, Top
  <2>2. /\ Stack(query, starts, None, frames')
        /\ \A p \in AllPaths(query) : Pending(starts, None, frames', p) <=> Pending(starts, None, frames, p)
    BY <1>1, <2>1, ReturnStep
  <2>3. /\ Emitted(query, starts, None, frames', paths)
        /\ ~stopped => Covered(query, starts, None, frames', paths)
    BY <1>1, <2>1, <2>2, SamePending
  <2>4. Work'
    BY <1>1, <2>1 DEF Work
  <2>5. Room(query, starts, None, frames', statesVisited)
    <3>1. Stack(query, starts, None, frames) /\ Room(query, starts, None, frames, statesVisited)
      BY <1>1, <2>1
    <3> QED BY <1>1, <1>3, <2>1, <3>1, RoomReturn
  <2> QED BY <1>1, <2>1, <2>2, <2>3, <2>4, <2>5 DEF EnumInv
<1> QED BY <1>4, <1>5, <1>6, <1>7, <1>8, <1>9, <1>10 DEF Enumerate

\* What the invariant says of an enumeration that has ended.
LEMMA EnumInvEnds ==
  ASSUME EnumInv, Enumerated
  PROVE  /\ \A i \in 1 .. Len(paths) : paths[i] \in AllPaths(query)
         /\ \A i, j \in 1 .. Len(paths) : paths[i] = paths[j] => i = j
         /\ paths \in Seq(PathRecords)
         /\ ~stopped => ToSet(paths) = AllPaths(query) /\ IsInjective(paths)
         /\ statesVisited <= MaxSimplePathStateBound(query)
<1>1. /\ paths \in Seq(PathRecords)
      /\ \A i \in 1 .. Len(paths) : paths[i] \in AllPaths(query)
      /\ \A i, j \in 1 .. Len(paths) : paths[i] = paths[j] => i = j
  BY DEF EnumInv, Emitted
<1>2. DOMAIN paths = 1 .. Len(paths)
  BY <1>1
<1>3. ASSUME ~stopped PROVE ToSet(paths) = AllPaths(query) /\ IsInjective(paths)
  <2>1. starts = {} /\ call = None /\ frames = <<>>
    BY <1>3 DEF Enumerated
  <2>2. \A p \in AllPaths(query) : ~Pending(starts, call, frames, p)
    <3>1. \A k \in 1 .. Len(<<>>) : FALSE
      OBVIOUS
    <3> QED BY <2>1, <3>1 DEF Pending
  <2>3. \A p \in AllPaths(query) : \E i \in 1 .. Len(paths) : paths[i] = p
    BY <1>3, <2>2 DEF EnumInv, Covered
  <2>4. ToSet(paths) = AllPaths(query)
    BY <1>1, <1>2, <2>3 DEF ToSet
  <2>5. IsInjective(paths)
    BY <1>1, <1>2 DEF IsInjective
  <2> QED BY <2>4, <2>5
<1>4. statesVisited <= MaxSimplePathStateBound(query)
  <2>1. call = None /\ frames = <<>>
    BY DEF Enumerated
  <2>2. /\ query \in Queries /\ starts \in SUBSET query.origins /\ statesVisited \in Nat
        /\ Room(query, starts, None, <<>>, statesVisited)
    BY <2>1 DEF EnumInv, Stack, Work
  <2> QED BY <2>2, RoomIsBound
<1> QED BY <1>1, <1>3, <1>4

-------------------------------------------------------------------------------
(* The service around it.                                                  *)

\* The keys of all paths of a participant, and of the first n participants.
PathKeys(r, p) == {[who |-> p, edges |-> path.edges] : path \in AllPaths(r.queries[p])}
KeysUpTo(r, n) == UNION {PathKeys(r, p) : p \in 1 .. n}

IsASequence(s) == \E S : s \in Seq(S)

Covers == JourneysCover /\ AlternatesCover /\ FamiliesCover

RequestInv ==
    /\ phase \in {"validate", "ask", "verify", "cover", "done", "alone"}
    /\ phase = "alone" <=> request = None
    /\ request \in Requests \cup {None}
    /\ request # None => job \in 1 .. Len(request.queries)

CertifiedInv ==
    /\ request = None => certified = {}
    /\ request # None => certified \subseteq KeysUpTo(request, job)
    /\ phase \in {"validate", "ask", "verify"} => certified = KeysUpTo(request, job - 1)
    /\ phase = "verify" => query = request.queries[job]
    /\ phase = "cover" => certified = KeysUpTo(request, Len(request.queries))

EvidenceInv ==
    /\ IsASequence(enumerations) /\ Len(enumerations) <= job /\ job \in Nat
    /\ phase \in {"validate", "ask", "verify", "alone"} => Len(enumerations) <= job - 1

OutcomeInv ==
    /\ outcome.status \in Statuses \cup {None}
    /\ outcome.status = None <=> phase # "done"
    /\ outcome.status \in Met =>
          certified = KeysUpTo(request, Len(request.queries)) /\ Covers

ServiceInv == RequestInv /\ CertifiedInv /\ EvidenceInv /\ OutcomeInv

Inv == EnumInv /\ ServiceInv

\* Evidence is added at the end.
LEMMA OneMore ==
  ASSUME NEW s, IsASequence(s), NEW x
  PROVE  IsASequence(Append(s, x)) /\ Len(Append(s, x)) = Len(s) + 1 /\ Len(s) \in Nat
<1>1. PICK S : s \in Seq(S)
  BY DEF IsASequence
<1>2. s \in Seq(S \cup {x})
  BY <1>1
<1>3. Append(s, x) \in Seq(S \cup {x}) /\ Len(Append(s, x)) = Len(s) + 1 /\ Len(s) \in Nat
  BY <1>2
<1> QED BY <1>3 DEF IsASequence

\* A request's queries.
LEMMA RequestQueries ==
  ASSUME NEW r \in Requests
  PROVE  /\ r.queries \in Seq(Queries) /\ Len(r.queries) \in Nat /\ 1 <= Len(r.queries)
         /\ DOMAIN r.queries = 1 .. Len(r.queries)
         /\ \A p \in 1 .. Len(r.queries) : r.queries[p] \in Queries
<1>1. r.queries \in Seq(Queries) /\ r.queries # <<>>
  BY ServiceAssumption
<1> QED BY <1>1

\* The edges of a key are edges.
LEMMA KeyTypes ==
  ASSUME NEW r \in Requests, NEW n \in 0 .. Len(r.queries), NEW key \in KeysUpTo(r, n)
  PROVE  key.who \in 1 .. n /\ key.edges \in Seq(Edges)
<1>1. PICK p \in 1 .. n : key \in PathKeys(r, p)
  BY DEF KeysUpTo
<1>2. PICK path \in AllPaths(r.queries[p]) : key = [who |-> p, edges |-> path.edges]
  BY <1>1 DEF PathKeys
<1>3. r.queries[p] \in Queries
  <2>1. p \in 1 .. Len(r.queries)
    BY RequestQueries
  <2> QED BY <2>1, RequestQueries
<1>4. path.edges \in Seq(Edges)
  BY <1>3, AllPathsArePartial, PartialTypes
<1> QED BY <1>2, <1>4

\* The status of what the evaluation decides.
LEMMA MeetingStatus ==
  ASSUME NEW r, NEW o, NEW e, NEW c
  PROVE  Meeting(r, o, e, c).status \in {"no-eligible-target", "complete"}
BY DEF Meeting

LEMMA OutcomeStatus ==
  ASSUME NEW s
  PROVE  Outcome(s).status = s
BY DEF Outcome

LEMMA StatusesAre ==
  /\ Met \subseteq Statuses /\ None \notin Statuses
  /\ "failed" \in Statuses \ Met /\ "incomplete" \in Statuses \ Met /\ "unavailable" \in Statuses \ Met
  /\ \A s \in {"no-eligible-target", "complete"} : s \in Met
  /\ \A s \in Met : s \in {"no-eligible-target", "complete"}
BY ServiceAssumption DEF Statuses, Met

LEMMA EvaluatedInStatus ==
  ASSUME NEW r, NEW o
  PROVE  /\ EvaluatedIn(r, o).status \in Statuses
         /\ EvaluatedIn(r, o).status \in Met => FamiliesCover
<1> DEFINE scarce == Cardinality(o) < request.diversityMinimum
           m == Meeting(r, o, scarce, IF scarce THEN ComponentsWith(r, WithLandmarks) ELSE o)
<1>1. EvaluatedIn(r, o) =
        IF scarce /\ ~LandmarksValid THEN Outcome("failed")
        ELSE IF ~FamiliesCover THEN Outcome("incomplete") ELSE m
  BY DEF EvaluatedIn
<1>2. m.status \in {"no-eligible-target", "complete"}
  BY MeetingStatus
<1> HIDE DEF m, scarce
<1> QED BY <1>1, <1>2, OutcomeStatus, StatusesAre

LEMMA EvaluatedStatus ==
  /\ Evaluated.status \in Statuses
  /\ Evaluated.status \in Met => Covers
<1> DEFINE regions == [e \in Relevant |-> RegionOf(e)]
           found == EvaluatedIn(regions, ComponentsWith(regions, request.evidence))
           A == \E e \in Relevant, p \in Participants : ~ValidProfile(request.profiles[e][p])
           B == ~SomeAccess(request.access, request.reach) \/ ~ValidEvidence(request.topology, request.evidence)
<1>1. Evaluated = IF ~JourneysCover \/ ~AlternatesCover THEN Outcome("incomplete")
                  ELSE IF A THEN Outcome("incomplete")
                  ELSE IF B THEN Outcome("failed") ELSE found
  BY DEF Evaluated
<1>2. found.status \in Statuses /\ (found.status \in Met => FamiliesCover)
  BY EvaluatedInStatus
<1> HIDE DEF found, A, B
<1> QED BY <1>1, <1>2, OutcomeStatus, StatusesAre DEF Covers

-------------------------------------------------------------------------------
(* The invariant.                                                          *)

LEMMA InvInitially ==
  ASSUME Init
  PROVE  Inv
<1>1. /\ job = 1 /\ certified = {} /\ enumerations = <<>> /\ outcome = NoOutcome
      /\ \/ request \in Requests /\ phase = "validate" /\ EnumInit(request.queries[1])
         \/ request = None /\ phase = "alone" /\ \E q \in Calls : EnumInit(q)
  BY DEF Init
<1>2. EnumInv
  <2>1. CASE request \in Requests /\ EnumInit(request.queries[1])
    BY <2>1, RequestQueries, EnumInvInitially
  <2>2. CASE \E q \in Calls : EnumInit(q)
    BY <2>2, ServiceAssumption, EnumInvInitially
  <2> QED BY <1>1, <2>1, <2>2
<1>3. RequestInv
  BY <1>1, RequestQueries, ServiceAssumption DEF RequestInv
<1>4. CertifiedInv
  <2>1. \A r : KeysUpTo(r, 1 - 1) = {}
    <3>1. 1 - 1 = 0 /\ \A p \in 1 .. 0 : FALSE
      OBVIOUS
    <3> QED BY <3>1 DEF KeysUpTo
  <2> QED BY <1>1, <2>1 DEF CertifiedInv
<1>5. EvidenceInv
  <2>1. <<>> \in Seq({}) /\ Len(<<>>) = 0 /\ 0 <= 1 /\ 0 <= 1 - 1
    OBVIOUS
  <2> QED BY <1>1, <2>1 DEF EvidenceInv, IsASequence
<1>6. OutcomeInv
  <2>1. outcome.status = None
    BY <1>1 DEF NoOutcome
  <2> QED BY <1>1, <2>1, StatusesAre DEF OutcomeInv
<1> QED BY <1>2, <1>3, <1>4, <1>5, <1>6 DEF Inv, ServiceInv

LEMMA EnumInvStutters ==
  ASSUME EnumInv, UNCHANGED enumVars
  PROVE  EnumInv'
<1>1. UNCHANGED <<query, starts, call, frames, paths, statesVisited, edgeTransitions, workUnits, stopped>>
  BY DEF enumVars
<1>2. Work'
  BY <1>1 DEF EnumInv, Work
<1> QED BY <1>1, <1>2 DEF EnumInv

\* What covers the paths is said of the request and the keys only.
LEMMA CoversStays ==
  ASSUME request' = request, certified' = certified
  PROVE  Covers' <=> Covers
BY DEF Covers, JourneysCover, AlternatesCover, FamiliesCover, Siblings

\* A step that decides the outcome.
LEMMA Decided ==
  ASSUME ServiceInv, phase \in {"validate", "ask", "verify", "cover"}, phase' = "done",
         UNCHANGED <<request, job, certified>>,
         \/ enumerations' = enumerations
         \/ phase # "cover" /\ \E x : enumerations' = Append(enumerations, x),
         outcome'.status \in Statuses,
         outcome'.status \in Met => phase = "cover" /\ Covers
  PROVE  ServiceInv'
<1>1. RequestInv /\ CertifiedInv /\ EvidenceInv /\ OutcomeInv
  BY DEF ServiceInv
<1>2. RequestInv'
  BY <1>1 DEF RequestInv
<1>3. CertifiedInv'
  BY <1>1 DEF CertifiedInv
<1>4. EvidenceInv'
  <2>1. CASE enumerations' = enumerations
    BY <1>1, <2>1 DEF EvidenceInv
  <2>2. CASE phase # "cover" /\ \E x : enumerations' = Append(enumerations, x)
    <3>1. PICK x : enumerations' = Append(enumerations, x)
      BY <2>2
    <3>2. IsASequence(enumerations') /\ Len(enumerations') = Len(enumerations) + 1 /\ Len(enumerations) \in Nat
      BY <1>1, <3>1, OneMore DEF EvidenceInv
    <3>3. Len(enumerations) <= job - 1 /\ job \in Nat
      BY <1>1, <2>2 DEF EvidenceInv
    <3> QED BY <3>2, <3>3 DEF EvidenceInv
  <2> QED BY <2>1, <2>2
<1>5. OutcomeInv'
  <2>1. outcome'.status # None
    BY StatusesAre
  <2>2. ASSUME outcome'.status \in Met
        PROVE  certified' = KeysUpTo(request', Len(request'.queries)) /\ Covers'
    BY <1>1, <2>2, CoversStays DEF CertifiedInv
  <2> QED BY <2>1, <2>2 DEF OutcomeInv
<1> QED BY <1>2, <1>3, <1>4, <1>5 DEF ServiceInv

\* A step that leaves the service alone.
LEMMA ServiceStutters ==
  ASSUME ServiceInv, UNCHANGED serviceVars, phase = "verify" => query' = query
  PROVE  ServiceInv'
<1>1. UNCHANGED <<request, phase, job, certified, enumerations, outcome>>
  BY DEF serviceVars
<1>2. RequestInv /\ CertifiedInv /\ EvidenceInv /\ OutcomeInv
  BY DEF ServiceInv
<1>3. RequestInv'
  BY <1>1, <1>2 DEF RequestInv
<1>4. CertifiedInv'
  BY <1>1, <1>2 DEF CertifiedInv
<1>5. EvidenceInv'
  BY <1>1, <1>2 DEF EvidenceInv
<1>6. OutcomeInv'
  BY <1>1, <1>2, CoversStays DEF OutcomeInv
<1> QED BY <1>3, <1>4, <1>5, <1>6 DEF ServiceInv

LEMMA ValidateKeeps ==
  ASSUME Inv, Validate
  PROVE  Inv'
<1>1. ServiceInv /\ EnumInv /\ phase = "validate"
      /\ UNCHANGED <<request, job, certified, enumerations>> /\ UNCHANGED enumVars
  BY DEF Inv, Validate
<1>2. EnumInv'
  BY <1>1, EnumInvStutters
<1>3. CASE phase' = "ask" /\ UNCHANGED outcome
  <2>1. RequestInv /\ CertifiedInv /\ EvidenceInv /\ OutcomeInv
    BY <1>1 DEF ServiceInv
  <2>2. RequestInv'
    BY <1>1, <1>3, <2>1 DEF RequestInv
  <2>3. CertifiedInv'
    BY <1>1, <1>3, <2>1 DEF CertifiedInv
  <2>4. EvidenceInv'
    BY <1>1, <1>3, <2>1 DEF EvidenceInv
  <2>5. OutcomeInv'
    <3>1. outcome'.status = None /\ None \notin Met
      BY <1>1, <1>3, <2>1, StatusesAre DEF OutcomeInv
    <3> QED BY <1>3, <3>1 DEF OutcomeInv
  <2> QED BY <1>2, <2>2, <2>3, <2>4, <2>5 DEF Inv, ServiceInv
<1>4. CASE Decide(Outcome("failed")) \/ Decide(Outcome("incomplete"))
  <2>1. phase' = "done" /\ outcome'.status \in {"failed", "incomplete"}
    BY <1>4, OutcomeStatus DEF Decide
  <2>2. ServiceInv'
    BY <1>1, <2>1, StatusesAre, Decided
  <2> QED BY <1>2, <2>2 DEF Inv
<1> QED BY <1>3, <1>4 DEF Validate

LEMMA AskKeeps ==
  ASSUME Inv, Ask
  PROVE  Inv'
<1>1. /\ ServiceInv /\ phase = "ask" /\ phase' = "verify" /\ Begins(request.queries[job])
      /\ UNCHANGED <<request, job, certified, enumerations, outcome>>
  BY DEF Inv, Ask
<1>2. RequestInv /\ CertifiedInv /\ EvidenceInv /\ OutcomeInv
  BY <1>1 DEF ServiceInv
<1>3. request \in Requests /\ job \in 1 .. Len(request.queries)
  BY <1>1, <1>2 DEF RequestInv
<1>4. EnumInv'
  BY <1>1, <1>3, RequestQueries, EnumInvBegins
<1>5. query' = request.queries[job]
  BY <1>1 DEF Begins
<1>6. RequestInv'
  BY <1>1, <1>2 DEF RequestInv
<1>7. CertifiedInv'
  BY <1>1, <1>2, <1>5 DEF CertifiedInv
<1>8. EvidenceInv'
  BY <1>1, <1>2 DEF EvidenceInv
<1>9. OutcomeInv'
  <2>1. outcome'.status = None /\ None \notin Met
    BY <1>1, <1>2, StatusesAre DEF OutcomeInv
  <2> QED BY <1>1, <2>1 DEF OutcomeInv
<1> QED BY <1>4, <1>6, <1>7, <1>8, <1>9 DEF Inv, ServiceInv

LEMMA AskDecides ==
  ASSUME Inv, AskInVain \/ AskUnavailable
  PROVE  Inv'
<1>1. ServiceInv /\ EnumInv /\ phase = "ask" /\ phase' = "done"
      /\ UNCHANGED <<request, job, certified>> /\ UNCHANGED enumVars
  BY DEF Inv, AskInVain, AskUnavailable, Decide
<1>2. CASE AskInVain
  <2>1. enumerations' = enumerations /\ outcome'.status = "failed"
    BY <1>2, OutcomeStatus DEF AskInVain, Decide
  <2> QED BY <1>1, <2>1, StatusesAre, Decided, EnumInvStutters DEF Inv
<1>3. CASE AskUnavailable
  <2>1. (\E x : enumerations' = Append(enumerations, x)) /\ outcome'.status = "unavailable"
    BY <1>3 DEF AskUnavailable, Decide
  <2> QED BY <1>1, <2>1, StatusesAre, Decided, EnumInvStutters DEF Inv
<1> QED BY <1>2, <1>3

LEMMA ReenumerateKeeps ==
  ASSUME Inv, Reenumerate
  PROVE  Inv'
<1>1. EnumInv /\ ServiceInv /\ Enumerate /\ UNCHANGED serviceVars
  BY DEF Inv, Reenumerate
<1>2. EnumInv'
  BY <1>1, EnumInvKept
<1>3. query' = query
  BY <1>1 DEF Enumerate, VisitOrigin, VisitRefused, VisitTarget, VisitInner, TryRefused, TryEdge, Return
<1>4. ServiceInv'
  BY <1>1, <1>3, ServiceStutters
<1> QED BY <1>2, <1>4 DEF Inv

LEMMA VerifyDecides ==
  ASSUME Inv, NEW c \in Claims, VerifyRefuses(c) \/ VerifyIncomplete(c)
  PROVE  Inv'
<1>1. ServiceInv /\ EnumInv /\ phase = "verify" /\ phase' = "done"
      /\ UNCHANGED <<request, job, certified>> /\ UNCHANGED enumVars
  BY DEF Inv, VerifyRefuses, VerifyIncomplete, Verifies, Decide
<1>2. outcome'.status \in {"failed", "incomplete"}
  BY DEF VerifyRefuses, VerifyIncomplete, Decide
<1>3. enumerations' = enumerations \/ \E x : enumerations' = Append(enumerations, x)
  BY DEF VerifyRefuses, VerifyIncomplete, Evidenced
<1> QED BY <1>1, <1>2, <1>3, StatusesAre, Decided, EnumInvStutters DEF Inv

\* An answer that holds and is complete has all the paths.
LEMMA AllCertified ==
  ASSUME Inv, NEW c \in Claims, VerifyComplete(c)
  PROVE  {PathKey(p) : p \in ToSet(ClaimedPaths(c))} = PathKeys(request, job)
<1>1. phase = "verify" /\ Enumerated /\ CertificateHolds(c) /\ c.status = "complete"
  BY DEF VerifyComplete, Verifies
<1>2. ~stopped /\ ClaimedPaths(c) = paths
  BY <1>1 DEF CertificateHolds
<1>3. ToSet(paths) = AllPaths(query)
  BY <1>1, <1>2, EnumInvEnds DEF Inv
<1>4. query = request.queries[job]
  BY <1>1 DEF Inv, ServiceInv, CertifiedInv
<1> QED BY <1>2, <1>3, <1>4 DEF PathKeys, PathKey

LEMMA NextKeys ==
  ASSUME NEW r, NEW n \in Nat, n >= 1
  PROVE  KeysUpTo(r, n) = KeysUpTo(r, n - 1) \cup PathKeys(r, n)
<1>1. \A p \in 1 .. n : p \in 1 .. n - 1 \/ p = n
  OBVIOUS
<1>2. n \in 1 .. n /\ \A p \in 1 .. n - 1 : p \in 1 .. n
  OBVIOUS
<1> QED BY <1>1, <1>2 DEF KeysUpTo

LEMMA VerifyCompleteKeeps ==
  ASSUME Inv, NEW c \in Claims, VerifyComplete(c)
  PROVE  Inv'
<1>1. /\ phase = "verify" /\ enumerations' = Evidenced("complete")
      /\ certified' = certified \cup {PathKey(p) : p \in ToSet(ClaimedPaths(c))}
      /\ \/ job < Len(request.queries) /\ phase' = "ask" /\ job' = job + 1
         \/ job = Len(request.queries) /\ phase' = "cover" /\ job' = job
      /\ UNCHANGED <<request, outcome>> /\ UNCHANGED enumVars
  BY DEF VerifyComplete, Verifies
<1>2. RequestInv /\ CertifiedInv /\ EvidenceInv /\ OutcomeInv /\ EnumInv
  BY DEF Inv, ServiceInv
<1>3. request \in Requests /\ job \in 1 .. Len(request.queries) /\ Len(request.queries) \in Nat
  BY <1>1, <1>2, RequestQueries DEF RequestInv
<1>4. job \in Nat /\ job >= 1 /\ (job + 1) - 1 = job
  BY <1>3
<1>5. certified' = KeysUpTo(request, job)
  BY <1>1, <1>2, <1>4, AllCertified, NextKeys DEF CertifiedInv
<1>6. KeysUpTo(request, job + 1) = KeysUpTo(request, job) \cup PathKeys(request, job + 1)
  <2>1. job + 1 \in Nat /\ job + 1 >= 1
    BY <1>4
  <2> QED BY <1>4, <2>1, NextKeys
<1>7. RequestInv'
  BY <1>1, <1>2, <1>3 DEF RequestInv
<1>8. CertifiedInv'
  <2>1. request' # None
    BY <1>1, <1>3, ServiceAssumption
  <2>2. CASE phase' = "ask" /\ job' = job + 1
    BY <1>1, <1>4, <1>5, <1>6, <2>1, <2>2 DEF CertifiedInv
  <2>3. CASE job = Len(request.queries) /\ phase' = "cover" /\ job' = job
    BY <1>1, <1>5, <2>1, <2>3 DEF CertifiedInv
  <2> QED BY <1>1, <2>2, <2>3
<1>9. EvidenceInv'
  <2>1. IsASequence(enumerations') /\ Len(enumerations') = Len(enumerations) + 1 /\ Len(enumerations) \in Nat
    BY <1>1, <1>2, OneMore DEF Evidenced, EvidenceInv
  <2>2. Len(enumerations) <= job - 1
    BY <1>1, <1>2 DEF EvidenceInv
  <2> QED BY <1>1, <1>4, <2>1, <2>2 DEF EvidenceInv
<1>10. OutcomeInv'
  <2>1. outcome'.status = None /\ None \notin Met
    BY <1>1, <1>2, StatusesAre DEF OutcomeInv
  <2> QED BY <1>1, <2>1 DEF OutcomeInv
<1>11. EnumInv'
  BY <1>1, <1>2, EnumInvStutters
<1> QED BY <1>7, <1>8, <1>9, <1>10, <1>11 DEF Inv, ServiceInv

LEMMA CoverDecides ==
  ASSUME Inv, CoverFails \/ Cover
  PROVE  Inv'
<1>1. ServiceInv /\ EnumInv /\ phase = "cover" /\ phase' = "done"
      /\ UNCHANGED <<request, job, certified>> /\ enumerations' = enumerations /\ UNCHANGED enumVars
  BY DEF Inv, CoverFails, Cover, Decide
<1>2. outcome'.status \in Statuses /\ (outcome'.status \in Met => Covers)
  <2>1. CASE CoverFails
    BY <2>1, OutcomeStatus, StatusesAre DEF CoverFails, Decide
  <2>2. CASE Cover
    BY <2>2, EvaluatedStatus DEF Cover, Decide
  <2> QED BY <2>1, <2>2
<1>3. ServiceInv'
  BY <1>1, <1>2, Decided
<1> QED BY <1>1, <1>3, EnumInvStutters DEF Inv

LEMMA InvKept ==
  ASSUME Inv, [ContractNext]_contractVars
  PROVE  Inv'
<1>1. CASE Next
  <2>1. CASE Validate
    BY <2>1, ValidateKeeps
  <2>2. CASE AskInVain \/ AskUnavailable
    BY <2>2, AskDecides
  <2>3. CASE Ask
    BY <2>3, AskKeeps
  <2>4. CASE Reenumerate
    BY <2>4, ReenumerateKeeps
  <2>5. ASSUME NEW c \in Claims, VerifyRefuses(c) \/ VerifyIncomplete(c) PROVE Inv'
    BY <2>5, VerifyDecides
  <2>6. ASSUME NEW c \in Claims, VerifyComplete(c) PROVE Inv'
    BY <2>6, VerifyCompleteKeeps
  <2>7. CASE CoverFails \/ Cover
    BY <2>7, CoverDecides
  <2> QED BY <1>1, <2>1, <2>2, <2>3, <2>4, <2>5, <2>6, <2>7 DEF Next
<1>2. CASE UNCHANGED vars
  <2>1. UNCHANGED serviceVars /\ UNCHANGED enumVars /\ query' = query
    BY <1>2 DEF vars, enumVars
  <2> QED BY <2>1, ServiceStutters, EnumInvStutters DEF Inv
<1> QED BY <1>1, <1>2 DEF ContractNext, Publish, contractVars

-------------------------------------------------------------------------------
(* The theorems.                                                           *)

\* The invariant holds in every reachable state, whatever the providers answer.
THEOREM Invariance == ContractSpec => []Inv
<1>1. ContractInit => Inv
  BY InvInitially DEF ContractInit
<1>2. Inv /\ [ContractNext]_contractVars => Inv'
  BY InvKept
<1> QED BY <1>1, <1>2, PTL DEF ContractSpec

\* The types of the service, and of the frames of the search.
LEMMA InvTypes ==
  ASSUME Inv
  PROVE  TypeOK
<1>1. RequestInv /\ CertifiedInv /\ EvidenceInv /\ OutcomeInv /\ EnumInv
  BY DEF Inv, ServiceInv
<1>2. \A key \in certified : key.who \in 1 .. job /\ key.edges \in Seq(Edges)
  <2>1. CASE request = None
    BY <1>1, <2>1 DEF CertifiedInv
  <2>2. CASE request # None
    <3>1. request \in Requests /\ job \in 1 .. Len(request.queries) /\ Len(request.queries) \in Nat
      BY <1>1, <2>2, RequestQueries DEF RequestInv
    <3>2. job \in 0 .. Len(request.queries)
      BY <3>1
    <3>3. certified \subseteq KeysUpTo(request, job)
      BY <1>1, <2>2 DEF CertifiedInv
    <3> QED BY <3>1, <3>2, <3>3, KeyTypes
  <2> QED BY <2>1, <2>2
<1>3. \A i \in 1 .. Len(frames) : \A e \in frames[i].left : query.graph.from[e] = End(frames[i].path)
  BY <1>1 DEF EnumInv, Stack, Resting
<1>4. /\ phase \in {"validate", "ask", "verify", "cover", "done", "alone"}
      /\ phase = "alone" <=> request = None
      /\ request # None => job \in 1 .. Len(request.queries)
  BY <1>1 DEF RequestInv
<1>5. /\ outcome.status \in Statuses \cup {None}
      /\ outcome.status = None <=> phase # "done"
      /\ Len(enumerations) <= job
  BY <1>1 DEF OutcomeInv, EvidenceInv
<1> QED BY <1>2, <1>3, <1>4, <1>5 DEF TypeOK

\* An enumeration that ends within its budget has emitted every loopless path
\* up to the first target, each once, on every graph (enumeration.ts:247).
THEOREM EnumerationHolds == ContractSpec => []EnumerationIsExact
<1>1. Inv => EnumerationIsExact
  BY EnumInvEnds DEF Inv, EnumerationIsExact
<1> QED BY <1>1, Invariance, PTL

\* Whatever the providers answer, a meeting that is not refused rests on all
\* paths of all participants, sorted into families, with the alternates that
\* the families give (meeting-service.ts:755).
THEOREM CoverageHolds == ContractSpec => []CompleteCoversEveryPath
<1>1. ASSUME Inv PROVE CompleteCoversEveryPath
  <2>1. TypeOK
    BY <1>1, InvTypes
  <2>2. ASSUME outcome.status \in Met
        PROVE  /\ request.journeys =
                     UNION {{[who |-> p, edges |-> path.edges] :
                               path \in AllPaths(request.queries[p])} : p \in Participants}
               /\ \A j \in request.journeys :
                     /\ request.family[j] # None
                     /\ request.alternates[j] =
                          {k \in request.journeys \ {j} :
                             k.who = j.who /\ request.family[k] = request.family[j]}
    <3>1. certified = KeysUpTo(request, Len(request.queries)) /\ JourneysCover /\ AlternatesCover /\ FamiliesCover
      BY <1>1, <2>2 DEF Inv, ServiceInv, OutcomeInv, Covers
    <3>2. request \in Requests
      <4>1. outcome.status # None
        BY <2>2, StatusesAre
      <4> QED BY <1>1, <4>1 DEF Inv, ServiceInv, OutcomeInv, RequestInv
    <3>3. Participants = 1 .. Len(request.queries)
      BY <3>2, RequestQueries DEF Participants
    <3>4. request.journeys = certified
      BY <3>1 DEF JourneysCover
    <3>5. request.journeys = UNION {PathKeys(request, p) : p \in Participants}
      BY <3>1, <3>3, <3>4 DEF KeysUpTo
    <3>6. {key \in DOMAIN request.family : request.family[key] # None} = request.journeys
      BY <3>1, <3>4 DEF FamiliesCover
    <3>7. ASSUME NEW j \in request.journeys
          PROVE  /\ request.family[j] # None
                 /\ request.alternates[j] =
                      {k \in request.journeys \ {j} :
                         k.who = j.who /\ request.family[k] = request.family[j]}
      <4>1. request.family[j] # None
        BY <3>6
      <4>2. request.alternates[j] = Siblings(j)
        BY <3>1, <4>1 DEF AlternatesCover
      <4> QED BY <3>6, <4>1, <4>2 DEF Siblings
    <3> QED BY <3>5, <3>7 DEF PathKeys
  <2>3. outcome.status \in {"complete", "no-eligible-target"} => outcome.status \in Met
    BY StatusesAre
  <2> QED BY <2>1, <2>2, <2>3 DEF CompleteCoversEveryPath
<1> QED BY <1>1, Invariance, PTL

\* The work of an enumeration never passes its budget (enumeration.ts:249,
\* 261).
THEOREM BudgetHolds == ContractSpec => []WorkWithinBudget
<1>1. Inv => WorkWithinBudget
  BY DEF Inv, EnumInv, Work, WorkWithinBudget
<1> QED BY <1>1, Invariance, PTL

\* The verifier accepts what an honest provider answers, on every graph and
\* with every policy: the visited states stay within the certificate's bound,
\* an incomplete enumeration has spent its budget, and each path passes the
\* checks of a path (enumeration.ts:108, 297).
THEOREM HonestHolds == ContractSpec => []HonestAnswerHolds
<1>1. ASSUME Inv PROVE HonestAnswerHolds
  <2>1. EnumInv /\ WorkWithinBudget
    BY <1>1 DEF Inv, EnumInv, Work, WorkWithinBudget
  <2>2. ASSUME Enumerated PROVE CertificateHolds(Honest)
    <3>1. /\ \A i \in 1 .. Len(paths) : paths[i] \in AllPaths(query)
          /\ \A i, j \in 1 .. Len(paths) : paths[i] = paths[j] => i = j
          /\ paths \in Seq(PathRecords)
          /\ statesVisited <= MaxSimplePathStateBound(query)
      BY <2>1, <2>2, EnumInvEnds
    <3>2. \A i \in 1 .. Len(paths) : LegalPath(query, paths[i])
      BY <3>1 DEF AllPaths
    <3>3. ClaimedPaths(Honest) = paths
      <4>1. Len(paths) \in Nat /\ Len(paths) - 0 = Len(paths) /\ (~(0 < Len(paths)) => Len(paths) = 0)
        BY <3>1
      <4>2. Honest.missing = 0
        BY DEF Honest
      <4>3. ClaimedPaths(Honest) = SubSeq(paths, 1, Len(paths))
        BY <4>1, <4>2 DEF ClaimedPaths
      <4>4. Len(paths) \in 0 .. Len(paths)
        BY <4>1
      <4>5. /\ SubSeq(paths, 1, Len(paths)) \in Seq(PathRecords)
            /\ Len(SubSeq(paths, 1, Len(paths))) = Len(paths)
            /\ \A i \in 1 .. Len(paths) : SubSeq(paths, 1, Len(paths))[i] = paths[i]
        BY <3>1, <4>4, BeginningOf
      <4>6. SubSeq(paths, 1, Len(paths)) = paths
        BY <3>1, <4>5, SameSequence
      <4> QED BY <4>3, <4>6
    <3>4. Honest.status = (IF stopped THEN "incomplete" ELSE "complete") /\ Honest.matches
      BY DEF Honest
    <3>5. workUnits = statesVisited + edgeTransitions /\ (stopped => workUnits = query.policy.workBudget)
      BY <2>1 DEF EnumInv, Work
    <3> QED BY <3>1, <3>2, <3>3, <3>4, <3>5 DEF CertificateHolds
  <2> QED BY <2>1, <2>2 DEF HonestAnswerHolds
<1> QED BY <1>1, Invariance, PTL

-------------------------------------------------------------------------------
(* The components of a meeting.                                            *)

\* A set of pieces that touches no piece outside of it.
Alone(S, pieces) == \A f \in S, g \in pieces \ S : f.touches \cap g.touches = {}

\* The groups are the least sets that are alone and not empty.
LEMMA GroupsAre ==
  ASSUME NEW pieces, NEW S
  PROVE  S \in Groups(pieces) <=>
           /\ S \subseteq pieces /\ S # {} /\ Alone(S, pieces)
           /\ \A T : T \subseteq S /\ T # {} /\ Alone(T, pieces) => T = S
<1> DEFINE apart == {T \in (SUBSET pieces) \ {{}} : Alone(T, pieces)}
<1>1. Groups(pieces) = {T \in apart : ~\E U \in apart : U # T /\ U \subseteq T}
  BY Zenon DEF Groups, Alone
<1>2. ASSUME NEW T PROVE T \in apart <=> T \subseteq pieces /\ T # {} /\ Alone(T, pieces)
  OBVIOUS
<1> HIDE DEF apart
<1>3. S \in Groups(pieces) <=> S \in apart /\ \A U \in apart : U \subseteq S => U = S
  BY <1>1
<1>4. ASSUME S \subseteq pieces, NEW T, T \subseteq S PROVE T \subseteq pieces
  BY <1>4
<1> QED BY <1>2, <1>3, <1>4

\* Two groups have no piece in common: what they have in common is alone.
LEMMA GroupsAreDisjoint ==
  ASSUME NEW pieces, NEW S \in Groups(pieces), NEW T \in Groups(pieces), S # T
  PROVE  S \cap T = {}
<1>1. SUFFICES ASSUME S \cap T # {} PROVE FALSE
  OBVIOUS
<1>2. Alone(S, pieces) /\ Alone(T, pieces)
  BY GroupsAre
<1>3. Alone(S \cap T, pieces)
  BY <1>2 DEF Alone
<1>4. S \cap T = S /\ S \cap T = T
  BY <1>1, <1>3, GroupsAre
<1> QED BY <1>4

\* Two groups touch no vertex in common.
LEMMA GroupsTouchApart ==
  ASSUME NEW pieces, NEW S \in Groups(pieces), NEW T \in Groups(pieces), S # T,
         NEW f \in S, NEW g \in T
  PROVE  f.touches \cap g.touches = {}
<1>1. g \in pieces \ S
  BY GroupsAre, GroupsAreDisjoint
<1> QED BY <1>1, GroupsAre DEF Alone

\* Every piece is in a group: in the one of what is in every set that is alone
\* and has it.
LEMMA GroupsCover ==
  ASSUME NEW pieces, NEW f \in pieces
  PROVE  \E S \in Groups(pieces) : f \in S
<1> DEFINE Holding == {S \in SUBSET pieces : f \in S /\ Alone(S, pieces)}
           Core == {g \in pieces : \A S \in Holding : g \in S}
<1>1. ASSUME NEW S, S \subseteq pieces, f \in S, Alone(S, pieces) PROVE Core \subseteq S
  BY <1>1
<1>2. f \in Core /\ Core \subseteq pieces
  OBVIOUS
<1>3. Alone(Core, pieces)
  <2>1. SUFFICES ASSUME NEW a \in Core, NEW b \in pieces \ Core
                 PROVE  a.touches \cap b.touches = {}
    BY Zenon DEF Alone
  <2>2. PICK S \in Holding : b \notin S
    OBVIOUS
  <2>3. a \in S /\ b \in pieces \ S /\ Alone(S, pieces)
    BY <2>2
  <2> QED BY <2>3 DEF Alone
<1> HIDE DEF Core, Holding
<1>4. ASSUME NEW T, T \subseteq Core, T # {}, Alone(T, pieces) PROVE T = Core
  <2>1. CASE f \in T
    <3>1. Core \subseteq T
      BY <1>1, <1>2, <1>4, <2>1
    <3> QED BY <1>4, <3>1
  <2>2. CASE f \notin T
    <3>1. Alone(Core \ T, pieces)
      <4>1. SUFFICES ASSUME NEW a \in Core \ T, NEW b \in pieces \ (Core \ T)
                     PROVE  a.touches \cap b.touches = {}
        BY Zenon DEF Alone
      <4>2. CASE b \in T
        <5>1. a \in pieces \ T
          BY <1>2
        <5>2. b.touches \cap a.touches = {}
          BY <1>4, <4>2, <5>1 DEF Alone
        <5> QED BY <5>2
      <4>3. CASE b \notin T
        <5>1. b \in pieces \ Core
          BY <4>3
        <5> QED BY <1>3, <5>1 DEF Alone
      <4> QED BY <4>2, <4>3
    <3>2. Core \subseteq Core \ T
      BY <1>1, <1>2, <2>2, <3>1
    <3> QED BY <1>4, <3>2
  <2> QED BY <2>1, <2>2
<1>5. Core \in Groups(pieces)
  BY <1>2, <1>3, <1>4, GroupsAre
<1> QED BY <1>2, <1>5

\* A group does not fall apart: wherever it is cut, the two sides touch.
LEMMA GroupsAreConnected ==
  ASSUME NEW pieces, NEW S \in Groups(pieces), NEW T, T \subseteq S, T # {}, T # S
  PROVE  \E a \in T, b \in S \ T : a.touches \cap b.touches # {}
<1>1. SUFFICES ASSUME \A a \in T, b \in S \ T : a.touches \cap b.touches = {} PROVE FALSE
  OBVIOUS
<1>2. S \subseteq pieces /\ Alone(S, pieces)
  BY GroupsAre
<1>3. Alone(T, pieces)
  <2>1. SUFFICES ASSUME NEW a \in T, NEW b \in pieces \ T PROVE a.touches \cap b.touches = {}
    BY Zenon DEF Alone
  <2>2. CASE b \in S
    BY <1>1, <2>2
  <2>3. CASE b \notin S
    BY <1>2, <2>3 DEF Alone
  <2> QED BY <2>2, <2>3
<1> QED BY <1>3, GroupsAre

\* The components with the stretches of a topology are its groups, and those
\* without are the vertices left.
ComponentOf(group) ==
    [intervals |-> {PartOf(f) : f \in group}, vertices |-> UNION {f.touches : f \in group}]
OnVertex(v) == [intervals |-> {}, vertices |-> {v}]

\* What a set of components says of the stretches it is made of.
Partition(components, stretches, topology) ==
    /\ UNION {c.intervals : c \in components} = stretches
    /\ \A c \in components :
          /\ HoldTogether(topology, c.intervals)
          /\ \/ c.vertices = UNION {EndsOf(topology, part) : part \in c.intervals}
             \/ c.intervals = {} /\ \E v \in c.vertices : c.vertices = {v}
          /\ c.vertices \subseteq topology.meetingVertices
    /\ \A c, d \in components : c # d =>
          c.vertices \cap d.vertices = {} /\ c.intervals \cap d.intervals = {}

\* A fragment is a part of an edge with the vertices it reaches.
LEMMA FragmentsAre ==
  ASSUME NEW topology, NEW regions, NEW access,
         NEW f \in Fragments(topology, regions, access)
  PROVE  /\ f = [edge |-> f.edge, interval |-> f.interval, touches |-> f.touches]
         /\ f.touches = EndsOf(topology, PartOf(f))
         /\ f.touches \subseteq topology.meetingVertices
<1>1. PICK e \in RelevantEdges(topology) :
         f \in {[edge |-> e, interval |-> i, touches |-> endpointVertexIds(topology.edges[e], i)] :
                  i \in Stretches(topology, e, regions[e], access)}
  BY Zenon DEF Fragments
<1>2. PICK i \in Stretches(topology, e, regions[e], access) :
         f = [edge |-> e, interval |-> i, touches |-> endpointVertexIds(topology.edges[e], i)]
  BY <1>1
<1>3. endpointVertexIds(topology.edges[e], i) \subseteq topology.meetingVertices
  BY Zenon DEF Stretches
<1>4. PartOf(f).edge = e /\ PartOf(f).interval = i
  BY <1>2 DEF PartOf
<1>5. f.touches = endpointVertexIds(topology.edges[e], i)
  BY <1>2
<1> QED BY <1>2, <1>3, <1>4, <1>5 DEF EndsOf

LEMMA SameFragment ==
  ASSUME NEW topology, NEW regions, NEW access,
         NEW f \in Fragments(topology, regions, access),
         NEW g \in Fragments(topology, regions, access),
         PartOf(f) = PartOf(g)
  PROVE  f = g
<1>1. f.edge = g.edge /\ f.interval = g.interval
  BY DEF PartOf
<1>2. f.touches = g.touches
  BY FragmentsAre
<1> QED BY <1>1, <1>2, FragmentsAre

LEMMA ComponentsAre ==
  ASSUME NEW topology, NEW regions, NEW access, NEW reach, NEW evidence, NEW c
  PROVE  c \in constructFairEligibleComponents(topology, regions, access, reach, evidence) <=>
           \/ \E group \in Groups(Fragments(topology, regions, access)) : c = ComponentOf(group)
           \/ \E v \in FairVertices(evidence, reach, DOMAIN access) :
                /\ \A group \in Groups(Fragments(topology, regions, access)) : v \notin ComponentOf(group).vertices
                /\ c = OnVertex(v)
<1> DEFINE groups == Groups(Fragments(topology, regions, access))
           fair == FairVertices(evidence, reach, DOMAIN access)
           connected == {ComponentOf(group) : group \in groups}
           alone == fair \ UNION {d.vertices : d \in connected}
<1>1. constructFairEligibleComponents(topology, regions, access, reach, evidence)
        = connected \cup {OnVertex(v) : v \in alone}
  BY Zenon DEF constructFairEligibleComponents, ComponentOf, PartOf, OnVertex
<1>2. \A v : v \in alone <=> v \in fair /\ \A group \in groups : v \notin ComponentOf(group).vertices
  <2> HIDE DEF groups, fair
  <2> QED OBVIOUS
<1> HIDE DEF groups, fair, alone
<1>3. c \in connected <=> \E group \in groups : c = ComponentOf(group)
  OBVIOUS
<1>4. c \in {OnVertex(v) : v \in alone} <=> \E v \in alone : c = OnVertex(v)
  OBVIOUS
<1> HIDE DEF connected
<1>5. (\E v \in alone : c = OnVertex(v)) <=>
        \E v \in fair : (\A group \in groups : v \notin ComponentOf(group).vertices) /\ c = OnVertex(v)
  BY <1>2
<1>6. c \in connected \cup {OnVertex(v) : v \in alone} <=>
        (\E group \in groups : c = ComponentOf(group)) \/ (\E v \in alone : c = OnVertex(v))
  BY <1>3, <1>4
<1> QED BY <1>1, <1>5, <1>6 DEF groups, fair

\* A component of a group is whole and holds together.
LEMMA GroupIsWhole ==
  ASSUME NEW topology, NEW regions, NEW access,
         NEW group \in Groups(Fragments(topology, regions, access))
  PROVE  LET c == ComponentOf(group)
             pieces == Fragments(topology, regions, access)
         IN  /\ c.intervals \subseteq {PartOf(f) : f \in pieces}
             /\ c.vertices \subseteq topology.meetingVertices
             /\ c.vertices = UNION {EndsOf(topology, part) : part \in c.intervals}
             /\ HoldTogether(topology, c.intervals)
<1> DEFINE pieces == Fragments(topology, regions, access)
           c == ComponentOf(group)
<1>1. group \subseteq pieces /\ group # {}
  BY GroupsAre
<1>2. c.intervals = {PartOf(f) : f \in group} /\ c.vertices = UNION {f.touches : f \in group}
  BY DEF ComponentOf
<1>3. \A f \in group : f.touches = EndsOf(topology, PartOf(f)) /\ f.touches \subseteq topology.meetingVertices
  BY <1>1, FragmentsAre
<1>4. \A f, g \in group : PartOf(f) = PartOf(g) => f = g
  BY <1>1, SameFragment
<1>5. \A S : S \subseteq group /\ S # {} /\ S # group =>
        \E a \in S, b \in group \ S : a.touches \cap b.touches # {}
  BY GroupsAreConnected
<1> HIDE DEF c, pieces
<1>6. c.intervals \subseteq {PartOf(f) : f \in pieces}
  BY <1>1, <1>2
<1>7. c.vertices \subseteq topology.meetingVertices
  BY <1>2, <1>3
<1>8. c.vertices = UNION {EndsOf(topology, part) : part \in c.intervals}
  <2>1. ASSUME NEW v \in c.vertices PROVE \E part \in c.intervals : v \in EndsOf(topology, part)
    BY <1>2, <1>3
  <2>2. ASSUME NEW part \in c.intervals PROVE EndsOf(topology, part) \subseteq c.vertices
    BY <1>2, <1>3
  <2> QED BY <2>1, <2>2
<1>10. ASSUME NEW T \in (SUBSET c.intervals) \ {{}, c.intervals}
       PROVE  \E a \in T, b \in c.intervals \ T : EndsOf(topology, a) \cap EndsOf(topology, b) # {}
  <2> DEFINE S == {f \in group : PartOf(f) \in T}
  <2>1. S \subseteq group /\ S # {}
    BY <1>2, <1>10
  <2>2. S # group
    BY <1>2, <1>10
  <2>3. PICK a \in S, b \in group \ S : a.touches \cap b.touches # {}
    <3> HIDE DEF S
    <3> QED BY <1>5, <2>1, <2>2
  <2>4. PartOf(a) \in T /\ PartOf(b) \in c.intervals \ T
    BY <1>2, <2>3
  <2>5. EndsOf(topology, PartOf(a)) \cap EndsOf(topology, PartOf(b)) # {}
    BY <1>3, <2>3
  <2> QED BY <2>4, <2>5
<1> QED BY <1>6, <1>7, <1>8, <1>10 DEF c, pieces, HoldTogether

\* What constructFairEligibleComponents returns is a partition, on every
\* topology and from every evidence it accepts.
LEMMA ComponentsPartition ==
  ASSUME NEW topology, NEW regions, NEW access, NEW reach, NEW evidence,
         ValidEvidence(topology, evidence)
  PROVE  Partition(constructFairEligibleComponents(topology, regions, access, reach, evidence),
                   {PartOf(f) : f \in Fragments(topology, regions, access)}, topology)
<1> DEFINE pieces == Fragments(topology, regions, access)
           groups == Groups(pieces)
           fair == FairVertices(evidence, reach, DOMAIN access)
           components == constructFairEligibleComponents(topology, regions, access, reach, evidence)
           Left(v) == v \in fair /\ \A group \in groups : v \notin ComponentOf(group).vertices
<1>1. \A d : d \in components <=>
        (\E group \in groups : d = ComponentOf(group)) \/ (\E v : Left(v) /\ d = OnVertex(v))
  BY ComponentsAre
<1>2. ASSUME NEW f \in pieces PROVE \E d \in components : PartOf(f) \in d.intervals
  <2>1. PICK group \in groups : f \in group
    BY GroupsCover
  <2>2. PartOf(f) \in ComponentOf(group).intervals
    BY <2>1 DEF ComponentOf
  <2> HIDE DEF groups, components
  <2> QED BY <1>1, <2>1, <2>2
<1>3. \A v : OnVertex(v).intervals = {} /\ OnVertex(v).vertices = {v}
  BY DEF OnVertex
<1>4. \A v : Left(v) => v \in topology.meetingVertices
  BY DEF ValidEvidence, FairVertices
<1>5. ASSUME NEW d \in components
      PROVE  /\ d.intervals \subseteq {PartOf(f) : f \in pieces}
             /\ d.vertices \subseteq topology.meetingVertices
             /\ \/ d.vertices = UNION {EndsOf(topology, part) : part \in d.intervals}
                \/ d.intervals = {} /\ \E v \in d.vertices : d.vertices = {v}
             /\ HoldTogether(topology, d.intervals)
  <2>1. CASE \E group \in groups : d = ComponentOf(group)
    <3>1. PICK group \in groups : d = ComponentOf(group)
      BY <2>1
    <3> QED BY <3>1, GroupIsWhole
  <2>2. CASE \E v : Left(v) /\ d = OnVertex(v)
    <3>1. PICK v : Left(v) /\ d = OnVertex(v)
      BY <2>2
    <3>2. d.intervals = {} /\ d.vertices = {v} /\ v \in topology.meetingVertices
      BY <1>3, <1>4, <3>1
    <3>3. HoldTogether(topology, {})
      BY DEF HoldTogether
    <3> QED BY <3>2, <3>3
  <2> QED BY <1>1, <2>1, <2>2
<1>6. ASSUME NEW S \in groups, NEW T \in groups, S # T
      PROVE  /\ ComponentOf(S).vertices \cap ComponentOf(T).vertices = {}
             /\ ComponentOf(S).intervals \cap ComponentOf(T).intervals = {}
  <2>1. \A f \in S, g \in T : f.touches \cap g.touches = {}
    BY <1>6, GroupsTouchApart
  <2>2. S \cap T = {} /\ S \subseteq pieces /\ T \subseteq pieces
    BY <1>6, GroupsAreDisjoint, GroupsAre
  <2>3. \A f \in S, g \in T : PartOf(f) # PartOf(g)
    BY <2>2, SameFragment
  <2> QED BY <2>1, <2>3 DEF ComponentOf
<1>7. ASSUME NEW d \in components, NEW e \in components, d # e
      PROVE  d.vertices \cap e.vertices = {} /\ d.intervals \cap e.intervals = {}
  <2>1. CASE /\ \E group \in groups : d = ComponentOf(group)
             /\ \E group \in groups : e = ComponentOf(group)
    BY <1>6, <1>7, <2>1
  <2>2. CASE \E v : Left(v) /\ d = OnVertex(v)
    <3>1. PICK v : Left(v) /\ d = OnVertex(v)
      BY <2>2
    <3>2. v \notin e.vertices
      BY <1>1, <1>3, <1>7, <3>1
    <3> QED BY <1>3, <3>1, <3>2
  <2>3. CASE \E v : Left(v) /\ e = OnVertex(v)
    <3>1. PICK v : Left(v) /\ e = OnVertex(v)
      BY <2>3
    <3>2. v \notin d.vertices
      BY <1>1, <1>3, <1>7, <3>1
    <3> QED BY <1>3, <3>1, <3>2
  <2> QED BY <1>1, <1>7, <2>1, <2>2, <2>3
<1> HIDE DEF components, pieces
<1>8. Partition(components, {PartOf(f) : f \in pieces}, topology)
  <2>1. UNION {d.intervals : d \in components} = {PartOf(f) : f \in pieces}
    BY <1>2, <1>5
  <2> QED BY <1>5, <1>7, <2>1 DEF Partition
<1> QED BY <1>8 DEF components, pieces

\* What is checked of a request before anything else, but for the work it asks.
Checked ==
    /\ request.journeys # {} /\ Cardinality(request.journeys) <= MaxJourneys
    /\ \A j \in request.journeys : ValidJourney(Legs(j))
    /\ ValidTopology(request.topology)
    /\ PlacesCovered
    /\ \E key \in DOMAIN request.family : request.family[key] # None

\* A meeting is what the evaluation of a checked request gives.
EvaluationInv ==
    /\ phase \in {"ask", "verify", "cover"} => Checked
    /\ outcome.status \in Met => phase = "done" /\ Checked /\ outcome = Evaluated

LEMMA CheckedStays ==
  ASSUME request' = request
  PROVE  Checked' <=> Checked
BY DEF Checked, Participants, Legs, PlacesCovered, Relevant

LEMMA EvaluatedStays ==
  ASSUME UNCHANGED <<request, certified, enumerations>>
  PROVE  Evaluated' = Evaluated
BY DEF Evaluated, EvaluatedIn, Meeting, Outcome, ComponentsWith, RegionOf, Relevant, Participants,
       CorridorOf, FamilyNames, TimesOf, Legs, WithLandmarks, LandmarksValid, Landmarks,
       JourneysCover, AlternatesCover, FamiliesCover, Siblings

\* Nothing but the cover step decides on a meeting, and only that of a request
\* which has been checked.
LEMMA EvaluationKept ==
  ASSUME Inv, EvaluationInv, [ContractNext]_contractVars
  PROVE  EvaluationInv'
<1>1. phase # "done" => outcome.status = None
  BY DEF Inv, ServiceInv, OutcomeInv
<1>2. None \notin Met /\ "failed" \notin Met /\ "incomplete" \notin Met /\ "unavailable" \notin Met
  BY StatusesAre
<1>3. ASSUME UNCHANGED <<request, certified, enumerations, outcome, phase>> PROVE EvaluationInv'
  BY <1>3, CheckedStays, EvaluatedStays DEF EvaluationInv
<1>4. ASSUME request' = request, phase' = "done", outcome'.status \notin Met PROVE EvaluationInv'
  BY <1>4 DEF EvaluationInv
<1>5. ASSUME request' = request, outcome' = outcome, phase # "done",
             phase' \in {"ask", "verify", "cover"} => Checked
      PROVE  EvaluationInv'
  BY <1>1, <1>2, <1>5, CheckedStays DEF EvaluationInv
<1>6. CASE Validate
  <2>1. CASE Valid /\ phase' = "ask" /\ UNCHANGED outcome
    <3>1. Checked
      BY <2>1 DEF Valid, Checked
    <3>2. request' = request /\ phase # "done"
      BY <1>6 DEF Validate
    <3> QED BY <1>5, <2>1, <3>1, <3>2
  <2>2. CASE Decide(Outcome("failed")) \/ Decide(Outcome("incomplete"))
    <3>1. phase' = "done" /\ outcome'.status \in {"failed", "incomplete"}
      BY <2>2, OutcomeStatus DEF Decide
    <3>2. request' = request
      BY <1>6 DEF Validate
    <3> QED BY <1>2, <1>4, <3>1, <3>2
  <2> QED BY <1>6, <2>1, <2>2 DEF Validate
<1>7. CASE AskInVain \/ AskUnavailable
  <2>1. request' = request /\ phase' = "done" /\ outcome'.status \in {"failed", "unavailable"}
    BY <1>7, OutcomeStatus DEF AskInVain, AskUnavailable, Decide
  <2> QED BY <1>2, <1>4, <2>1
<1>8. CASE Ask
  <2>1. request' = request /\ outcome' = outcome /\ phase = "ask"
    BY <1>8 DEF Ask
  <2> QED BY <1>5, <2>1 DEF EvaluationInv
<1>9. CASE Reenumerate
  BY <1>3, <1>9 DEF Reenumerate, serviceVars
<1>10. ASSUME NEW c \in Claims, VerifyRefuses(c) \/ VerifyIncomplete(c) PROVE EvaluationInv'
  <2>1. request' = request /\ phase' = "done" /\ outcome'.status \in {"failed", "incomplete"}
    BY <1>10 DEF VerifyRefuses, VerifyIncomplete, Decide
  <2> QED BY <1>2, <1>4, <2>1
<1>11. ASSUME NEW c \in Claims, VerifyComplete(c) PROVE EvaluationInv'
  <2>1. request' = request /\ outcome' = outcome /\ phase = "verify"
    BY <1>11 DEF VerifyComplete, Verifies
  <2> QED BY <1>5, <2>1 DEF EvaluationInv
<1>12. CASE CoverFails
  <2>1. request' = request /\ phase' = "done" /\ outcome'.status = "incomplete"
    BY <1>12, OutcomeStatus DEF CoverFails, Decide
  <2> QED BY <1>2, <1>4, <2>1
<1>13. CASE Cover
  <2>1. /\ phase = "cover" /\ phase' = "done" /\ outcome' = Evaluated
        /\ UNCHANGED <<request, certified, enumerations>>
    BY <1>13 DEF Cover, Decide
  <2>2. Checked' /\ Evaluated' = Evaluated
    BY <2>1, CheckedStays, EvaluatedStays DEF EvaluationInv
  <2> QED BY <2>1, <2>2 DEF EvaluationInv
<1>14. CASE UNCHANGED vars
  BY <1>3, <1>14 DEF vars, serviceVars
<1>15. CASE Next
  BY <1>6, <1>7, <1>8, <1>9, <1>10, <1>11, <1>12, <1>13, <1>15 DEF Next
<1> QED BY <1>14, <1>15 DEF ContractNext, Publish, contractVars

LEMMA EvaluationInitially ==
  ASSUME ContractInit
  PROVE  EvaluationInv
<1>1. outcome.status = None /\ phase \in {"validate", "alone"}
  BY DEF ContractInit, Init, NoOutcome
<1> QED BY <1>1, StatusesAre DEF EvaluationInv

\* What a meeting is made of.
LEMMA MeetingIs ==
  ASSUME EvaluationInv, outcome.status \in Met
  PROVE  LET regions == [e \in Relevant |-> RegionOf(e)]
             organic == ComponentsWith(regions, request.evidence)
         IN  \/ /\ ValidEvidence(request.topology, request.evidence)
                /\ outcome = Meeting(regions, organic, FALSE, organic)
             \/ /\ ValidEvidence(request.topology, WithLandmarks)
                /\ outcome = Meeting(regions, organic, TRUE, ComponentsWith(regions, WithLandmarks))
<1> DEFINE regions == [e \in Relevant |-> RegionOf(e)]
           organic == ComponentsWith(regions, request.evidence)
           with == ComponentsWith(regions, WithLandmarks)
           scarce == Cardinality(organic) < request.diversityMinimum
           found == EvaluatedIn(regions, organic)
           m == Meeting(regions, organic, scarce, IF scarce THEN with ELSE organic)
           A == \E e \in Relevant, p \in Participants : ~ValidProfile(request.profiles[e][p])
           B == ~SomeAccess(request.access, request.reach) \/ ~ValidEvidence(request.topology, request.evidence)
<1>1. outcome = Evaluated /\ outcome.status \notin {"failed", "incomplete"}
  BY StatusesAre DEF EvaluationInv
<1>2. Evaluated = IF ~JourneysCover \/ ~AlternatesCover THEN Outcome("incomplete")
                  ELSE IF A THEN Outcome("incomplete")
                  ELSE IF B THEN Outcome("failed") ELSE found
  BY DEF Evaluated
<1>3. found = IF scarce /\ ~LandmarksValid THEN Outcome("failed")
              ELSE IF ~FamiliesCover THEN Outcome("incomplete") ELSE m
  BY DEF EvaluatedIn
<1>4. ValidEvidence(request.topology, request.evidence)
  <2> HIDE DEF found, A
  <2> QED BY <1>1, <1>2, OutcomeStatus
<1>5. outcome = found
  <2> HIDE DEF found, A, B
  <2> QED BY <1>1, <1>2, OutcomeStatus
<1>6. outcome = m /\ (scarce => LandmarksValid)
  <2> HIDE DEF found, m, scarce
  <2> QED BY <1>1, <1>3, <1>5, OutcomeStatus
<1>7. scarce => ValidEvidence(request.topology, WithLandmarks)
  BY <1>6 DEF LandmarksValid
<1>8. CASE scarce
  <2>1. scarce = TRUE
    BY <1>8
  <2> HIDE DEF scarce, regions, organic, with
  <2> QED BY <1>6, <1>7, <1>8, <2>1 DEF regions, organic, with
<1>9. CASE ~scarce
  <2>1. scarce = FALSE
    BY <1>9
  <2> HIDE DEF scarce, regions, organic, with
  <2> QED BY <1>4, <1>6, <1>9, <2>1 DEF regions, organic, with
<1> QED BY <1>8, <1>9

\* The stretches where all can meet fall into the components of the meeting:
\* each is part of exactly one, a component holds together, and two of them
\* share no vertex, on every topology, with every access and evidence, with
\* landmarks and without (topology.ts:228, 257, meeting-service.ts:875).
THEOREM ComponentsHold == ContractSpec => []ComponentsHoldTogether
<1>1. Inv /\ EvaluationInv => ComponentsHoldTogether
  <2>1. SUFFICES ASSUME EvaluationInv, outcome.status \in Met
                 PROVE  Partition(outcome.components,
                                  {PartOf(f) : f \in Fragments(request.topology, outcome.regions, request.access)},
                                  request.topology)
    BY DEF ComponentsHoldTogether, Partition
  <2> DEFINE regions == [e \in Relevant |-> RegionOf(e)]
             organic == ComponentsWith(regions, request.evidence)
             with == ComponentsWith(regions, WithLandmarks)
  <2>2. \/ ValidEvidence(request.topology, request.evidence) /\ outcome = Meeting(regions, organic, FALSE, organic)
        \/ ValidEvidence(request.topology, WithLandmarks) /\ outcome = Meeting(regions, organic, TRUE, with)
    BY <2>1, MeetingIs
  <2>4. \A evidence : ValidEvidence(request.topology, evidence) =>
          Partition(ComponentsWith(regions, evidence),
                    {PartOf(f) : f \in Fragments(request.topology, regions, request.access)},
                    request.topology)
    <3> HIDE DEF regions
    <3> QED BY ComponentsPartition DEF ComponentsWith
  <2> HIDE DEF regions
  <2>5. CASE ValidEvidence(request.topology, request.evidence) /\ outcome = Meeting(regions, organic, FALSE, organic)
    <3>1. outcome.regions = regions /\ outcome.components = organic
      BY <2>5, Zenon DEF Meeting
    <3> QED BY <2>4, <2>5, <3>1
  <2>6. CASE ValidEvidence(request.topology, WithLandmarks) /\ outcome = Meeting(regions, organic, TRUE, with)
    <3>1. outcome.regions = regions /\ outcome.components = with
      BY <2>6, Zenon DEF Meeting
    <3> QED BY <2>4, <2>6, <3>1
  <2> QED BY <2>2, <2>5, <2>6
<1>2. ContractSpec => [](Inv /\ EvaluationInv)
  <2>1. ContractInit => EvaluationInv
    BY EvaluationInitially
  <2>2. Inv /\ EvaluationInv /\ [ContractNext]_contractVars => EvaluationInv'
    BY EvaluationKept
  <2> QED BY <2>1, <2>2, Invariance, PTL DEF ContractSpec
<1> QED BY <1>1, <1>2, PTL

-------------------------------------------------------------------------------
(* What is counted twice.                                                  *)

\* There are n paths to be found.
Emits(q, n) ==
    \E found \in Seq(PathRecords) : n = Len(found) /\ ToSet(found) = AllPaths(q) /\ IsInjective(found)

\* The evidence of one enumeration.
Evidence(evidence, q) ==
    \/ evidence.certificate = None /\ evidence.status = "unavailable"
    \/ /\ evidence.certificate \in Certificates
       /\ CertificateAdmitted(evidence.certificate)
       /\ evidence.certificate.complete <=> evidence.status = "complete"
       /\ evidence.status = "complete" => Emits(q, evidence.certificate.pathsEmitted)

\* Every participant so far has evidence, and as long as the evaluation goes on
\* all of it is of some path.
Evidences ==
    /\ \A i \in 1 .. Len(enumerations) : Evidence(enumerations[i], request.queries[i])
    /\ phase \in {"validate", "ask", "verify"} => Len(enumerations) = job - 1
    /\ phase = "cover" \/ outcome.status \in Met => Len(enumerations) = Len(request.queries)
    /\ phase \in {"validate", "ask", "verify", "cover"} \/ outcome.status \in Met =>
          \A i \in 1 .. Len(enumerations) :
             enumerations[i].status = "complete" /\ enumerations[i].certificate.pathsEmitted >= 1
    /\ outcome.status # None => outcome.enumerations = enumerations

CountInv == Len(paths) <= statesVisited /\ (request # None => Evidences)

\* No path is emitted but by a visit.
LEMMA VisitsCount ==
  ASSUME EnumInv, Len(paths) <= statesVisited, Enumerate
  PROVE  Len(paths') <= statesVisited'
<1>1. paths \in Seq(PathRecords) /\ Len(paths) \in Nat /\ statesVisited \in Nat
  BY DEF EnumInv, Emitted, Work
<1>2. CASE VisitTarget
  <2>1. paths' = Append(paths, call) /\ statesVisited' = statesVisited + 1
    BY <1>2 DEF VisitTarget, CountVisit
  <2>2. Len(paths') = Len(paths) + 1
    BY <1>1, <2>1
  <2> QED BY <1>1, <2>1, <2>2
<1>3. CASE VisitInner
  <2>1. paths' = paths /\ statesVisited' = statesVisited + 1
    BY <1>3 DEF VisitInner, CountVisit
  <2> QED BY <1>1, <2>1
<1>4. CASE VisitOrigin \/ VisitRefused \/ TryRefused \/ TryEdge \/ Return
  BY <1>4 DEF VisitOrigin, VisitRefused, TryRefused, TryEdge, Return
<1> QED BY <1>2, <1>3, <1>4 DEF Enumerate

LEMMA BoundIsNat ==
  ASSUME NEW q \in Queries
  PROVE  MaxSimplePathStateBound(q) \in Nat
<1>1. MaxSimplePathStateBound(q) = Below(q)[q.policy.maxHops] * Cardinality(q.origins)
  BY BoundIsBelow DEF MaxSimplePathStateBound
<1>2. q.policy.maxHops \in 0 .. q.policy.maxHops /\ q.origins \in SUBSET Vertices
  BY QueryTypes
<1>3. IsFiniteSet(q.origins)
  BY <1>2, EnumerationAssumption, FS_Subset
<1>4. Cardinality(q.origins) \in Nat /\ Below(q)[q.policy.maxHops] \in Nat
  BY <1>2, <1>3, BelowGrows, FS_CardinalityType
<1> QED BY <1>1, <1>4

\* A certificate that holds is admitted.
LEMMA CertificateIsAdmitted ==
  ASSUME EnumInv, Len(paths) <= statesVisited, Enumerated, NEW c, CertificateHolds(c),
         NEW s, s = c.status
  PROVE  Evidence([status |-> s, certificate |-> Certificate], query)
<1> DEFINE e == [status |-> s, certificate |-> Certificate]
<1>1. /\ paths \in Seq(PathRecords) /\ Len(paths) \in Nat
      /\ ~stopped => ToSet(paths) = AllPaths(query) /\ IsInjective(paths)
      /\ statesVisited <= MaxSimplePathStateBound(query)
  BY EnumInvEnds
<1>2. /\ query \in Queries /\ stopped \in BOOLEAN
      /\ statesVisited \in Nat /\ edgeTransitions \in Nat /\ workUnits = statesVisited + edgeTransitions
      /\ query.policy.workBudget # None => workUnits <= query.policy.workBudget
      /\ stopped => workUnits = query.policy.workBudget
  BY DEF EnumInv, Work
<1>3. MaxSimplePathStateBound(query) \in Nat /\ query.policy.workBudget \in Nat \cup {None}
      /\ ParallelEdgeFactor(query.graph) \in Nat /\ ParallelEdgeFactor(query.graph) >= 1
  BY <1>2, BoundIsNat, QueryTypes, FactorBounds
<1>4. s = IF stopped THEN "incomplete" ELSE "complete"
  BY DEF CertificateHolds
<1>5. e.status = s /\ e.certificate = Certificate
  OBVIOUS
<1>6. Certificate \in Certificates
  BY <1>1, <1>2, <1>3 DEF Certificate, Certificates
<1>7. /\ Certificate.complete = ~stopped /\ Certificate.statesVisited = statesVisited
      /\ Certificate.edgeTransitions = edgeTransitions /\ Certificate.pathsEmitted = Len(paths)
      /\ Certificate.maxSimplePathStateBound = MaxSimplePathStateBound(query)
      /\ Certificate.parallelEdgeFactor = ParallelEdgeFactor(query.graph)
      /\ Certificate.workBudget = query.policy.workBudget /\ Certificate.workUnits = workUnits
  BY DEF Certificate
<1>8. CertificateAdmitted(Certificate)
  BY <1>1, <1>2, <1>3, <1>7 DEF CertificateAdmitted
<1>9. Certificate.complete <=> s = "complete"
  BY <1>2, <1>4, <1>7
<1>10. s = "complete" => Emits(query, Certificate.pathsEmitted)
  BY <1>1, <1>4, <1>7 DEF Emits
<1> HIDE DEF e
<1>11. Evidence(e, query)
  BY <1>5, <1>6, <1>8, <1>9, <1>10 DEF Evidence
<1> QED BY <1>11 DEF e

\* What is added to the evidence comes after what there is.
LEMMA Added ==
  ASSUME NEW s, IsASequence(s), NEW x
  PROVE  /\ Len(s) \in Nat /\ Len(Append(s, x)) = Len(s) + 1
         /\ \A i \in 1 .. Len(s) : Append(s, x)[i] = s[i]
         /\ Append(s, x)[Len(s) + 1] = x
<1>1. PICK S : s \in Seq(S)
  BY DEF IsASequence
<1>2. s \in Seq(S \cup {x}) /\ x \in S \cup {x}
  BY <1>1
<1> HIDE DEF IsASequence
<1> QED BY <1>2

\* One more participant has evidence.
LEMMA MoreEvidence ==
  ASSUME ServiceInv, NEW n \in Nat, n = Len(enumerations),
         \A i \in 1 .. n : Evidence(enumerations[i], request.queries[i]),
         NEW x, Evidence(x, request.queries[n + 1])
  PROVE  /\ Len(Append(enumerations, x)) = n + 1
         /\ \A i \in 1 .. n : Append(enumerations, x)[i] = enumerations[i]
         /\ Append(enumerations, x)[n + 1] = x
         /\ \A i \in 1 .. n + 1 : Evidence(Append(enumerations, x)[i], request.queries[i])
<1>1. /\ Len(Append(enumerations, x)) = n + 1
      /\ \A i \in 1 .. n : Append(enumerations, x)[i] = enumerations[i]
      /\ Append(enumerations, x)[n + 1] = x
  BY Added DEF ServiceInv, EvidenceInv
<1>2. \A i \in 1 .. n + 1 : i \in 1 .. n \/ i = n + 1
  OBVIOUS
<1>3. ASSUME NEW i \in 1 .. n + 1 PROVE Evidence(Append(enumerations, x)[i], request.queries[i])
  <2>1. CASE i \in 1 .. n
    BY <1>1, <2>1
  <2>2. CASE i = n + 1
    BY <1>1, <2>2
  <2> QED BY <1>2, <2>1, <2>2
<1> QED BY <1>1, <1>3

LEMMA CountInitially ==
  ASSUME ContractInit
  PROVE  CountInv
<1>1. /\ job = 1 /\ enumerations = <<>> /\ outcome.status = None
      /\ phase \in {"validate", "alone"}
      /\ \E q : EnumInit(q)
  BY DEF ContractInit, Init, NoOutcome
<1>2. Len(paths) <= statesVisited
  BY <1>1 DEF EnumInit
<1>3. Len(enumerations) = 0 /\ job - 1 = 0 /\ \A i \in 1 .. 0 : FALSE
  BY <1>1
<1>4. None \notin Met
  BY StatusesAre
<1> QED BY <1>1, <1>2, <1>3, <1>4 DEF CountInv, Evidences

\* A step that leaves the evidence as it is, and goes on with the evaluation
\* or decides otherwise than on a meeting.
LEMMA CountWaits ==
  ASSUME CountInv, Len(paths') <= statesVisited',
         UNCHANGED <<request, job, enumerations, outcome>>,
         \/ phase' = phase
         \/ phase \in {"validate", "ask", "verify"} /\ phase' \in {"ask", "verify"}
  PROVE  CountInv'
BY DEF CountInv, Evidences

LEMMA CountDecided ==
  ASSUME CountInv, ServiceInv, UNCHANGED <<request, paths, statesVisited>>, phase' = "done",
         outcome'.status \notin Met, outcome'.enumerations = enumerations',
         \/ enumerations' = enumerations
         \/ \E x : /\ enumerations' = Append(enumerations, x)
                   /\ Evidence(x, request.queries[Len(enumerations) + 1])
  PROVE  CountInv'
<1>1. Len(paths') <= statesVisited'
  BY DEF CountInv
<1>2. SUFFICES ASSUME request # None PROVE Evidences'
  BY <1>1 DEF CountInv
<1>3. \A i \in 1 .. Len(enumerations) : Evidence(enumerations[i], request.queries[i])
  BY <1>2 DEF CountInv, Evidences
<1>4. \A i \in 1 .. Len(enumerations') : Evidence(enumerations'[i], request.queries[i])
  <2>1. CASE enumerations' = enumerations
    BY <1>3, <2>1
  <2>2. CASE \E x : /\ enumerations' = Append(enumerations, x)
                    /\ Evidence(x, request.queries[Len(enumerations) + 1])
    <3>1. PICK x : enumerations' = Append(enumerations, x) /\ Evidence(x, request.queries[Len(enumerations) + 1])
      BY <2>2
    <3>2. Len(enumerations) \in Nat
      BY Added DEF ServiceInv, EvidenceInv
    <3> QED BY <1>3, <3>1, <3>2, MoreEvidence
  <2> QED BY <2>1, <2>2
<1> QED BY <1>4 DEF Evidences

\* Cover decides on a meeting with the evidence there is.
LEMMA CountCovered ==
  ASSUME CountInv, phase = "cover", request # None, phase' = "done",
         UNCHANGED <<request, job, enumerations, paths, statesVisited>>,
         outcome'.enumerations = enumerations
  PROVE  CountInv'
BY DEF CountInv, Evidences

LEMMA EvaluatedEvidence ==
  Evaluated.enumerations = enumerations
<1>1. \A s : Outcome(s).enumerations = enumerations
  BY DEF Outcome
<1>2. \A r, o, e, c : Meeting(r, o, e, c).enumerations = enumerations
  BY DEF Meeting
<1>3. ASSUME NEW r, NEW o PROVE EvaluatedIn(r, o).enumerations = enumerations
  <2> DEFINE scarce == Cardinality(o) < request.diversityMinimum
             m == Meeting(r, o, scarce, IF scarce THEN ComponentsWith(r, WithLandmarks) ELSE o)
  <2>1. EvaluatedIn(r, o) =
          IF scarce /\ ~LandmarksValid THEN Outcome("failed")
          ELSE IF ~FamiliesCover THEN Outcome("incomplete") ELSE m
    BY DEF EvaluatedIn
  <2>2. m.enumerations = enumerations
    BY DEF Meeting
  <2> HIDE DEF m, scarce
  <2> QED BY <1>1, <2>1, <2>2
<1> DEFINE regions == [e \in Relevant |-> RegionOf(e)]
           found == EvaluatedIn(regions, ComponentsWith(regions, request.evidence))
           A == \E e \in Relevant, p \in Participants : ~ValidProfile(request.profiles[e][p])
           B == ~SomeAccess(request.access, request.reach) \/ ~ValidEvidence(request.topology, request.evidence)
<1>4. Evaluated = IF ~JourneysCover \/ ~AlternatesCover THEN Outcome("incomplete")
                  ELSE IF A THEN Outcome("incomplete")
                  ELSE IF B THEN Outcome("failed") ELSE found
  BY DEF Evaluated
<1>5. found.enumerations = enumerations
  BY <1>3
<1> HIDE DEF found, A, B
<1> QED BY <1>1, <1>4, <1>5

LEMMA CountVerified ==
  ASSUME Inv, CountInv, NEW c \in Claims, VerifyComplete(c)
  PROVE  CountInv'
<1>1. /\ phase = "verify" /\ Enumerated /\ CertificateHolds(c) /\ c.status = "complete" /\ ClaimedPaths(c) # <<>>
      /\ enumerations' = Evidenced("complete")
      /\ \/ job < Len(request.queries) /\ phase' = "ask" /\ job' = job + 1
         \/ job = Len(request.queries) /\ phase' = "cover" /\ job' = job
      /\ UNCHANGED <<request, outcome>> /\ UNCHANGED enumVars
  BY DEF VerifyComplete, Verifies
<1>2. RequestInv /\ CertifiedInv /\ EvidenceInv /\ OutcomeInv /\ EnumInv /\ ServiceInv
  BY DEF Inv, ServiceInv
<1>3. /\ request # None /\ request \in Requests /\ job \in Nat /\ job >= 1
      /\ query = request.queries[job] /\ outcome.status = None /\ None \notin Met
  <2>1. request \in Requests /\ request # None
    BY <1>1, <1>2 DEF RequestInv
  <2>2. job \in 1 .. Len(request.queries) /\ Len(request.queries) \in Nat
    BY <1>2, <2>1, RequestQueries DEF RequestInv
  <2> QED BY <1>1, <1>2, <2>1, <2>2, StatusesAre DEF CertifiedInv, OutcomeInv
<1>4. Len(paths) <= statesVisited /\ Evidences
  BY <1>3 DEF CountInv
<1> DEFINE n == Len(enumerations)
           x == [status |-> "complete", certificate |-> Certificate]
<1>5. n = job - 1 /\ n \in Nat /\ n + 1 = job
  BY <1>1, <1>3, <1>4 DEF Evidences
<1>6. Evidence(x, request.queries[n + 1])
  BY <1>1, <1>2, <1>3, <1>4, <1>5, CertificateIsAdmitted
<1>7. x.status = "complete" /\ x.certificate.pathsEmitted >= 1
  <2>1. ClaimedPaths(c) = paths /\ paths # <<>>
    BY <1>1 DEF CertificateHolds
  <2>2. Certificate.pathsEmitted = Len(paths)
    BY DEF Certificate
  <2>3. paths \in Seq(PathRecords)
    BY <1>1, <1>2, EnumInvEnds
  <2>4. Len(paths) >= 1
    BY <2>1, <2>3
  <2> QED BY <2>2, <2>4
<1>8. enumerations' = Append(enumerations, x)
  BY <1>1 DEF Evidenced
<1> HIDE DEF x, n
<1>9. /\ Len(enumerations') = n + 1
      /\ \A i \in 1 .. n : enumerations'[i] = enumerations[i]
      /\ enumerations'[n + 1] = x
      /\ \A i \in 1 .. n + 1 : Evidence(enumerations'[i], request.queries[i])
  <2>1. \A i \in 1 .. n : Evidence(enumerations[i], request.queries[i])
    BY <1>4 DEF Evidences, n
  <2>2. n = Len(enumerations)
    BY DEF n
  <2> QED BY <1>2, <1>5, <1>6, <1>8, <2>1, <2>2, MoreEvidence
<1>10. \A i \in 1 .. n + 1 : enumerations'[i].status = "complete" /\ enumerations'[i].certificate.pathsEmitted >= 1
  <2>1. \A i \in 1 .. n : enumerations[i].status = "complete" /\ enumerations[i].certificate.pathsEmitted >= 1
    BY <1>1, <1>4 DEF Evidences, n
  <2>2. \A i \in 1 .. n + 1 : i \in 1 .. n \/ i = n + 1
    BY <1>5
  <2> QED BY <1>7, <1>9, <2>1, <2>2
<1>11. Evidences'
  <2>1. CASE phase' = "ask" /\ job' = job + 1
    BY <1>1, <1>3, <1>5, <1>9, <1>10, <2>1 DEF Evidences
  <2>2. CASE job = Len(request.queries) /\ phase' = "cover" /\ job' = job
    BY <1>1, <1>3, <1>5, <1>9, <1>10, <2>2 DEF Evidences
  <2> QED BY <1>1, <2>1, <2>2
<1> QED BY <1>1, <1>4, <1>11 DEF CountInv, enumVars

LEMMA CountKept ==
  ASSUME Inv, CountInv, [ContractNext]_contractVars
  PROVE  CountInv'
<1>1. EnumInv /\ ServiceInv /\ Len(paths) <= statesVisited /\ None \notin Met
      /\ "failed" \notin Met /\ "incomplete" \notin Met /\ "unavailable" \notin Met
  BY StatusesAre DEF Inv, CountInv
<1>2. \A s : Outcome(s).status = s /\ Outcome(s).enumerations = enumerations
  BY DEF Outcome
<1>3. phase # "alone" => request # None
  BY <1>1 DEF ServiceInv, RequestInv
<1>4. phase \in {"ask", "verify"} => Len(enumerations) + 1 = job
  <2>1. job \in Nat
    BY <1>1 DEF ServiceInv, EvidenceInv
  <2> QED BY <1>3, <2>1 DEF CountInv, Evidences
<1>5. CASE Validate
  <2>1. UNCHANGED <<request, job, enumerations, paths, statesVisited>> /\ phase = "validate"
    BY <1>5 DEF Validate, enumVars
  <2>2. CASE phase' = "ask" /\ UNCHANGED outcome
    BY <1>1, <2>1, <2>2, CountWaits
  <2>3. CASE Decide(Outcome("failed")) \/ Decide(Outcome("incomplete"))
    <3>1. phase' = "done" /\ outcome'.status \notin Met /\ outcome'.enumerations = enumerations'
      BY <1>1, <1>2, <2>1, <2>3 DEF Decide
    <3> QED BY <1>1, <2>1, <3>1, CountDecided
  <2> QED BY <1>5, <2>2, <2>3 DEF Validate
<1>6. CASE AskInVain
  <2>1. /\ phase' = "done" /\ outcome'.status \notin Met /\ outcome'.enumerations = enumerations'
        /\ enumerations' = enumerations /\ UNCHANGED <<request, paths, statesVisited>>
    BY <1>1, <1>2, <1>6 DEF AskInVain, Decide, enumVars
  <2> QED BY <1>1, <2>1, CountDecided
<1>7. CASE AskUnavailable
  <2> DEFINE x == [status |-> "unavailable", certificate |-> None]
  <2>1. /\ phase' = "done" /\ outcome'.status \notin Met /\ outcome'.enumerations = enumerations'
        /\ enumerations' = Append(enumerations, x) /\ UNCHANGED <<request, paths, statesVisited>>
    BY <1>1, <1>7 DEF AskUnavailable, Decide, enumVars
  <2>2. Evidence(x, request.queries[Len(enumerations) + 1])
    BY DEF Evidence
  <2> QED BY <1>1, <2>1, <2>2, CountDecided
<1>8. CASE Ask
  <2>1. /\ phase = "ask" /\ phase' = "verify" /\ UNCHANGED <<request, job, enumerations, outcome>>
        /\ paths' = <<>> /\ statesVisited' = 0
    BY <1>8 DEF Ask, Begins
  <2>2. Len(paths') <= statesVisited'
    BY <2>1
  <2> QED BY <2>1, <2>2, CountWaits
<1>9. CASE Reenumerate
  <2>1. Len(paths') <= statesVisited'
    BY <1>1, <1>9, VisitsCount DEF Reenumerate
  <2>2. UNCHANGED <<request, job, enumerations, outcome, phase>>
    BY <1>9 DEF Reenumerate, serviceVars
  <2> QED BY <2>1, <2>2, CountWaits
<1>10. ASSUME NEW c \in Claims, VerifyRefuses(c) PROVE CountInv'
  <2>1. /\ phase = "verify" /\ Enumerated /\ phase' = "done"
        /\ outcome' = [status |-> "failed", enumerations |-> enumerations']
        /\ \/ enumerations' = enumerations
           \/ Verifies(c) /\ c.status = "complete" /\ enumerations' = Evidenced("complete")
        /\ UNCHANGED <<request, paths, statesVisited>>
    BY <1>10 DEF VerifyRefuses, Decide, enumVars
  <2>2. outcome'.status \notin Met /\ outcome'.enumerations = enumerations'
    BY <1>1, <2>1
  <2>3. query = request.queries[job]
    BY <1>1, <2>1 DEF ServiceInv, CertifiedInv
  <2>4. CASE Verifies(c) /\ c.status = "complete" /\ enumerations' = Evidenced("complete")
    <3> DEFINE x == [status |-> "complete", certificate |-> Certificate]
    <3>1. Evidence(x, request.queries[Len(enumerations) + 1])
      BY <1>1, <1>4, <2>1, <2>3, <2>4, CertificateIsAdmitted DEF Verifies
    <3>2. enumerations' = Append(enumerations, x)
      BY <2>4 DEF Evidenced
    <3> HIDE DEF x
    <3> QED BY <1>1, <2>1, <2>2, <3>1, <3>2, CountDecided
  <2>5. CASE enumerations' = enumerations
    BY <1>1, <2>1, <2>2, <2>5, CountDecided
  <2> QED BY <2>1, <2>4, <2>5
<1>11. ASSUME NEW c \in Claims, VerifyIncomplete(c) PROVE CountInv'
  <2> DEFINE x == [status |-> "incomplete", certificate |-> Certificate]
  <2>1. /\ phase = "verify" /\ Enumerated /\ phase' = "done" /\ CertificateHolds(c) /\ c.status = "incomplete"
        /\ outcome' = [status |-> "incomplete", enumerations |-> enumerations']
        /\ enumerations' = Append(enumerations, x)
        /\ UNCHANGED <<request, paths, statesVisited>>
    BY <1>11 DEF VerifyIncomplete, Verifies, Decide, Evidenced, enumVars
  <2>2. outcome'.status \notin Met /\ outcome'.enumerations = enumerations'
    BY <1>1, <2>1
  <2>3. query = request.queries[job]
    BY <1>1, <2>1 DEF ServiceInv, CertifiedInv
  <2>4. Evidence(x, request.queries[Len(enumerations) + 1])
    BY <1>1, <1>4, <2>1, <2>3, CertificateIsAdmitted
  <2> HIDE DEF x
  <2> QED BY <1>1, <2>1, <2>2, <2>4, CountDecided
<1>12. ASSUME NEW c \in Claims, VerifyComplete(c) PROVE CountInv'
  BY <1>12, CountVerified
<1>13. CASE CoverFails
  <2>1. /\ phase' = "done" /\ outcome'.status \notin Met /\ outcome'.enumerations = enumerations'
        /\ enumerations' = enumerations /\ UNCHANGED <<request, paths, statesVisited>>
    BY <1>1, <1>2, <1>13 DEF CoverFails, Decide, enumVars
  <2> QED BY <1>1, <2>1, CountDecided
<1>14. CASE Cover
  <2>1. /\ phase = "cover" /\ phase' = "done" /\ outcome' = Evaluated
        /\ UNCHANGED <<request, job, enumerations, paths, statesVisited>>
    BY <1>14 DEF Cover, Decide, enumVars
  <2>2. outcome'.enumerations = enumerations
    BY <2>1, EvaluatedEvidence
  <2> QED BY <1>3, <2>1, <2>2, CountCovered
<1>15. ASSUME UNCHANGED vars PROVE CountInv'
  <2>1. UNCHANGED <<request, job, enumerations, outcome, phase, paths, statesVisited>>
    BY <1>15 DEF vars, serviceVars, enumVars
  <2> QED BY <1>1, <2>1, CountWaits
<1>16. CASE Next
  BY <1>5, <1>6, <1>7, <1>8, <1>9, <1>10, <1>11, <1>12, <1>13, <1>14, <1>16 DEF Next
<1> QED BY <1>15, <1>16 DEF ContractNext, Publish, contractVars

\* A sequence that lists a set, each member once, has the length of its size.
LEMMA Listed ==
  ASSUME NEW n \in Nat, NEW S, NEW f \in [1 .. n -> S],
         \A x \in S : \E i \in 1 .. n : f[i] = x,
         \A i, j \in 1 .. n : f[i] = f[j] => i = j
  PROVE  IsFiniteSet(S) /\ Cardinality(S) = n
<1>1. f \in Bijection(1 .. n, S)
  BY Fun_IsBij
<1>2. ExistsBijection(1 .. n, S)
  BY <1>1, Fun_ExistsBij
<1>3. IsFiniteSet(1 .. n) /\ Cardinality(1 .. n) = n
  BY FS_Interval
<1> QED BY <1>2, <1>3, FS_Bijection

\* Two paths to be found along the same edges, at least one, are the same.
LEMMA OnePathOnEdges ==
  ASSUME NEW q \in Queries, NEW p \in AllPaths(q), NEW c \in AllPaths(q),
         p.edges = c.edges, Len(p.edges) >= 1
  PROVE  p = c
<1>1. Partial(q, p) /\ Partial(q, c)
  BY AllPathsArePartial
<1>2. Len(p.edges) \in Nat /\ 1 \in 1 .. Len(p.edges)
  BY <1>1, PartialTypes
<1>3. q.graph.from[p.edges[1]] = p.vertices[1] /\ q.graph.from[c.edges[1]] = c.vertices[1]
  BY <1>1, <1>2 DEF Partial
<1>4. Continues(p, c)
  BY <1>2, <1>3 DEF Continues
<1> QED BY <1>1, <1>4, SamePath

\* The keys of a participant are as many as the paths emitted for it.
LEMMA KeysAreCounted ==
  ASSUME NEW r \in Requests, NEW p \in 1 .. Len(r.queries), NEW n, Emits(r.queries[p], n),
         \A key \in PathKeys(r, p) : Len(key.edges) >= 1
  PROVE  /\ n \in Nat /\ IsFiniteSet(PathKeys(r, p)) /\ Cardinality(PathKeys(r, p)) = n
         /\ n >= 1 => PathKeys(r, p) # {}
<1> DEFINE q == r.queries[p]
           key(path) == [who |-> p, edges |-> path.edges]
<1>1. q \in Queries
  BY RequestQueries
<1>2. PICK found \in Seq(PathRecords) :
        n = Len(found) /\ ToSet(found) = AllPaths(q) /\ IsInjective(found)
  BY DEF Emits
<1>3. /\ n \in Nat /\ DOMAIN found = 1 .. n
      /\ \A i \in 1 .. n : found[i] \in AllPaths(q)
      /\ \A path \in AllPaths(q) : \E i \in 1 .. n : found[i] = path
      /\ \A i, j \in 1 .. n : found[i] = found[j] => i = j
  BY <1>2 DEF ToSet, IsInjective
<1>4. PathKeys(r, p) = {key(path) : path \in AllPaths(q)}
  BY DEF PathKeys
<1>5. \A path, other : key(path) = key(other) => path.edges = other.edges
  OBVIOUS
<1>6. \A path \in AllPaths(q) : Len(path.edges) >= 1
  <2>1. \A path : key(path).edges = path.edges
    OBVIOUS
  <2> HIDE DEF key, q
  <2> QED BY <1>4, <2>1
<1>7. \A path, other \in AllPaths(q) : key(path) = key(other) => path = other
  <2> HIDE DEF key, q
  <2> QED BY <1>1, <1>5, <1>6, OnePathOnEdges
<1> DEFINE f == [i \in 1 .. n |-> key(found[i])]
<1> HIDE DEF key, q
<1>8. f \in [1 .. n -> PathKeys(r, p)]
  BY <1>3, <1>4
<1>9. \A x \in PathKeys(r, p) : \E i \in 1 .. n : f[i] = x
  BY <1>3, <1>4
<1>10. \A i, j \in 1 .. n : f[i] = f[j] => i = j
  BY <1>3, <1>7
<1> HIDE DEF f
<1>11. IsFiniteSet(PathKeys(r, p)) /\ Cardinality(PathKeys(r, p)) = n
  BY <1>3, <1>8, <1>9, <1>10, Listed
<1>12. n >= 1 => PathKeys(r, p) # {}
  <2>1. n >= 1 => 1 \in 1 .. n
    BY <1>3
  <2> QED BY <1>8, <2>1
<1> QED BY <1>3, <1>11, <1>12

\* The vertices of a journey, read off its edges, are those of its path.
LEMMA VerticesOfJourney ==
  ASSUME request \in Requests, NEW p \in 1 .. Len(request.queries), NEW path \in AllPaths(request.queries[p]),
         Len(path.edges) >= 1
  PROVE  VerticesOf([who |-> p, edges |-> path.edges]) = path.vertices
<1> DEFINE q == request.queries[p]
           j == [who |-> p, edges |-> path.edges]
           n == Len(path.edges)
           t == [i \in DOMAIN path.edges |-> q.graph.to[path.edges[i]]]
<1>1. q \in Queries
  BY RequestQueries
<1>2. Partial(q, path)
  BY <1>1, AllPathsArePartial
<1>3. /\ path.vertices \in Seq(Vertices) /\ path.edges \in Seq(Edges) /\ n \in Nat /\ 1 \in 1 .. n
      /\ Len(path.vertices) = n + 1 /\ \A i \in 1 .. n : path.edges[i] \in Edges
      /\ q.graph.to \in [Edges -> Vertices]
  BY <1>1, <1>2, PartialTypes, QueryTypes
<1>4. /\ q.graph.from[path.edges[1]] = path.vertices[1]
      /\ \A i \in 1 .. n : q.graph.to[path.edges[i]] = path.vertices[i + 1]
  BY <1>2, <1>3 DEF Partial
<1>5. VerticesOf(j) = <<q.graph.from[path.edges[1]]>> \o t
  BY DEF VerticesOf
<1>6. t \in Seq(Vertices) /\ Len(t) = n /\ \A i \in 1 .. n : t[i] = path.vertices[i + 1]
  <2>1. DOMAIN path.edges = 1 .. n
    BY <1>3
  <2> HIDE DEF q
  <2> QED BY <1>3, <1>4, <2>1
<1>7. path.vertices[1] \in Vertices
  BY <1>3
<1> HIDE DEF t, q, n
<1>8. /\ <<path.vertices[1]>> \o t \in Seq(Vertices) /\ Len(<<path.vertices[1]>> \o t) = n + 1
      /\ (<<path.vertices[1]>> \o t)[1] = path.vertices[1]
      /\ \A i \in 1 .. n : (<<path.vertices[1]>> \o t)[i + 1] = t[i]
  BY <1>3, <1>6, <1>7
<1>9. \A i \in 1 .. n + 1 : (<<path.vertices[1]>> \o t)[i] = path.vertices[i]
  <2>1. \A i \in 1 .. n + 1 : i = 1 \/ (i - 1 \in 1 .. n /\ (i - 1) + 1 = i)
    BY <1>3
  <2> SUFFICES ASSUME NEW i \in 1 .. n + 1 PROVE (<<path.vertices[1]>> \o t)[i] = path.vertices[i]
    OBVIOUS
  <2>2. CASE i = 1
    BY <1>8, <2>2
  <2>3. CASE i - 1 \in 1 .. n /\ (i - 1) + 1 = i
    <3>1. (<<path.vertices[1]>> \o t)[(i - 1) + 1] = t[i - 1]
      BY <1>8, <2>3
    <3>2. t[i - 1] = path.vertices[(i - 1) + 1]
      BY <1>6, <2>3
    <3> QED BY <2>3, <3>1, <3>2
  <2> QED BY <2>1, <2>2, <2>3
<1>10. <<path.vertices[1]>> \o t = path.vertices
  <2> DEFINE u == <<path.vertices[1]>> \o t
  <2>1. u \in Seq(Vertices) /\ Len(u) = n + 1 /\ \A i \in 1 .. n + 1 : u[i] = path.vertices[i]
    BY <1>8, <1>9
  <2>2. path.vertices \in Seq(Vertices) /\ Len(path.vertices) = n + 1
    BY <1>3
  <2> HIDE DEF u, j
  <2>3. u = path.vertices
    BY <2>1, <2>2, SameSequence
  <2> QED BY <2>3 DEF u
<1>11. VerticesOf(j) = <<path.vertices[1]>> \o t
  <2>1. q.graph.from[path.edges[1]] = path.vertices[1]
    BY <1>4
  <2> HIDE DEF j
  <2> QED BY <1>5, <2>1, Zenon
<1>12. VerticesOf(j) = path.vertices
  <2> HIDE DEF j
  <2> QED BY <1>10, <1>11, Zenon
<1> QED BY <1>12

\* The fields of a meeting.
LEMMA MeetingParts ==
  ASSUME EvaluationInv, outcome.status \in Met
  PROVE  /\ outcome.status = IF outcome.components = {} THEN "no-eligible-target" ELSE "complete"
         /\ outcome.journeys = request.journeys
         /\ outcome.corridors = [j \in request.journeys |-> CorridorOf(j)]
         /\ outcome.regions = [e \in Relevant |-> RegionOf(e)]
         /\ outcome.families = [f \in IF outcome.components = {} THEN {} ELSE FamilyNames |->
                                  {key \in DOMAIN request.family : request.family[key] = f}]
         /\ ~outcome.evaluated => outcome.landmarks = {} /\ outcome.admitted = {}
         /\ outcome.evaluated => outcome.landmarks = Landmarks
         /\ outcome.admitted \subseteq Landmarks
         /\ \A i \in outcome.admitted :
               \E c \in outcome.components : request.landmarks[i].vertex \in c.vertices
<1> DEFINE regions == [e \in Relevant |-> RegionOf(e)]
           organic == ComponentsWith(regions, request.evidence)
           with == ComponentsWith(regions, WithLandmarks)
<1>1. \/ outcome = Meeting(regions, organic, FALSE, organic)
      \/ outcome = Meeting(regions, organic, TRUE, with)
  BY MeetingIs
<1>2. CASE outcome = Meeting(regions, organic, FALSE, organic)
  <2> HIDE DEF organic, regions
  <2>1. /\ outcome.components = organic /\ outcome.journeys = request.journeys
        /\ outcome.evaluated = FALSE /\ outcome.regions = regions
    BY <1>2, Zenon DEF Meeting
  <2>2. /\ outcome.status = IF organic = {} THEN "no-eligible-target" ELSE "complete"
        /\ outcome.corridors = [j \in request.journeys |-> CorridorOf(j)]
        /\ outcome.families = [f \in IF organic = {} THEN {} ELSE FamilyNames |->
                                 {key \in DOMAIN request.family : request.family[key] = f}]
    BY <1>2, Zenon DEF Meeting
  <2>3. /\ outcome.landmarks = IF FALSE THEN Landmarks ELSE {}
        /\ outcome.admitted = {i \in Landmarks : FALSE /\ \E c \in organic : request.landmarks[i].vertex \in c.vertices}
    BY <1>2, Zenon DEF Meeting
  <2>4. outcome.landmarks = {} /\ outcome.admitted = {}
    BY <2>3
  <2> QED BY <2>1, <2>2, <2>4 DEF regions
<1>3. CASE outcome = Meeting(regions, organic, TRUE, with)
  <2> HIDE DEF organic, regions, with
  <2>1. /\ outcome.components = with /\ outcome.journeys = request.journeys
        /\ outcome.evaluated = TRUE /\ outcome.regions = regions
    BY <1>3, Zenon DEF Meeting
  <2>2. /\ outcome.status = IF with = {} THEN "no-eligible-target" ELSE "complete"
        /\ outcome.corridors = [j \in request.journeys |-> CorridorOf(j)]
        /\ outcome.families = [f \in IF with = {} THEN {} ELSE FamilyNames |->
                                 {key \in DOMAIN request.family : request.family[key] = f}]
    BY <1>3, Zenon DEF Meeting
  <2>3. /\ outcome.landmarks = IF TRUE THEN Landmarks ELSE {}
        /\ outcome.admitted = {i \in Landmarks : TRUE /\ \E c \in with : request.landmarks[i].vertex \in c.vertices}
    BY <1>3, Zenon DEF Meeting
  <2>4. outcome.landmarks = Landmarks
    BY <2>3
  <2>5. /\ outcome.admitted \subseteq Landmarks
        /\ \A i \in outcome.admitted : \E c \in with : request.landmarks[i].vertex \in c.vertices
    BY <2>3
  <2> QED BY <2>1, <2>2, <2>4, <2>5 DEF regions
<1> QED BY <1>1, <1>2, <1>3

\* The keys of one participant among those of all.
LEMMA KeysOfParticipant ==
  ASSUME NEW r, NEW n \in Nat, NEW p \in 1 .. n
  PROVE  {key \in KeysUpTo(r, n) : key.who = p} = PathKeys(r, p)
<1>1. \A i : \A key \in PathKeys(r, i) : key.who = i
  BY DEF PathKeys
<1>2. \A key : key \in KeysUpTo(r, n) <=> \E i \in 1 .. n : key \in PathKeys(r, i)
  BY DEF KeysUpTo
<1> QED BY <1>1, <1>2

\* Finitely many keys, and at least one of each participant.
LEMMA KeysOfAll ==
  ASSUME NEW r, NEW n \in Nat,
         \A p \in 1 .. n : IsFiniteSet(PathKeys(r, p)) /\ PathKeys(r, p) # {}
  PROVE  /\ IsFiniteSet(KeysUpTo(r, n)) /\ Cardinality(KeysUpTo(r, n)) \in Nat
         /\ n <= Cardinality(KeysUpTo(r, n))
<1> DEFINE sets == {PathKeys(r, p) : p \in 1 .. n}
           each == [p \in 1 .. n |-> PathKeys(r, p)]
           first == [p \in 1 .. n |-> CHOOSE key \in PathKeys(r, p) : TRUE]
<1>1. IsFiniteSet(1 .. n) /\ Cardinality(1 .. n) = n
  BY FS_Interval
<1>2. IsFiniteSet(sets)
  <2>1. each \in [1 .. n -> sets] /\ \A s \in sets : \E p \in 1 .. n : each[p] = s
    OBVIOUS
  <2> HIDE DEF each, sets
  <2>2. each \in Surjection(1 .. n, sets)
    BY <2>1, Fun_IsSurj
  <2> QED BY <1>1, <2>2, FS_Surjection
<1>3. \A s \in sets : IsFiniteSet(s)
  OBVIOUS
<1>4. KeysUpTo(r, n) = UNION sets
  BY DEF KeysUpTo
<1>5. IsFiniteSet(KeysUpTo(r, n))
  <2> HIDE DEF sets
  <2> QED BY <1>2, <1>3, <1>4, FS_UNION
<1>6. \A p \in 1 .. n : first[p] \in PathKeys(r, p)
  OBVIOUS
<1>7. first \in [1 .. n -> KeysUpTo(r, n)]
  BY <1>6 DEF KeysUpTo
<1>8. \A p \in 1 .. n : first[p].who = p
  <2>1. \A p : \A key \in PathKeys(r, p) : key.who = p
    BY DEF PathKeys
  <2> HIDE DEF first
  <2> QED BY <1>6, <2>1
<1> HIDE DEF first
<1>9. first \in Injection(1 .. n, KeysUpTo(r, n))
  <2>1. \A a, b \in 1 .. n : first[a] = first[b] => a = b
    BY <1>8
  <2> QED BY <1>7, <2>1, Fun_IsInj
<1> QED BY <1>1, <1>5, <1>9, FS_Injection, FS_CardinalityType

\* What a corridor says of the alternates.
CorridorNames(result, j) ==
    LET corridor == result.corridors[j]
        alternates == DOMAIN corridor.constituents \ {j}
    IN  /\ alternates \subseteq {k \in result.journeys : k.who = j.who}
        /\ corridor.envelope = <<>> <=> alternates = {}

\* The part of the contract that counts and compares, and computes no times.
CountsAgree ==
    outcome.status # None =>
        /\ EnumerationsAdmitted(outcome) <=> FingerprintsFit(outcome)
        /\ outcome.status \in Met =>
              /\ JourneysAdmitted(outcome) <=> \A j \in outcome.journeys : JourneyFits(j)
              /\ DOMAIN outcome.corridors = outcome.journeys
              /\ \A j \in outcome.journeys : CorridorNames(outcome, j)
              /\ DOMAIN outcome.regions # {}
              /\ outcome.components = {} <=> outcome.status = "no-eligible-target"
              /\ \A c \in outcome.components : \A part \in c.intervals : part.edge \in DOMAIN outcome.regions
              /\ FamiliesAdmitted(outcome)
              /\ LandmarksAdmitted(outcome)

LEMMA CorridorIs ==
  ASSUME NEW j, NEW alternates, NEW timesOf, NEW tolerance
  PROVE  LET corridor == exactTemporalCorridor(j, alternates, timesOf, tolerance)
         IN  /\ DOMAIN corridor.constituents = {j} \cup alternates
             /\ corridor.envelope = <<>> <=> alternates = {}
<1> DEFINE corridor == exactTemporalCorridor(j, alternates, timesOf, tolerance)
           constituents == [k \in {j} \cup alternates |-> ExactCorridor(timesOf[k], tolerance)]
           least(i) == \A k \in DOMAIN constituents : AtMost(constituents[i].start, constituents[k].start)
           last(i) == \A k \in DOMAIN constituents : AtMost(constituents[k].end, constituents[i].end)
           hull == [start |-> constituents[CHOOSE i \in DOMAIN constituents : least(i)].start,
                    end |-> constituents[CHOOSE i \in DOMAIN constituents : last(i)].end]
<1>1. corridor.constituents = constituents
  BY Zenon DEF exactTemporalCorridor
<1>2. corridor.envelope = IF alternates = {} THEN <<>> ELSE <<hull>>
  BY Zenon DEF exactTemporalCorridor
<1>3. \A x : <<x>> # <<>>
  OBVIOUS
<1> HIDE DEF corridor, hull
<1>4. corridor.envelope = <<>> <=> alternates = {}
  BY <1>2, <1>3
<1> QED BY <1>1, <1>4 DEF corridor

LEMMA EnumerationsAgree ==
  ASSUME Inv, CountInv, outcome.status # None
  PROVE  EnumerationsAdmitted(outcome) <=> FingerprintsFit(outcome)
<1>1. /\ request # None /\ request \in Requests /\ job \in 1 .. Len(request.queries)
      /\ IsASequence(enumerations) /\ Len(enumerations) <= job
  BY DEF Inv, ServiceInv, RequestInv, OutcomeInv, EvidenceInv
<1>2. /\ outcome.enumerations = enumerations
      /\ outcome.status \in Met => Len(enumerations) = Len(request.queries)
      /\ \A i \in 1 .. Len(enumerations) : Evidence(enumerations[i], request.queries[i])
  BY <1>1 DEF CountInv, Evidences
<1>3. Len(request.queries) \in Nat
  BY <1>1, RequestQueries
<1>4. Len(enumerations) \in Nat /\ DOMAIN enumerations = 1 .. Len(enumerations)
  <2>1. PICK S : enumerations \in Seq(S)
    BY <1>1 DEF IsASequence
  <2> QED BY <2>1
<1>5. ASSUME NEW i \in DOMAIN enumerations
      PROVE  (IF enumerations[i].certificate = None THEN enumerations[i].status = "unavailable"
              ELSE /\ CertificateAdmitted(enumerations[i].certificate) /\ FingerprintFits(i)
                   /\ enumerations[i].certificate.complete <=> enumerations[i].status = "complete")
             <=> (enumerations[i].certificate # None => FingerprintFits(i))
  BY <1>2, <1>4, ContractAssumption DEF Evidence
<1>6. Len(enumerations) <= Len(request.queries)
  BY <1>1, <1>3, <1>4
<1>7. EnumerationsAdmitted(outcome) <=>
        \A i \in DOMAIN enumerations :
          IF enumerations[i].certificate = None THEN enumerations[i].status = "unavailable"
          ELSE /\ CertificateAdmitted(enumerations[i].certificate) /\ FingerprintFits(i)
               /\ enumerations[i].certificate.complete <=> enumerations[i].status = "complete"
  BY <1>2, <1>6, Zenon DEF EnumerationsAdmitted
<1>8. FingerprintsFit(outcome) <=>
        \A i \in DOMAIN enumerations : enumerations[i].certificate # None => FingerprintFits(i)
  BY <1>2, Zenon DEF FingerprintsFit
<1> QED BY <1>5, <1>7, <1>8, Zenon

LEMMA JourneysAgree ==
  ASSUME Inv, EvaluationInv, CountInv, outcome.status \in Met
  PROVE  JourneysAdmitted(outcome) <=> \A j \in outcome.journeys : JourneyFits(j)
<1> DEFINE n == Len(request.queries)
           keys == KeysUpTo(request, n)
<1>1. outcome.status # None /\ outcome.status \in Met
  BY StatusesAre
<1>2. request # None /\ request \in Requests /\ certified = keys /\ Covers
  BY <1>1 DEF Inv, ServiceInv, RequestInv, OutcomeInv
<1>3. n \in Nat /\ \A i \in 1 .. n : request.queries[i] \in Queries
  BY <1>2, RequestQueries
<1>4. request.journeys = keys /\ outcome.journeys = request.journeys
  BY <1>2, MeetingParts DEF Covers, JourneysCover
<1>5. /\ IsASequence(enumerations) /\ outcome.enumerations = enumerations /\ Len(enumerations) = n
      /\ \A i \in 1 .. n : /\ Evidence(enumerations[i], request.queries[i])
                           /\ enumerations[i].status = "complete"
                           /\ enumerations[i].certificate.pathsEmitted >= 1
  BY <1>1, <1>2 DEF CountInv, Evidences, Inv, ServiceInv, EvidenceInv
<1>6. DOMAIN enumerations = 1 .. n
  <2>1. PICK S : enumerations \in Seq(S)
    BY <1>5 DEF IsASequence
  <2> QED BY <1>5, <2>1
<1>7. \A i \in 1 .. n : Emits(request.queries[i], enumerations[i].certificate.pathsEmitted)
  <2>1. "complete" # "unavailable"
    OBVIOUS
  <2> QED BY <1>5, <2>1, Zenon DEF Evidence
<1>8. request.journeys # {} /\ Cardinality(request.journeys) <= MaxJourneys
      /\ \A j \in request.journeys : ValidJourney(Legs(j))
  BY <1>1 DEF EvaluationInv, Checked
<1>9. ASSUME NEW j \in keys PROVE Len(j.edges) >= 1
  <2>1. n \in 0 .. n
    BY <1>3
  <2>2. j.edges \in Seq(Edges)
    BY <1>2, <2>1, KeyTypes
  <2>3. Legs(j) # <<>>
    BY <1>4, <1>8 DEF ValidJourney
  <2>4. ASSUME Len(j.edges) = 0 PROVE FALSE
    <3>1. j.edges = <<>>
      BY <2>2, <2>4
    <3>2. Legs(j) = [i \in DOMAIN <<>> |-> request.queries[j.who].graph.duration[j.edges[i]]]
      BY <3>1 DEF Legs
    <3>3. \A f : [i \in DOMAIN <<>> |-> f[i]] = <<>>
      OBVIOUS
    <3>4. Legs(j) = <<>>
      BY <3>2
    <3> QED BY <2>3, <3>4
  <2> QED BY <2>2, <2>4
<1>10. \A p \in 1 .. n : PathKeys(request, p) \subseteq keys
  BY DEF KeysUpTo
<1>11. ASSUME NEW p \in 1 .. n
       PROVE  /\ IsFiniteSet(PathKeys(request, p)) /\ PathKeys(request, p) # {}
              /\ Cardinality(PathKeys(request, p)) = enumerations[p].certificate.pathsEmitted
  <2> DEFINE m == enumerations[p].certificate.pathsEmitted
  <2>1. Emits(request.queries[p], m) /\ m >= 1
    BY <1>5, <1>7
  <2>2. \A key \in PathKeys(request, p) : Len(key.edges) >= 1
    BY <1>9, <1>10
  <2> HIDE DEF m, keys
  <2>3. IsFiniteSet(PathKeys(request, p)) /\ Cardinality(PathKeys(request, p)) = m /\ PathKeys(request, p) # {}
    BY <1>2, <2>1, <2>2, KeysAreCounted
  <2> QED BY <2>3 DEF m
<1>12. Cardinality(keys) \in n .. MaxClientArray
  <2> HIDE DEF n
  <2>1. Cardinality(keys) \in Nat /\ n <= Cardinality(keys)
    BY <1>3, <1>11, KeysOfAll
  <2> QED BY <1>3, <1>4, <1>8, <2>1, ContractAssumption
<1>13. ASSUME NEW j \in keys PROVE IsInjective(VerticesOf(j))
  <2>1. PICK p \in 1 .. n : j \in PathKeys(request, p)
    BY DEF KeysUpTo
  <2>2. PICK path \in AllPaths(request.queries[p]) : j = [who |-> p, edges |-> path.edges]
    BY <2>1 DEF PathKeys
  <2>3. Len(path.edges) >= 1
    <3>1. j.edges = path.edges
      BY <2>2
    <3> QED BY <1>9, <3>1
  <2>4. VerticesOf(j) = path.vertices
    BY <1>2, <2>2, <2>3, VerticesOfJourney
  <2>5. request.queries[p] \in Queries
    BY <1>3
  <2>6. Partial(request.queries[p], path)
    BY <2>5, AllPathsArePartial
  <2>7. path.vertices \in Seq(Vertices)
    BY <2>5, <2>6, PartialTypes
  <2>8. \A a, b \in 1 .. Len(path.vertices) : path.vertices[a] = path.vertices[b] => a = b
    BY <2>6 DEF Partial
  <2> QED BY <2>4, <2>7, <2>8 DEF IsInjective
<1>14. \A i \in 1 .. n : {j \in keys : j.who = i} = PathKeys(request, i)
  BY <1>3, KeysOfParticipant
<1>15. /\ Cardinality(outcome.journeys) \in Len(request.queries) .. MaxClientArray
       /\ \A j \in outcome.journeys : ValidJourney(Legs(j)) /\ IsInjective(VerticesOf(j))
  BY <1>4, <1>8, <1>12, <1>13
<1>16. ASSUME NEW i \in DOMAIN outcome.enumerations
       PROVE  outcome.enumerations[i].certificate.pathsEmitted
                 = Cardinality({j \in outcome.journeys : j.who = i})
  <2>1. i \in 1 .. n /\ outcome.enumerations[i] = enumerations[i]
    BY <1>5, <1>6
  <2>2. {j \in outcome.journeys : j.who = i} = PathKeys(request, i)
    BY <1>4, <1>14, <2>1
  <2> QED BY <1>11, <2>1, <2>2
<1>17. JourneysAdmitted(outcome) => \A j \in outcome.journeys : JourneyFits(j)
  BY Zenon DEF JourneysAdmitted
<1>18. ASSUME \A j \in outcome.journeys : JourneyFits(j) PROVE JourneysAdmitted(outcome)
  BY <1>15, <1>16, <1>18 DEF JourneysAdmitted
<1> QED BY <1>17, <1>18

\* The families of a meeting are disjoint, and have all of its journeys.
LEMMA FamiliesAgree ==
  ASSUME Inv, EvaluationInv, outcome.status \in Met
  PROVE  FamiliesAdmitted(outcome)
<1>1. FamiliesCover /\ JourneysCover
  BY DEF Inv, ServiceInv, OutcomeInv, Covers
<1>2. {key \in DOMAIN request.family : request.family[key] # None} = outcome.journeys
  BY <1>1, MeetingParts DEF FamiliesCover, JourneysCover
<1> DEFINE names == IF outcome.components = {} THEN {} ELSE FamilyNames
           family(f) == {key \in DOMAIN request.family : request.family[key] = f}
<1>3. outcome.families = [f \in names |-> family(f)]
  BY MeetingParts
<1>4. DOMAIN outcome.families = names /\ \A f \in names : outcome.families[f] = family(f)
  <2> HIDE DEF names
  <2> QED BY <1>3
<1>5. \A f, g \in DOMAIN outcome.families : f # g => outcome.families[f] \cap outcome.families[g] = {}
  <2> HIDE DEF names
  <2> QED BY <1>4
<1>6. outcome.status = IF outcome.components = {} THEN "no-eligible-target" ELSE "complete"
  BY MeetingParts
<1>7. CASE outcome.components = {}
  <2>1. outcome.status # "complete" /\ DOMAIN outcome.families = {}
    BY <1>4, <1>6, <1>7
  <2> QED BY <1>5, <2>1 DEF FamiliesAdmitted
<1>8. CASE outcome.components # {}
  <2>1. outcome.status = "complete" /\ DOMAIN outcome.families = FamilyNames
    BY <1>4, <1>6, <1>8
  <2>2. \E key \in DOMAIN request.family : request.family[key] # None
    BY DEF EvaluationInv, Checked
  <2>3. \A f : f \in FamilyNames <=> f # None /\ \E key \in DOMAIN request.family : f = request.family[key]
    BY DEF FamilyNames
  <2>4. FamilyNames # {}
    BY <2>2, <2>3
  <2>5. \A key : key \in UNION {outcome.families[f] : f \in DOMAIN outcome.families}
                   <=> key \in DOMAIN request.family /\ request.family[key] # None
    <3>1. \A key : key \in UNION {outcome.families[f] : f \in DOMAIN outcome.families}
                     <=> \E f \in FamilyNames : key \in family(f)
      <4> HIDE DEF names, family
      <4>1. \A f \in FamilyNames : f \in names /\ outcome.families[f] = family(f)
        BY <1>4, <2>1
      <4> QED BY <2>1, <4>1
    <3> QED BY <2>3, <3>1
  <2>6. UNION {outcome.families[f] : f \in DOMAIN outcome.families} = outcome.journeys
    BY <1>2, <2>5
  <2> QED BY <1>5, <2>1, <2>4, <2>6 DEF FamiliesAdmitted
<1> QED BY <1>7, <1>8

LEMMA LandmarksAgree ==
  ASSUME EvaluationInv, outcome.status \in Met
  PROVE  LandmarksAdmitted(outcome)
<1>1. /\ ~outcome.evaluated => outcome.landmarks = {} /\ outcome.admitted = {}
      /\ outcome.evaluated => outcome.landmarks = Landmarks
      /\ outcome.admitted \subseteq Landmarks
      /\ \A i \in outcome.admitted : \E c \in outcome.components : request.landmarks[i].vertex \in c.vertices
  BY MeetingParts
<1>2. outcome.admitted \subseteq outcome.landmarks
  BY <1>1
<1>3. \A i \in outcome.admitted : request.landmarks[i].vertex \in UNION {c.vertices : c \in outcome.components}
  BY <1>1
<1> QED BY <1>1, <1>2, <1>3 DEF LandmarksAdmitted

LEMMA CorridorsAgree ==
  ASSUME EvaluationInv, CompleteCoversEveryPath, outcome.status \in Met, NEW j \in outcome.journeys
  PROVE  DOMAIN outcome.corridors = outcome.journeys /\ CorridorNames(outcome, j)
<1>1. outcome.journeys = request.journeys /\ outcome.corridors = [k \in request.journeys |-> CorridorOf(k)]
  BY MeetingParts
<1>2. outcome.corridors[j] = CorridorOf(j) /\ DOMAIN outcome.corridors = outcome.journeys
  BY <1>1
<1>3. /\ DOMAIN CorridorOf(j).constituents = {j} \cup request.alternates[j]
      /\ CorridorOf(j).envelope = <<>> <=> request.alternates[j] = {}
  BY CorridorIs DEF CorridorOf
<1>4. request.alternates[j] =
        {k \in request.journeys \ {j} : k.who = j.who /\ request.family[k] = request.family[j]}
  BY <1>1, StatusesAre DEF CompleteCoversEveryPath
<1>5. DOMAIN outcome.corridors[j].constituents \ {j} = request.alternates[j]
  BY <1>2, <1>3, <1>4
<1>6. request.alternates[j] \subseteq {k \in outcome.journeys : k.who = j.who}
  BY <1>1, <1>4
<1> QED BY <1>2, <1>3, <1>5, <1>6 DEF CorridorNames

\* A part of a component lies on an edge that has a region.
LEMMA PartsHaveRegions ==
  ASSUME ComponentsHoldTogether, EvaluationInv, outcome.status \in Met,
         NEW c \in outcome.components, NEW part \in c.intervals
  PROVE  part.edge \in DOMAIN outcome.regions
<1>1. DOMAIN outcome.regions = Relevant
  <2>1. outcome.regions = [e \in Relevant |-> RegionOf(e)]
    BY MeetingParts
  <2> QED BY <2>1
<1>2. UNION {d.intervals : d \in outcome.components} =
        {PartOf(f) : f \in Fragments(request.topology, outcome.regions, request.access)}
  BY DEF ComponentsHoldTogether
<1>3. PICK f \in Fragments(request.topology, outcome.regions, request.access) : part = PartOf(f)
  <2>1. part \in UNION {d.intervals : d \in outcome.components}
    OBVIOUS
  <2> QED BY <1>2, <2>1
<1>4. PICK e \in Relevant :
         f \in {[edge |-> e, interval |-> i, touches |-> endpointVertexIds(request.topology.edges[e], i)] :
                  i \in Stretches(request.topology, e, outcome.regions[e], request.access)}
  BY Zenon DEF Fragments, Relevant
<1>5. f.edge = e
  BY <1>4
<1>6. part.edge = f.edge
  BY <1>3 DEF PartOf
<1> QED BY <1>1, <1>4, <1>5, <1>6

\* What the contract counts and compares of an outcome agrees with what the
\* service computes, on every graph and with every request.  Its evidence is
\* refused exactly if it copies the text of a graph that is too long; the
\* journeys of a meeting exactly if one has too many vertices; and a meeting
\* never for the names of alternates, regions, families and landmarks
\* (client-contract.ts:336, 432, 464, 560, 661, job-cache.ts:262).
THEOREM CountsHold == ContractSpec => []CountsAgree
<1>1. ASSUME Inv, EvaluationInv, CountInv, CompleteCoversEveryPath, ComponentsHoldTogether
      PROVE  CountsAgree
  <2>1. SUFFICES ASSUME outcome.status # None
                 PROVE  /\ EnumerationsAdmitted(outcome) <=> FingerprintsFit(outcome)
                        /\ outcome.status \in Met =>
                              /\ JourneysAdmitted(outcome) <=> \A j \in outcome.journeys : JourneyFits(j)
                              /\ DOMAIN outcome.corridors = outcome.journeys
                              /\ \A j \in outcome.journeys : CorridorNames(outcome, j)
                              /\ DOMAIN outcome.regions # {}
                              /\ outcome.components = {} <=> outcome.status = "no-eligible-target"
                              /\ \A c \in outcome.components :
                                    \A part \in c.intervals : part.edge \in DOMAIN outcome.regions
                              /\ FamiliesAdmitted(outcome)
                              /\ LandmarksAdmitted(outcome)
    BY DEF CountsAgree
  <2>2. EnumerationsAdmitted(outcome) <=> FingerprintsFit(outcome)
    BY <1>1, <2>1, EnumerationsAgree
  <2>3. ASSUME outcome.status \in Met
        PROVE  /\ JourneysAdmitted(outcome) <=> \A j \in outcome.journeys : JourneyFits(j)
               /\ FamiliesAdmitted(outcome) /\ LandmarksAdmitted(outcome)
               /\ \A j \in outcome.journeys : CorridorNames(outcome, j)
               /\ \A c \in outcome.components : \A part \in c.intervals : part.edge \in DOMAIN outcome.regions
    BY <1>1, <2>3, JourneysAgree, FamiliesAgree, LandmarksAgree, CorridorsAgree, PartsHaveRegions
  <2>4. ASSUME outcome.status \in Met
        PROVE  /\ DOMAIN outcome.corridors = outcome.journeys
               /\ DOMAIN outcome.regions # {}
               /\ outcome.components = {} <=> outcome.status = "no-eligible-target"
    <3>1. /\ outcome.status = IF outcome.components = {} THEN "no-eligible-target" ELSE "complete"
          /\ outcome.journeys = request.journeys
          /\ outcome.corridors = [j \in request.journeys |-> CorridorOf(j)]
      BY <1>1, <2>4, MeetingParts
    <3>2. DOMAIN outcome.regions # {}
      <4>1. Relevant # {}
        BY <1>1, <2>4 DEF EvaluationInv, Checked, ValidTopology, Relevant, RelevantEdges
      <4>2. outcome.regions = [e \in Relevant |-> RegionOf(e)]
        BY <1>1, <2>4, MeetingParts
      <4> QED BY <4>1, <4>2
    <3> QED BY <3>1, <3>2
  <2> QED BY <2>2, <2>3, <2>4
<1>2. ContractSpec => []CountInv
  <2>1. ContractInit => CountInv
    BY CountInitially
  <2>2. Inv /\ CountInv /\ [ContractNext]_contractVars => CountInv'
    BY CountKept
  <2> QED BY <2>1, <2>2, Invariance, PTL DEF ContractSpec
<1>3. ContractSpec => []EvaluationInv
  <2>1. ContractInit => EvaluationInv
    BY EvaluationInitially
  <2>2. Inv /\ EvaluationInv /\ [ContractNext]_contractVars => EvaluationInv'
    BY EvaluationKept
  <2> QED BY <2>1, <2>2, Invariance, PTL DEF ContractSpec
<1> QED BY <1>1, <1>2, <1>3, Invariance, CoverageHolds, ComponentsHold, PTL
=============================================================================
