-------------------------- MODULE RouteEnumeration --------------------------
(***************************************************************************)
(* The exhaustive route enumeration of the route-first engine              *)
(* (lib/domain/route-first/enumeration.ts): a depth-first search that      *)
(* emits every loopless path from an origin to the first target it meets,  *)
(* and that counts each visit and each tried edge against a work budget.   *)
(* The recursion of enumerateLooplessRoutes is a stack of frames here, one *)
(* step for each call, tried edge and return.  Distances are left out:     *)
(* they are summed along a path exactly as durations are.                  *)
(***************************************************************************)
EXTENDS Naturals, Sequences, FiniteSets

CONSTANTS
    Vertices,       \* vertex ids, numbered in canonical order
    Edges,          \* edge ids, numbered in canonical order
    Modes,          \* travel modes
    None            \* an absent bound of the policy

\* A path: the vertices it visits, the edges between them, the time it takes.
PathRecords == [vertices : Seq(Vertices), edges : Seq(Edges), duration : Nat]

ASSUME EnumerationAssumption ==
    /\ Vertices \subseteq Nat /\ IsFiniteSet(Vertices)
    /\ Edges \subseteq Nat /\ IsFiniteSet(Edges)
    /\ None \notin Nat /\ None \notin PathRecords

\* The graphs validateGraph accepts: no edge is a loop.
RouteGraphs ==
    {g \in [from : [Edges -> Vertices], to : [Edges -> Vertices],
            mode : [Edges -> Modes], duration : [Edges -> Nat]] :
        \A e \in Edges : g.from[e] # g.to[e]}

\* The policies validatePolicy accepts, maxHops filled in.
Policies ==
    [maxHops : 0 .. Cardinality(Vertices) - 1, maxDuration : Nat \cup {None},
     allowedModes : SUBSET Modes, workBudget : (Nat \ {0}) \cup {None}]

Queries ==
    [graph : RouteGraphs, policy : Policies,
     origins : (SUBSET Vertices) \ {{}}, targets : (SUBSET Vertices) \ {{}}]

VARIABLES
    query,              \* the input of the running enumeration
    starts,             \* the origins not yet visited
    call,               \* the path visit() is being called with, None between calls
    frames,             \* the calls of visit() that are trying their edges
    paths,              \* the paths emitted, in order
    statesVisited, edgeTransitions, workUnits,
    stopped             \* the work budget ran out

enumVars == <<query, starts, call, frames, paths, statesVisited,
              edgeTransitions, workUnits, stopped>>

-----------------------------------------------------------------------------
Least(S) == CHOOSE x \in S : \A y \in S : x <= y

Top == frames[Len(frames)]
End(path) == path.vertices[Len(path.vertices)]
Visited(path) == {path.vertices[i] : i \in 1 .. Len(path.vertices)}

Exhausted ==
    query.policy.workBudget # None /\ workUnits >= query.policy.workBudget

\* The path extended by an edge, and whether the search follows the edge.
Extended(path, e) ==
    [vertices |-> Append(path.vertices, query.graph.to[e]),
     edges |-> Append(path.edges, e),
     duration |-> path.duration + query.graph.duration[e]]

FollowsBelowDuration(path, e) ==
    /\ query.graph.mode[e] \in query.policy.allowedModes
    /\ query.graph.to[e] \notin Visited(path)
    /\ \/ query.policy.maxDuration = None
       \/ path.duration + query.graph.duration[e] < query.policy.maxDuration

Follows(path, e) ==
    /\ query.graph.mode[e] \in query.policy.allowedModes
    /\ query.graph.to[e] \notin Visited(path)
    /\ \/ query.policy.maxDuration = None
       \/ path.duration + query.graph.duration[e] <= query.policy.maxDuration

\* The state of a call of enumerateLooplessRoutes before its first visit.
Begins(q) ==
    /\ query' = q
    /\ starts' = q.origins
    /\ call' = None /\ frames' = <<>> /\ paths' = <<>>
    /\ statesVisited' = 0 /\ edgeTransitions' = 0 /\ workUnits' = 0
    /\ stopped' = FALSE

EnumInit(q) ==
    /\ query = q
    /\ starts = q.origins
    /\ call = None /\ frames = <<>> /\ paths = <<>>
    /\ statesVisited = 0 /\ edgeTransitions = 0 /\ workUnits = 0
    /\ stopped = FALSE

-----------------------------------------------------------------------------
\* The loop over the origins calls visit() with the next one.
VisitOrigin ==
    /\ call = None /\ frames = <<>> /\ starts # {} /\ ~stopped
    /\ LET s == Least(starts)
       IN  /\ call' = [vertices |-> <<s>>, edges |-> <<>>, duration |-> 0]
           /\ starts' = starts \ {s}
    /\ UNCHANGED <<query, frames, paths, statesVisited, edgeTransitions,
                   workUnits, stopped>>

\* visit() finds the budget spent: every call on the stack returns.
VisitRefused ==
    /\ call # None /\ Exhausted
    /\ stopped' = TRUE
    /\ call' = None /\ frames' = <<>>
    /\ UNCHANGED <<query, starts, paths, statesVisited, edgeTransitions, workUnits>>

CountVisit ==
    /\ workUnits' = workUnits + 1
    /\ statesVisited' = statesVisited + 1

\* visit() reaches a target: the path is emitted and not extended.
VisitTarget ==
    /\ call # None /\ ~Exhausted
    /\ End(call) \in query.targets
    /\ CountVisit
    /\ paths' = Append(paths, call)
    /\ call' = None
    /\ UNCHANGED <<query, starts, frames, edgeTransitions, stopped>>

Outgoing(path) ==
    IF Len(path.edges) >= query.policy.maxHops THEN {}
    ELSE {e \in Edges : query.graph.from[e] = End(path)}

\* visit() at another vertex starts to try the edges that leave it.
VisitInner ==
    /\ call # None /\ ~Exhausted
    /\ End(call) \notin query.targets
    /\ CountVisit
    /\ frames' = Append(frames, [path |-> call, left |-> Outgoing(call)])
    /\ call' = None
    /\ UNCHANGED <<query, starts, paths, edgeTransitions, stopped>>

\* The loop over the edges finds the budget spent.
TryRefused ==
    /\ call = None /\ frames # <<>> /\ Top.left # {} /\ Exhausted
    /\ stopped' = TRUE
    /\ frames' = <<>>
    /\ UNCHANGED <<query, starts, call, paths, statesVisited, edgeTransitions,
                   workUnits>>

TryEdgeUnchecked ==
    /\ call = None /\ frames # <<>> /\ Top.left # {}
    /\ workUnits' = workUnits + 1
    /\ edgeTransitions' = edgeTransitions + 1
    /\ LET e == Least(Top.left)
       IN  /\ frames' = [frames EXCEPT ![Len(frames)].left = @ \ {e}]
           /\ call' = IF Follows(Top.path, e) THEN Extended(Top.path, e) ELSE None
    /\ UNCHANGED <<query, starts, paths, statesVisited, stopped>>

\* The loop over the edges tries the next edge, and calls visit() if it may
\* be followed.
TryEdge ==
    /\ call = None /\ frames # <<>> /\ Top.left # {} /\ ~Exhausted
    /\ workUnits' = workUnits + 1
    /\ edgeTransitions' = edgeTransitions + 1
    /\ LET e == Least(Top.left)
       IN  /\ frames' = [frames EXCEPT ![Len(frames)].left = @ \ {e}]
           /\ call' = IF Follows(Top.path, e) THEN Extended(Top.path, e) ELSE None
    /\ UNCHANGED <<query, starts, paths, statesVisited, stopped>>

\* A call has tried all edges and returns.
Return ==
    /\ call = None /\ frames # <<>> /\ Top.left = {}
    /\ frames' = SubSeq(frames, 1, Len(frames) - 1)
    /\ UNCHANGED <<query, starts, call, paths, statesVisited, edgeTransitions,
                   workUnits, stopped>>

Enumerate ==
    \/ VisitOrigin \/ VisitRefused \/ VisitTarget \/ VisitInner
    \/ TryRefused \/ TryEdge \/ Return

Enumerated == call = None /\ frames = <<>> /\ (stopped \/ starts = {})

EnumSpec == (\E q \in Queries : EnumInit(q)) /\ [][Enumerate]_enumVars

-----------------------------------------------------------------------------
(* The certificate. *)

\* The largest number of parallel edges between two vertices.
ParallelEdgeFactor(g) ==
    LET parallel(e) == Cardinality({f \in Edges : g.from[f] = g.from[e] /\ g.to[f] = g.to[e]})
    IN  CHOOSE n \in 1 .. Cardinality(Edges) + 1 :
            /\ n = 1 \/ \E e \in Edges : parallel(e) = n
            /\ \A e \in Edges : parallel(e) <= n

\* The vertices a path of h hops has not visited.
Others(h) ==
    IF Cardinality(Vertices) - 1 > h THEN Cardinality(Vertices) - 1 - h ELSE 0

\* The loopless paths of each number of hops from one origin, at most.
LooplessPathsWithoutParallels(g, maxHops) ==
    LET sequences[h \in 0 .. maxHops] ==
            IF h = 0 THEN 1 ELSE sequences[h - 1] * Others(h - 1)
    IN  sequences

LooplessPaths(g, maxHops) ==
    LET sequences[h \in 0 .. maxHops] ==
            IF h = 0 THEN 1 ELSE sequences[h - 1] * (Others(h - 1) * ParallelEdgeFactor(g))
    IN  sequences

\* simplePathStateBound, for one origin.
SimplePathStates(g, maxHops) ==
    LET total[h \in 0 .. maxHops] ==
            IF h = 0 THEN 1 ELSE total[h - 1] + LooplessPaths(g, maxHops)[h]
    IN  total[maxHops]

MaxSimplePathStateBound(q) ==
    SimplePathStates(q.graph, q.policy.maxHops) * Cardinality(q.origins)

\* validateEnumeratedPath: a path the verifier of a certificate accepts.
LegalPath(q, path) ==
    /\ Len(path.vertices) = Len(path.edges) + 1
    /\ Len(path.edges) <= q.policy.maxHops
    /\ path.vertices[1] \in q.origins
    /\ End(path) \in q.targets
    /\ \A i, j \in 1 .. Len(path.vertices) :
          path.vertices[i] = path.vertices[j] => i = j
    /\ \A i \in 1 .. Len(path.edges) :
          /\ q.graph.from[path.edges[i]] = path.vertices[i]
          /\ q.graph.to[path.edges[i]] = path.vertices[i + 1]
          /\ q.graph.mode[path.edges[i]] \in q.policy.allowedModes
    /\ q.policy.maxDuration # None => path.duration <= q.policy.maxDuration
=============================================================================
