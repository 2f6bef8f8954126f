--------------------------- MODULE TargetTopology ---------------------------
(***************************************************************************)
(* The places where the participants of a route-first meeting can meet     *)
(* (lib/domain/route-first/topology.ts): the connected components of what  *)
(* is at once fair, legal and accessible to all.  A topology is a set of   *)
(* vertices, those among them where one may meet, and edges with their     *)
(* ends, their legal intervals in order, and whether one may meet on them. *)
(* Access is a set of intervals for each participant and edge, and a set   *)
(* of participants for each vertex.  The union-find of the code is the     *)
(* partition it computes; coordinates are left out.                        *)
(***************************************************************************)
EXTENDS FairRegions, SequencesExt

\* normalizeTargetTopology, and that some edge is relevant.
ValidTopology(topology) ==
    /\ \A e \in DOMAIN topology.edges :
          LET edge == topology.edges[e]
          IN  /\ edge.from # edge.to
              /\ {edge.from, edge.to} \subseteq topology.vertices
              /\ \A i \in DOMAIN edge.legal : AtMost(edge.legal[i].start, edge.legal[i].end)
              /\ \A i \in 2 .. Len(edge.legal) : Less(edge.legal[i - 1].end, edge.legal[i].start)
              /\ edge.eligible \/ edge.legal = <<>>
    /\ \E e \in DOMAIN topology.edges : topology.edges[e].eligible

RelevantEdges(topology) == {e \in DOMAIN topology.edges : topology.edges[e].eligible}

intersectAll(groups) ==
    FoldFunction(LAMBDA group, available :
                     Merged({i \in {Interval(Higher(a.start, g.start), Lower(a.end, g.end)) :
                                       a \in available, g \in group} : AtMost(i.start, i.end)}),
                 {Interval(Zero, One)}, groups)

\* The vertices an interval of an edge reaches.
endpointVertexIds(edge, interval) ==
    {v \in {edge.from, edge.to} :
        \/ v = edge.from /\ interval.start = Zero
        \/ v = edge.to /\ interval.end = One}

\* What is fair, legal and accessible of an edge.  A stretch that reaches a
\* vertex where one may not meet is dropped as a whole.
Stretches(topology, e, region, access) ==
    LET edge == topology.edges[e]
        fair == Merged(region.intervals \cup {Interval(t, t) : t \in region.points})
    IN  {i \in intersectAll(<<fair, ToSet(edge.legal)>> \o [p \in DOMAIN access |-> access[p][e]]) :
            endpointVertexIds(edge, i) \subseteq topology.meetingVertices}

Fragments(topology, regions, access) ==
    UNION {{[edge |-> e, interval |-> i, touches |-> endpointVertexIds(topology.edges[e], i)] :
               i \in Stretches(topology, e, regions[e], access)} : e \in RelevantEdges(topology)}

\* Every fragment by itself: a mutant of the next.
Singletons(fragments) == {{f} : f \in fragments}

\* The classes of fragments that touch each other, directly or through others.
Groups(fragments) ==
    LET Apart(S) == \A f \in S, g \in fragments \ S : f.touches \cap g.touches = {}
        apart == {S \in (SUBSET fragments) \ {{}} : Apart(S)}
    IN  {S \in apart : ~\E T \in apart : T # S /\ T \subseteq S}

\* Vertices fair by the evidence, and within everybody's reach.
FairVertices(evidence, reach, participants) ==
    {v \in ToSet(evidence) : reach[v] = participants}

\* The evidence for vertices is accepted: no vertex twice, and one may meet there.
ValidEvidence(topology, evidence) ==
    /\ IsInjective(evidence)
    /\ ToSet(evidence) \subseteq topology.meetingVertices

\* Everybody can get somewhere.
SomeAccess(access, reach) ==
    \A p \in DOMAIN access :
        \/ \E e \in DOMAIN access[p] : access[p][e] # {}
        \/ \E v \in DOMAIN reach : p \in reach[v]

constructFairEligibleComponents(topology, regions, access, reach, evidence) ==
    LET connected ==
            {[intervals |-> {[edge |-> f.edge, interval |-> f.interval] : f \in group},
              vertices |-> UNION {f.touches : f \in group}] :
                group \in Groups(Fragments(topology, regions, access))}
        alone == FairVertices(evidence, reach, DOMAIN access) \ UNION {c.vertices : c \in connected}
    IN  connected \cup {[intervals |-> {}, vertices |-> {v}] : v \in alone}
=============================================================================
