---------------------------- MODULE LayoutPresets ----------------------------
(***************************************************************************)
(* Where the layout presets of the canvas put the nodes of a graph.  Nodes *)
(* are 1, 2, ... in the order of their ids.  A place is a column and a     *)
(* row; a row has RowUnit parts, since the spine halves rows.              *)
(*                                                                         *)
(* Left out: broken edges, which no layout looks at; relates_to edges,     *)
(* which are laid out as those of depends_on are; and the places of dagre  *)
(* and of the force layout, which are computed elsewhere.                  *)
(***************************************************************************)
EXTENDS Integers, Sequences, FiniteSets

CONSTANTS StatusOf,        \* the status of each node
          ForestNodes,     \* Bound: the nodes of the forests drawn
          GraphNodes,      \* Bound: the nodes of the other graphs
          MaxGraphEdges    \* Bound: the edges of the other graphs

ASSUME PresetsAssumption ==
    ForestNodes \in Nat \ {0} /\ GraphNodes \in Nat \ {0} /\ MaxGraphEdges \in Nat

VARIABLE specGraph         \* how many nodes, and the edges <<source, kind, target>>

EdgeKinds == <<"depends_on", "refines">>
STATUS_ORDER == <<"idea", "stub", "outlined", "specified", "linked", "reviewed", "frozen",
                  "draft_preview_only", "draft", "proposed", "unknown">>

LeastOf(S) == CHOOSE m \in S : \A n \in S : m <= n
GreatestOf(S) == CHOOSE m \in S : \A n \in S : n <= m

MaxNodes == IF ForestNodes < GraphNodes THEN GraphNodes ELSE ForestNodes
\* A row, in parts small enough to be halved once for each node on a path.
RowUnit ==
    LET power[i \in 0 .. MaxNodes] == IF i = 0 THEN 1 ELSE 2 * power[i - 1] IN power[MaxNodes]

-----------------------------------------------------------------------------
(* The edges of a layout, from left to right, in the order of their ids.   *)
GraphEdges == (1 .. MaxNodes) \X {"depends_on", "refines"} \X (1 .. MaxNodes)
\* An edge id is the source, the kind and the target.
edgesById ==
    [i \in 1 .. 2 * MaxNodes * MaxNodes |->
        <<1 + ((i - 1) \div (2 * MaxNodes)), EdgeKinds[1 + (((i - 1) \div MaxNodes) % 2)],
          1 + ((i - 1) % MaxNodes)>>]

\* The elements of a sequence that are in a set, in their order.
Among(seq, set) ==
    LET among[i \in 0 .. Len(seq)] ==
            IF i = 0 THEN <<>>
            ELSE IF seq[i] \in set THEN Append(among[i - 1], seq[i]) ELSE among[i - 1]
    IN among[Len(seq)]
InOrder(edges, rightward) ==
    LET drawn == Among(edgesById, edges) IN [i \in DOMAIN drawn |-> rightward[drawn[i]]]

Raw == [e \in GraphEdges |-> <<e[1], e[3]>>]
Reversed == [e \in GraphEdges |-> <<e[3], e[1]>>]
Forward == [e \in GraphEdges |-> IF e[2] = "refines" THEN Reversed[e] ELSE Raw[e]]
refinementHierarchyEdges(g) == InOrder({e \in g.edges : e[2] = "refines"}, Reversed)
linearForwardEdges(g) == InOrder(g.edges, Forward)
canonicalLayoutEdges(g) == InOrder(g.edges, Raw)

wouldCreateCycle(accepted, edge) ==
    LET n == Cardinality(accepted)
        reached[i \in 0 .. n] ==
            IF i = 0 THEN {edge[2]}
            ELSE LET before == reached[i - 1]
                 IN before \cup {e[2] : e \in {x \in accepted : x[1] \in before}}
    IN edge[1] \in reached[n]
\* An edge that would close a cycle with the edges before it is dropped.
acyclicLayoutEdges(edges) ==
    LET accepted[i \in 0 .. Len(edges)] ==
            IF i = 0 THEN {}
            ELSE LET before == accepted[i - 1]
                 IN IF wouldCreateCycle(before, edges[i]) THEN before ELSE before \cup {edges[i]}
    IN accepted[Len(edges)]

-----------------------------------------------------------------------------
(* Ranks: the longest way to a node.                                       *)
computeDirectedRanks(nodes, accepted) ==
    LET rank[v \in 1 .. nodes] ==
            LET before == {e[1] : e \in {x \in accepted : x[2] = v}}
            IN IF before = {} THEN 0 ELSE 1 + GreatestOf({rank[u] : u \in before})
    IN rank

computeRankColumnPositions(nodes, column) ==
    [v \in 1 .. nodes |->
        [x |-> column[v], y |-> RowUnit * Cardinality({u \in 1 .. v - 1 : column[u] = column[v]})]]

statusColumn(status) ==
    IF \E i \in DOMAIN STATUS_ORDER : STATUS_ORDER[i] = status
    THEN (CHOOSE i \in DOMAIN STATUS_ORDER : STATUS_ORDER[i] = status) - 1
    ELSE Len(STATUS_ORDER)
computeStatusColumnPositions(g) ==
    computeRankColumnPositions(g.nodes, [v \in 1 .. g.nodes |-> statusColumn(StatusOf[v])])
computeTreePositions(g) ==
    computeRankColumnPositions(g.nodes,
        computeDirectedRanks(g.nodes, acyclicLayoutEdges(refinementHierarchyEdges(g))))
computeCanonicalPositions(g) ==
    computeRankColumnPositions(g.nodes,
        computeDirectedRanks(g.nodes, acyclicLayoutEdges(canonicalLayoutEdges(g))))

-----------------------------------------------------------------------------
(* Linear: a first child goes on in the lane of its parent.                *)
ChildrenOf(edges, nodes) ==
    [v \in 1 .. nodes |-> Among([i \in 1 .. nodes |-> i],
                                {c \in 1 .. nodes : \E i \in DOMAIN edges : edges[i] = <<v, c>>})]

\* The next node to visit is in the lane "on", or in a new one.  A node that
\* has a lane already keeps it, and the new one stays empty.
NoLane == -1
assignLanes(st, children) ==
    LET v == Head(st.toVisit)
        lane == IF st.on # NoLane THEN st.on ELSE st.next
        next == IF st.on # NoLane THEN st.next ELSE st.next + 1
    IN IF st.lanes[v] # NoLane
       THEN [lanes |-> st.lanes, next |-> next, toVisit |-> Tail(st.toVisit), on |-> NoLane]
       ELSE [lanes |-> [st.lanes EXCEPT ![v] = lane], next |-> next,
             toVisit |-> children[v] \o Tail(st.toVisit),
             on |-> IF children[v] = <<>> THEN NoLane ELSE lane]

\* Depth first from the roots; then what only a cycle leads to.
computeTreeLanes(nodes, edges) ==
    LET children == ChildrenOf(edges, nodes)
        roots == Among([i \in 1 .. nodes |-> i],
                       {v \in 1 .. nodes : \A i \in DOMAIN edges : edges[i][2] # v})
        visit[i \in 0 .. nodes + Len(edges)] ==
            IF i = 0 THEN [lanes |-> [v \in 1 .. nodes |-> NoLane], next |-> 0,
                           toVisit |-> roots, on |-> NoLane]
            ELSE LET before == visit[i - 1]
                 IN IF before.toVisit = <<>> THEN before ELSE assignLanes(before, children)
        rooted == visit[nodes + Len(edges)]
    IN [v \in 1 .. nodes |->
          IF rooted.lanes[v] # NoLane THEN rooted.lanes[v]
          ELSE rooted.next + Cardinality({u \in 1 .. v - 1 : rooted.lanes[u] = NoLane})]

computeLinearPositions(g) ==
    LET rank == computeDirectedRanks(g.nodes, acyclicLayoutEdges(linearForwardEdges(g)))
        lane == computeTreeLanes(g.nodes, refinementHierarchyEdges(g))
    IN [v \in 1 .. g.nodes |-> [x |-> rank[v], y |-> RowUnit * lane[v]]]

-----------------------------------------------------------------------------
(* Spine: the children of a node lie around it, each subtree in rows of    *)
(* its own.  A node with several parents hangs under the first.            *)
buildPrimaryTree(g) ==
    LET edges == refinementHierarchyEdges(g)
        tree[i \in 0 .. Len(edges)] ==
            IF i = 0 THEN [accepted |-> {}, edges |-> <<>>]
            ELSE LET before == tree[i - 1]
                 IN IF wouldCreateCycle(before.accepted, edges[i]) THEN before
                    ELSE [accepted |-> before.accepted \cup {edges[i]},
                          edges |-> IF \E j \in DOMAIN before.edges :
                                          before.edges[j][2] = edges[i][2]
                                    THEN before.edges ELSE Append(before.edges, edges[i])]
    IN tree[Len(edges)].edges

symmetricTwoChildOffsets(extents) ==
    LET half == GreatestOf({RowUnit, (extents[1].bottom - extents[2].top + RowUnit) \div 2})
    IN <<-half, half>>

symmetricRowOffsets(count) ==
    LET side == count \div 2
    IN [i \in 1 .. count |->
          RowUnit * IF count % 2 = 1 \/ i - 1 < side THEN i - 1 - side ELSE i - side]

\* Fault: two subtrees may share a row.
relaxedSpineChildOffsetsFault(extents) ==
    LET n == Len(extents)
        pushed[i \in 0 .. n - 1] ==
            IF i = 0 THEN symmetricRowOffsets(n)
            ELSE LET offsets == pushed[i - 1]
                     overlap == offsets[i] + extents[i].bottom
                                  - (offsets[i + 1] + extents[i + 1].top)
                 IN [j \in 1 .. n |-> IF j > i /\ overlap > 0 THEN offsets[j] + overlap
                                      ELSE offsets[j]]
        placed == pushed[n - 1]
        top == LeastOf({placed[i] + extents[i].top : i \in 1 .. n})
        bottom == GreatestOf({placed[i] + extents[i].bottom : i \in 1 .. n})
    IN [i \in 1 .. n |-> placed[i] - (top + bottom) \div 2]
\* A subtree that reaches into the one before it is moved down, with all after it.
relaxedSpineChildOffsets(extents) ==
    LET n == Len(extents)
        pushed[i \in 0 .. n - 1] ==
            IF i = 0 THEN symmetricRowOffsets(n)
            ELSE LET offsets == pushed[i - 1]
                     overlap == offsets[i] + extents[i].bottom + RowUnit
                                  - (offsets[i + 1] + extents[i + 1].top)
                 IN [j \in 1 .. n |-> IF j > i /\ overlap > 0 THEN offsets[j] + overlap
                                      ELSE offsets[j]]
        placed == pushed[n - 1]
        top == LeastOf({placed[i] + extents[i].top : i \in 1 .. n})
        bottom == GreatestOf({placed[i] + extents[i].bottom : i \in 1 .. n})
    IN [i \in 1 .. n |-> placed[i] - (top + bottom) \div 2]

spineChildOffsets(extents) ==
    CASE Len(extents) < 2 -> [i \in DOMAIN extents |-> 0]
      [] Len(extents) = 2 -> symmetricTwoChildOffsets(extents)
      [] OTHER -> relaxedSpineChildOffsets(extents)

Reach(offsets, extents) ==
    [top |-> LeastOf({0} \cup {offsets[i] + extents[i].top : i \in DOMAIN extents}),
     bottom |-> GreatestOf({0} \cup {offsets[i] + extents[i].bottom : i \in DOMAIN extents})]
Around(extents) == Reach(spineChildOffsets(extents), extents)
computeRelativeSpineExtent(children) ==
    LET extent[v \in DOMAIN children] ==
            Around([i \in DOMAIN children[v] |-> extent[children[v][i]]])
    IN extent

\* A root lies below all that hangs under the roots before it; a child lies
\* where its parent puts it.
assignRelativeSpineRows(children, roots, extent) ==
    LET nextTopRow[i \in 0 .. Len(roots)] ==
            IF i = 0 THEN 0
            ELSE nextTopRow[i - 1] + extent[roots[i]].bottom - extent[roots[i]].top + 2 * RowUnit
        below(u, i) == spineChildOffsets([j \in DOMAIN children[u] |-> extent[children[u][j]]])[i]
        row[v \in DOMAIN children] ==
            IF \E i \in DOMAIN roots : roots[i] = v
            THEN nextTopRow[(CHOOSE i \in DOMAIN roots : roots[i] = v) - 1] - extent[v].top
            ELSE LET u == CHOOSE p \in DOMAIN children : \E i \in DOMAIN children[p] : children[p][i] = v
                 IN row[u] + below(u, CHOOSE i \in DOMAIN children[u] : children[u][i] = v)
    IN row

SpineOf(nodes, treeEdges, children, rank) ==
    LET roots == Among([i \in 1 .. nodes |-> i], {v \in 1 .. nodes : \A e \in treeEdges : e[2] # v})
        row == assignRelativeSpineRows(children, roots, computeRelativeSpineExtent(children))
    IN [v \in 1 .. nodes |-> [x |-> rank[v], y |-> row[v]]]
computeSpinePositions(g) ==
    LET tree == buildPrimaryTree(g)
        treeEdges == {tree[i] : i \in DOMAIN tree}
    IN SpineOf(g.nodes, treeEdges, ChildrenOf(tree, g.nodes), computeDirectedRanks(g.nodes, treeEdges))

-----------------------------------------------------------------------------
computeSpecGraphCanvasLayoutPositions(g, preset) ==
    CASE preset = "status-columns" -> computeStatusColumnPositions(g)
      [] preset = "linear" -> computeLinearPositions(g)
      [] preset = "spine" -> computeSpinePositions(g)
      [] preset = "canonical" -> computeCanonicalPositions(g)
      [] preset = "tree" -> computeTreePositions(g)

(* The graphs a backend may send: every forest of some nodes, and every    *)
(* graph of fewer nodes and not too many edges; each from a smaller one.   *)
NoGraph == [nodes |-> 0, edges |-> {}]
PresetsInit == specGraph = NoGraph
IsForest(g) ==
    \A e \in g.edges : e[2] = "refines" /\ e[3] < e[1] /\ \A f \in g.edges : f[1] = e[1] => f = e
AnotherGraph ==
    \/ LET v == specGraph.nodes + 1
       IN /\ IsForest(specGraph) /\ v <= ForestNodes
          /\ \E p \in 0 .. v - 1 :
                specGraph' = [nodes |-> v, edges |-> specGraph.edges \cup
                                             IF p = 0 THEN {} ELSE {<<v, "refines", p>>}]
    \/ /\ specGraph.nodes = GraphNodes /\ Cardinality(specGraph.edges) < MaxGraphEdges
       /\ \E s, t \in 1 .. GraphNodes, i \in DOMAIN EdgeKinds :
             specGraph' = [specGraph EXCEPT !.edges = @ \cup {<<s, EdgeKinds[i], t>>}]
    \/ specGraph # NoGraph /\ specGraph' = NoGraph
PresetsSpec == PresetsInit /\ [][AnotherGraph]_specGraph

-----------------------------------------------------------------------------
CardsApart(places) ==
    \A v, u \in DOMAIN places :
        v # u /\ places[v].x = places[u].x =>
            places[v].y - places[u].y >= RowUnit \/ places[u].y - places[v].y >= RowUnit
RunRight(places, accepted) == \A e \in accepted : places[e[1]].x < places[e[2]].x
CentredOnParent(places, tree) ==
    \A v \in DOMAIN places :
        LET kids == {tree[i][2] : i \in {j \in DOMAIN tree : tree[j][1] = v}}
            ys == {places[c].y : c \in kids}
        IN Cardinality(kids) \in {1, 2} => LeastOf(ys) + GreatestOf(ys) = 2 * places[v].y

\* The edges a layout goes by, from left to right.
LayoutEdges(g, preset) ==
    CASE preset = "status-columns" -> <<>>
      [] preset = "linear" -> linearForwardEdges(g)
      [] preset = "spine" -> buildPrimaryTree(g)
      [] preset = "canonical" -> canonicalLayoutEdges(g)
      [] preset = "tree" -> refinementHierarchyEdges(g)
ReadsWell(preset, places, edges, accepted) ==
    /\ CardsApart(places) \/ (preset = "linear" /\ accepted # {edges[i] : i \in DOMAIN edges})
    /\ RunRight(places, accepted)
    /\ preset = "spine" => CentredOnParent(places, edges)

(* In every layout two cards are at least a row apart, and every edge the  *)
(* layout goes by leads to the right; a spine has one or two children      *)
(* centred on their parent.  An edge that closes a cycle is dropped; in    *)
(* Linear, whose lanes follow all refinements, cards may lie on each other *)
(* once one is dropped.                                                    *)
LayoutIsReadable ==
    specGraph # NoGraph =>
        \A preset \in {"tree", "linear", "spine", "canonical", "status-columns"} :
            ReadsWell(preset, computeSpecGraphCanvasLayoutPositions(specGraph, preset),
                      LayoutEdges(specGraph, preset),
                      acyclicLayoutEdges(LayoutEdges(specGraph, preset)))
=============================================================================
