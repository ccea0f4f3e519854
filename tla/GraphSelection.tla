---------------------------- MODULE GraphSelection ----------------------------
(***************************************************************************)
(* The graph page: what is selected, the inspector, the history of          *)
(* selections and what the canvas hides.  ViewerPage keeps the selection    *)
(* and the history; SpecGraphCanvas keeps the filters and the collapsed     *)
(* subtrees, and tells the page with effects what it draws and inspects.    *)
(*                                                                         *)
(* A handler sets state from the render it was made in.  The effects of a   *)
(* render run after it, and each of their passes may set state again; a     *)
(* click or a fresh graph may come between two passes.                      *)
(*                                                                         *)
(* Left out: places and sizes, zoom (and with it the automatic edge         *)
(* detail), hover previews, and where the camera goes.                      *)
(***************************************************************************)
EXTENDS Naturals, Sequences, FiniteSets

CONSTANTS GraphDocs,      \* a document |-> its nodes, their gaps, and its edges
          GapFilters,     \* the gap filters offered
          EdgeDetails,    \* the edge details offered, without "auto"
          HistoryLimit    \* DEFAULT_LIMIT

ASSUME HistoryLimitAssumption == HistoryLimit \in Nat \ {0}

None == "none"

-----------------------------------------------------------------------------
(* spec-selection-history: two stacks, the newest entry last.              *)
createSpecSelectionHistory == [back |-> <<>>, forward |-> <<>>]

appendUnique(stack, id) ==
    IF stack # <<>> /\ stack[Len(stack)] = id THEN stack ELSE Append(stack, id)
appendBounded(stack, id) ==
    LET next == appendUnique(stack, id)
    IN IF Len(next) > HistoryLimit THEN Tail(next) ELSE next

pushSpecSelectionHistory(history, current, id) ==
    IF current = id THEN history
    ELSE [back |-> IF current = None THEN history.back ELSE appendBounded(history.back, current),
          forward |-> <<>>]

\* The newest entry that can be selected, and the stack below it.
popSelectableNodeId(stack, ids) ==
    LET usable == {i \in DOMAIN stack : stack[i] \in ids}
        top == CHOOSE i \in usable : \A j \in usable : j <= i
    IN IF usable = {} THEN [id |-> None, rest |-> <<>>]
       ELSE [id |-> stack[top], rest |-> SubSeq(stack, 1, top - 1)]

goBackSpecSelectionHistory(history, current, ids) ==
    LET popped == popSelectableNodeId(history.back, ids)
    IN IF popped.id = None
       THEN [id |-> current, history |-> [history EXCEPT !.back = popped.rest]]
       ELSE [id |-> popped.id,
             history |-> [back |-> popped.rest,
                          forward |-> IF current = None THEN history.forward
                                      ELSE appendUnique(history.forward, current)]]

goForwardSpecSelectionHistory(history, current, ids) ==
    LET popped == popSelectableNodeId(history.forward, ids)
    IN IF popped.id = None
       THEN [id |-> current, history |-> [history EXCEPT !.forward = popped.rest]]
       ELSE [id |-> popped.id,
             history |-> [back |-> IF current = None THEN history.back
                                   ELSE appendUnique(history.back, current),
                          forward |-> popped.rest]]

pruneSpecSelectionHistory(history, ids) ==
    LET usable(id) == id \in ids
    IN [back |-> SelectSeq(history.back, usable), forward |-> SelectSeq(history.forward, usable)]

-----------------------------------------------------------------------------
(* What a document draws under the filters.                                *)
Nodes(g) == DOMAIN GraphDocs[g].gaps
Edges(g) == GraphDocs[g].edges

\* The page starts with the sample, and null is no id.
ASSUME GraphAssumption ==
    "sample" \in DOMAIN GraphDocs /\ \A g \in DOMAIN GraphDocs : None \notin Nodes(g)

buildRefinesChildrenByParent(g, id) ==
    {e.source : e \in {x \in Edges(g) : /\ x.status = "resolved" /\ x.kind = "refines"
                                        /\ x.target = id /\ {id, x.source} \subseteq Nodes(g)}}
\* Everything below a node, through cycles too, without the node itself.
buildDescendantsByNodeId ==
    [g \in DOMAIN GraphDocs |-> [id \in Nodes(g) |->
        LET below[i \in 0 .. Cardinality(Nodes(g))] ==
              IF i = 0 THEN buildRefinesChildrenByParent(g, id)
              ELSE below[i - 1] \cup UNION {buildRefinesChildrenByParent(g, c) : c \in below[i - 1]}
        IN below[Cardinality(Nodes(g))] \ {id}]]

subtreeVisibleNodeIds ==
    [g \in DOMAIN GraphDocs |-> [collapsed \in SUBSET Nodes(g) |->
        Nodes(g) \ UNION {buildDescendantsByNodeId[g][id] : id \in collapsed}]]
\* An edge is drawn between two nodes that are there.
toSpecGraphFlowElements(g, ids) == {e \in Edges(g) : {e.source, e.target} \subseteq ids}

matchesSpecGraphCanvasGapFilter(g, id, filter) ==
    CASE filter = "all" -> TRUE
      [] filter = "any" -> GraphDocs[g].gaps[id] # {}
      [] OTHER -> filter \in GraphDocs[g].gaps[id]
filterSpecGraphCanvasNodes(g, ids, filter) ==
    {id \in ids : matchesSpecGraphCanvasGapFilter(g, id, filter)}

\* What is selected is drawn with its edges, whatever the detail.
isSpecGraphCanvasEdgeVisible(e, detail, edgeId, nodeId) ==
    \/ e.id = edgeId \/ nodeId \in {e.source, e.target} \/ e.status = "broken"
    \/ detail = "full"
    \/ detail = "structural" /\ e.kind # "relates_to"
    \/ detail = "primary" /\ e.kind = "depends_on"
    \/ detail = "hierarchy" /\ e.kind = "refines"

-----------------------------------------------------------------------------
VARIABLES
    graphDoc,          \* useSpecGraph: the document drawn
    selectedSpecNodeId, selectedSpecEdgeId,
    selectedSpec,      \* the node the inspector shows, with its document
    selectionHistory,  \* specSelectionHistory
    canvasVisible,     \* canvasVisibleSpecNodeIds, what the canvas last told
    pruneDue,          \* the nodes changed since the pruning effect ran
    gapFilter, collapsedIds, edgeDetail

selecting == <<graphDoc, selectedSpecNodeId, selectedSpecEdgeId, selectedSpec, selectionHistory,
               canvasVisible, pruneDue, gapFilter, collapsedIds, edgeDetail>>
canvasSettings == <<gapFilter, collapsedIds, edgeDetail>>
told == <<canvasVisible, pruneDue>>

NoSpec == [doc |-> None, id |-> None]
Untold == {None}
subtreeNodes == subtreeVisibleNodeIds[graphDoc][collapsedIds \cap Nodes(graphDoc)]
visibleNodeIds == filterSpecGraphCanvasNodes(graphDoc, subtreeNodes, gapFilter)
flowEdges ==
    {e \in toSpecGraphFlowElements(graphDoc, visibleNodeIds) :
        isSpecGraphCanvasEdgeVisible(e, edgeDetail, selectedSpecEdgeId, selectedSpecNodeId)}
selectionHistorySpecNodeIds == IF canvasVisible = Untold THEN Nodes(graphDoc) ELSE canvasVisible
\* What the canvas has the inspector show: not a node of a collapsed subtree.
canvasSelection ==
    IF selectedSpecNodeId \in subtreeNodes
    THEN [doc |-> graphDoc, id |-> selectedSpecNodeId] ELSE NoSpec

(* Where the inspectors and the navigator let the operator go.             *)
\* A relation of a node to one the inspector's document has not is broken.
relationFromId(g, e, other) == other \in Nodes(g) /\ e.status # "broken"
buildSpecInspectorModel(g, id) ==
    {e.target : e \in {x \in Edges(g) : x.source = id /\ relationFromId(g, x, x.target)}}
    \cup {e.source : e \in {x \in Edges(g) : /\ x.target = id /\ x.kind # "depends_on"
                                             /\ relationFromId(g, x, x.source)}}
RelationButtons ==
    IF selectedSpec = NoSpec THEN {}
    ELSE buildSpecInspectorModel(selectedSpec.doc, selectedSpec.id) \ {selectedSpec.id}
\* The inspector of an edge is shown in the place of that of a node.
EndpointFields ==
    IF selectedSpec # NoSpec THEN {}
    ELSE Nodes(graphDoc) \cap UNION {{e.source, e.target} :
            e \in {x \in Edges(graphDoc) : x.id = selectedSpecEdgeId}}
\* Every row, and every name of a node in the text of a panel.
SpecNodeNavigator == Nodes(graphDoc)

SelectInit ==
    /\ graphDoc = "sample" /\ selectedSpecNodeId = None /\ selectedSpecEdgeId = None
    /\ selectedSpec = NoSpec /\ selectionHistory = createSpecSelectionHistory
    /\ canvasVisible = Untold /\ pruneDue = TRUE
    /\ gapFilter = "all" /\ collapsedIds = {} /\ edgeDetail = "hierarchy"

-----------------------------------------------------------------------------
\* One that the document does not have is ignored.
selectSpecNodeId(id) ==
    IF id \notin Nodes(graphDoc) THEN UNCHANGED selecting
    ELSE /\ selectionHistory' = pushSpecSelectionHistory(selectionHistory, selectedSpecNodeId, id)
         /\ selectedSpecEdgeId' = None
         /\ selectedSpecNodeId' = id
         /\ UNCHANGED <<graphDoc, selectedSpec, told, canvasSettings>>

selectSpecEdgeId(edge) ==
    /\ selectedSpecNodeId' = None /\ selectedSpec' = NoSpec
    /\ selectedSpecEdgeId' = edge
    /\ UNCHANGED <<graphDoc, selectionHistory, told, canvasSettings>>

ClickNode(id) == selectSpecNodeId(id)
ClickEdge(edge) == edge \in {e.id : e \in flowEdges} /\ selectSpecEdgeId(edge)
ClickPane ==
    /\ selectedSpecNodeId' = None /\ selectedSpecEdgeId' = None
    /\ UNCHANGED <<graphDoc, selectedSpec, selectionHistory, told, canvasSettings>>

\* The button closes either inspector.
clearSpecSelection ==
    /\ selectedSpec # NoSpec \/ selectedSpecEdgeId \in {e.id : e \in Edges(graphDoc)}
    /\ selectedSpecNodeId' = None /\ selectedSpecEdgeId' = None /\ selectedSpec' = NoSpec
    /\ UNCHANGED <<graphDoc, selectionHistory, told, canvasSettings>>

Move(step) ==
    /\ selectionHistory' = step.history
    /\ IF step.id \in selectionHistorySpecNodeIds
       THEN selectedSpecEdgeId' = None /\ selectedSpecNodeId' = step.id
       ELSE UNCHANGED <<selectedSpecEdgeId, selectedSpecNodeId>>
    /\ UNCHANGED <<graphDoc, selectedSpec, told, canvasSettings>>
goBackSpecSelection ==
    /\ selectionHistory.back # <<>>
    /\ Move(goBackSpecSelectionHistory(selectionHistory, selectedSpecNodeId,
                                       selectionHistorySpecNodeIds))
goForwardSpecSelection ==
    /\ selectionHistory.forward # <<>>
    /\ Move(goForwardSpecSelectionHistory(selectionHistory, selectedSpecNodeId,
                                          selectionHistorySpecNodeIds))

SetCanvas == UNCHANGED <<graphDoc, selectedSpecNodeId, selectedSpecEdgeId, selectedSpec,
                         selectionHistory, told>>
setGapFilter(filter) ==
    gapFilter' = filter /\ SetCanvas /\ UNCHANGED <<collapsedIds, edgeDetail>>
updateEdgeDetailMode(detail) ==
    edgeDetail' = detail /\ SetCanvas /\ UNCHANGED <<gapFilter, collapsedIds>>
\* The toggle is on a drawn node with something below it.
toggleSubtreeCollapse(id) ==
    /\ id \in visibleNodeIds /\ buildRefinesChildrenByParent(graphDoc, id) # {}
    /\ collapsedIds' = IF id \in collapsedIds THEN collapsedIds \ {id} ELSE collapsedIds \cup {id}
    /\ SetCanvas /\ UNCHANGED <<gapFilter, edgeDetail>>
\* Offered while a drawn node is collapsed and hides something.
expandAllSubtrees ==
    /\ \E id \in collapsedIds \cap subtreeNodes : buildDescendantsByNodeId[graphDoc][id] # {}
    /\ collapsedIds' = {}
    /\ SetCanvas /\ UNCHANGED <<gapFilter, edgeDetail>>

\* The newest request is answered; a failure brings the sample back.  An
\* older one is aborted by the effect that starts the newer.
useSpecGraph(g) ==
    /\ graphDoc' = g
    /\ UNCHANGED <<selectedSpecNodeId, selectedSpecEdgeId, selectedSpec, selectionHistory, told,
                   canvasSettings>>

-----------------------------------------------------------------------------
(* One pass of the effects: the canvas tells its selection and its nodes,  *)
(* and drops a selection it does not draw; the page prunes its history to  *)
(* what it was told in an earlier pass.                                    *)
edgeDrawn == selectedSpecEdgeId \in {e.id : e \in toSpecGraphFlowElements(graphDoc, subtreeNodes)}
\* Fault: the canvas does not drop the edge of a collapsed subtree.
dropHiddenEdgeFault == selectedSpecEdgeId
dropHiddenEdge == IF edgeDrawn THEN selectedSpecEdgeId ELSE None
dropHiddenNode == IF canvasSelection = NoSpec THEN None ELSE selectedSpecNodeId
\* A further pass would change nothing.
CanvasSettled ==
    /\ selectedSpec = canvasSelection /\ canvasVisible = visibleNodeIds /\ ~pruneDue
    /\ selectedSpecNodeId = dropHiddenNode /\ selectedSpecEdgeId = dropHiddenEdge
Effects ==
    /\ ~CanvasSettled
    /\ selectedSpec' = canvasSelection
    /\ canvasVisible' = visibleNodeIds
    /\ selectedSpecNodeId' = dropHiddenNode
    /\ selectedSpecEdgeId' = dropHiddenEdge
    /\ pruneDue' = (canvasVisible # visibleNodeIds)
    /\ selectionHistory' = IF pruneDue
                           THEN pruneSpecSelectionHistory(selectionHistory, selectionHistorySpecNodeIds)
                           ELSE selectionHistory
    /\ UNCHANGED <<graphDoc, canvasSettings>>

SelectionEvent ==
    \/ \E id \in visibleNodeIds : ClickNode(id)
    \/ \E id \in RelationButtons \cup EndpointFields \cup SpecNodeNavigator : selectSpecNodeId(id)
    \/ \E e \in UNION {Edges(g) : g \in DOMAIN GraphDocs} : ClickEdge(e.id)
    \/ ClickPane \/ clearSpecSelection
    \/ goBackSpecSelection \/ goForwardSpecSelection
CanvasEvent ==
    \/ \E filter \in GapFilters : setGapFilter(filter)
    \/ \E detail \in EdgeDetails : updateEdgeDetailMode(detail)
    \/ \E id \in Nodes(graphDoc) : toggleSubtreeCollapse(id)
    \/ expandAllSubtrees
    \/ \E g \in DOMAIN GraphDocs : useSpecGraph(g)
SelectionStep == SelectionEvent \/ CanvasEvent \/ Effects
SelectionSpec == SelectInit /\ [][SelectionStep]_selecting

-----------------------------------------------------------------------------
(* Once the effects have settled, the inspector shows exactly what is      *)
(* selected, of the document that is drawn: at most one of a node and an   *)
(* edge, and neither inside a collapsed subtree; and what its relations    *)
(* lead to is in that document.                                            *)
InspectorTruth ==
    CanvasSettled =>
        /\ selectedSpecNodeId = None \/ selectedSpecEdgeId = None
        /\ selectedSpec = IF selectedSpecNodeId = None THEN NoSpec
                          ELSE [doc |-> graphDoc, id |-> selectedSpecNodeId]
        /\ selectedSpecNodeId \in subtreeNodes \cup {None}
        /\ selectedSpecEdgeId # None => edgeDrawn
        /\ RelationButtons \subseteq Nodes(graphDoc)
=============================================================================
