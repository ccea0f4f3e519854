----------------------------- MODULE CanvasLayout -----------------------------
(***************************************************************************)
(* Where the nodes of the canvas lie: the layout preset and the places     *)
(* nodes were dragged to, both kept in the storage of the browser, and the *)
(* Force layout with its live relaxation, which is not kept.               *)
(*                                                                         *)
(* A click flushes the effects it causes.  A fresh graph does not: until   *)
(* its effects run, the canvas draws it with the overrides and the         *)
(* relaxation of the graph before, and a click, a frame or the end of a    *)
(* drag may come first.                                                    *)
(*                                                                         *)
(* A place stands for coordinates.  Force is always available: its limits  *)
(* are infinite, so the effect that watches them does nothing.  One tab.   *)
(***************************************************************************)
EXTENDS Integers, Sequences, FiniteSets

CONSTANTS DrawnNodes,      \* a graph |-> its nodes; no two have one storage key
          DragPlaces,      \* where each node may be dragged
          StoredPresets    \* what the storage may hold when the page is opened

VARIABLES canvasGraph, layoutPreset, forceLayoutEnabled, layoutOverrides,
          forceLive,       \* the relaxation, and of which tick input its places are
          layoutStorage, dragged, layoutDue,
          unsaved          \* history: a place is shown that no end of a drag has saved
laidOut == <<canvasGraph, layoutPreset, forceLayoutEnabled, layoutOverrides, forceLive,
             layoutStorage, dragged, layoutDue, unsaved>>

SPEC_GRAPH_CANVAS_LAYOUT_PRESETS ==
    <<"tree", "linear", "spine", "dagre", "canonical", "status-columns">>
NoOverrides == <<>>
Relaxations == [state : {"off", "running", "paused", "settled"},
                positions : {"none", "current", "older"}]
ForceOff == [state |-> "off", positions |-> "none"]

-----------------------------------------------------------------------------
(* What the storage holds.                                                 *)
Presets == {SPEC_GRAPH_CANVAS_LAYOUT_PRESETS[i] : i \in DOMAIN SPEC_GRAPH_CANVAS_LAYOUT_PRESETS}
normalizeSpecGraphCanvasLayoutPreset(value) ==
    CASE value = "refinement-ladder" -> "tree"
      [] value \in Presets -> value
      [] OTHER -> "none"
readSpecGraphCanvasLayoutPreset(storage) ==
    LET preset == normalizeSpecGraphCanvasLayoutPreset(storage.preset)
    IN IF preset = "none" THEN "tree" ELSE preset

\* The entry of a graph that has none is empty, as one that was removed.
readSpecGraphCanvasLayoutOverrides(storage, graph) ==
    [n \in DOMAIN storage.overrides[graph] \cap DrawnNodes[graph] |-> storage.overrides[graph][n]]
writeSpecGraphCanvasLayoutOverrides(storage, graph, overrides) ==
    [storage EXCEPT !.overrides[graph] = overrides]
upsertSpecGraphCanvasLayoutOverride(overrides, n, place) ==
    [k \in DOMAIN overrides \cup {n} |-> IF k = n THEN place ELSE overrides[k]]
applySpecGraphCanvasLayoutOverrides(graph, overrides) ==
    [n \in DrawnNodes[graph] |-> IF n \in DOMAIN overrides THEN overrides[n] ELSE "laid_out"]

-----------------------------------------------------------------------------
\* A page that has just been opened: its effects are due.
OpenCanvas(storage) ==
    /\ layoutPreset' = readSpecGraphCanvasLayoutPreset(storage)
    /\ forceLayoutEnabled' = FALSE
    /\ layoutOverrides' = NoOverrides
    /\ forceLive' = ForceOff
    /\ dragged' = "none" /\ layoutDue' = TRUE /\ unsaved' = FALSE
Overrides(graph) ==
    UNION {{o \in [nodes -> UNION {DragPlaces[n] : n \in nodes}] : \A n \in nodes : o[n] \in DragPlaces[n]} :
             nodes \in SUBSET DrawnNodes[graph]}
LayoutInit ==
    /\ canvasGraph \in DOMAIN DrawnNodes
    /\ layoutStorage \in [preset : StoredPresets,
                          overrides : {[g \in DOMAIN DrawnNodes |->
                                          IF g = canvasGraph THEN o ELSE NoOverrides] :
                                         o \in Overrides(canvasGraph)}]
    /\ layoutPreset = readSpecGraphCanvasLayoutPreset(layoutStorage)
    /\ forceLayoutEnabled = FALSE /\ layoutOverrides = NoOverrides /\ forceLive = ForceOff
    /\ dragged = "none" /\ layoutDue = TRUE /\ unsaved = FALSE
Reopen == OpenCanvas(layoutStorage) /\ UNCHANGED <<canvasGraph, layoutStorage>>

-----------------------------------------------------------------------------
(* The dock: the presets, Force and its relaxation.                        *)
ShowPreset(preset) ==
    /\ layoutPreset' = preset
    /\ forceLayoutEnabled' = FALSE
    /\ forceLive' = ForceOff
    /\ layoutStorage' = [layoutStorage EXCEPT !.preset = preset]
updateLayoutPreset ==
    /\ \E preset \in Presets : ShowPreset(preset)
    /\ UNCHANGED <<canvasGraph, layoutOverrides, dragged, layoutDue, unsaved>>
toggleForceLayout ==
    /\ forceLayoutEnabled' = ~forceLayoutEnabled
    /\ forceLive' = IF forceLayoutEnabled THEN ForceOff ELSE forceLive
    /\ UNCHANGED <<canvasGraph, layoutPreset, layoutOverrides, layoutStorage, dragged,
                   layoutDue, unsaved>>

cycleSpecGraphCanvasLayoutTarget(direction) ==
    LET targets == Append(SPEC_GRAPH_CANVAS_LAYOUT_PRESETS, "force")
        current == CHOOSE i \in DOMAIN targets :
                       targets[i] = IF forceLayoutEnabled THEN "force" ELSE layoutPreset
    IN targets[1 + ((current - 1 + direction) % Len(targets))]
\* Alt+[ and Alt+], at any time, during a drag as well.
cycleLayoutPreset ==
    /\ \E direction \in {-1, 1} :
          LET target == cycleSpecGraphCanvasLayoutTarget(direction)
          IN \/ target # "force" /\ ShowPreset(target)
             \/ /\ target = "force" /\ forceLayoutEnabled' = TRUE
                /\ UNCHANGED <<layoutPreset, forceLive, layoutStorage>>
    /\ UNCHANGED <<canvasGraph, layoutOverrides, dragged, layoutDue, unsaved>>

Started(live) == IF live.positions = "none" THEN "current" ELSE live.positions
toggleForceLiveLayout ==
    /\ forceLayoutEnabled
    /\ forceLive' = CASE forceLive.state = "running" -> [forceLive EXCEPT !.state = "paused"]
                      [] forceLive.state = "paused" -> [forceLive EXCEPT !.state = "running"]
                      [] OTHER -> [state |-> "running", positions |-> Started(forceLive)]
    /\ UNCHANGED <<canvasGraph, layoutPreset, forceLayoutEnabled, layoutOverrides, layoutStorage,
                   dragged, layoutDue, unsaved>>
ForceFrame ==
    /\ forceLayoutEnabled /\ forceLive.state = "running"
    /\ \E next \in {"running", "settled"} :
          forceLive' = [state |-> next, positions |-> Started(forceLive)]
    /\ UNCHANGED <<canvasGraph, layoutPreset, forceLayoutEnabled, layoutOverrides, layoutStorage,
                   dragged, layoutDue, unsaved>>

-----------------------------------------------------------------------------
(* Dragging.                                                               *)
reheatForceLiveLayout(live) ==
    IF forceLayoutEnabled /\ live.state # "off" THEN [live EXCEPT !.state = "running"] ELSE live
MovedUnderForce == reheatForceLiveLayout([forceLive EXCEPT !.positions = Started(forceLive)])
onNodeDragStart ==
    /\ dragged = "none" /\ \E n \in DrawnNodes[canvasGraph] : dragged' = n
    /\ forceLive' = reheatForceLiveLayout(forceLive)
    /\ UNCHANGED <<canvasGraph, layoutPreset, forceLayoutEnabled, layoutOverrides, layoutStorage,
                   layoutDue, unsaved>>
updateLiveLayoutOverrides(n, place) ==
    /\ IF forceLayoutEnabled
       THEN forceLive' = MovedUnderForce /\ UNCHANGED <<layoutOverrides, unsaved>>
       ELSE /\ layoutOverrides' = upsertSpecGraphCanvasLayoutOverride(layoutOverrides, n, place)
            /\ unsaved' = TRUE /\ UNCHANGED forceLive
    /\ UNCHANGED <<canvasGraph, layoutPreset, forceLayoutEnabled, layoutStorage, dragged, layoutDue>>
onNodeDrag ==
    dragged # "none" /\ \E place \in DragPlaces[dragged] : updateLiveLayoutOverrides(dragged, place)
\* An arrow key moves the selected node: no drag begins or ends.
Nudge ==
    /\ dragged = "none"
    /\ \E n \in DrawnNodes[canvasGraph] :
          \E place \in DragPlaces[n] : updateLiveLayoutOverrides(n, place)

\* Fault: only the place of the node dragged is stored.
persistLayoutOverrideFault(n, place) ==
    LET next == upsertSpecGraphCanvasLayoutOverride(layoutOverrides, n, place)
    IN /\ layoutStorage' = writeSpecGraphCanvasLayoutOverrides(layoutStorage, canvasGraph,
                               upsertSpecGraphCanvasLayoutOverride(NoOverrides, n, place))
       /\ layoutOverrides' = next
       /\ unsaved' = FALSE /\ UNCHANGED layoutDue
\* The updater writes.  When effects are due it may run after them: what they
\* read is then what is shown.
persistLayoutOverride(n, place) ==
    LET next == upsertSpecGraphCanvasLayoutOverride(layoutOverrides, n, place)
    IN /\ layoutStorage' = writeSpecGraphCanvasLayoutOverrides(layoutStorage, canvasGraph, next)
       /\ \/ layoutOverrides' = next /\ unsaved' = FALSE /\ UNCHANGED layoutDue
          \/ /\ layoutDue
             /\ layoutOverrides' = readSpecGraphCanvasLayoutOverrides(layoutStorage, canvasGraph)
             /\ unsaved' = TRUE /\ layoutDue' = FALSE
onNodeDragStop ==
    /\ dragged # "none" /\ dragged' = "none"
    /\ IF forceLayoutEnabled
       THEN forceLive' = MovedUnderForce /\ UNCHANGED <<layoutOverrides, layoutStorage, layoutDue, unsaved>>
       ELSE /\ \E place \in DragPlaces[dragged] : persistLayoutOverride(dragged, place)
            /\ UNCHANGED forceLive
    /\ UNCHANGED <<canvasGraph, layoutPreset, forceLayoutEnabled>>
resetLayoutOverrides ==
    /\ layoutOverrides # NoOverrides /\ layoutOverrides' = NoOverrides
    /\ layoutStorage' = writeSpecGraphCanvasLayoutOverrides(layoutStorage, canvasGraph, NoOverrides)
    /\ unsaved' = FALSE
    /\ UNCHANGED <<canvasGraph, layoutPreset, forceLayoutEnabled, forceLive, dragged, layoutDue>>

-----------------------------------------------------------------------------
\* A fresh graph, of the same nodes or of others; a node that goes takes its drag along.
FreshGraph ==
    /\ \E graph \in DOMAIN DrawnNodes :
          /\ canvasGraph' = graph
          /\ dragged' = IF dragged \in DrawnNodes[graph] THEN dragged ELSE "none"
    /\ layoutDue' = TRUE
    /\ forceLive' = [forceLive EXCEPT !.positions = IF @ = "none" THEN "none" ELSE "older"]
    /\ UNCHANGED <<layoutPreset, forceLayoutEnabled, layoutOverrides, layoutStorage, unsaved>>
\* Another selection, filter or collapse: Force has something else to lay out.
LookAtOtherParts ==
    /\ forceLive # ForceOff /\ forceLive' = ForceOff
    /\ UNCHANGED <<canvasGraph, layoutPreset, forceLayoutEnabled, layoutOverrides, layoutStorage,
                   dragged, layoutDue, unsaved>>
\* Fault: the relaxation of the graph before goes on.
LayoutEffectsFault ==
    /\ layoutDue /\ layoutDue' = FALSE
    /\ layoutOverrides' = readSpecGraphCanvasLayoutOverrides(layoutStorage, canvasGraph)
    /\ unsaved' = FALSE
    /\ UNCHANGED <<canvasGraph, layoutPreset, forceLayoutEnabled, forceLive, layoutStorage, dragged>>
\* The frame that the last effect asks for may come before they are drawn.
LayoutEffects ==
    /\ layoutDue /\ layoutDue' = FALSE
    /\ layoutOverrides' = readSpecGraphCanvasLayoutOverrides(layoutStorage, canvasGraph)
    /\ unsaved' = FALSE
    /\ \/ forceLive' = ForceOff
       \/ /\ forceLayoutEnabled /\ forceLive.state = "running"
          /\ forceLive' \in [state : {"off", "settled"}, positions : {"current"}]
    /\ UNCHANGED <<canvasGraph, layoutPreset, forceLayoutEnabled, layoutStorage, dragged>>

LayoutStep ==
    \/ Reopen \/ updateLayoutPreset \/ toggleForceLayout \/ cycleLayoutPreset
    \/ toggleForceLiveLayout \/ ForceFrame
    \/ onNodeDragStart \/ onNodeDrag \/ Nudge \/ onNodeDragStop \/ resetLayoutOverrides
    \/ FreshGraph \/ LookAtOtherParts \/ LayoutEffects
LayoutSpec == LayoutInit /\ [][LayoutStep]_laidOut

-----------------------------------------------------------------------------
(* A reload of the page shows the same preset and every node at the same   *)
(* place.  Not so while a place is shown that the end of a drag has not    *)
(* saved: during a drag, after an arrow key, after a drag that ended in    *)
(* Force, and when a drag ends just as another graph is drawn.             *)
LayoutIsRemembered ==
    /\ layoutPreset = readSpecGraphCanvasLayoutPreset(layoutStorage)
    /\ ~layoutDue /\ ~unsaved =>
          applySpecGraphCanvasLayoutOverrides(canvasGraph, layoutOverrides)
            = applySpecGraphCanvasLayoutOverrides(canvasGraph,
                  readSpecGraphCanvasLayoutOverrides(layoutStorage, canvasGraph))

(* A relaxation is of the nodes and edges that are drawn, and under Force. *)
RelaxationIsOfWhatIsDrawn ==
    ~layoutDue /\ forceLive # ForceOff =>
        forceLayoutEnabled /\ forceLive.positions = "current"

(* Once its effects have run, the canvas shows what was kept for this      *)
(* graph and relaxes nothing else.                                         *)
CanvasAtRest == LayoutIsRemembered /\ RelaxationIsOfWhatIsDrawn
=============================================================================
