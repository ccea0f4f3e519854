---------------------------- MODULE SpecInspector ----------------------------
(***************************************************************************)
(* The inspector of a specification: it asks the backend for the details   *)
(* of the node it shows, and on request for the Markdown of the node or of *)
(* its subtree, exported or compiled.                                      *)
(*                                                                         *)
(* A request is known by its number.  The effects of a render run after    *)
(* it; a click or an answer may come in between.  An aborted request may   *)
(* have its answer already, so its callbacks still run.                    *)
(*                                                                         *)
(* Left out: the words of the details, copying and downloading.            *)
(***************************************************************************)
EXTENDS Naturals, FiniteSets

CONSTANTS InspectedSpecs, \* the nodes a user may inspect
          MaxAsked,       \* Bound: how many requests of each kind
          MaxOnTheWay     \* Bound: the requests without an answer at a time

NoRoot == "none"
Kinds == {"export", "compile", "details"}
Scopes == {"node", "subtree"}
Idle == [kind |-> "idle", root |-> NoRoot, scope |-> NoRoot, from |-> 0]

VARIABLES
    inspected,         \* selection.node.node_id, NoRoot while nothing is inspected
    markdownScope,
    fetched,           \* markdownState, compileState and the state of the details
    abortRef,          \* the request of each kind whose answer is awaited, or 0
    effectsOf,         \* the node and scope the effects last ran for
    asked,             \* how many requests of each kind were sent
    onTheWay,          \* the requests whose callbacks have not run
    compileCapability  \* compileCapability.available

inspecting == <<inspected, markdownScope, fetched, abortRef, effectsOf, asked, onTheWay,
                compileCapability>>

MountedState ==
    /\ markdownScope' = "subtree" /\ effectsOf' = <<NoRoot, NoRoot>>
    /\ fetched' = [k \in Kinds |-> Idle]
    /\ abortRef' = [k \in Kinds |-> 0]

InspectorInit ==
    /\ inspected = NoRoot /\ markdownScope = "subtree"
    /\ effectsOf = <<NoRoot, NoRoot>>
    /\ fetched = [k \in Kinds |-> Idle] /\ abortRef = [k \in Kinds |-> 0]
    /\ asked = [k \in Kinds |-> 0] /\ onTheWay = {} /\ compileCapability = FALSE

-----------------------------------------------------------------------------
(* What is shown of an answer: nothing, once the node or the scope differ. *)
activeState(k) ==
    IF fetched[k].root = inspected /\ fetched[k].scope = markdownScope THEN fetched[k] ELSE Idle
activeMarkdownState == activeState("export")
activeCompileState == activeState("compile")
\* The details say nothing of their node.
detail == fetched["details"]

\* What the inspector hands to the agent's context.
markdownExportContextSource ==
    [node |-> inspected, scope |-> activeMarkdownState.scope, from |-> activeMarkdownState.from]
\* A run of the compiler that failed leaves no Markdown.
compiledMarkdownContextSource ==
    [node |-> inspected, scope |-> activeCompileState.scope, from |-> activeCompileState.from]

\* What the section of the Markdown offers: a request while none is loading,
\* and to hand on what it shows.
MarkdownExportSection ==
    [export |-> activeMarkdownState.kind # "loading", context |-> activeMarkdownState.kind = "ok",
     compile |-> compileCapability /\ activeCompileState.kind # "loading"]
CompileResult == [context |-> activeCompileState.kind = "ok"]

-----------------------------------------------------------------------------
(* The page inspects another node, or none: then the inspector is gone.    *)
Inspect(id) ==
    /\ id # inspected
    /\ inspected' = id
    /\ IF NoRoot \in {id, inspected} THEN MountedState
       ELSE UNCHANGED <<markdownScope, fetched, abortRef, effectsOf>>
    /\ UNCHANGED <<asked, onTheWay, compileCapability>>

setMarkdownScope(s) ==
    /\ inspected # NoRoot /\ s # markdownScope
    /\ markdownScope' = s
    /\ UNCHANGED <<inspected, fetched, abortRef, effectsOf, asked, onTheWay, compileCapability>>

\* The capabilities of the backend arrive.
LearnCapability ==
    /\ compileCapability' = TRUE
    /\ UNCHANGED <<inspected, markdownScope, fetched, abortRef, effectsOf, asked, onTheWay>>

Request(k) ==
    [k |-> k, id |-> asked[k] + 1, root |-> inspected, scope |-> markdownScope]
Loading(r) == [kind |-> "loading", root |-> r.root, scope |-> r.scope, from |-> r.id]

\* The controller before is aborted; the newest is the one that counts.
Send(k) ==
    /\ asked[k] < MaxAsked[k] /\ Cardinality(onTheWay) < MaxOnTheWay
    /\ asked' = [asked EXCEPT ![k] = @ + 1]
    /\ abortRef' = [abortRef EXCEPT ![k] = Request(k).id]
    /\ fetched' = [fetched EXCEPT ![k] = Loading(Request(k))]
    /\ onTheWay' = onTheWay \cup {Request(k)}
    /\ UNCHANGED <<inspected, markdownScope, effectsOf, compileCapability>>
exportMarkdown ==
    /\ inspected # NoRoot /\ MarkdownExportSection.export
    /\ Send("export")
compileMarkdown ==
    /\ inspected # NoRoot /\ MarkdownExportSection.compile
    /\ Send("compile")

\* The callbacks of a request: one that is no longer awaited changes nothing.
\* Fault: the callbacks do not look whether their request is the awaited one.
SettleFault(r, outcome) ==
    /\ fetched' = [fetched EXCEPT ![r.k] =
                     [kind |-> outcome, root |-> r.root, scope |-> r.scope, from |-> r.id]]
    /\ abortRef' = [abortRef EXCEPT ![r.k] = 0]
Settle(r, outcome) ==
    IF abortRef[r.k] # r.id THEN UNCHANGED <<fetched, abortRef>>
    ELSE /\ fetched' = [fetched EXCEPT ![r.k] =
                          [kind |-> outcome, root |-> r.root, scope |-> r.scope, from |-> r.id]]
         /\ abortRef' = [abortRef EXCEPT ![r.k] = 0]
Answered(r, outcome) ==
    /\ r \in onTheWay /\ onTheWay' = onTheWay \ {r}
    /\ Settle(r, outcome)
    /\ UNCHANGED <<inspected, markdownScope, effectsOf, asked, compileCapability>>

-----------------------------------------------------------------------------
\* Another node or scope: nothing of the old ones is awaited or kept.
\* Fault: the request is aborted and its loading state is kept.
dropMarkdownFault == fetched
dropMarkdown == [fetched EXCEPT !["export"] = Idle, !["compile"] = Idle]

\* Another node: its details are asked for, and those of the one before are cancelled.
useSpecNodeDetail ==
    IF inspected = effectsOf[1]
    THEN /\ fetched' = dropMarkdown
         /\ abortRef' = [k \in Kinds |-> IF k = "details" THEN abortRef[k] ELSE 0]
         /\ UNCHANGED <<asked, onTheWay>>
    ELSE /\ asked["details"] < MaxAsked["details"] /\ Cardinality(onTheWay) < MaxOnTheWay
         /\ fetched' = [dropMarkdown EXCEPT !["details"] = Loading(Request("details"))]
         /\ abortRef' = [k \in Kinds |-> IF k = "details" THEN Request(k).id ELSE 0]
         /\ asked' = [asked EXCEPT !["details"] = @ + 1]
         /\ onTheWay' = onTheWay \cup {Request("details")}
InspectorEffects ==
    /\ inspected # NoRoot /\ effectsOf # <<inspected, markdownScope>>
    /\ effectsOf' = <<inspected, markdownScope>>
    /\ useSpecNodeDetail
    /\ UNCHANGED <<inspected, markdownScope, compileCapability>>

InspectorNext ==
    \/ \E id \in InspectedSpecs \cup {NoRoot} : Inspect(id)
    \/ \E s \in Scopes : setMarkdownScope(s)
    \/ LearnCapability \/ exportMarkdown \/ compileMarkdown \/ InspectorEffects
    \/ \E r \in onTheWay, outcome \in {"ok", "error"} : Answered(r, outcome)
InspectorSpec == InspectorInit /\ [][InspectorNext]_inspecting

-----------------------------------------------------------------------------
(* The Markdown on the page, and what it hands to the agent, is that of    *)
(* the node and the scope it shows, from the newest request; and so are    *)
(* the details, once the effects have run.                                 *)
ShowsItsOwn ==
    /\ MarkdownExportSection.context =>
          markdownExportContextSource =
              [node |-> inspected, scope |-> markdownScope, from |-> asked["export"]]
    /\ CompileResult.context =>
          compiledMarkdownContextSource =
              [node |-> inspected, scope |-> markdownScope, from |-> asked["compile"]]
    /\ effectsOf[1] = inspected /\ detail.kind = "ok" =>
          detail.root = inspected /\ detail.from = asked["details"]

(* A page that says it is loading has a request on its way which it will   *)
(* take the answer of: no spinner, and no disabled button, stays forever.  *)
LoadingIsAwaited ==
    \A k \in Kinds :
        LET s == IF k = "details" THEN detail ELSE activeState(k)
        IN s.kind = "loading" =>
              abortRef[k] = s.from /\ \E r \in onTheWay : r.k = k /\ r.id = s.from

(* Both: the inspector never shows another node's or an older answer, and  *)
(* never waits for an answer it would not take.                            *)
InspectorKeepsUp == ShowsItsOwn /\ LoadingIsAwaited
=============================================================================
