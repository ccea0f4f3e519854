--------------------------- MODULE MCViewerPanel ---------------------------
(***************************************************************************)
(* Instances of the modules of the viewer page for TLC.  On the page of a   *)
(* workspace these are moving about, the requests, the answer forms and    *)
(* the reading of the document; on the graph page the selection, the        *)
(* inspector, the rail, the conversation and its records, and the canvas: *)
(* what its presets compute and where its nodes lie.  They share no state here, so  *)
(* they are explored side by side, each in its own scene.                   *)
(*                                                                         *)
(* The documents are stages of two workspaces, A and B, from a fresh route *)
(* to a promoted candidate, each as an operator and as a reader opens it.  *)
(***************************************************************************)
EXTENDS PanelNavigation, PanelExecutions, AnswerForms, WorkspaceReaders,
        GraphSelection, SpecInspector, UtilityPanels, AgentConversation,
        ConversationRecords, LayoutPresets, CanvasLayout

Writes == {"prepare", "initialize", "submit_idea", "run_intake", "run_continuation",
           "repair_gate", "repair_rerun", "repair_publish", "approve",
           "promotion_request", "dry_run", "confirm", "open_review",
           "inspect_review", "publish"}
Forms == {"entry", "q1", "q2", "r1", "r2", "t1"}

Fresh ==
  [readOnly |-> FALSE, demo |-> FALSE, ws |-> "A", has |-> {}, urls |-> Writes,
   pending |-> {}, filled |-> Forms,
   overview |-> [status |-> "route_only", phase |-> "workspace", target |-> "workspace-creation",
                 actions |-> {"workspace-initialization-path"},
                 phases |-> {"workspace-creation", "idea-intake"}],
   ops |-> {"idea-intake", "guided-repair-path", "guided-approval-path"},
   flow |-> {"candidate-overview", "repair-review"},
   init |-> [status |-> "initialization_request_needed", projected |-> "none",
             preparedFor |-> "A", prepared |-> "none", preparable |-> TRUE, managed |-> TRUE],
   entry |-> [published |-> FALSE, initialized |-> FALSE, creation |-> "route_only_workspace",
              submitted |-> FALSE, requestFor |-> "none"],
   answers |-> [outcome |-> "answers_required", blocking |-> 1, accepted |-> 0,
                requested |-> FALSE, candidate |-> "none"],
   intakeQuestions |-> {},
   repair |-> [stage |-> "none", request |-> "none", gate |-> "none", execution |-> "none",
               publication |-> "none", target |-> {}, checkpoints |-> {}, unresolved |-> 0,
               run |-> "not_run", published |-> "missing"],
   approval |-> [stage |-> "none", status |-> "waiting", promotion |-> "none", dryRun |-> "none",
                 hosted |-> FALSE, review |-> "none", inspection |-> "none",
                 published |-> FALSE, intent |-> "none", execution |-> "none",
                 decision |-> "none", requestOk |-> FALSE, canAuthor |-> FALSE,
                 confirmation |-> "none", reviewOperation |-> "none",
                 target |-> {}, checkpoints |-> {}],
   terms |-> {}, explainers |-> {}, questions |-> {}, files |-> {}]

Initialized ==
  [Fresh EXCEPT
    !.overview.status = "initialized", !.overview.phase = "intake", !.overview.target = "idea-intake",
    !.overview.actions = {"idea-intake"}, !.init.status = "initialized", !.init.projected = "A",
    !.has = {"initialization_report"},
    !.entry = [published |-> FALSE, initialized |-> TRUE, creation |-> "initialized",
               submitted |-> TRUE, requestFor |-> "older"]]

Clarification ==
  [Initialized EXCEPT
    !.overview.status = "clarification", !.overview.phase = "clarification",
    !.overview.target = "intake-clarification",
    !.has = @ \cup {"intake_report", "answer_template", "clarification", "entry_execution",
                    "answer_findings", "answer_authoring"},
    !.answers.accepted = 1,
    !.intakeQuestions = {[id |-> "q1", target |-> TRUE], [id |-> "q2", target |-> FALSE]}]

Candidate ==
  [Clarification EXCEPT
    !.overview = [status |-> "repair", phase |-> "repair", target |-> "guided-repair-path",
                  actions |-> {"repair-review", "guided-repair-path"},
                  phases |-> {"candidate-overview", "idea-maturity"}],
    !.has = @ \cup {"continuation", "candidate", "workflow_edges", "applicability", "seed_gaps",
                    "ontology_review", "repair_session", "session_blockers", "accepted_answers",
                    "maturity", "hygiene", "repair_path", "rerun_requests", "rerun_ready"},
    !.repair = [@ EXCEPT !.stage = "rerun_request_gate_needed", !.request = "usable",
                         !.target = {"repair-session"}, !.checkpoints = {"repair-review"},
                         !.unresolved = 1],
    !.terms = {"t1", "t2"},
    !.explainers = {{"pre_sib", "repair"}, {"candidate_approval", "promotion"}, {}},
    !.questions = {[id |-> "r1", node |-> "n1", status |-> "open", hint |-> TRUE,
                    drafted |-> FALSE, kind |-> "ontology_gap"],
                   [id |-> "r2", node |-> "n2", status |-> "open", hint |-> FALSE,
                    drafted |-> FALSE, kind |-> "product_spec"]}]

Rerun ==
  [Candidate EXCEPT
    !.repair.stage = "rerun_running_or_waiting", !.repair.gate = "created",
    !.repair.execution = "completed", !.repair.run = "completed",
    !.files = {[id |-> "file-1", node |-> "n1"]}, !.has = @ \cup {"materialization"}]

\* The repaired candidate, its source session closed; two files of one node.
Approving ==
  [Rerun EXCEPT
    !.overview = [status |-> "approval", phase |-> "approval", target |-> "guided-approval-path",
                  actions |-> {"approval-readiness"}, phases |-> {"controlled-promotion"}],
    !.repair = [@ EXCEPT !.stage = "repaired_ready", !.request = "consumed",
                         !.publication = "published", !.unresolved = 0, !.published = "completed"],
    !.has = @ \cup {"approval_path", "materialization_ready", "review_contract",
                    "review_can_be_requested", "approval_gate", "intent_ready", "intents",
                    "structure", "depth_delta"},
    !.questions = {[id |-> "r2", node |-> "n1", status |-> "open", hint |-> FALSE,
                    drafted |-> FALSE, kind |-> "product_spec"]},
    !.files = @ \cup {[id |-> "file-2", node |-> "n1"]},
    !.approval = [@ EXCEPT !.stage = "approval_execution_needed", !.intent = "usable",
                           !.target = {"approval-readiness"},
                           !.checkpoints = {"controlled-promotion"}]]

Promoting ==
  [Approving EXCEPT
    !.has = @ \cup {"git_operations", "confirmation"},
    !.approval = [@ EXCEPT !.stage = "promotion_execution_needed", !.execution = "completed",
                           !.decision = "approved", !.requestOk = TRUE, !.hosted = TRUE,
                           !.canAuthor = TRUE, !.dryRun = "ready_to_execute",
                           !.confirmation = "ready", !.reviewOperation = "ready_to_execute"]]

Reviewing ==
  [Promoting EXCEPT !.approval.stage = "review_merge_waiting",
                    !.approval.promotion = "completed"]

ForReader(d) == [d EXCEPT !.readOnly = TRUE]
Demo(d)  == [d EXCEPT !.demo = TRUE, !.readOnly = TRUE]
InB(d)   == [d EXCEPT !.ws = "B"]

MCDocs ==
  [n \in {"fresh", "initialized", "clarification", "candidate", "rerun", "approving",
          "promoting", "reviewing", "fresh B", "candidate B", "read fresh",
          "read clarification", "read candidate", "read reviewing", "demo"} |->
    CASE n = "fresh"         -> Fresh
      [] n = "initialized"   -> Initialized
      [] n = "clarification" -> Clarification
      [] n = "candidate"     -> Candidate
      [] n = "rerun"         -> Rerun
      [] n = "approving"     -> Approving
      [] n = "promoting"     -> Promoting
      [] n = "reviewing"     -> Reviewing
      [] n = "fresh B"       -> InB(Fresh)
      [] n = "candidate B"   -> InB(Candidate)
      [] n = "read fresh"    -> ForReader(Fresh)
      [] n = "read clarification" -> ForReader(Clarification)
      [] n = "read candidate" -> ForReader(Candidate)
      [] n = "read reviewing" -> ForReader(Reviewing)
      [] n = "demo"          -> Demo(Reviewing)]
MCHashes == {"guided-repair-path", "idea-intake", "nowhere"}

\* Every kind of repair question, intake answers with and without required
\* keys in their template, and a term with all its actions.
Asked(f, k, req) == [form |-> f, kind |-> k, actions |-> DOMAIN req, required |-> req]
Repair(k, actions) == Asked("repair", k, [a \in actions |-> {}])
Product == {"answer_question", "provide_candidate_context", "reject", "defer"}
MCQuestions ==
  {Repair("ontology_gap", {"bind_existing_term", "alias", "propose_project_local_term",
                           "reject", "defer", "answer_question"}),
   Repair("product_spec", Product), Repair("hint", Product), Repair("topology", Product),
   Repair("other", {"confirm"}),
   Asked("term", "term", [a \in {"keep_project_local", "bind_existing", "alias", "reject",
                                 "request_workspace_promotion", "defer"} |-> {}])}
  \cup {Asked("intake", k, [answer_question |-> {}, reject |-> {}]) :
          k \in {"topology", "entries", "refs", "other"}}
  \cup {Asked("intake", "other",
             [answer_question |-> need, provide_candidate_context |-> {"context"},
              defer |-> {"follow_up"}]) :
          need \in {{"answer"}, {"refs"}, {"entries"}, {"relations"}, {"terms"}, {"term", "refs"}}}
\* Two graphs that share a node: one has gaps and edges of two kinds.
Edge(name, kind, from, to) ==
  [id |-> name, kind |-> kind, status |-> "resolved", source |-> from, target |-> to]
MCGraphs ==
  [g \in {"sample", "live"} |->
    IF g = "sample"
    THEN [gaps |-> [s1 |-> {}, a |-> {}], edges |-> {Edge("sa", "refines", "a", "s1")}]
    ELSE [gaps |-> [a |-> {"input"}, b |-> {}, c |-> {"evidence"}],
          edges |-> {Edge("ba", "refines", "b", "a"), Edge("cb", "depends_on", "c", "b")}]]
MCMaxAsked == [export |-> 2, compile |-> 1, details |-> 2]
\* A metric that refers to a node and an edge, and one to the edge alone.
MCIndexes ==
  [index |-> [proposals |-> [p1 |-> {"a"}, p2 |-> {}],
              metrics |-> [m1 |-> {"a", "e"}, m2 |-> {"e"}]]]

\* A gap of an untitled spec, an edge that changes, and the Markdown of an
\* untitled spec with the spec.
MCItem(kind, key, blank) == [kind |-> kind, key |-> key, blank |-> blank, body |-> "long"]
MCStarts == {[title |-> "", prompt |-> "told", items |-> <<MCItem("spec_gap", "g", {"title"})>>]}
MCSentItems == {<<MCItem("spec_edge", "e", {})>>, <<MCItem("spec_edge", "e", {"source_title"})>>,
                <<MCItem("spec_markdown", "m", {"title"}), MCItem("spec_node", "n", {})>>}

\* Cards in a column of their status, one of a status without a column.
MCStatusOf == <<"idea", "linked", "odd", "linked", "idea", "odd", "linked">>
MCDrawnNodes == [g \in {"g", "h"} |-> IF g = "g" THEN {"a"} ELSE {"a", "b"}]
MCDragPlaces == [n \in {"a", "b"} |-> IF n = "a" THEN {"p", "q"} ELSE {"p"}]

VARIABLE scene
graphPage == <<selecting, inspecting, railVars, talking, recordVars>>
workspacePage == <<nav, execs, form, reading>>
canvas == <<specGraph, laidOut>>
vars == <<workspacePage, graphPage, canvas, scene>>

NavIdle  == load = "loading" /\ doc = "fresh" /\ hash = "none" /\ wanted = "none"
              /\ diagnosticsOpen = FALSE /\ ideaOpen = FALSE /\ selection = "none"
FormIdle == /\ question = Repair("other", {"confirm"}) /\ action = "confirm" /\ text = "blank"
            /\ fields = {} /\ stored = NoAnswer /\ refused = {}
ReadIdle == reader = "reader" /\ ReadInit
WorkspaceIdle == NavIdle /\ ExecInit /\ FormIdle /\ ReadIdle
GraphInit == SelectInit /\ InspectorInit /\ RailInit /\ TalkInit /\ RecordsInit
GraphIdle == GraphInit /\ productWorkspace = FALSE
LayoutIdle ==
    /\ canvasGraph = "g" /\ LayoutInit
    /\ layoutStorage = [preset |-> "odd", overrides |-> [g \in DOMAIN MCDrawnNodes |-> <<>>]]
CanvasIdle == specGraph = NoGraph /\ LayoutIdle

PageInit ==
        \/ scene = "navigation" /\ NavInit /\ ExecInit /\ FormIdle /\ ReadIdle /\ GraphIdle
        \/ scene = "executions" /\ WorkspaceIdle /\ GraphIdle
        \/ scene = "forms" /\ NavIdle /\ ExecInit /\ FormInit /\ ReadIdle /\ GraphIdle
        \/ scene = "reading" /\ NavIdle /\ ExecInit /\ FormIdle /\ ReadInit /\ GraphIdle
        \/ scene \in {"selection", "inspector", "conversation", "records"} /\ WorkspaceIdle /\ GraphIdle
        \/ scene = "rail" /\ WorkspaceIdle /\ GraphInit
CanvasInit ==
        \/ scene = "presets" /\ PresetsInit /\ LayoutIdle
        \/ scene = "layout" /\ LayoutInit /\ specGraph = NoGraph
Init == \/ PageInit /\ CanvasIdle
        \/ CanvasInit /\ WorkspaceIdle /\ GraphIdle

WorkspaceScene ==
        \/ scene = "navigation" /\ NavNext /\ UNCHANGED <<execs, form, reading>>
        \/ scene = "executions" /\ ExecNext /\ UNCHANGED <<nav, form, reading>>
        \/ scene = "forms" /\ FormNext /\ UNCHANGED <<nav, execs, reading>>
        \/ scene = "reading" /\ ReadNext /\ UNCHANGED <<nav, execs, form>>
GraphScene ==
        \/ /\ scene = "selection" /\ UNCHANGED <<inspecting, railVars, talking, recordVars>>
           /\ SelectionStep
        \/ /\ scene = "inspector" /\ InspectorNext
           /\ UNCHANGED <<selecting, railVars, talking, recordVars>>
        \/ /\ scene = "rail" /\ RailStep
           /\ UNCHANGED <<selecting, inspecting, talking, recordVars>>
        \/ /\ scene = "conversation" /\ TalkStep
           /\ UNCHANGED <<selecting, inspecting, railVars, recordVars>>
        \/ /\ scene = "records" /\ RecordsNext
           /\ UNCHANGED <<selecting, inspecting, railVars, talking>>

CanvasScene ==
        \/ scene = "presets" /\ AnotherGraph /\ UNCHANGED laidOut
        \/ scene = "layout" /\ LayoutStep /\ UNCHANGED specGraph

Next == \/ WorkspaceScene /\ UNCHANGED <<graphPage, canvas, scene>>
        \/ GraphScene /\ UNCHANGED <<workspacePage, canvas, scene>>
        \/ CanvasScene /\ UNCHANGED <<workspacePage, graphPage, scene>>
=============================================================================
