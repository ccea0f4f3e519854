--------------------------- MODULE PanelSections ---------------------------
(***************************************************************************)
(* The screen of one product workspace: one definition per React component *)
(* of IdeaToSpecWorkspacePanel.tsx.  A component is the set of the things  *)
(* of its markup that the properties tell apart:                           *)
(*   At(id)    an element a fragment link can jump to (ids are written     *)
(*             without their common prefix "idea-to-spec-"),               *)
(*   To(id)    a fragment link,                                            *)
(*   Do(op)    a button that is enabled and asks the server to write,      *)
(*   Shows(x)  a part of the document that is put on the screen.           *)
(* Wording, numbers and layout are left out.  The document d is what the   *)
(* readers of the wire and the hooks hand to the panel:                    *)
(*   readOnly, demo   how the page was opened                              *)
(*   has              the names of the optional parts that are published   *)
(*   urls, pending    operations that have an endpoint, that are in flight *)
(*   filled           forms whose answer is complete (see AnswerForms)     *)
(*   overview, flow, ops, repair, approval ...  facts the guards read      *)
(***************************************************************************)

EXTENDS Naturals

At(id)   == [kind |-> "at", name |-> id]
To(id)   == [kind |-> "to", name |-> id]
Do(op)   == [kind |-> "do", name |-> op]
Shows(x) == [kind |-> "shows", name |-> x]

When(c, S)  == IF c THEN S ELSE {}
Links(ids)  == {To(i) : i \in ids}
\* A button is in the markup when shown and enabled when can.
Button(shown, can, op) == When(shown /\ can, {Do(op)})
\* The two conditions nearly every button has: an endpoint, nothing in flight.
Free(d, op) == op \in d.urls /\ op \notin d.pending

\* A status line stands where a part is missing.
Status(x) == {Shows(x)}
\* The header, pill, metric and label components show what they are given.
SectionHeader(x) == {Shows(x)}
ReportStatusRow(x) == {Shows(x)}

(***************************************************************************)
(* The head of the page and the layouts' own parts.                        *)
(***************************************************************************)

FreshWorkspaceFocusSection(d) == SectionHeader("focus")

\* The story of the demonstration view: it has no fragment link and no button.
productDemoStory(d) ==
  {Shows("idea"), Shows("scope"), Shows("next")}
    \cup {Shows(IF "candidate" \in d.has THEN "candidate" ELSE "pending")}
ProductDemoPresentationSection(d) == productDemoStory(d) \cup {Shows("phases")}

\* The ranked actions and the last completed hand-over, those with a target.
OverviewActions(d) == {Shows("next_action")} \cup Links(d.overview.actions)
OverviewPhases(d)  == {Shows("phases")} \cup Links(d.overview.phases)
ProductWorkspaceOverviewSection(d) ==
  {At("product-workspace-overview")} \cup OverviewActions(d) \cup OverviewPhases(d)

\* Every operation with a target links to it; operations without a group fall
\* under one group of their own.
ManagedOperationGroups(d) == {Shows("operations")} \cup Links(d.ops)
ManagedOperationsObservabilitySection(d) ==
  {At("managed-operations"), Shows("managed_mode")} \cup ManagedOperationGroups(d)

WorkspaceCreationSection(d) == {At("workspace-creation"), Shows("creation")}

\* scopedInitializationExecutionRequestRef: the reference prepared in this
\* page for this workspace comes first, then the published one, which may also
\* be the unscoped one of old deployments.  A reference is named by the
\* workspace whose directory it lies in; another workspace's is never used.
scopedInitializationExecutionRequestRef(ws, projected, preparedFor, prepared) ==
  IF preparedFor = ws /\ prepared = ws THEN prepared
  ELSE IF projected \in {ws, "legacy"} THEN projected ELSE "none"

GuidedWorkspaceInitializationPathSection(d) ==
  LET ref == scopedInitializationExecutionRequestRef(
               d.ws, d.init.projected, d.init.preparedFor, d.init.prepared)
      open == d.init.status # "initialized"
      canPrepare == /\ ref = "none" /\ d.init.preparable /\ ~d.readOnly
                    /\ d.init.status = "initialization_request_needed"
      canExecute == /\ ref # "none" /\ d.init.managed /\ ~d.readOnly
                    /\ d.init.status \notin {"initialized", "blocked"}
  IN {At("workspace-initialization-path"), Shows("initialization")}
       \cup Button(ref = "none" /\ open, canPrepare /\ Free(d, "prepare"), "prepare")
       \cup Button(ref # "none" /\ open, canExecute /\ Free(d, "initialize"), "initialize")

(***************************************************************************)
(* Intake.                                                                 *)
(***************************************************************************)

workspaceCreationBlocksIntake(d) ==
  /\ ~d.entry.published /\ ~d.entry.initialized
  /\ d.entry.creation \in {"route_only_workspace", "workspace_creation_requested",
       "workspace_creation_blocked", "product_workspace_creation_state_invalid"}

\* Fault: a reader can submit an idea.
canSubmitFault(d) ==
  "entry" \in d.filled /\ ~workspaceCreationBlocksIntake(d) /\ Free(d, "submit_idea")
canSubmit(d) ==
  /\ ~d.readOnly /\ "entry" \in d.filled
  /\ ~workspaceCreationBlocksIntake(d) /\ Free(d, "submit_idea")

\* An execution is asked for once per submitted entry, and only with the
\* report of the initialization at hand.
canRequestIntakeExecution(d) ==
  /\ ~d.readOnly /\ d.entry.submitted /\ d.entry.initialized
  /\ "initialization_report" \in d.has /\ "entry_execution" \notin d.has
  /\ "request_intake" \notin d.pending /\ d.entry.requestFor # "current"

canRunManagedIntakeExecution(d) ==
  /\ ~d.readOnly /\ d.init.managed
  /\ d.entry.submitted /\ d.entry.requestFor = "current"
  /\ "entry_execution" \notin d.has /\ Free(d, "run_intake")

\* What is published of the intake so far.
RealIdeaStatus(d) ==
  {Shows("intake_status")}
    \cup When("entry_execution" \in d.has, {Shows("entry_execution")})

RawIdeaForm(d) == {At("start-raw-idea")} \cup Button(TRUE, canSubmit(d), "submit_idea")

\* Only a submitted entry has a hand-over; the run button needs a request.
IntakeHandoff(d) ==
  Button(d.entry.submitted, canRequestIntakeExecution(d), "request_intake")
    \cup Button(d.entry.submitted /\ d.entry.requestFor # "none",
                canRunManagedIntakeExecution(d), "run_intake")

\* The local preview of the typed idea.
IntakeDraftPreview(d) ==
  {Shows(IF "entry" \in d.filled THEN "idea_draft" ELSE "no_idea_draft")}

IdeaIntakeDraftSection(d) ==
  {At("idea-intake")} \cup RealIdeaStatus(d) \cup RawIdeaForm(d)
    \cup IntakeHandoff(d) \cup IntakeDraftPreview(d)

IntakeSection(d) == SectionHeader("intake")

IntakeAnswerFindingDiagnostics(d) == When("answer_findings" \in d.has, {Shows("answer_findings")})

IntakeAnswerAuthoringStatus(d) ==
  IF "answer_authoring" \notin d.has THEN Status("answer_authoring")
  ELSE {Shows("answer_authoring")} \cup IntakeAnswerFindingDiagnostics(d)

\* Its own request button is not used by the section that mounts it.
IntakeAnswerContinuationStatus(d, showRequestAction, canRequest) ==
  IF "continuation" \notin d.has
  THEN Status("continuation")
         \cup Button(showRequestAction, canRequest, "request_continuation")
  ELSE {Shows("continuation")} \cup IntakeAnswerFindingDiagnostics(d)

IntakeClarificationAnswerStatus(d) == Status("saved_answers")

\* A question without a matching target in the answer template cannot be
\* answered in the browser.
IntakeClarificationRequestRow(d, q) ==
  {Shows("intake_question")}
    \cup Button(q.target, q.id \in d.filled /\ ~d.readOnly /\ q.id \notin d.pending,
                "save_answer")

\* The stage the guide names, the first that applies.
ContinuationStage(d, canRequest) ==
  IF d.answers.candidate \in {"review_required", "ready"} THEN d.answers.candidate
  ELSE IF d.answers.outcome \in {"clarification_blocked", "clarification_not_required"}
       THEN d.answers.outcome
  ELSE IF "continuation" \in d.has THEN "continued"
  ELSE IF d.answers.requested THEN "execution_requested"
  ELSE IF canRequest THEN "request_continuation"
  ELSE IF d.intakeQuestions # {} THEN "answer_questions" ELSE "clarification_missing"

\* The guide offers the continuation step the section found possible.
ContinuationButtons(d, canRequest, canRun) ==
  Button(canRequest, "request_continuation" \notin d.pending, "request_continuation")
    \cup Button(canRun, "run_continuation" \notin d.pending, "run_continuation")
ClarificationContinuationGuide(d, canRequest, canRun) ==
  {Shows("continuation_guide"), Shows(ContinuationStage(d, canRequest))}
    \cup ContinuationButtons(d, canRequest, canRun)

\* Every blocking question has an accepted answer, or none is needed.
continuationRequestReady(d) ==
  /\ ~d.readOnly
  /\ d.entry.published \/ d.entry.initialized
  /\ {"initialization_report", "intake_report", "answer_template",
      "clarification"} \subseteq d.has
  /\ \/ d.answers.outcome = "clarification_not_required"
     \/ /\ d.answers.outcome = "answers_required"
        /\ d.answers.blocking > 0 /\ d.answers.accepted >= d.answers.blocking
  /\ "continuation" \notin d.has
  /\ "request_continuation" \notin d.pending /\ ~d.answers.requested

canRunManagedContinuationExecution(d) ==
  /\ ~d.readOnly /\ d.answers.requested
  /\ "continuation" \notin d.has /\ Free(d, "run_continuation")

IntakeQuestions(d) == UNION {IntakeClarificationRequestRow(d, q) : q \in d.intakeQuestions}
IntakeClarificationSection(d) ==
  {At("intake-clarification"), Shows("clarification")}
    \cup ClarificationContinuationGuide(d, continuationRequestReady(d),
                                        canRunManagedContinuationExecution(d))
    \cup IntakeAnswerAuthoringStatus(d)
    \cup IntakeAnswerContinuationStatus(d, FALSE, continuationRequestReady(d))
    \cup IntakeClarificationAnswerStatus(d) \cup IntakeQuestions(d)

(***************************************************************************)
(* The guided paths: which step of the repair and approval life cycles the *)
(* page offers (the steps themselves are in PromotionPath).                *)
(***************************************************************************)

WorkflowSection(d) == SectionHeader("workflow")

GuidedFlowSection(d) == {At("guided-flow"), Shows("guided_flow")} \cup Links(d.flow)

RepairSteps(d) ==
  LET r == d.repair
      may(op) == ~d.readOnly /\ Free(d, op)
  IN Button(r.stage = "rerun_request_gate_needed",
            may("repair_gate") /\ r.request = "usable", "repair_gate")
       \cup Button(r.stage = "rerun_requested",
                   /\ may("repair_rerun") /\ r.request = "usable"
                   /\ r.gate # "none", "repair_rerun")
       \cup Button(/\ r.stage = "rerun_running_or_waiting"
                   /\ r.execution # "none" /\ r.publication = "none",
                   may("repair_publish"), "repair_publish")
RepairCheckpoints(d) == When("repair_path" \in d.has, Links(d.repair.checkpoints))
GuidedRepairPathSection(d) ==
  {At("guided-repair-path"), Shows("repair_path")}
    \cup Links(d.repair.target) \cup RepairSteps(d) \cup RepairCheckpoints(d)

ApprovalSteps(d) ==
  LET p == d.approval
      may(op) == ~d.readOnly /\ Free(d, op)
      showDryRun == \/ /\ p.stage = "promotion_execution_needed"
                       /\ p.promotion = "none" \/ p.status = "blocked"
                    \/ p.dryRun \in {"ready_to_execute", "failed"}
      showReview == \/ /\ p.stage = "promotion_execution_needed"
                       /\ p.promotion # "none" /\ p.status # "blocked"
                    \/ "confirmation" \in d.has
      showConfirm == p.hosted /\ (showReview \/ p.dryRun = "ready_to_execute")
      showInspect == \/ p.stage = "review_merge_waiting" /\ p.review = "none"
                     \/ p.inspection \in {"ready_to_execute", "completed", "failed"}
      showPublish == p.stage = "read_model_publication_needed" /\ ~p.published
  IN Button(p.stage = "approval_execution_needed",
                   /\ may("approve") /\ p.intent = "usable"
                   /\ p.execution \in {"none", "failed", "blocked"}, "approve")
       \cup Button(p.stage = "promotion_request_needed",
                   /\ may("promotion_request") /\ p.decision = "approved"
                   /\ ~p.requestOk, "promotion_request")
       \cup Button(showDryRun, may("dry_run") /\ p.requestOk, "dry_run")
       \cup Button(showConfirm, may("confirm") /\ p.canAuthor, "confirm")
       \cup Button(showReview,
                   /\ may("open_review") /\ p.requestOk
                   /\ p.hosted => p.confirmation = "ready"
                   /\ p.reviewOperation = "ready_to_execute", "open_review")
       \cup Button(showInspect, may("inspect_review"), "inspect_review")
       \cup Button(showPublish, may("publish"), "publish")
ApprovalCheckpoints(d) == When("approval_path" \in d.has, Links(d.approval.checkpoints))
GuidedApprovalPathSection(d) ==
  {At("guided-approval-path"), Shows("approval_path")}
    \cup Links(d.approval.target) \cup ApprovalSteps(d) \cup ApprovalCheckpoints(d)

(***************************************************************************)
(* Candidate, ontology and diagnostics.                                    *)
(***************************************************************************)

\* An edgeless topology leaves a status line in place of the edges.
CandidateWorkflowTopologyMap(d) ==
  {Shows("topology")} \cup When("workflow_edges" \notin d.has, Status("no_workflow_edges"))

OntologyApplicability(d) ==
  {Shows(IF "applicability" \in d.has THEN "applicability" ELSE "no_applicability")}
CandidateOverviewSection(d) ==
  {At("candidate-overview"), Shows("candidate_overview")}
    \cup When("candidate" \notin d.has, Status("candidate_missing"))
    \cup OntologyApplicability(d) \cup CandidateWorkflowTopologyMap(d)

WorkspaceSection(d) == SectionHeader("workspace")
FrameSection(d)     == SectionHeader("frame")
ArtifactSection(d)  == SectionHeader("artifacts")

OntologySeedSection(d) ==
  SectionHeader("ontology_seed") \cup When("seed_gaps" \notin d.has, Status("no_seed_gaps"))

\* Without an effective review the component renders nothing.
ProjectLocalOntologyEffectiveReviewStatus(d) ==
  When("effective_review" \in d.has, {Shows("effective_review")})
ProjectLocalOntologyImportPreviewStatus(d) ==
  {Shows(IF "import_preview" \in d.has THEN "import_preview" ELSE "no_import_preview")}
ProjectLocalOntologyDecisionStatus(d) == Status("saved_decisions")

ProjectLocalOntologyTermRow(d, t) ==
  {Shows("ontology_term")}
    \cup Button(TRUE, t \in d.filled /\ ~d.readOnly /\ t \notin d.pending, "save_decision")

ProjectLocalOntologyReviewSection(d) ==
  {At("project-local-ontology-review"), Shows("ontology_review")}
    \cup When("ontology_review" \notin d.has, Status("ontology_review_missing"))
    \cup ProjectLocalOntologyDecisionStatus(d)
    \cup ProjectLocalOntologyImportPreviewStatus(d)
    \cup ProjectLocalOntologyEffectiveReviewStatus(d)
    \cup UNION {ProjectLocalOntologyTermRow(d, t) : t \in d.terms}

CandidateGraphSection(d) ==
  {At("candidate-graph"), Shows("candidate_graph")}
    \cup When("candidate" \notin d.has, Status("no_candidate_nodes"))
PreSibSection(d) == {At("pre-sib"), Shows("pre-sib")}
RepairSection(d) == SectionHeader("repair_actions")

RepairSessionBlockerRow(d) == When("session_blockers" \in d.has, {Shows("session_blocker")})
RepairSessionStageRow(d)   == When("repair_session" \in d.has, {Shows("session_stage")})
AcceptedAnswerRow(d)       == When("accepted_answers" \in d.has, {Shows("accepted_answer")})
RepairSessionSection(d) ==
  {At("repair-session"), Shows("repair_session")}
    \cup When("repair_session" \notin d.has, Status("repair_session_missing"))
    \cup RepairSessionBlockerRow(d) \cup RepairSessionStageRow(d) \cup AcceptedAnswerRow(d)

\* The fixed links of the maturity section.
MATURITY_NAV_ITEMS == {"repair-review", "pre-sib", "repair-session",
                       "materialization", "approval-readiness", "controlled-promotion"}

\* Where the link of a readiness explainer goes: the first word its source,
\* kind and blockers contain, in this order, else the section itself.
maturityExplainerHref(words) ==
  IF "candidate_structure" \in words THEN "candidate-overview"
  ELSE IF "pre_sib" \in words THEN "pre-sib"
  ELSE IF "repair_session" \in words THEN "repair-session"
  ELSE IF "candidate_approval" \in words THEN "approval-readiness"
  ELSE IF "promotion" \in words THEN "controlled-promotion"
  ELSE IF "repair" \in words THEN "repair-review"
  ELSE "idea-maturity"

MaturityLinks == Links(MATURITY_NAV_ITEMS)
MaturityMetrics(d) == {Shows("maturity_metrics")}
CandidateStructure(d) ==
  {Shows(IF "structure" \in d.has THEN "structure" ELSE "no_structure")}
StructuralDepthDelta(d) == When("depth_delta" \in d.has, {Shows("depth_delta")})
\* Each explainer links to the section that can lift what it explains.
ReadinessExplainers(d) == Links({maturityExplainerHref(w) : w \in d.explainers})

\* An unavailable report leaves one status line and none of the links.
IdeaMaturitySection(d) ==
  {At("idea-maturity")} \cup
  IF "maturity" \notin d.has THEN Status("maturity_missing")
  ELSE MaturityLinks \cup MaturityMetrics(d) \cup CandidateStructure(d)
         \cup StructuralDepthDelta(d) \cup ReportStatusRow("maturity_reports")
         \cup ReadinessExplainers(d)

WorkspaceStateHygieneSection(d) ==
  {At("workspace-state-hygiene"),
   Shows(IF "hygiene" \in d.has THEN "hygiene" ELSE "hygiene_missing")}

(***************************************************************************)
(* Repair questions and their answers.                                     *)
(***************************************************************************)

\* The repaired candidate is published and nothing of the session is open.
repairSourceSessionIsHistorical(d) ==
  /\ "repair_path" \in d.has /\ d.repair.stage = "repaired_ready"
  /\ d.repair.request = "consumed" /\ d.repair.execution = "completed"
  /\ d.repair.publication = "published" /\ d.repair.unresolved = 0

\* A question is history when it is covered or closed, or when its session is
\* history, it is not about an event-storming hint and no draft answers it.
repairQuestionPresentation(d, q) ==
  \/ q.status \in {"covered_by_repair_context", "closed", "resolved", "superseded"}
  \/ repairSourceSessionIsHistorical(d) /\ ~q.hint /\ ~q.drafted

\* The one materialized file a question is about, if there is exactly one.
repairSpecificationForRequest(d, q) ==
  LET matches == {f \in d.files : f.node = q.node}
  IN IF \E f \in matches : matches = {f}
     THEN {(CHOOSE f \in matches : TRUE).id} ELSE {}

\* The fields of a structured answer; what they make of it is in AnswerForms.
OntologyGapDraftFields(d)    == {Shows("ontology_answer")}
ProductSpecGapDraftFields(d) == {Shows("specification_answer")}

ClarificationDraftForm(d, q) ==
  When(q.kind = "ontology_gap", OntologyGapDraftFields(d))
    \cup When(q.kind = "product_spec", ProductSpecGapDraftFields(d))
    \cup Button(TRUE, q.id \in d.filled /\ ~d.readOnly /\ q.id \notin d.pending,
                "save_draft")
ClarificationRequestRow(d, q) ==
  LET file == repairSpecificationForRequest(d, q)
  IN {Shows("repair_question")}
       \cup Links(IF file = {} THEN {"materialization"} ELSE file)
       \cup ClarificationDraftForm(d, q)

RepairDraftStatus(d) == Status("saved_drafts")

RepairRerunRequestStatus(d) ==
  {Shows("rerun_request")}
    \cup Button("rerun_requests" \in d.has,
                ~d.readOnly /\ "rerun_ready" \in d.has /\ "request_rerun" \notin d.pending,
                "request_rerun")

\* The rerun's state: a failed or dry run hides what comes after it.
productRepairRerunStatus(execution, publication) ==
  IF execution # "completed" THEN execution
  ELSE CASE publication = "missing"  -> "publication_required"
         [] publication = "blocked"  -> "publication_blocked"
         [] publication = "dry_run"  -> "publication_dry_run"
         [] publication = "completed" -> "published"

ProductRepairRerunExecutionStatus(d) ==
  {Shows("rerun_execution"),
   Shows(productRepairRerunStatus(d.repair.run, d.repair.published))}

OntologyDecisionRow(d) == When("ontology_decisions" \in d.has, {Shows("ontology_decision")})
ResolvedGapRow(d)      == When("resolved_gaps" \in d.has, {Shows("resolved_gap")})

\* Once the source session is history the way on is the specification; before
\* that it is the step the layout offers for the answers.
ProductRepairReviewSection(d, showExecution) ==
  LET completed == /\ repairSourceSessionIsHistorical(d)
                   /\ \A q \in d.questions : repairQuestionPresentation(d, q)
  IN {At("repair-review"), Shows("repair_review")}
       \cup Links({IF completed THEN "materialization"
                   ELSE IF showExecution THEN "guided-repair-path"
                   ELSE "authoring-update"})
       \cup (UNION {ClarificationRequestRow(d, q) : q \in d.questions})
       \cup RepairDraftStatus(d)
       \cup When(showExecution, RepairRerunRequestStatus(d)
                                  \cup ProductRepairRerunExecutionStatus(d))
       \cup OntologyDecisionRow(d) \cup ResolvedGapRow(d)

(***************************************************************************)
(* Approval, materialization and promotion.                                *)
(***************************************************************************)

\* The request goes through requestCandidateApprovalIntent of the panel, which
\* does nothing in a read-only page.
ApprovalReadinessSection(d) ==
  LET canRequest == /\ {"review_can_be_requested", "approval_gate",
                        "intent_ready"} \subseteq d.has
                    /\ ~d.readOnly /\ "request_approval" \notin d.pending
  IN {At("approval-readiness"), Shows("approval_readiness")}
       \cup Button(TRUE, canRequest, "request_approval")

\* Its button asks for no readOnly; the panel mounts it without the button.
CandidateApprovalIntentSection(d, showRequestButton) ==
  {Shows("approval_intent")}
    \cup Button(showRequestButton /\ "intents" \in d.has,
                "intent_ready" \in d.has /\ "request_approval" \notin d.pending,
                "request_approval")

\* A file row is a target of the links of the questions about its node.
MaterializedFileRow(f)       == {At(f.id), Shows("file")}
\* The preview is of the selected file, and of no other while it loads.
MaterializedFilePreview(d)   == {Shows("file_preview")}
MaterializationSection(d) ==
  {At("materialization"), Shows("materialization")}
    \cup (IF d.files = {} THEN Status("no_files")
          ELSE (UNION {MaterializedFileRow(f) : f \in d.files})
                 \cup MaterializedFilePreview(d))
    \cup When("materialization" \in d.has /\ "materialization_ready" \notin d.has,
              Status("materialization_blocked"))
    \cup When("materialization" \in d.has /\ "review_contract" \notin d.has,
              Status("materialization_untrusted"))

PromotionGateSection(d)      == SectionHeader("promotion_gate")
GitServiceOperationRow(d)    == When("git_operations" \in d.has, {Shows("git_operation")})
PromotionOperations(d) ==
  When("git_operations" \notin d.has, Status("no_git_operations"))
    \cup GitServiceOperationRow(d)
\* The five reports of the promotion, each missing, blocked, dry or done.
PromotionReports(d) == {Shows("promotion_reports")}
ControlledPromotionSection(d) ==
  {At("controlled-promotion")} \cup PromotionReports(d) \cup PromotionOperations(d)

(***************************************************************************)
(* The layouts.  A layout is a function from the places of the page to     *)
(* what stands in them; "top" is always visible.                           *)
(***************************************************************************)

usesFreshWorkspaceFocus(o) ==
  \/ o.status \in {"route_only", "creation_requested", "initialized", "intake", "clarification"}
  \/ o.phase \in {"workspace", "intake", "clarification"}
  \/ o.target \in {"workspace-creation", "workspace-initialization-path",
                   "idea-intake", "intake-clarification"}

focusShowsWorkspaceCreation(o) ==
  \/ o.status \in {"route_only", "creation_requested"} \/ o.phase = "workspace"
  \/ o.target = "workspace-creation"
focusShowsWorkspaceInitialization(o) ==
  \/ o.status \in {"route_only", "creation_requested", "initialized", "intake"}
  \/ o.phase \in {"workspace", "intake"} \/ o.target = "workspace-initialization-path"
focusShowsIdeaIntake(o) ==
  \/ o.status \in {"initialized", "intake", "clarification"}
  \/ o.phase \in {"intake", "clarification"} \/ o.target = "idea-intake"
focusShowsIntakeClarification(o) ==
  \/ o.status = "clarification" \/ o.phase = "clarification"
  \/ o.target = "intake-clarification"

technicalSummary == {Shows("summary")}

\* What both layouts keep under diagnostics; the authoring layout has some of
\* its sections in panes of their own.
renderDiagnosticSections(d, includeIntakeClarification, includeSpecificationReview, authoring) ==
  technicalSummary
    \cup When(includeSpecificationReview, MaterializationSection(d))
    \cup WorkflowSection(d) \cup WorkspaceSection(d) \cup FrameSection(d)
    \cup ArtifactSection(d) \cup IntakeSection(d)
    \cup When(includeIntakeClarification, IntakeClarificationSection(d))
    \cup OntologySeedSection(d) \cup CandidateGraphSection(d) \cup PreSibSection(d)
    \cup RepairSection(d) \cup RepairSessionSection(d)
    \cup IdeaMaturitySection(d) \cup WorkspaceStateHygieneSection(d)
    \cup When(~authoring, CandidateOverviewSection(d)
                            \cup ProjectLocalOntologyReviewSection(d)
                            \cup ProductRepairReviewSection(d, TRUE))
    \cup PromotionGateSection(d) \cup ApprovalReadinessSection(d)
    \cup CandidateApprovalIntentSection(d, FALSE) \cup ControlledPromotionSection(d)

\* Before there is a candidate: the step at hand, the rest behind a disclosure.
FreshLayout(d) ==
  LET o == d.overview
      initialization == GuidedWorkspaceInitializationPathSection(d)
      top == ProductWorkspaceOverviewSection(d) \cup FreshWorkspaceFocusSection(d)
               \cup When(focusShowsWorkspaceInitialization(o), initialization)
               \cup When(focusShowsWorkspaceCreation(o), WorkspaceCreationSection(d))
               \cup When(focusShowsIdeaIntake(o), IdeaIntakeDraftSection(d))
               \cup When(focusShowsIntakeClarification(o), IntakeClarificationSection(d))
      rest == ManagedOperationsObservabilitySection(d) \cup GuidedFlowSection(d)
               \cup When(~focusShowsWorkspaceInitialization(o), initialization)
               \cup When(~focusShowsWorkspaceCreation(o), WorkspaceCreationSection(d))
               \cup When(~focusShowsIdeaIntake(o), IdeaIntakeDraftSection(d))
               \cup GuidedRepairPathSection(d) \cup GuidedApprovalPathSection(d)
               \cup renderDiagnosticSections(d, ~focusShowsIntakeClarification(o), TRUE, FALSE)
  IN [place \in {"top", "disclosure"} |-> IF place = "top" THEN top ELSE rest]

\* With a candidate: four panes, one visible at a time; the original idea lies
\* in a disclosure of the questions pane.
AuthoringLayout(d) ==
  [place \in {"top", "questions", "original_idea", "update", "specification", "diagnostics"} |->
    CASE place = "top" -> ProductWorkspaceOverviewSection(d)
      [] place = "questions" ->
           ProductRepairReviewSection(d, FALSE) \cup ProjectLocalOntologyReviewSection(d)
             \cup Links({"authoring-update"})
      [] place = "original_idea" -> IdeaIntakeDraftSection(d)
      [] place = "update" ->
           {At("authoring-update")} \cup RepairRerunRequestStatus(d)
             \cup GuidedRepairPathSection(d) \cup ProductRepairRerunExecutionStatus(d)
             \cup Links({"materialization"})
      [] place = "specification" ->
           MaterializationSection(d) \cup CandidateOverviewSection(d)
             \cup GuidedApprovalPathSection(d)
      [] place = "diagnostics" ->
           ManagedOperationsObservabilitySection(d)
             \cup GuidedWorkspaceInitializationPathSection(d)
             \cup WorkspaceCreationSection(d) \cup GuidedFlowSection(d)
             \cup renderDiagnosticSections(d, TRUE, FALSE, TRUE)]

DemoLayout(d) == [place \in {"top"} |-> ProductDemoPresentationSection(d)]

Layout(d) == IF d.demo THEN DemoLayout(d)
             ELSE IF usesFreshWorkspaceFocus(d.overview) THEN FreshLayout(d)
             ELSE AuthoringLayout(d)

\* The pane a fresh authoring workbench opens.
initialView(d) ==
  IF d.overview.phase = "repair" /\ d.repair.stage # "repaired_ready"
  THEN "questions" ELSE "specification"
=============================================================================
