-------------------------- MODULE ViewerPageProofs --------------------------
(***************************************************************************)
(* Proofs about the pages of the viewer.  The workspace page, for any      *)
(* documents, fragments, questions and numbers of clicks:                  *)
(*   PanelNavigation    its links, panes and buttons (PanelSections),      *)
(*   PanelExecutions    the requests it sends,                             *)
(*   AnswerForms        what its forms save.                               *)
(* The graph page, for any documents, panels and numbers of requests:      *)
(*   SpecInspector      the answers that the inspector shows,              *)
(*   AgentConversation  the transcript of the agent panel,                 *)
(*   GraphSelection     what the canvas and the inspector take as selected,*)
(*   UtilityPanels      what the panels of the rail list.                  *)
(***************************************************************************)
EXTENDS PanelNavigation, PanelExecutions, AnswerForms, SpecInspector, AgentConversation,
        GraphSelection, UtilityPanels, FiniteSetTheorems, SequenceTheorems, TLAPS

-----------------------------------------------------------------------------
(* PanelNavigation.                                                        *)
\* A part of the page: its targets are those of ats, its links go to some of
\* tos, and for a reader it has no button that writes.
Holds(S, ats, tos, reader) ==
    /\ \A i : At(i) \in S <=> i \in ats
    /\ \A i : To(i) \in S => i \in tos
    /\ reader => \A e \in S : e.kind # "do"

\* The four kinds of things a component is made of are told apart.
LEMMA Things ==
    /\ \A x, y : At(x) = At(y) <=> x = y
    /\ \A x, y : To(x) = To(y) <=> x = y
    /\ \A x, y : Do(x) = Do(y) <=> x = y
    /\ \A x, y : At(x) # To(y) /\ At(x) # Do(y) /\ At(x) # Shows(y)
    /\ \A x, y : To(x) # Do(y) /\ To(x) # Shows(y) /\ Do(x) # Shows(y)
    /\ \A x : At(x).kind # "do" /\ To(x).kind # "do" /\ Shows(x).kind # "do"
  BY DEF At, To, Do, Shows

\* One lemma for every section: its id, the links it can have and that it
\* offers a reader nothing that writes.
LEMMA Overview ==
    ASSUME NEW d
    PROVE  Holds(ProductWorkspaceOverviewSection(d), {"product-workspace-overview"},
                 d.overview.actions \cup d.overview.phases, TRUE)
  BY Things DEF Holds, ProductWorkspaceOverviewSection, OverviewActions, OverviewPhases, Links

LEMMA Operations ==
    ASSUME NEW d
    PROVE  Holds(ManagedOperationsObservabilitySection(d), {"managed-operations"}, d.ops, TRUE)
  BY Things DEF Holds, ManagedOperationsObservabilitySection, ManagedOperationGroups, Links

LEMMA Creation ==
    ASSUME NEW d
    PROVE  Holds(WorkspaceCreationSection(d), {"workspace-creation"}, {}, TRUE)
  BY Things DEF Holds, WorkspaceCreationSection

LEMMA InitializationPath ==
    ASSUME NEW d
    PROVE  Holds(GuidedWorkspaceInitializationPathSection(d), {"workspace-initialization-path"}, {},
                 d.readOnly)
  BY Things DEF Holds, GuidedWorkspaceInitializationPathSection, Button, When

LEMMA Intake ==
    ASSUME NEW d
    PROVE  Holds(IdeaIntakeDraftSection(d), {"idea-intake", "start-raw-idea"}, {}, d.readOnly)
  BY Things DEF Holds, IdeaIntakeDraftSection, RealIdeaStatus, RawIdeaForm, IntakeHandoff,
     IntakeDraftPreview, canSubmit, canRequestIntakeExecution, canRunManagedIntakeExecution, Button, When

LEMMA Clarification ==
    ASSUME NEW d
    PROVE  Holds(IntakeClarificationSection(d), {"intake-clarification"}, {}, d.readOnly)
<1>1. Holds(ClarificationContinuationGuide(d, continuationRequestReady(d),
                                           canRunManagedContinuationExecution(d)), {}, {}, d.readOnly)
  BY Things DEF Holds, ClarificationContinuationGuide, ContinuationButtons, Button, When,
     continuationRequestReady, canRunManagedContinuationExecution
<1>2. Holds(IntakeAnswerAuthoringStatus(d), {}, {}, TRUE)
  BY Things DEF Holds, IntakeAnswerAuthoringStatus, IntakeAnswerFindingDiagnostics, Status, When
<1>3. Holds(IntakeAnswerContinuationStatus(d, FALSE, continuationRequestReady(d)), {}, {}, TRUE)
  BY Things DEF Holds, IntakeAnswerContinuationStatus, IntakeAnswerFindingDiagnostics, Status, When, Button
<1>4. Holds(IntakeQuestions(d), {}, {}, d.readOnly)
  <2>1. ASSUME NEW q PROVE Holds(IntakeClarificationRequestRow(d, q), {}, {}, d.readOnly)
    BY Things DEF Holds, IntakeClarificationRequestRow, Button, When
  <2> QED BY <2>1 DEF Holds, IntakeQuestions
<1> QED BY <1>1, <1>2, <1>3, <1>4, Things DEF Holds, IntakeClarificationSection,
       IntakeClarificationAnswerStatus, Status

LEMMA GuidedFlow ==
    ASSUME NEW d
    PROVE  Holds(GuidedFlowSection(d), {"guided-flow"}, d.flow, TRUE)
  BY Things DEF Holds, GuidedFlowSection, Links

LEMMA RepairPath ==
    ASSUME NEW d
    PROVE  Holds(GuidedRepairPathSection(d), {"guided-repair-path"},
                 d.repair.target \cup d.repair.checkpoints, d.readOnly)
<1>1. Holds(RepairSteps(d), {}, {}, d.readOnly)
  BY Things DEF Holds, RepairSteps, Button, When
<1> QED BY <1>1, Things DEF Holds, GuidedRepairPathSection, RepairCheckpoints, Links, When

LEMMA ApprovalPath ==
    ASSUME NEW d
    PROVE  Holds(GuidedApprovalPathSection(d), {"guided-approval-path"},
                 d.approval.target \cup d.approval.checkpoints, d.readOnly)
<1>1. Holds(ApprovalSteps(d), {}, {}, d.readOnly)
  BY Things DEF Holds, ApprovalSteps, Button, When
<1> QED BY <1>1, Things DEF Holds, GuidedApprovalPathSection, ApprovalCheckpoints, Links, When

LEMMA CandidateOverview ==
    ASSUME NEW d
    PROVE  Holds(CandidateOverviewSection(d), {"candidate-overview"}, {}, TRUE)
  BY Things DEF Holds, CandidateOverviewSection, CandidateWorkflowTopologyMap, OntologyApplicability,
     Status, When

LEMMA OntologyReview ==
    ASSUME NEW d
    PROVE  Holds(ProjectLocalOntologyReviewSection(d), {"project-local-ontology-review"}, {}, d.readOnly)
<1>1. ASSUME NEW t PROVE Holds(ProjectLocalOntologyTermRow(d, t), {}, {}, d.readOnly)
  BY Things DEF Holds, ProjectLocalOntologyTermRow, Button, When
<1> DEFINE rows == UNION {ProjectLocalOntologyTermRow(d, t) : t \in d.terms}
<1>2. Holds(rows, {}, {}, d.readOnly)
  BY <1>1 DEF Holds
<1> HIDE DEF rows
<1>3. ProjectLocalOntologyReviewSection(d) =
        {At("project-local-ontology-review"), Shows("ontology_review")}
          \cup When("ontology_review" \notin d.has, Status("ontology_review_missing"))
          \cup ProjectLocalOntologyDecisionStatus(d)
          \cup ProjectLocalOntologyImportPreviewStatus(d)
          \cup ProjectLocalOntologyEffectiveReviewStatus(d)
          \cup rows
  BY DEF ProjectLocalOntologyReviewSection, rows
<1> QED BY <1>2, <1>3, Things DEF Holds, ProjectLocalOntologyDecisionStatus,
       ProjectLocalOntologyImportPreviewStatus, ProjectLocalOntologyEffectiveReviewStatus, Status, When

LEMMA RepairSession ==
    ASSUME NEW d
    PROVE  Holds(RepairSessionSection(d), {"repair-session"}, {}, TRUE)
  BY Things DEF Holds, RepairSessionSection, RepairSessionBlockerRow, RepairSessionStageRow,
     AcceptedAnswerRow, Status, When

LEMMA Hygiene ==
    ASSUME NEW d
    PROVE  Holds(WorkspaceStateHygieneSection(d), {"workspace-state-hygiene"}, {}, TRUE)
  BY Things DEF Holds, WorkspaceStateHygieneSection

LEMMA Graph ==
    ASSUME NEW d
    PROVE  /\ Holds(CandidateGraphSection(d), {"candidate-graph"}, {}, TRUE)
           /\ Holds(PreSibSection(d), {"pre-sib"}, {}, TRUE)
  BY Things DEF Holds, CandidateGraphSection, PreSibSection, Status, When

\* The sections every explainer and the maturity report link to.
MaturityTargets == MATURITY_NAV_ITEMS \cup {"candidate-overview", "idea-maturity"}
LEMMA Maturity ==
    ASSUME NEW d
    PROVE  Holds(IdeaMaturitySection(d), {"idea-maturity"}, MaturityTargets, TRUE)
<1>1. \A w : maturityExplainerHref(w) \in MaturityTargets
  BY DEF maturityExplainerHref, MaturityTargets, MATURITY_NAV_ITEMS
<1>2. Holds(ReadinessExplainers(d), {}, MaturityTargets, TRUE)
  BY <1>1, Things DEF Holds, ReadinessExplainers, Links
<1>3. Holds(MaturityLinks, {}, MaturityTargets, TRUE)
  BY Things DEF Holds, MaturityLinks, Links, MaturityTargets
<1> QED BY <1>2, <1>3, Things DEF Holds, IdeaMaturitySection, MaturityMetrics, CandidateStructure,
       StructuralDepthDelta, ReportStatusRow, Status, When

FileIds(d) == {f.id : f \in d.files}
LEMMA RepairReview ==
    ASSUME NEW d, NEW showExecution \in BOOLEAN
    PROVE  Holds(ProductRepairReviewSection(d, showExecution), {"repair-review"},
                 FileIds(d) \cup {"materialization"}
                   \cup {IF showExecution THEN "guided-repair-path" ELSE "authoring-update"}, d.readOnly)
<1> DEFINE tos == FileIds(d) \cup {"materialization"}
           rows == UNION {ClarificationRequestRow(d, q) : q \in d.questions}
           completed == /\ repairSourceSessionIsHistorical(d)
                        /\ \A q \in d.questions : repairQuestionPresentation(d, q)
           way == Links({IF completed THEN "materialization"
                   ELSE IF showExecution THEN "guided-repair-path"
                   ELSE "authoring-update"})
<1>1. ASSUME NEW q PROVE Holds(ClarificationRequestRow(d, q), {}, tos, d.readOnly)
  <2>1. Holds(ClarificationDraftForm(d, q), {}, {}, d.readOnly)
    BY Things DEF Holds, ClarificationDraftForm, OntologyGapDraftFields, ProductSpecGapDraftFields, Button, When
  <2>2. repairSpecificationForRequest(d, q) \subseteq FileIds(d)
    BY DEF repairSpecificationForRequest, FileIds
  <2> QED BY <2>1, <2>2, Things DEF Holds, ClarificationRequestRow, Links
<1>2. Holds(rows, {}, tos, d.readOnly)
  BY <1>1 DEF Holds
<1>3. Holds(RepairRerunRequestStatus(d), {}, {}, d.readOnly)
  BY Things DEF Holds, RepairRerunRequestStatus, Button, When
<1>4. Holds(way, {}, {"materialization", IF showExecution THEN "guided-repair-path" ELSE "authoring-update"}, TRUE)
  BY Things DEF Holds, Links
<1>5. ProductRepairReviewSection(d, showExecution) =
        {At("repair-review"), Shows("repair_review")} \cup way \cup rows
          \cup RepairDraftStatus(d)
          \cup When(showExecution, RepairRerunRequestStatus(d) \cup ProductRepairRerunExecutionStatus(d))
          \cup OntologyDecisionRow(d) \cup ResolvedGapRow(d)
  BY DEF ProductRepairReviewSection
<1> HIDE DEF tos, rows, way
<1> QED BY <1>2, <1>3, <1>4, <1>5, Things DEF Holds, RepairDraftStatus, ProductRepairRerunExecutionStatus,
       OntologyDecisionRow, ResolvedGapRow, Status, When, tos

LEMMA RerunStatus ==
    ASSUME NEW d
    PROVE  /\ Holds(RepairRerunRequestStatus(d), {}, {}, d.readOnly)
           /\ Holds(ProductRepairRerunExecutionStatus(d), {}, {}, TRUE)
  BY Things DEF Holds, RepairRerunRequestStatus, ProductRepairRerunExecutionStatus, Button, When

LEMMA Approval ==
    ASSUME NEW d
    PROVE  /\ Holds(ApprovalReadinessSection(d), {"approval-readiness"}, {}, d.readOnly)
           /\ Holds(CandidateApprovalIntentSection(d, FALSE), {}, {}, TRUE)
           /\ Holds(ControlledPromotionSection(d), {"controlled-promotion"}, {}, TRUE)
  BY Things DEF Holds, ApprovalReadinessSection, CandidateApprovalIntentSection,
     ControlledPromotionSection, PromotionReports, PromotionOperations, GitServiceOperationRow,
     Button, Status, When

LEMMA Materialization ==
    ASSUME NEW d
    PROVE  Holds(MaterializationSection(d), {"materialization"} \cup FileIds(d), {}, TRUE)
<1> DEFINE rows == UNION {MaterializedFileRow(f) : f \in d.files}
<1>1. Holds(rows, FileIds(d), {}, TRUE)
  BY Things DEF Holds, MaterializedFileRow, FileIds
<1>2. d.files = {} => FileIds(d) = {}
  BY DEF FileIds
<1>3. MaterializationSection(d) =
        {At("materialization"), Shows("materialization")}
          \cup (IF d.files = {} THEN Status("no_files") ELSE rows \cup MaterializedFilePreview(d))
          \cup When("materialization" \in d.has /\ "materialization_ready" \notin d.has,
                    Status("materialization_blocked"))
          \cup When("materialization" \in d.has /\ "review_contract" \notin d.has,
                    Status("materialization_untrusted"))
  BY DEF MaterializationSection
<1> HIDE DEF rows
<1> QED BY <1>1, <1>2, <1>3, Things DEF Holds, MaterializedFilePreview, Status, When

LEMMA Headers ==
    ASSUME NEW d
    PROVE  /\ Holds(technicalSummary, {}, {}, TRUE) /\ Holds(WorkflowSection(d), {}, {}, TRUE)
           /\ Holds(WorkspaceSection(d), {}, {}, TRUE) /\ Holds(FrameSection(d), {}, {}, TRUE)
           /\ Holds(ArtifactSection(d), {}, {}, TRUE) /\ Holds(IntakeSection(d), {}, {}, TRUE)
           /\ Holds(OntologySeedSection(d), {}, {}, TRUE) /\ Holds(RepairSection(d), {}, {}, TRUE)
           /\ Holds(PromotionGateSection(d), {}, {}, TRUE)
           /\ Holds(FreshWorkspaceFocusSection(d), {}, {}, TRUE)
  BY Things DEF Holds, technicalSummary, WorkflowSection, WorkspaceSection, FrameSection, ArtifactSection,
     IntakeSection, OntologySeedSection, RepairSection, PromotionGateSection, FreshWorkspaceFocusSection,
     SectionHeader, Status, When

-----------------------------------------------------------------------------
(* The layouts.                                                            *)

\* Every link a section of the document can have.
LinksOf(d) ==
    d.overview.actions \cup d.overview.phases \cup d.ops \cup d.flow \cup d.repair.target
      \cup d.repair.checkpoints \cup d.approval.target \cup d.approval.checkpoints
      \cup FileIds(d) \cup MaturityTargets
      \cup {"materialization", "guided-repair-path"}

DeepIds == {"candidate-graph", "pre-sib", "repair-session", "idea-maturity",
            "workspace-state-hygiene", "approval-readiness", "controlled-promotion"}

LEMMA JoinHolds ==
    ASSUME NEW S, NEW T, NEW A, NEW B, NEW L, NEW r,
           Holds(S, A, L, r), Holds(T, B, L, r)
    PROVE  Holds(S \cup T, A \cup B, L, r)
  BY DEF Holds
LEMMA WeakHolds ==
    ASSUME NEW S, NEW A, NEW L, NEW M, NEW r, NEW q, Holds(S, A, M, q), M \subseteq L, r => q
    PROVE  Holds(S, A, L, r)
  BY DEF Holds

\* The sections both layouts keep under diagnostics.
DeepSections(d) ==
  technicalSummary \cup WorkflowSection(d) \cup WorkspaceSection(d) \cup FrameSection(d)
    \cup ArtifactSection(d) \cup IntakeSection(d)
    \cup OntologySeedSection(d) \cup CandidateGraphSection(d) \cup PreSibSection(d)
    \cup RepairSection(d) \cup RepairSessionSection(d)
    \cup IdeaMaturitySection(d) \cup WorkspaceStateHygieneSection(d)
    \cup PromotionGateSection(d) \cup ApprovalReadinessSection(d)
    \cup CandidateApprovalIntentSection(d, FALSE) \cup ControlledPromotionSection(d)

LEMMA Deep ==
    ASSUME NEW d
    PROVE  Holds(DeepSections(d), DeepIds, LinksOf(d), d.readOnly)
<1>1. Holds(DeepSections(d), DeepIds, MaturityTargets, d.readOnly)
  BY Headers, Graph, RepairSession, Maturity, Hygiene, Approval DEF Holds, DeepIds, DeepSections
<1>2. MaturityTargets \subseteq LinksOf(d)
  BY DEF LinksOf
<1> QED BY <1>1, <1>2 DEF Holds

\* What a component has it keeps when more links are allowed for.
LEMMA Loose ==
    ASSUME NEW d
    PROVE  /\ Holds(IntakeClarificationSection(d), {"intake-clarification"}, LinksOf(d), d.readOnly)
           /\ Holds(MaterializationSection(d), {"materialization"} \cup FileIds(d), LinksOf(d), d.readOnly)
           /\ Holds(CandidateOverviewSection(d), {"candidate-overview"}, LinksOf(d), d.readOnly)
           /\ Holds(ProjectLocalOntologyReviewSection(d), {"project-local-ontology-review"}, LinksOf(d), d.readOnly)
           /\ Holds(ProductWorkspaceOverviewSection(d), {"product-workspace-overview"}, LinksOf(d), d.readOnly)
           /\ Holds(FreshWorkspaceFocusSection(d), {}, LinksOf(d), d.readOnly)
           /\ Holds(GuidedWorkspaceInitializationPathSection(d), {"workspace-initialization-path"}, LinksOf(d), d.readOnly)
           /\ Holds(WorkspaceCreationSection(d), {"workspace-creation"}, LinksOf(d), d.readOnly)
           /\ Holds(IdeaIntakeDraftSection(d), {"idea-intake", "start-raw-idea"}, LinksOf(d), d.readOnly)
           /\ Holds(ManagedOperationsObservabilitySection(d), {"managed-operations"}, LinksOf(d), d.readOnly)
           /\ Holds(GuidedFlowSection(d), {"guided-flow"}, LinksOf(d), d.readOnly)
           /\ Holds(GuidedRepairPathSection(d), {"guided-repair-path"}, LinksOf(d), d.readOnly)
           /\ Holds(GuidedApprovalPathSection(d), {"guided-approval-path"}, LinksOf(d), d.readOnly)
           /\ Holds(RepairRerunRequestStatus(d), {}, LinksOf(d), d.readOnly)
           /\ Holds(ProductRepairRerunExecutionStatus(d), {}, LinksOf(d), d.readOnly)
           /\ Holds(ProductRepairReviewSection(d, TRUE), {"repair-review"}, LinksOf(d), d.readOnly)
           /\ Holds(ProductRepairReviewSection(d, FALSE), {"repair-review"},
                    LinksOf(d) \cup {"authoring-update"}, d.readOnly)
<1>1. /\ d.overview.actions \cup d.overview.phases \subseteq LinksOf(d)
      /\ d.ops \subseteq LinksOf(d) /\ d.flow \subseteq LinksOf(d)
      /\ d.repair.target \cup d.repair.checkpoints \subseteq LinksOf(d)
      /\ d.approval.target \cup d.approval.checkpoints \subseteq LinksOf(d)
      /\ FileIds(d) \cup {"materialization", "guided-repair-path"} \subseteq LinksOf(d)
      /\ {} \subseteq LinksOf(d)
  BY DEF LinksOf
<1>2. FileIds(d) \cup {"materialization"} \cup {IF TRUE THEN "guided-repair-path" ELSE "authoring-update"}
        \subseteq LinksOf(d)
  BY <1>1
<1>3. FileIds(d) \cup {"materialization"} \cup {IF FALSE THEN "guided-repair-path" ELSE "authoring-update"}
        \subseteq LinksOf(d) \cup {"authoring-update"}
  BY <1>1
<1>4. Holds(ProductRepairReviewSection(d, TRUE), {"repair-review"}, LinksOf(d), d.readOnly)
  BY <1>2, RepairReview, WeakHolds
<1>5. Holds(ProductRepairReviewSection(d, FALSE), {"repair-review"},
            LinksOf(d) \cup {"authoring-update"}, d.readOnly)
  BY <1>3, RepairReview, WeakHolds
<1>6. Holds(IntakeClarificationSection(d), {"intake-clarification"}, LinksOf(d), d.readOnly)
  BY <1>1, Clarification DEF Holds
<1>7. Holds(MaterializationSection(d), {"materialization"} \cup FileIds(d), LinksOf(d), d.readOnly)
  BY <1>1, Materialization DEF Holds
<1>8. Holds(CandidateOverviewSection(d), {"candidate-overview"}, LinksOf(d), d.readOnly)
  BY <1>1, CandidateOverview DEF Holds
<1>9. Holds(ProjectLocalOntologyReviewSection(d), {"project-local-ontology-review"}, LinksOf(d), d.readOnly)
  BY <1>1, OntologyReview DEF Holds
<1>10. Holds(ProductWorkspaceOverviewSection(d), {"product-workspace-overview"}, LinksOf(d), d.readOnly)
  BY <1>1, Overview DEF Holds
<1>11. Holds(FreshWorkspaceFocusSection(d), {}, LinksOf(d), d.readOnly)
  BY <1>1, Headers DEF Holds
<1>12. Holds(GuidedWorkspaceInitializationPathSection(d), {"workspace-initialization-path"}, LinksOf(d), d.readOnly)
  BY <1>1, InitializationPath DEF Holds
<1>13. Holds(WorkspaceCreationSection(d), {"workspace-creation"}, LinksOf(d), d.readOnly)
  BY <1>1, Creation DEF Holds
<1>14. Holds(IdeaIntakeDraftSection(d), {"idea-intake", "start-raw-idea"}, LinksOf(d), d.readOnly)
  BY <1>1, Intake DEF Holds
<1>15. Holds(ManagedOperationsObservabilitySection(d), {"managed-operations"}, LinksOf(d), d.readOnly)
  BY <1>1, Operations DEF Holds
<1>16. Holds(GuidedFlowSection(d), {"guided-flow"}, LinksOf(d), d.readOnly)
  BY <1>1, GuidedFlow DEF Holds
<1>17. Holds(GuidedRepairPathSection(d), {"guided-repair-path"}, LinksOf(d), d.readOnly)
  BY <1>1, RepairPath DEF Holds
<1>18. Holds(GuidedApprovalPathSection(d), {"guided-approval-path"}, LinksOf(d), d.readOnly)
  BY <1>1, ApprovalPath DEF Holds
<1>19. Holds(RepairRerunRequestStatus(d), {}, LinksOf(d), d.readOnly)
  BY <1>1, RerunStatus DEF Holds
<1>20. Holds(ProductRepairRerunExecutionStatus(d), {}, LinksOf(d), d.readOnly)
  BY <1>1, RerunStatus DEF Holds
<1> QED BY <1>4, <1>5, <1>6, <1>7, <1>8, <1>9, <1>10, <1>11, <1>12, <1>13, <1>14, <1>15, <1>16, <1>17, <1>18, <1>19, <1>20

LEMMA AuthoringDiagnostics ==
    ASSUME NEW d
    PROVE  Holds(renderDiagnosticSections(d, TRUE, FALSE, TRUE), DeepIds \cup {"intake-clarification"},
                 LinksOf(d), d.readOnly)
<1>1. renderDiagnosticSections(d, TRUE, FALSE, TRUE) = DeepSections(d) \cup IntakeClarificationSection(d)
  BY DEF renderDiagnosticSections, When, DeepSections
<1>2. Holds(IntakeClarificationSection(d), {"intake-clarification"}, LinksOf(d), d.readOnly)
  BY Loose
<1> QED BY <1>1, <1>2, Deep DEF Holds

LEMMA FreshDiagnostics ==
    ASSUME NEW d, NEW inc \in BOOLEAN
    PROVE  Holds(renderDiagnosticSections(d, inc, TRUE, FALSE),
                 DeepIds \cup (IF inc THEN {"intake-clarification"} ELSE {}) \cup {"materialization"} \cup FileIds(d)
                   \cup {"candidate-overview", "project-local-ontology-review", "repair-review"},
                 LinksOf(d), d.readOnly)
<1>1. renderDiagnosticSections(d, inc, TRUE, FALSE) =
        DeepSections(d) \cup When(inc, IntakeClarificationSection(d)) \cup MaterializationSection(d)
          \cup CandidateOverviewSection(d) \cup ProjectLocalOntologyReviewSection(d)
          \cup ProductRepairReviewSection(d, TRUE)
  BY DEF renderDiagnosticSections, When, DeepSections
<1>2. Holds(When(inc, IntakeClarificationSection(d)),
            IF inc THEN {"intake-clarification"} ELSE {}, LinksOf(d), d.readOnly)
  BY Loose DEF Holds, When
<1>3. Holds(MaterializationSection(d), {"materialization"} \cup FileIds(d), LinksOf(d), d.readOnly)
  BY Loose
<1>4. /\ Holds(CandidateOverviewSection(d), {"candidate-overview"}, LinksOf(d), d.readOnly)
      /\ Holds(ProjectLocalOntologyReviewSection(d), {"project-local-ontology-review"}, LinksOf(d), d.readOnly)
      /\ Holds(ProductRepairReviewSection(d, TRUE), {"repair-review"}, LinksOf(d), d.readOnly)
  BY Loose
<1> DEFINE A == DeepSections(d) \cup When(inc, IntakeClarificationSection(d))
           B == MaterializationSection(d) \cup CandidateOverviewSection(d)
           C == ProjectLocalOntologyReviewSection(d) \cup ProductRepairReviewSection(d, TRUE)
<1>5. Holds(A, DeepIds \cup (IF inc THEN {"intake-clarification"} ELSE {}), LinksOf(d), d.readOnly)
  BY Deep, <1>2 DEF Holds
<1>6. Holds(B, {"materialization"} \cup FileIds(d) \cup {"candidate-overview"}, LinksOf(d), d.readOnly)
  BY <1>3, <1>4 DEF Holds
<1>7. Holds(C, {"project-local-ontology-review", "repair-review"}, LinksOf(d), d.readOnly)
  BY <1>4 DEF Holds
<1>8. renderDiagnosticSections(d, inc, TRUE, FALSE) = A \cup B \cup C
  BY <1>1
<1> HIDE DEF A, B, C
<1> QED BY <1>5, <1>6, <1>7, <1>8 DEF Holds

\* The place of the authoring layout an id belongs to, and of the fresh one;
\* ids of files lie with the materialization.
AuthoringHome(i) ==
  IF i = "product-workspace-overview" THEN "top"
  ELSE IF i \in {"repair-review", "project-local-ontology-review"} THEN "questions"
  ELSE IF i \in {"idea-intake", "start-raw-idea"} THEN "original_idea"
  ELSE IF i \in {"authoring-update", "guided-repair-path"} THEN "update"
  ELSE IF i \in SectionIds \ {"materialization", "candidate-overview", "guided-approval-path"}
       THEN "diagnostics" ELSE "specification"

FreshHome(o, i) ==
  IF \/ i = "product-workspace-overview"
     \/ i = "workspace-initialization-path" /\ focusShowsWorkspaceInitialization(o)
     \/ i = "workspace-creation" /\ focusShowsWorkspaceCreation(o)
     \/ i \in {"idea-intake", "start-raw-idea"} /\ focusShowsIdeaIntake(o)
     \/ i = "intake-clarification" /\ focusShowsIntakeClarification(o)
  THEN "top" ELSE "disclosure"

AuthoringPlaces == {"top", "questions", "original_idea", "update", "specification", "diagnostics"}
AuthoringTargets(d) == SectionIds \cup {"authoring-update"} \cup FileIds(d)
FreshTargets(d) == SectionIds \cup FileIds(d)

\* The file ids of a document are not those of sections.
Apart(d) == FileIds(d) \cap (SectionIds \cup {"authoring-update"}) = {}

LEMMA AuthoringPlace ==
    ASSUME NEW d, NEW p \in AuthoringPlaces, Apart(d)
    PROVE  Holds(AuthoringLayout(d)[p], {i \in AuthoringTargets(d) : AuthoringHome(i) = p},
                 LinksOf(d) \cup {"authoring-update"}, d.readOnly)
<1> DEFINE ids == {i \in AuthoringTargets(d) : AuthoringHome(i) = p}
           tos == LinksOf(d) \cup {"authoring-update"}
<1>1. CASE p = "top"
  <2>1. AuthoringLayout(d)[p] = ProductWorkspaceOverviewSection(d)
    BY <1>1 DEF AuthoringLayout
  <2>2. ids = {"product-workspace-overview"}
    BY <1>1 DEF AuthoringTargets, AuthoringHome, SectionIds
  <2>3. Holds(ProductWorkspaceOverviewSection(d), {"product-workspace-overview"}, LinksOf(d), d.readOnly)
    BY Loose
  <2> QED BY <2>1, <2>2, <2>3 DEF Holds
<1>2. CASE p = "questions"
  <2>1. AuthoringLayout(d)[p] = ProductRepairReviewSection(d, FALSE)
          \cup ProjectLocalOntologyReviewSection(d) \cup Links({"authoring-update"})
    BY <1>2 DEF AuthoringLayout
  <2>2. ids = {"repair-review", "project-local-ontology-review"}
    BY <1>2 DEF AuthoringTargets, AuthoringHome, SectionIds
  <2>3. Holds(Links({"authoring-update"}), {}, {"authoring-update"}, TRUE)
    BY Things DEF Holds, Links
  <2>4. /\ Holds(ProductRepairReviewSection(d, FALSE), {"repair-review"},
                 LinksOf(d) \cup {"authoring-update"}, d.readOnly)
        /\ Holds(ProjectLocalOntologyReviewSection(d), {"project-local-ontology-review"},
                 LinksOf(d), d.readOnly)
    BY Loose
  <2> QED BY <2>1, <2>2, <2>3, <2>4 DEF Holds
<1>3. CASE p = "original_idea"
  <2>1. AuthoringLayout(d)[p] = IdeaIntakeDraftSection(d)
    BY <1>3 DEF AuthoringLayout
  <2>2. ids = {"idea-intake", "start-raw-idea"}
    BY <1>3 DEF AuthoringTargets, AuthoringHome, SectionIds
  <2>3. Holds(IdeaIntakeDraftSection(d), {"idea-intake", "start-raw-idea"}, LinksOf(d), d.readOnly)
    BY Loose
  <2> QED BY <2>1, <2>2, <2>3 DEF Holds
<1>4. CASE p = "update"
  <2>1. AuthoringLayout(d)[p] = {At("authoring-update")} \cup RepairRerunRequestStatus(d)
             \cup GuidedRepairPathSection(d) \cup ProductRepairRerunExecutionStatus(d)
             \cup Links({"materialization"})
    BY <1>4 DEF AuthoringLayout
  <2>2. ids = {"authoring-update", "guided-repair-path"}
    BY <1>4 DEF AuthoringTargets, AuthoringHome, SectionIds
  <2>3. /\ Holds({At("authoring-update")}, {"authoring-update"}, {}, TRUE)
        /\ Holds(Links({"materialization"}), {}, LinksOf(d), TRUE)
    BY Things DEF Holds, Links, LinksOf
  <2>4. /\ Holds(RepairRerunRequestStatus(d), {}, LinksOf(d), d.readOnly)
        /\ Holds(ProductRepairRerunExecutionStatus(d), {}, LinksOf(d), d.readOnly)
        /\ Holds(GuidedRepairPathSection(d), {"guided-repair-path"}, LinksOf(d), d.readOnly)
    BY Loose
  <2> QED BY <2>1, <2>2, <2>3, <2>4 DEF Holds
<1>5. CASE p = "specification"
  <2>1. AuthoringLayout(d)[p] = MaterializationSection(d) \cup CandidateOverviewSection(d)
             \cup GuidedApprovalPathSection(d)
    BY <1>5 DEF AuthoringLayout
  <2>2. ids = {"materialization", "candidate-overview", "guided-approval-path"} \cup FileIds(d)
    BY <1>5 DEF AuthoringTargets, AuthoringHome, SectionIds, Apart
  <2>3. /\ Holds(MaterializationSection(d), {"materialization"} \cup FileIds(d), LinksOf(d), d.readOnly)
        /\ Holds(CandidateOverviewSection(d), {"candidate-overview"}, LinksOf(d), d.readOnly)
        /\ Holds(GuidedApprovalPathSection(d), {"guided-approval-path"}, LinksOf(d), d.readOnly)
    BY Loose
  <2> QED BY <2>1, <2>2, <2>3 DEF Holds
<1>6. CASE p = "diagnostics"
  <2>1. AuthoringLayout(d)[p] = ManagedOperationsObservabilitySection(d)
             \cup GuidedWorkspaceInitializationPathSection(d)
             \cup WorkspaceCreationSection(d) \cup GuidedFlowSection(d)
             \cup renderDiagnosticSections(d, TRUE, FALSE, TRUE)
    BY <1>6 DEF AuthoringLayout
  <2>2. ids = {"managed-operations", "workspace-initialization-path", "workspace-creation",
               "guided-flow", "intake-clarification"} \cup DeepIds
    BY <1>6 DEF AuthoringTargets, AuthoringHome, SectionIds, Apart, DeepIds
  <2>3. /\ Holds(ManagedOperationsObservabilitySection(d), {"managed-operations"}, LinksOf(d), d.readOnly)
        /\ Holds(GuidedWorkspaceInitializationPathSection(d), {"workspace-initialization-path"},
                 LinksOf(d), d.readOnly)
        /\ Holds(WorkspaceCreationSection(d), {"workspace-creation"}, LinksOf(d), d.readOnly)
        /\ Holds(GuidedFlowSection(d), {"guided-flow"}, LinksOf(d), d.readOnly)
    BY Loose
  <2> QED BY <2>1, <2>2, <2>3, AuthoringDiagnostics DEF Holds
<1> QED BY <1>1, <1>2, <1>3, <1>4, <1>5, <1>6 DEF AuthoringPlaces

LEMMA FreshPlace ==
    ASSUME NEW d, NEW p \in {"top", "disclosure"}, Apart(d)
    PROVE  Holds(FreshLayout(d)[p], {i \in FreshTargets(d) : FreshHome(d.overview, i) = p},
                 LinksOf(d), d.readOnly)
<1> DEFINE o == d.overview
           ids == {i \in FreshTargets(d) : FreshHome(o, i) = p}
           initialization == GuidedWorkspaceInitializationPathSection(d)
           creation == WorkspaceCreationSection(d)
           intake == IdeaIntakeDraftSection(d)
           clarification == IntakeClarificationSection(d)
<1>0. /\ focusShowsWorkspaceInitialization(o) \in BOOLEAN /\ focusShowsWorkspaceCreation(o) \in BOOLEAN
      /\ focusShowsIdeaIntake(o) \in BOOLEAN /\ focusShowsIntakeClarification(o) \in BOOLEAN
  BY DEF focusShowsWorkspaceInitialization, focusShowsWorkspaceCreation, focusShowsIdeaIntake,
     focusShowsIntakeClarification
<1>1. /\ Holds(initialization, {"workspace-initialization-path"}, LinksOf(d), d.readOnly)
      /\ Holds(creation, {"workspace-creation"}, LinksOf(d), d.readOnly)
      /\ Holds(intake, {"idea-intake", "start-raw-idea"}, LinksOf(d), d.readOnly)
      /\ Holds(clarification, {"intake-clarification"}, LinksOf(d), d.readOnly)
      /\ Holds(ProductWorkspaceOverviewSection(d), {"product-workspace-overview"}, LinksOf(d), d.readOnly)
      /\ Holds(FreshWorkspaceFocusSection(d), {}, LinksOf(d), d.readOnly)
  BY Loose
<1>2. /\ Holds(When(focusShowsWorkspaceInitialization(o), initialization),
               {i \in {"workspace-initialization-path"} : focusShowsWorkspaceInitialization(o)}, LinksOf(d), d.readOnly)
      /\ Holds(When(focusShowsWorkspaceCreation(o), creation),
               {i \in {"workspace-creation"} : focusShowsWorkspaceCreation(o)}, LinksOf(d), d.readOnly)
      /\ Holds(When(focusShowsIdeaIntake(o), intake),
               {i \in {"idea-intake", "start-raw-idea"} : focusShowsIdeaIntake(o)}, LinksOf(d), d.readOnly)
      /\ Holds(When(focusShowsIntakeClarification(o), clarification),
               {i \in {"intake-clarification"} : focusShowsIntakeClarification(o)}, LinksOf(d), d.readOnly)
  BY <1>1 DEF Holds, When
<1>3. /\ Holds(When(~focusShowsWorkspaceInitialization(o), initialization),
               {i \in {"workspace-initialization-path"} : ~focusShowsWorkspaceInitialization(o)}, LinksOf(d), d.readOnly)
      /\ Holds(When(~focusShowsWorkspaceCreation(o), creation),
               {i \in {"workspace-creation"} : ~focusShowsWorkspaceCreation(o)}, LinksOf(d), d.readOnly)
      /\ Holds(When(~focusShowsIdeaIntake(o), intake),
               {i \in {"idea-intake", "start-raw-idea"} : ~focusShowsIdeaIntake(o)}, LinksOf(d), d.readOnly)
  BY <1>1 DEF Holds, When
<1>4. CASE p = "top"
  <2>1. FreshLayout(d)[p] = ProductWorkspaceOverviewSection(d) \cup FreshWorkspaceFocusSection(d)
               \cup When(focusShowsWorkspaceInitialization(o), initialization)
               \cup When(focusShowsWorkspaceCreation(o), creation)
               \cup When(focusShowsIdeaIntake(o), intake)
               \cup When(focusShowsIntakeClarification(o), clarification)
    BY <1>4 DEF FreshLayout
  <2>2. ids = {"product-workspace-overview"}
               \cup {i \in {"workspace-initialization-path"} : focusShowsWorkspaceInitialization(o)}
               \cup {i \in {"workspace-creation"} : focusShowsWorkspaceCreation(o)}
               \cup {i \in {"idea-intake", "start-raw-idea"} : focusShowsIdeaIntake(o)}
               \cup {i \in {"intake-clarification"} : focusShowsIntakeClarification(o)}
    BY <1>4 DEF FreshTargets, FreshHome, SectionIds
  <2> HIDE DEF ids, initialization, creation, intake, clarification
  <2>3. Holds(FreshLayout(d)[p], ids, LinksOf(d), d.readOnly)
    BY <1>1, <1>2, <2>1, <2>2 DEF Holds
  <2> QED BY <2>3 DEF ids
<1>5. CASE p = "disclosure"
  <2> DEFINE deep == renderDiagnosticSections(d, ~focusShowsIntakeClarification(o), TRUE, FALSE)
             deepIds == DeepIds \cup (IF ~focusShowsIntakeClarification(o) THEN {"intake-clarification"} ELSE {})
                          \cup {"materialization"} \cup FileIds(d)
                          \cup {"candidate-overview", "project-local-ontology-review", "repair-review"}
  <2>1. FreshLayout(d)[p] = ManagedOperationsObservabilitySection(d) \cup GuidedFlowSection(d)
               \cup When(~focusShowsWorkspaceInitialization(o), initialization)
               \cup When(~focusShowsWorkspaceCreation(o), creation)
               \cup When(~focusShowsIdeaIntake(o), intake)
               \cup GuidedRepairPathSection(d) \cup GuidedApprovalPathSection(d) \cup deep
    BY <1>5 DEF FreshLayout
  <2>2. ids = {"managed-operations", "guided-flow", "guided-repair-path", "guided-approval-path"}
               \cup {i \in {"workspace-initialization-path"} : ~focusShowsWorkspaceInitialization(o)}
               \cup {i \in {"workspace-creation"} : ~focusShowsWorkspaceCreation(o)}
               \cup {i \in {"idea-intake", "start-raw-idea"} : ~focusShowsIdeaIntake(o)}
               \cup deepIds
    BY <1>5 DEF FreshTargets, FreshHome, SectionIds, Apart, DeepIds
  <2>3. Holds(deep, deepIds, LinksOf(d), d.readOnly)
    BY <1>0, FreshDiagnostics
  <2>4. /\ Holds(ManagedOperationsObservabilitySection(d), {"managed-operations"}, LinksOf(d), d.readOnly)
        /\ Holds(GuidedFlowSection(d), {"guided-flow"}, LinksOf(d), d.readOnly)
        /\ Holds(GuidedRepairPathSection(d), {"guided-repair-path"}, LinksOf(d), d.readOnly)
        /\ Holds(GuidedApprovalPathSection(d), {"guided-approval-path"}, LinksOf(d), d.readOnly)
    BY Loose
  <2> HIDE DEF ids, deep, deepIds, initialization, creation, intake, clarification
  <2>5. Holds(FreshLayout(d)[p], ids, LinksOf(d), d.readOnly)
    BY <1>3, <2>1, <2>2, <2>3, <2>4 DEF Holds
  <2> QED BY <2>5 DEF ids
<1> QED BY <1>4, <1>5

LEMMA DemoPlace ==
    ASSUME NEW d
    PROVE  Holds(ProductDemoPresentationSection(d), {}, {}, TRUE)
  BY Things DEF Holds, ProductDemoPresentationSection, productDemoStory

\* The targets of a document's layout, its places and the place of a target.
PlacesOf(n) == IF Kind[n] = "demo" THEN {"top"}
               ELSE IF Kind[n] = "fresh" THEN {"top", "disclosure"} ELSE AuthoringPlaces
TargetsOf(n) == IF Kind[n] = "demo" THEN {}
                ELSE IF Kind[n] = "fresh" THEN FreshTargets(Docs[n]) ELSE AuthoringTargets(Docs[n])
HomeOf(n, i) == IF Kind[n] = "fresh" THEN FreshHome(Docs[n].overview, i) ELSE AuthoringHome(i)

LEMMA KindOf ==
    ASSUME NEW n \in Names
    PROVE  /\ Kind[n] \in {"demo", "fresh", "authoring"}
           /\ Kind[n] = "demo" => Layouts[n] = DemoLayout(Docs[n])
           /\ Kind[n] = "fresh" => Layouts[n] = FreshLayout(Docs[n])
           /\ Kind[n] = "authoring" => Layouts[n] = AuthoringLayout(Docs[n])
<1>1. Kind[n] = IF Docs[n].demo THEN "demo"
                ELSE IF usesFreshWorkspaceFocus(Docs[n].overview) THEN "fresh" ELSE "authoring"
  BY DEF Kind
<1>2. Layouts[n] = IF Docs[n].demo THEN DemoLayout(Docs[n])
             ELSE IF usesFreshWorkspaceFocus(Docs[n].overview) THEN FreshLayout(Docs[n])
             ELSE AuthoringLayout(Docs[n])
  BY DEF Layouts, Layout
<1> QED BY <1>1, <1>2

\* The links of a document lead to targets of its layout.
LEMMA LinksAreTargets ==
    ASSUME NEW n \in Names
    PROVE  Apart(Docs[n]) /\ LinksOf(Docs[n]) \subseteq SectionIds \cup FileIds(Docs[n])
<1> DEFINE d == Docs[n]
<1>1. /\ d.overview.actions \cup d.overview.phases \cup d.ops \cup d.flow
               \cup d.repair.target \cup d.repair.checkpoints
               \cup d.approval.target \cup d.approval.checkpoints \subseteq SectionIds
      /\ FileIds(d) \cap (SectionIds \cup {"authoring-update"}) = {}
  BY DocsAssumption DEF FileIds
<1>2. MaturityTargets \cup {"materialization", "guided-repair-path"} \subseteq SectionIds
  BY DEF MaturityTargets, MATURITY_NAV_ITEMS, SectionIds
<1> QED BY <1>1, <1>2 DEF LinksOf, Apart

LEMMA LayoutOf ==
    ASSUME NEW n \in Names
    PROVE  /\ DOMAIN Layouts[n] = PlacesOf(n)
           /\ \A p \in PlacesOf(n) :
                Holds(Layouts[n][p], {i \in TargetsOf(n) : HomeOf(n, i) = p}, TargetsOf(n),
                      Docs[n].readOnly)
<1> DEFINE d == Docs[n]
<1>1. CASE Kind[n] = "demo"
  <2>1. Layouts[n] = [place \in {"top"} |-> ProductDemoPresentationSection(d)]
    BY <1>1, KindOf DEF DemoLayout
  <2>2. PlacesOf(n) = {"top"} /\ TargetsOf(n) = {}
    BY <1>1 DEF PlacesOf, TargetsOf
  <2> QED BY <2>1, <2>2, DemoPlace DEF Holds
<1>2. CASE Kind[n] = "fresh"
  <2>1. Layouts[n] = FreshLayout(d)
    BY <1>2, KindOf
  <2>2. DOMAIN FreshLayout(d) = {"top", "disclosure"}
    BY DEF FreshLayout
  <2>3. PlacesOf(n) = {"top", "disclosure"} /\ TargetsOf(n) = FreshTargets(d)
        /\ \A i : HomeOf(n, i) = FreshHome(d.overview, i)
    BY <1>2 DEF PlacesOf, TargetsOf, HomeOf
  <2>4. LinksOf(d) \subseteq TargetsOf(n)
    BY <2>3, LinksAreTargets DEF FreshTargets
  <2>5. ASSUME NEW p \in PlacesOf(n)
        PROVE  Holds(Layouts[n][p], {i \in TargetsOf(n) : HomeOf(n, i) = p}, TargetsOf(n), d.readOnly)
    <3>1. Holds(FreshLayout(d)[p], {i \in FreshTargets(d) : FreshHome(d.overview, i) = p},
                 LinksOf(d), d.readOnly)
      BY <2>3, LinksAreTargets, FreshPlace
    <3>2. {i \in FreshTargets(d) : FreshHome(d.overview, i) = p} = {i \in TargetsOf(n) : HomeOf(n, i) = p}
      BY <2>3
    <3> QED BY <3>1, <3>2, <2>1, <2>4 DEF Holds
  <2> QED BY <2>1, <2>2, <2>3, <2>5
<1>3. CASE Kind[n] = "authoring"
  <2>1. Layouts[n] = AuthoringLayout(d)
    BY <1>3, KindOf
  <2>2. DOMAIN AuthoringLayout(d) = AuthoringPlaces
    BY DEF AuthoringLayout, AuthoringPlaces
  <2>3. PlacesOf(n) = AuthoringPlaces /\ TargetsOf(n) = AuthoringTargets(d)
        /\ \A i : HomeOf(n, i) = AuthoringHome(i)
    BY <1>3 DEF PlacesOf, TargetsOf, HomeOf
  <2>4. LinksOf(d) \cup {"authoring-update"} \subseteq TargetsOf(n)
    BY <2>3, LinksAreTargets DEF AuthoringTargets
  <2>5. ASSUME NEW p \in PlacesOf(n)
        PROVE  Holds(Layouts[n][p], {i \in TargetsOf(n) : HomeOf(n, i) = p}, TargetsOf(n), d.readOnly)
    <3>1. Holds(AuthoringLayout(d)[p], {i \in AuthoringTargets(d) : AuthoringHome(i) = p},
                 LinksOf(d) \cup {"authoring-update"}, d.readOnly)
      BY <2>3, LinksAreTargets, AuthoringPlace
    <3>2. {i \in AuthoringTargets(d) : AuthoringHome(i) = p} = {i \in TargetsOf(n) : HomeOf(n, i) = p}
      BY <2>3
    <3> QED BY <3>1, <3>2, <2>1, <2>4 DEF Holds
  <2> QED BY <2>1, <2>2, <2>3, <2>5
<1> QED BY <1>1, <1>2, <1>3, KindOf

LEMMA HomeIsAPlace ==
    ASSUME NEW n \in Names, NEW i \in TargetsOf(n)
    PROVE  HomeOf(n, i) \in PlacesOf(n)
<1>1. Kind[n] # "demo"
  BY DEF TargetsOf
<1>2. AuthoringHome(i) \in AuthoringPlaces
  BY DEF AuthoringHome, AuthoringPlaces
<1>3. FreshHome(Docs[n].overview, i) \in {"top", "disclosure"}
  BY DEF FreshHome
<1> QED BY <1>1, <1>2, <1>3, KindOf DEF HomeOf, PlacesOf

LEMMA WhereIs ==
    ASSUME NEW n \in Names, NEW i \in Ids \cup Hashes
    PROVE  Where[n][i] = IF i \in TargetsOf(n) THEN {HomeOf(n, i)} ELSE {}
<1>1. Where[n][i] = {p \in DOMAIN Layouts[n] : At(i) \in Layouts[n][p]}
  BY DEF Where
<1>2. \A p \in PlacesOf(n) : At(i) \in Layouts[n][p] <=> i \in TargetsOf(n) /\ HomeOf(n, i) = p
  BY LayoutOf DEF Holds
<1>3. Where[n][i] = {p \in PlacesOf(n) : i \in TargetsOf(n) /\ HomeOf(n, i) = p}
  BY <1>1, <1>2, LayoutOf
<1> QED BY <1>3, HomeIsAPlace

LEMMA LinksLead ==
    ASSUME NEW n \in Names, NEW p \in DOMAIN Layouts[n], NEW i \in LinksIn[n][p]
    PROVE  i \in Ids /\ Cardinality(Where[n][i]) = 1
<1>1. i \in Ids /\ To(i) \in Layouts[n][p]
  BY DEF LinksIn
<1>2. i \in TargetsOf(n)
  BY <1>1, LayoutOf DEF Holds
<1>3. Where[n][i] = {HomeOf(n, i)}
  BY <1>1, <1>2, WhereIs
<1> QED BY <1>1, <1>3, FS_Singleton

LEMMA Quiet ==
    ASSUME NEW n \in Names, Docs[n].readOnly
    PROVE  \A e \in Elements(n) : e.kind # "do"
<1>1. \A p \in DOMAIN Layouts[n] : \A e \in Layouts[n][p] : e.kind # "do"
  BY LayoutOf DEF Holds
<1> QED BY <1>1 DEF Elements

-----------------------------------------------------------------------------

\* With this state of the disclosures, and this pane selected, what stands in
\* the place is on the screen.
Uncovered(n, place, diagnostics, idea, pane) ==
  \/ place = "top"
  \/ Kind[n] = "fresh" /\ diagnostics
  \/ /\ Kind[n] = "authoring" /\ pane = PaneOf(place)
     /\ place = "original_idea" => idea
NavInv ==
  /\ NavTypeOK
  /\ load = "ok" /\ wanted # "none" =>
       wanted \in TargetsOf(doc) /\ Uncovered(doc, HomeOf(doc, wanted), diagnosticsOpen, ideaOpen, selection)

LEMMA RevealOpens ==
    ASSUME NEW n \in Names, NEW i \in Ids \cup Hashes, i # "none", Kind[n] = "authoring",
           NEW old \in Views \cup {"none"}, NEW was \in BOOLEAN, Reveal(n, i, old, was)
    PROVE  /\ selection' \in Views \cup {"none"} /\ ideaOpen' \in BOOLEAN
           /\ i \in TargetsOf(n) => Uncovered(n, HomeOf(n, i), diagnosticsOpen', ideaOpen', selection')
<1> DEFINE inside == Where[n][i] \ {"top"}
<1>1. \/ inside = {} /\ selection' = old /\ ideaOpen' = was
      \/ \E place \in inside : /\ selection' = PaneOf(place)
                               /\ ideaOpen' = (was \/ place = "original_idea")
  BY DEF Reveal
<1>2. Where[n][i] = IF i \in TargetsOf(n) THEN {HomeOf(n, i)} ELSE {}
  BY WhereIs
<1>3. i \in TargetsOf(n) => HomeOf(n, i) \in AuthoringPlaces
  BY HomeIsAPlace DEF PlacesOf
<1>4. CASE inside = {} /\ selection' = old /\ ideaOpen' = was
  BY <1>4, <1>2 DEF Uncovered
<1>5. CASE \E place \in inside : /\ selection' = PaneOf(place)
                                /\ ideaOpen' = (was \/ place = "original_idea")
  <2>1. i \in TargetsOf(n) /\ HomeOf(n, i) # "top" /\ selection' = PaneOf(HomeOf(n, i))
        /\ ideaOpen' = (was \/ HomeOf(n, i) = "original_idea")
    BY <1>5, <1>2
  <2> DEFINE h == HomeOf(n, i)
  <2>2. h \in AuthoringPlaces \ {"top"}
    BY <2>1, <1>3
  <2> HIDE DEF h
  <2>3. PaneOf(h) \in Views
    BY <2>2 DEF PaneOf, AuthoringPlaces, Views
  <2>4. Uncovered(n, h, diagnosticsOpen', ideaOpen', selection')
    BY <2>1 DEF Uncovered, h
  <2> QED BY <2>1, <2>3, <2>4 DEF h
<1> QED BY <1>1, <1>4, <1>5

LEMMA DiagnosticsOpen ==
    ASSUME NEW n \in Names, NEW i \in Ids \cup Hashes, i # "none", Kind[n] = "fresh",
           i \in TargetsOf(n), OpenDiagnosticsForHash(n, i)
    PROVE  Uncovered(n, HomeOf(n, i), diagnosticsOpen', ideaOpen', selection')
<1>1. Where[n][i] = {HomeOf(n, i)}
  BY WhereIs
<1>2. HomeOf(n, i) \in {"top", "disclosure"}
  BY HomeIsAPlace DEF PlacesOf
<1>3. diagnosticsOpen' = (diagnosticsOpen \/ HomeOf(n, i) = "disclosure")
  BY <1>1 DEF OpenDiagnosticsForHash
<1> QED BY <1>2, <1>3 DEF Uncovered

\* What both listeners leave, whatever the layout.
LEMMA Looked ==
    ASSUME NavTypeOK, NEW n \in Names, NEW id \in Ids \cup Hashes \cup {"none"},
           NEW old \in Views \cup {"none"}, NEW was \in BOOLEAN
    PROVE  /\ Reveal(n, id, old, was) => selection' \in Views \cup {"none"} /\ ideaOpen' \in BOOLEAN
           /\ OpenDiagnosticsForHash(n, id) => diagnosticsOpen' \in BOOLEAN
<1>1. CASE Kind[n] = "authoring" /\ id # "none"
  BY <1>1, RevealOpens DEF OpenDiagnosticsForHash, NavTypeOK
<1>2. CASE ~(Kind[n] = "authoring" /\ id # "none")
  <2>1. Reveal(n, id, old, was) => selection' = old /\ ideaOpen' = was
    BY <1>2 DEF Reveal
  <2> QED BY <2>1 DEF OpenDiagnosticsForHash, NavTypeOK
<1> QED BY <1>1, <1>2

LEMMA GoStep ==
    ASSUME NavInv, NEW id \in Ids \cup Hashes, Go(id)
    PROVE  NavInv'
<1> USE DEF NavInv
<1>0. /\ load \in {"loading", "ok", "error", "closed"} /\ doc \in Names
      /\ diagnosticsOpen \in BOOLEAN /\ ideaOpen \in BOOLEAN
      /\ selection \in Views \cup {"none"}
  BY DEF NavTypeOK
<1>1. hash' = id /\ wanted' \in {"none", id} /\ load' = load /\ doc' = doc
  BY DEF Go
<1>2. CASE load # "ok"
  BY <1>0, <1>1, <1>2 DEF Go, NavTypeOK
<1>3. CASE load = "ok"
  <2>1. Reveal(doc, id, selection, ideaOpen) /\ OpenDiagnosticsForHash(doc, id)
    BY <1>3 DEF Go
  <2>2. NavTypeOK'
    BY <1>0, <1>1, <2>1, Looked DEF NavTypeOK
  <2>3. ASSUME wanted' # "none" PROVE wanted' \in TargetsOf(doc) /\ Uncovered(doc, HomeOf(doc, wanted'), diagnosticsOpen', ideaOpen', selection')
    <3>1. wanted' = id /\ id # "none" /\ Where[doc][id] # {}
      BY <1>3, <2>3 DEF Go
    <3>2. id \in TargetsOf(doc)
      BY <1>0, <3>1, WhereIs
    <3>3. CASE Kind[doc] = "authoring"
      <4>1. Uncovered(doc, HomeOf(doc, id), diagnosticsOpen', ideaOpen', selection')
        BY <1>0, <2>1, <3>1, <3>2, <3>3, RevealOpens
      <4> QED BY <4>1, <3>1, <3>2, <1>1
    <3>4. CASE Kind[doc] = "fresh"
      <4>1. Uncovered(doc, HomeOf(doc, id), diagnosticsOpen', ideaOpen', selection')
        BY <1>0, <1>1, <2>1, <3>1, <3>2, <3>4, DiagnosticsOpen
      <4> QED BY <4>1, <3>1, <3>2, <1>1
    <3>5. Kind[doc] # "demo"
      BY <3>2 DEF TargetsOf
    <3> QED BY <1>0, <3>3, <3>4, <3>5, KindOf
  <2> QED BY <1>1, <2>2, <2>3
<1> QED BY <1>2, <1>3

LEMMA LoadStep ==
    ASSUME NavInv, NEW n \in Names, Load(n)
    PROVE  NavInv'
<1> USE DEF NavInv
<1> DEFINE mounts == \/ load # "ok" \/ Kind[doc] # "authoring"
                     \/ Docs[n].ws # Docs[doc].ws
           followed == \/ load # "ok" \/ Kind[n] # "fresh"
                       \/ Kind[doc] = "fresh" /\ Where[n][wanted] = Where[doc][wanted]
<1>0. /\ load \in {"loading", "ok", "error", "closed"} /\ doc \in Names
      /\ hash \in Ids \cup Hashes \cup {"none"} /\ wanted \in {"none", hash}
      /\ diagnosticsOpen \in BOOLEAN /\ ideaOpen \in BOOLEAN
      /\ selection \in Views \cup {"none"}
  BY DEF NavTypeOK
<1>1. /\ load' = "ok" /\ doc' = n /\ hash' = hash
      /\ IF Kind[n] = "authoring" /\ mounts THEN Reveal(n, hash, "none", FALSE)
         ELSE UNCHANGED <<selection, ideaOpen>>
      /\ IF load # "ok" THEN OpenDiagnosticsForHash(n, hash)
         ELSE UNCHANGED diagnosticsOpen
      /\ wanted' = IF wanted # "none" /\ Where[n][wanted] # {} /\ followed THEN wanted ELSE "none"
  BY DEF Load
<1>2. NavTypeOK'
  <2>1. selection' \in Views \cup {"none"} /\ ideaOpen' \in BOOLEAN
    <3>1. CASE Kind[n] = "authoring" /\ mounts
      BY <1>0, <1>1, <3>1, Looked
    <3>2. CASE ~(Kind[n] = "authoring" /\ mounts)
      BY <1>0, <1>1, <3>2
    <3> QED BY <3>1, <3>2
  <2>2. diagnosticsOpen' \in BOOLEAN
    BY <1>0, <1>1, Looked
  <2> QED BY <1>0, <1>1, <2>1, <2>2 DEF NavTypeOK
<1>3. ASSUME wanted' # "none" PROVE wanted' \in TargetsOf(n) /\ Uncovered(n, HomeOf(n, wanted'), diagnosticsOpen', ideaOpen', selection')
  <2> DEFINE w == hash
  <2>1. wanted' = w /\ wanted = w /\ w \in Ids \cup Hashes /\ w # "none"
    BY <1>0, <1>1, <1>3
  <2>2. Where[n][w] # {} /\ followed
    BY <1>1, <1>3, <2>1
  <2>3. w \in TargetsOf(n)
    BY <2>1, <2>2, WhereIs
  <2>4. Kind[n] \in {"fresh", "authoring"}
    BY <2>3, KindOf DEF TargetsOf
  <2>5. CASE Kind[n] = "authoring" /\ mounts
    <3>1. Uncovered(n, HomeOf(n, w), diagnosticsOpen', ideaOpen', selection')
      BY <1>1, <2>1, <2>3, <2>5, RevealOpens
    <3> QED BY <3>1, <2>1, <2>3, <1>1
  <2>6. CASE Kind[n] = "authoring" /\ ~mounts
    <3>1. load = "ok" /\ Kind[doc] = "authoring" /\ selection' = selection /\ ideaOpen' = ideaOpen
      BY <1>1, <2>6
    <3>2. Uncovered(doc, HomeOf(doc, w), diagnosticsOpen, ideaOpen, selection)
      BY <2>1, <3>1
    <3>3. HomeOf(n, w) = HomeOf(doc, w)
      BY <2>6, <3>1 DEF HomeOf
    <3>4. Uncovered(n, HomeOf(n, w), diagnosticsOpen', ideaOpen', selection')
      BY <2>6, <3>1, <3>2, <3>3, <1>1 DEF Uncovered
    <3> QED BY <3>4, <2>1, <2>3, <1>1
  <2>7. CASE Kind[n] = "fresh" /\ load # "ok"
    <3>1. Uncovered(n, HomeOf(n, w), diagnosticsOpen', ideaOpen', selection')
      BY <1>1, <2>1, <2>3, <2>7, DiagnosticsOpen
    <3> QED BY <3>1, <2>1, <2>3, <1>1
  <2>8. CASE Kind[n] = "fresh" /\ load = "ok"
    <3>1. Kind[doc] = "fresh" /\ Where[n][w] = Where[doc][w] /\ diagnosticsOpen' = diagnosticsOpen
      BY <1>1, <2>1, <2>2, <2>8
    <3>2. w \in TargetsOf(doc) /\ Uncovered(doc, HomeOf(doc, w), diagnosticsOpen, ideaOpen, selection)
      BY <2>1, <2>8
    <3>3. HomeOf(n, w) = HomeOf(doc, w)
      BY <1>0, <2>1, <2>3, <3>1, <3>2, WhereIs
    <3>4. Uncovered(n, HomeOf(n, w), diagnosticsOpen', ideaOpen', selection')
      BY <2>8, <3>1, <3>2, <3>3, <1>1 DEF Uncovered
    <3> QED BY <3>4, <2>1, <2>3, <1>1
  <2> QED BY <2>4, <2>5, <2>6, <2>7, <2>8
<1> QED BY <1>1, <1>2, <1>3

LEMMA NavStep == NavInv /\ [NavNext]_nav => NavInv'
<1> SUFFICES ASSUME NavInv, [NavNext]_nav PROVE NavInv'
  OBVIOUS
<1> USE DEF NavInv
<1>0. /\ load \in {"loading", "ok", "error", "closed"} /\ doc \in Names
      /\ hash \in Ids \cup Hashes \cup {"none"} /\ wanted \in {"none", hash}
      /\ diagnosticsOpen \in BOOLEAN /\ ideaOpen \in BOOLEAN
      /\ selection \in Views \cup {"none"}
  BY DEF NavTypeOK
<1>1. ASSUME NEW n \in Names, Load(n) PROVE NavInv'
  BY <1>1, LoadStep
<1>2. CASE LoadFails
  BY <1>0, <1>2 DEF LoadFails, NavTypeOK
<1>3. ASSUME NEW id \in Ids \cup Hashes, Go(id) PROVE NavInv'
  BY <1>3, GoStep
<1>4. CASE ClickLink
  <2>1. \E id \in Ids : Go(id)
    BY <1>0, <1>4, LinksLead DEF ClickLink
  <2> QED BY <2>1, <1>3
<1>5. CASE HashChange
  BY <1>5, <1>3 DEF HashChange
<1>6. CASE SelectTab
  BY <1>0, <1>6 DEF SelectTab, NavTypeOK
<1>7. CASE ToggleDiagnostics
  BY <1>0, <1>7 DEF ToggleDiagnostics, NavTypeOK
<1>8. CASE ToggleIdea
  BY <1>0, <1>8 DEF ToggleIdea, NavTypeOK
<1>9. CASE UNCHANGED nav
  BY <1>0, <1>9 DEF nav, NavTypeOK, Uncovered
<1>10. CASE LeavePanel
  BY <1>0, <1>10 DEF LeavePanel, NavTypeOK
<1> QED BY <1>1, <1>2, <1>4, <1>5, <1>6, <1>7, <1>8, <1>9, <1>10 DEF NavNext

LEMMA NavBegins == NavInit => NavInv
<1> SUFFICES ASSUME NavInit PROVE NavInv
  OBVIOUS
<1>1. (CHOOSE n \in Names : TRUE) \in Names
  BY DocsAssumption
<1>2. doc \in Names
  BY <1>1 DEF NavInit
<1>4. hash \in Ids \cup Hashes \cup {"none"}
  BY DEF NavInit
<1>5. NavTypeOK
  BY <1>2, <1>4 DEF NavInit, NavTypeOK
<1>3. load # "ok"
  BY DEF NavInit
<1> QED BY <1>5, <1>3 DEF NavInv

\* The variables of the navigation keep their types, for any documents and any
\* history of links, tabs, loads and failures.
THEOREM NavigationTypeCorrect == NavSpec => []NavTypeOK
<1>1. NavInv => NavTypeOK
  BY DEF NavInv
<1> QED BY <1>1, NavBegins, NavStep, PTL DEF NavSpec

\* Every link of a loaded page has one target in it, and the section asked for
\* last is on the screen, for any documents and orders of loads and clicks.
THEOREM LinkCorrect == NavSpec => []LinkLands
<1>1. NavInv => LinkLands
  <2> SUFFICES ASSUME NavInv, load = "ok" PROVE
        /\ \A p \in DOMAIN Layouts[doc] : \A i \in LinksIn[doc][p] : Cardinality(Where[doc][i]) = 1
        /\ wanted # "none" => \A place \in Where[doc][wanted] : Visible(place)
    BY DEF LinkLands
  <2>1. doc \in Names /\ wanted \in {"none"} \cup Ids \cup Hashes /\ selection \in Views \cup {"none"}
    BY DEF NavInv, NavTypeOK
  <2>2. ASSUME wanted # "none", NEW place \in Where[doc][wanted] PROVE Visible(place)
    <3>1. wanted \in TargetsOf(doc) /\ Uncovered(doc, HomeOf(doc, wanted), diagnosticsOpen, ideaOpen, selection)
      BY <2>2 DEF NavInv
    <3>2. place = HomeOf(doc, wanted)
      <4>1. wanted \in Ids \cup Hashes
        BY <2>1, <2>2
      <4>2. Where[doc][wanted] = {HomeOf(doc, wanted)}
        BY <2>1, <3>1, <4>1, WhereIs
      <4> QED BY <2>2, <4>2
    <3>3. place \in PlacesOf(doc)
      BY <2>1, <3>1, <3>2, HomeIsAPlace
    <3>4. CASE place = "top"
      BY <3>4 DEF Visible
    <3>5. CASE Kind[doc] = "fresh" /\ place # "top"
      <4>1. place = "disclosure" /\ diagnosticsOpen
        BY <3>1, <3>2, <3>3, <3>5 DEF PlacesOf, Uncovered
      <4> QED BY <4>1 DEF Visible
    <3>6. CASE Kind[doc] = "authoring" /\ place # "top"
      <4>1. selection = PaneOf(place) /\ (place = "original_idea" => ideaOpen)
        BY <3>1, <3>2, <3>6 DEF Uncovered
      <4>2. place \in {"original_idea", "questions", "update", "specification", "diagnostics"}
        BY <3>3, <3>6 DEF PlacesOf, AuthoringPlaces
      <4>3. activeView = PaneOf(place)
        BY <4>1, <4>2 DEF activeView, PaneOf
      <4>4. CASE place = "original_idea"
        BY <4>1, <4>3, <4>4 DEF Visible, PaneOf
      <4>5. CASE place \in {"questions", "update", "specification", "diagnostics"}
        BY <4>3, <4>5 DEF Visible, PaneOf
      <4> QED BY <4>2, <4>4, <4>5
    <3> QED BY <2>1, <3>1, <3>4, <3>5, <3>6, KindOf DEF TargetsOf
  <2> QED BY <2>1, <2>2, LinksLead
<1> QED BY <1>1, NavBegins, NavStep, PTL DEF NavSpec

\* No section of any layout offers a reader a button that writes, whatever the
\* document says.
THEOREM ReadOnlyCorrect == NavSpec => []ReadOnlyWritesNothing
<1>1. NavInv => ReadOnlyWritesNothing
  BY Quiet DEF NavInv, NavTypeOK, ReadOnlyWritesNothing
<1> QED BY <1>1, NavBegins, NavStep, PTL DEF NavSpec

-----------------------------------------------------------------------------
(* The requests of the page.                                               *)

Cells == [pending : BOOLEAN, status : Workspaces \cup {"none", "failed"},
          ws : Workspaces \cup {"none"}, ref : Refs]
Requests == [flow : Flows, ws : Workspaces, ref : Refs, mounted : BOOLEAN, n : Nat]

\* Every variable has its type.
ExecTypeInv ==
    /\ opened \in BOOLEAN
    /\ current \in Workspaces \cup {"none"} /\ seen \in Workspaces \cup {"none"}
    /\ planned \in Refs /\ clicks \in Nat
    /\ slot \in [Flows -> Cells] /\ wire \subseteq Requests

\* What is known of an execution was said about the workspace it names, and a
\* request names a plan of its own workspace.
HomeInv ==
    /\ slot["initialize"].status \in {"none", "failed", slot["initialize"].ws}
    /\ \A r \in wire : r.flow = "initialize" => r.ref \in {r.ws, "legacy"}

\* The requests of a flow whose answers it will take.
Open(f) == {r \in wire : r.flow = f /\ r.mounted}
\* There is one while the flow is pending.
FlightInv(f) ==
    \/ Open(f) = {} /\ ~slot[f].pending
    \/ (\E r : Open(f) = {r}) /\ slot[f].pending

Unscoped == PanelFlows \cup SectionFlows
ExecInv == ExecTypeInv /\ HomeInv /\ \A f \in Unscoped : FlightInv(f)

\* The three kinds of flow have no flow in common.
LEMMA FlowKinds ==
    /\ Unscoped \subseteq Flows /\ Scoped \subseteq Flows /\ SectionFlows \subseteq Flows
    /\ Unscoped \cap Scoped = {} /\ PanelFlows \cap SectionFlows = {}
    /\ "initialize" \in Scoped /\ "prepare" \in Scoped
  BY DEF Unscoped, Flows, Scoped, PanelFlows, SectionFlows

LEMMA BlankCell == Blank \in Cells
  BY RefsName DEF Blank, Cells

LEMMA ExecBegins == ExecInit => ExecInv
<1> SUFFICES ASSUME ExecInit PROVE ExecInv
  OBVIOUS
<1>1. ExecTypeInv
  BY BlankCell, RefsName DEF ExecInit, ExecTypeInv
<1>2. \A f \in Flows : slot[f] = Blank
  BY DEF ExecInit
<1>3. HomeInv
  BY <1>2, FlowKinds DEF ExecInit, HomeInv, Blank
<1>4. ASSUME NEW f \in Unscoped PROVE FlightInv(f)
  <2>1. Open(f) = {} /\ ~slot[f].pending
    BY <1>2, FlowKinds DEF ExecInit, Open, Blank
  <2> QED BY <2>1 DEF FlightInv
<1> QED BY <1>1, <1>3, <1>4 DEF ExecInv

\* The document of a workspace is loaded, or the page breaks.
LEMMA ShowKeeps ==
    ASSUME ExecInv, NEW w \in Workspaces \cup {"none"}, NEW ref \in Refs, Show(w, ref)
    PROVE  ExecInv'
<1> USE DEF ExecInv
<1> DEFINE Gone(r) == [r EXCEPT !.mounted = (r.flow \notin SectionFlows) /\ @]
<1>1. /\ current' = w /\ planned' = ref /\ seen' = seen /\ clicks' = clicks
      /\ opened' = opened
  BY DEF Show
<1>2. CASE w = current
  <2>1. slot' = slot /\ wire' = wire
    BY <1>2 DEF Show
  <2>2. \A f : Open(f)' = Open(f)
    BY <2>1 DEF Open
  <2> QED BY <1>1, <2>1, <2>2 DEF ExecTypeInv, HomeInv, FlightInv
<1>3. CASE w # current
  <2>1. /\ slot' = [f \in Flows |-> IF f \in SectionFlows THEN Blank ELSE slot[f]]
        /\ wire' = {Gone(r) : r \in wire}
    BY <1>3 DEF Show
  <2>2. \A r \in wire : /\ Gone(r) \in Requests
                        /\ Gone(r).flow = r.flow /\ Gone(r).ws = r.ws /\ Gone(r).ref = r.ref
                        /\ r.flow \in SectionFlows => ~Gone(r).mounted
                        /\ r.flow \notin SectionFlows => Gone(r) = r
    BY DEF ExecTypeInv, Requests
  <2> HIDE DEF Gone
  <2>3. ExecTypeInv'
    <3>1. slot' \in [Flows -> Cells]
      BY <2>1, BlankCell DEF ExecTypeInv
    <3>2. wire' \subseteq Requests
      BY <2>1, <2>2
    <3> QED BY <1>1, <3>1, <3>2 DEF ExecTypeInv
  <2>4. HomeInv'
    <3>1. slot'["initialize"] = slot["initialize"]
      BY <2>1, FlowKinds DEF Unscoped
    <3>2. "initialize" \notin SectionFlows
      BY DEF SectionFlows
    <3>3. \A r \in wire' : r.flow = "initialize" => r \in wire
      BY <2>1, <2>2, <3>2
    <3> QED BY <3>1, <3>3 DEF HomeInv
  <2>5. ASSUME NEW f \in Unscoped PROVE FlightInv(f)'
    <3>1. CASE f \in SectionFlows
      <4>1. Open(f)' = {}
        BY <2>1, <2>2, <3>1 DEF Open
      <4>2. ~slot'[f].pending
        BY <2>1, <3>1, FlowKinds DEF Blank
      <4> QED BY <4>1, <4>2 DEF FlightInv
    <3>2. CASE f \notin SectionFlows
      <4>1. Open(f)' = Open(f)
        BY <2>1, <2>2, <3>2 DEF Open
      <4>2. slot'[f] = slot[f]
        BY <2>1, <3>2, FlowKinds
      <4> QED BY <4>1, <4>2 DEF FlightInv
    <3> QED BY <3>1, <3>2
  <2> QED BY <2>3, <2>4, <2>5
<1> QED BY <1>2, <1>3

\* The panel is unmounted: no flow is pending, and no request is its own.
LEMMA UnmountKeeps ==
    ASSUME ExecInv, UnmountPanel
    PROVE  ExecInv'
<1> USE DEF ExecInv
<1> DEFINE Gone(r) == [r EXCEPT !.mounted = FALSE]
<1>1. /\ opened' = FALSE /\ seen' = "none"
      /\ current' = current /\ planned' = planned /\ clicks' = clicks
      /\ slot' = [f \in Flows |-> Blank] /\ wire' = {Gone(r) : r \in wire}
  BY DEF UnmountPanel
<1>2. \A r \in wire : /\ Gone(r) \in Requests /\ ~Gone(r).mounted
                      /\ Gone(r).flow = r.flow /\ Gone(r).ws = r.ws /\ Gone(r).ref = r.ref
  BY DEF ExecTypeInv, Requests
<1> HIDE DEF Gone
<1>3. ExecTypeInv'
  <2>1. slot' \in [Flows -> Cells]
    BY <1>1, BlankCell
  <2>2. wire' \subseteq Requests
    BY <1>1, <1>2
  <2> QED BY <1>1, <2>1, <2>2 DEF ExecTypeInv
<1>4. HomeInv'
  <2>1. slot'["initialize"] = Blank
    BY <1>1, FlowKinds
  <2>2. \A r \in wire' : r.flow = "initialize" => r.ref \in {r.ws, "legacy"}
    BY <1>1, <1>2 DEF HomeInv
  <2> QED BY <2>1, <2>2 DEF HomeInv, Blank
<1>5. ASSUME NEW f \in Unscoped PROVE FlightInv(f)'
  <2>1. Open(f)' = {}
    BY <1>1, <1>2 DEF Open
  <2>2. slot'[f] = Blank
    BY <1>1, FlowKinds
  <2> QED BY <2>1, <2>2 DEF FlightInv, Blank
<1> QED BY <1>3, <1>4, <1>5

\* The panel is mounted anew.
LEMMA MountKeeps ==
    ASSUME ExecInv, MountPanel
    PROVE  ExecInv'
<1> USE DEF ExecInv
<1>1. /\ opened' = TRUE /\ seen' = current /\ current' = current /\ planned' = planned
      /\ slot' = slot /\ wire' = wire /\ clicks' = clicks
  BY DEF MountPanel
<1>2. ExecTypeInv' /\ HomeInv'
  BY <1>1 DEF ExecTypeInv, HomeInv
<1>3. \A f \in Unscoped : FlightInv(f)'
  BY <1>1 DEF FlightInv, Open
<1> QED BY <1>2, <1>3

\* The effects of a drawing run.
LEMMA EffectsKeep ==
    ASSUME ExecInv, RunEffects
    PROVE  ExecInv'
<1> USE DEF ExecInv
<1>1. /\ opened' = opened /\ seen' = current /\ current' = current /\ planned' = planned /\ clicks' = clicks
      /\ wire' = wire
      /\ slot' = [f \in Flows |-> IF f \in Scoped /\ Stray(f) THEN Blank ELSE slot[f]]
  BY DEF RunEffects
<1>2. ExecTypeInv'
  <2>1. slot' \in [Flows -> Cells]
    BY <1>1, BlankCell DEF ExecTypeInv
  <2> QED BY <1>1, <2>1 DEF ExecTypeInv
<1>3. HomeInv'
  <2>1. slot'["initialize"] \in {Blank, slot["initialize"]}
    BY <1>1, FlowKinds
  <2> QED BY <1>1, <2>1 DEF HomeInv, Blank
<1>4. ASSUME NEW f \in Unscoped PROVE FlightInv(f)'
  <2>1. slot'[f] = slot[f]
    BY <1>1, FlowKinds
  <2>2. Open(f)' = Open(f)
    BY <1>1 DEF Open
  <2> QED BY <2>1, <2>2 DEF FlightInv
<1> QED BY <1>2, <1>3, <1>4

\* A click sends a request and marks its flow.
LEMMA SendsKeeps ==
    ASSUME ExecInv, NEW f \in Flows, NEW ref \in Refs, NEW cell \in Cells, Sends(f, ref, cell),
           f = "initialize" => /\ ref \in {current, "legacy"} /\ cell.status = "none",
           f \in Unscoped => ~slot[f].pending,
           cell.pending
    PROVE  ExecInv'
<1> USE DEF ExecInv
<1> DEFINE q == [flow |-> f, ws |-> current, ref |-> ref, mounted |-> TRUE, n |-> clicks]
<1>1. /\ current # "none" /\ clicks' = clicks + 1 /\ wire' = wire \cup {q}
      /\ slot' = [slot EXCEPT ![f] = cell]
      /\ current' = current /\ planned' = planned /\ seen' = seen /\ opened' = opened
  BY DEF Sends
<1>2. q \in Requests
  BY <1>1 DEF ExecTypeInv, Requests
<1>3. ExecTypeInv'
  <2>1. slot' \in [Flows -> Cells] /\ wire' \subseteq Requests
    BY <1>1, <1>2 DEF ExecTypeInv
  <2>2. clicks' \in Nat
    BY <1>1 DEF ExecTypeInv
  <2> QED BY <1>1, <2>1, <2>2 DEF ExecTypeInv
<1>4. HomeInv'
  <2>1. slot'["initialize"].status \in {"none", "failed", slot'["initialize"].ws}
    BY <1>1, FlowKinds DEF ExecTypeInv, HomeInv
  <2>2. \A r \in wire' : r.flow = "initialize" => r.ref \in {r.ws, "legacy"}
    BY <1>1 DEF HomeInv
  <2> QED BY <2>1, <2>2 DEF HomeInv
<1>5. ASSUME NEW g \in Unscoped PROVE FlightInv(g)'
  <2>1. CASE g # f
    <3>1. slot'[g] = slot[g]
      BY <1>1, <2>1 DEF ExecTypeInv
    <3>2. Open(g)' = Open(g)
      BY <1>1, <2>1 DEF Open
    <3> QED BY <3>1, <3>2 DEF FlightInv
  <2>2. CASE g = f
    <3>1. Open(f) = {}
      BY <2>2 DEF FlightInv
    <3>2. Open(f)' = {q}
      BY <1>1, <3>1 DEF Open
    <3>3. slot'[f] = cell
      BY <1>1 DEF ExecTypeInv
    <3> QED BY <2>2, <3>2, <3>3 DEF FlightInv
  <2> QED BY <2>1, <2>2
<1> QED BY <1>3, <1>4, <1>5

\* An answer, a refusal or a lost connection.
LEMMA AnswerKeeps ==
    ASSUME ExecInv, NEW r \in wire, NEW ok \in BOOLEAN, Answer(r, ok)
    PROVE  ExecInv'
<1> USE DEF ExecInv
<1> DEFINE taken == /\ r.flow \in Scoped => workspacePreparationResponseIsCurrent(r.ws)
                    /\ r.mounted
           cell == Settled(r, ok)
<1>1. /\ wire' = wire \ {r}
      /\ slot' = IF taken THEN [slot EXCEPT ![r.flow] = cell] ELSE slot
      /\ current' = current /\ planned' = planned /\ seen' = seen /\ clicks' = clicks
      /\ opened' = opened
  BY DEF Answer
<1>2. r \in Requests
  BY DEF ExecTypeInv
<1>3. cell \in Cells /\ ~cell.pending
  BY <1>2, RefsName DEF Settled, Cells, Requests
<1>4. ExecTypeInv'
  BY <1>1, <1>3 DEF ExecTypeInv
<1>5. HomeInv'
  <2>1. r.flow = "initialize" => cell.status \in {"none", "failed", cell.ws}
    BY FlowKinds DEF Settled
  <2>2. \/ slot'["initialize"] = slot["initialize"]
        \/ r.flow = "initialize" /\ slot'["initialize"] = cell
    BY <1>1, FlowKinds DEF ExecTypeInv
  <2> QED BY <1>1, <2>1, <2>2 DEF HomeInv
<1>6. ASSUME NEW f \in Unscoped PROVE FlightInv(f)'
  <2>1. CASE r \in Open(f)
    <3>1. r.flow = f /\ taken
      BY <2>1, FlowKinds DEF Open
    <3>2. slot'[f] = cell
      BY <1>1, <3>1, FlowKinds DEF ExecTypeInv
    <3>3. Open(f) = {r}
      BY <2>1 DEF FlightInv
    <3>4. Open(f)' = {}
      BY <1>1, <3>3 DEF Open
    <3> QED BY <1>3, <3>2, <3>4 DEF FlightInv
  <2>2. CASE r \notin Open(f)
    <3>1. Open(f)' = Open(f)
      BY <1>1, <2>2 DEF Open
    <3>2. slot'[f] = slot[f]
      BY <1>1, <2>2, FlowKinds DEF ExecTypeInv, Open
    <3> QED BY <3>1, <3>2 DEF FlightInv
  <2> QED BY <2>1, <2>2
<1> QED BY <1>4, <1>5, <1>6

\* One of the twelve flows whose buttons are disabled while they are pending.
LEMMA ExecutesKeeps ==
    ASSUME ExecInv, NEW f \in Unscoped, Executes(f)
    PROVE  ExecInv'
<1> DEFINE cell == [Blank EXCEPT !.pending = TRUE]
<1>1. cell \in Cells /\ cell.pending
  BY BlankCell DEF Cells, Blank
<1>2. f \in Flows /\ f # "initialize" /\ "none" \in Refs
  BY FlowKinds, RefsName
<1>3. ~slot[f].pending /\ Sends(f, "none", cell)
  BY DEF Executes
<1> QED BY <1>1, <1>2, <1>3, SendsKeeps

\* The initialization is executed.
LEMMA InitializeKeeps ==
    ASSUME ExecInv, executeWorkspaceInitialization
    PROVE  ExecInv'
<1> DEFINE cell == [Blank EXCEPT !.pending = TRUE, !.ws = current]
<1>1. ExecutionRef # "none" /\ Sends("initialize", ExecutionRef, cell)
  BY DEF executeWorkspaceInitialization
<1>2. ExecutionRef \in {current, "legacy", "none"}
  BY DEF ExecutionRef, scopedInitializationExecutionRequestRef
<1>3. ExecutionRef \in Refs /\ ExecutionRef \in {current, "legacy"}
  BY <1>1, <1>2, RefsName DEF ExecInv, ExecTypeInv
<1>4. cell \in Cells /\ cell.pending /\ cell.status = "none"
  BY BlankCell DEF ExecInv, ExecTypeInv, Cells, Blank
<1>5. "initialize" \in Flows /\ "initialize" \notin Unscoped
  BY FlowKinds
<1> QED BY <1>1, <1>3, <1>4, <1>5, SendsKeeps

\* The initialization is prepared.
LEMMA PrepareKeeps ==
    ASSUME ExecInv, prepareWorkspaceInitialization
    PROVE  ExecInv'
<1> DEFINE kept == IF slot["prepare"].ws = current THEN slot["prepare"].ref ELSE "none"
           cell == [pending |-> TRUE, status |-> "none", ws |-> current, ref |-> kept]
<1>1. Sends("prepare", "none", cell)
  BY DEF prepareWorkspaceInitialization
<1>2. "prepare" \in Flows /\ "prepare" \notin Unscoped /\ "none" \in Refs
  BY FlowKinds, RefsName
<1>3. kept \in Refs
  BY <1>2 DEF ExecInv, ExecTypeInv, Cells
<1>4. cell \in Cells /\ cell.pending
  BY <1>3 DEF ExecInv, ExecTypeInv, Cells
<1> QED BY <1>1, <1>2, <1>4, SendsKeeps

\* Every step keeps the inductive invariant.
LEMMA ExecStep == ExecInv /\ [ExecNext]_execs => ExecInv'
<1> SUFFICES ASSUME ExecInv, [ExecNext]_execs PROVE ExecInv'
  OBVIOUS
<1>1. CASE UNCHANGED execs
  BY <1>1 DEF execs, ExecInv, ExecTypeInv, HomeInv, FlightInv, Open
<1>2. ASSUME NEW w \in Workspaces, NEW ref \in Refs, Show(w, ref) PROVE ExecInv'
  BY <1>2, ShowKeeps
<1>3. CASE Show("none", "none")
  BY <1>3, ShowKeeps, RefsName
<1>4. CASE RunEffects
  BY <1>4, EffectsKeep
<1>5. CASE executeWorkspaceInitialization
  BY <1>5, InitializeKeeps
<1>6. CASE prepareWorkspaceInitialization
  BY <1>6, PrepareKeeps
<1>7. CASE \E f \in Unscoped : Executes(f)
  BY <1>7, ExecutesKeeps
<1>8. ASSUME NEW r \in wire, NEW ok \in BOOLEAN, Answer(r, ok) PROVE ExecInv'
  BY <1>8, AnswerKeeps
<1>9. ASSUME \/ executeCandidateApproval \/ executePromotionRequest \/ executePromotionDryRun
             \/ executePromotionReview \/ authorPromotionReviewConfirmation
             \/ executeReviewStatus \/ executeReadModelPublication
      PROVE  \E f \in Unscoped : Executes(f)
  BY <1>9 DEF executeCandidateApproval, executePromotionRequest, executePromotionDryRun,
              executePromotionReview, authorPromotionReviewConfirmation, executeReviewStatus,
              executeReadModelPublication, Unscoped, PanelFlows
<1>10. ASSUME \/ runManagedIntakeExecution \/ runManagedAnswerContinuationExecution
              \/ runManagedRequestGate \/ runManagedRerun \/ runManagedPublication
       PROVE  \E f \in Unscoped : Executes(f)
  BY <1>10 DEF runManagedIntakeExecution, runManagedAnswerContinuationExecution,
               runManagedRequestGate, runManagedRerun, runManagedPublication,
               Unscoped, SectionFlows
<1>11. CASE UnmountPanel
  BY <1>11, UnmountKeeps
<1>12. CASE MountPanel
  BY <1>12, MountKeeps
<1> QED
  BY <1>1, <1>2, <1>3, <1>4, <1>5, <1>6, <1>7, <1>8, <1>9, <1>10, <1>11, <1>12 DEF ExecNext

\* Every variable has its type, for any workspaces and references.
THEOREM ExecutionTypeCorrect == ExecSpec => []ExecTypeInv
<1>1. ExecInv => ExecTypeInv
  BY DEF ExecInv
<1> QED BY ExecBegins, ExecStep, <1>1, PTL DEF ExecSpec

\* The initialization of one workspace never shows or steers another's, for
\* any workspaces, documents and orders of answers.
THEOREM HomeCorrect == ExecSpec => []AnswersStayHome
<1>1. ExecInv => AnswersStayHome
  BY DEF ExecInv, HomeInv, AnswersStayHome, visibleWorkspaceInitializationExecutionState, Blank
<1> QED BY ExecBegins, ExecStep, <1>1, PTL DEF ExecSpec

\* A flow of the panel or of a section is pending exactly while one request of
\* what is mounted is out, for any number of clicks, workspaces and times the
\* panel is closed and opened.
THEOREM FlightCorrect == ExecSpec => []OneInFlight
<1>1. ASSUME ExecInv PROVE OneInFlight
  <2> SUFFICES ASSUME NEW f \in Unscoped
               PROVE  Cardinality(Open(f)) = IF slot[f].pending THEN 1 ELSE 0
    BY DEF OneInFlight, Open, Unscoped
  <2>1. FlightInv(f)
    BY <1>1 DEF ExecInv
  <2>2. Cardinality({}) = 0 /\ \A r : Cardinality({r}) = 1
    BY FS_EmptySet, FS_Singleton
  <2> QED BY <2>1, <2>2 DEF FlightInv
<1> QED BY ExecBegins, ExecStep, <1>1, PTL DEF ExecSpec

-----------------------------------------------------------------------------
(* The answer forms.                                                       *)

\* What the server keeps fills the form so that it can be saved again, and
\* nothing of it is lost then.
ComesBack(r, d) ==
    LET t == TextOf(r, d.action, d)
        f == FieldsOf(r, d)
    IN  /\ CanSave(r, d.action, t, f)
        /\ d.value \subseteq Kept(r, d.action, Sent(r, d.action, t, f))
GivenAnswer(a, v, t) == [action |-> a, value |-> v, words |-> t]

LEMMA AnsweredFields ==
    ASSUME NEW a, NEW v, NEW t
    PROVE  GivenAnswer(a, v, t).action = a /\ GivenAnswer(a, v, t).value = v /\ GivenAnswer(a, v, t).words = t
  BY DEF GivenAnswer

\* A project-local term.
LEMMA TermTaken ==
    ASSUME NEW r \in Questions, r.form = "term", NEW a \in r.actions, NEW t \in Texts, NEW f,
           CanSave(r, a, t, f)
    PROVE  LET k == Kept(r, a, Sent(r, a, t, f)) IN k # {} /\ ComesBack(r, GivenAnswer(a, k, t))
<1> DEFINE k == Kept(r, a, Sent(r, a, t, f))
           d == GivenAnswer(a, k, t)
<1>0. a \in {"keep_project_local", "bind_existing", "alias", "reject",
             "request_workspace_promotion", "defer"}
  BY QuestionsAssumption
<1>1. k = normalizeTerm(a, projectLocalDecisionValue(a, t))
  BY DEF Kept, Sent
<1>2. projectLocalDecisionValueIsComplete(a, projectLocalDecisionValue(a, t))
  BY DEF CanSave
<1>3. k # {} /\ (t = "blank" => k = {"term"} /\ a = "keep_project_local") /\ (t # "blank" => k = projectLocalDecisionValue(a, t))
  BY <1>0, <1>1, <1>2 DEF normalizeTerm, projectLocalDecisionValue, projectLocalDecisionValueIsComplete, Requires, Keep
<1>4. d.action = a /\ d.value = k /\ d.words = t
  BY AnsweredFields
<1>5. TextOf(r, a, d) = projectLocalDecisionText(d, a)
  BY DEF TextOf
<1>6. projectLocalDecisionText(d, a) = t
  <2>1. CASE t = "blank"
    BY <2>1, <1>3, <1>4 DEF projectLocalDecisionText
  <2>2. CASE t # "blank"
    <3>1. k \cap {"ontology_ref", "alias_of", "reason", "text"} # {}
      BY <2>2, <1>0, <1>3 DEF projectLocalDecisionValue, Keep
    <3> QED BY <3>1, <1>4 DEF projectLocalDecisionText
  <2> QED BY <2>1, <2>2
<1> HIDE DEF d, k
<1>7. CanSave(r, a, t, FieldsOf(r, d)) /\ Sent(r, a, t, FieldsOf(r, d)) = projectLocalDecisionValue(a, t)
  BY <1>2 DEF CanSave, Sent
<1>8. Kept(r, a, Sent(r, a, t, FieldsOf(r, d))) = k
  BY <1>1, <1>7 DEF Kept
<1> QED BY <1>3, <1>4, <1>5, <1>6, <1>7, <1>8 DEF ComesBack, d, k

\* The server drops or refuses a list of entries without a label or with a claim.
LEMMA IntakeRefused ==
    ASSUME NEW r \in Questions, r.form = "intake", NEW a \in r.actions, NEW t \in Texts, NEW f,
           Sent(r, a, t, f) \cap JSONRefused # {}
    PROVE  Kept(r, a, Sent(r, a, t, f)) = {}
<1> DEFINE need == r.required[a]
           v == intakeClarificationValueForTemplate(r, a, t)
<1>1. Sent(r, a, t, f) = v /\ Kept(r, a, v) = normalizeIntake(r, a, v)
  BY DEF Sent, Kept
<1>2. CASE need = {}
  <2>1. v = intakeClarificationValueForRequest(r, a, t)
    BY <1>2 DEF intakeClarificationValueForTemplate, intakeClarificationRequiredFields
  <2>2. a \notin ReasonActions /\ v = {t} /\ t \in JSONRefused
    BY <2>1, <1>1 DEF intakeClarificationValueForRequest, Keep, parseIntakeAnswerEntries, JSONRefused
  <2> HIDE DEF v
  <2> QED BY <2>2, <1>1 DEF normalizeIntake, templateFieldsPresent, Requires, Keep, JSONRefused
<1>3. CASE need # {}
  <2>1. "entries" \in need /\ "entries" \notin v
    BY <1>3, <1>1 DEF intakeClarificationValueForTemplate, intakeClarificationRequiredFields,
       Keep, parseIntakeAnswerEntries, JSONRefused
  <2> HIDE DEF v
  <2> QED BY <2>1, <1>1 DEF normalizeIntake, templateFieldsPresent, Requires, Keep
<1> QED BY <1>2, <1>3

LEMMA IntakeTaken ==
    ASSUME NEW r \in Questions, r.form = "intake", NEW a \in r.actions, NEW t \in Texts, NEW f,
           CanSave(r, a, t, f), Sent(r, a, t, f) \cap JSONRefused = {}
    PROVE  LET k == Kept(r, a, Sent(r, a, t, f)) IN k # {} /\ ComesBack(r, GivenAnswer(a, k, t))
<1> DEFINE need == r.required[a]
           V(u) == intakeClarificationValueForTemplate(r, a, u)
           k == normalizeIntake(r, a, V(t))
           d == GivenAnswer(a, k, t)
           u == intakeAnswerText(d)
<1>0. /\ a \in {"answer_question", "provide_candidate_context"} \cup ReasonActions
      /\ need \subseteq (IF a \in ReasonActions THEN {"reason", "follow_up"}
               ELSE {"refs", "entries", "relations", "terms", "term", "answer", "context"})
      /\ r.kind = "topology" \/ "relations" \in need => need \cap {"refs", "entries"} = {}
  BY QuestionsAssumption
<1>1. IntakeCanSave(r, a, t)
  BY DEF CanSave
<1>2. Sent(r, a, t, f) = V(t) /\ Kept(r, a, V(t)) = k /\ V(t) \cap JSONRefused = {}
  BY DEF Sent, Kept
<1>3. d.action = a /\ d.value = k /\ d.words = t
  BY AnsweredFields
<1>4. TextOf(r, a, d) = u
  BY DEF TextOf
<1>5. u = IF "refs" \in k
          THEN IF t \in {"labelled", "hollow"} \cup JSONRefused THEN t ELSE "plain"
          ELSE IF "entries" \in k THEN "labelled"
          ELSE IF "relations" \in k THEN "relations" ELSE t
  BY <1>3 DEF intakeAnswerText, workflowRelationHintText
<1> HIDE DEF d
<1>6. k # {} /\ IntakeCanSave(r, a, u) /\ V(u) = V(t)
  <2>1. CASE need = {}
    <3>1. V(t) = intakeClarificationValueForRequest(r, a, t) /\ V(u) = intakeClarificationValueForRequest(r, a, u)
      BY <2>1 DEF intakeClarificationValueForTemplate, intakeClarificationRequiredFields
    <3>2. V(t) # {} /\ (r.kind = "topology" => t = "relations")
      BY <1>1, <2>1 DEF IntakeCanSave, intakeClarificationRequiredFields, intakeClarificationTemplateValueIsComplete,
         intakeClarificationUsesWorkflowRelations, workflowRelationHintDraftCanSave
    <3> HIDE DEF V, u
    <3>3. CASE a \in ReasonActions
      <4>1. V(t) = {"reason"} /\ t # "blank"
        BY <3>1, <3>2, <3>3 DEF intakeClarificationValueForRequest, Keep
      <4>2. k = {"reason"}
        BY <4>1, <3>3, <2>1 DEF normalizeIntake, templateFieldsPresent, Requires, Keep
      <4>3. u = t
        BY <4>2, <1>5
      <4> QED BY <4>2, <4>3, <1>1
    <3>4. CASE a \notin ReasonActions
      <4>1. \/ V(t) = {"relations"} /\ r.kind = "topology"
            \/ V(t) = {"entries"} /\ r.kind = "entries"
            \/ V(t) = {"refs"} /\ r.kind = "refs"
            \/ V(t) = {"text"} /\ r.kind \notin {"topology", "entries", "refs"}
        BY <3>1, <3>2, <3>4, <1>2 DEF intakeClarificationValueForRequest, Keep,
           parseIntakeAnswerEntries, JSONRefused
      <4>2. k = V(t)
        BY <4>1, <3>4, <2>1 DEF normalizeIntake, templateFieldsPresent, Requires, Keep
      <4>3. V(u) = V(t)
        BY <4>1, <4>2, <1>5, <3>1, <3>2, <3>4 DEF intakeClarificationValueForRequest, Keep,
           workflowRelationHintLines, parseIntakeAnswerEntries, splitIntakeAnswerList, JSONRefused
      <4>4. r.kind = "topology" => u = "relations"
        BY <4>1, <4>2, <1>5
      <4> QED BY <4>2, <4>3, <4>4, <3>2, <2>1 DEF V, IntakeCanSave, intakeClarificationRequiredFields, intakeClarificationTemplateValueIsComplete,
         intakeClarificationUsesWorkflowRelations, workflowRelationHintDraftCanSave, eventStormingDepthLines
    <3> QED BY <3>3, <3>4
  <2>2. CASE need # {}
    <3>1. need \subseteq V(t) /\ (r.kind = "topology" \/ "relations" \in need => t = "relations")
      BY <1>1, <1>2, <2>2 DEF IntakeCanSave, intakeClarificationRequiredFields, intakeClarificationTemplateValueIsComplete,
         intakeClarificationUsesWorkflowRelations, workflowRelationHintDraftCanSave, templateFieldValueIsPresent,
         intakeClarificationValueForTemplate, Keep, parseIntakeAnswerEntries, JSONRefused
    <3>2. V(t) \subseteq need \cup JSONRefused
      BY <2>2 DEF intakeClarificationValueForTemplate, intakeClarificationRequiredFields, Keep,
         parseIntakeAnswerEntries
    <3>3. V(t) = need
      BY <3>1, <3>2, <1>2
    <3>4. t # "blank"
      BY <3>3, <2>2, <1>0 DEF intakeClarificationValueForTemplate, intakeClarificationRequiredFields, Keep,
           workflowRelationHintLines, parseIntakeAnswerEntries, splitIntakeAnswerList
    <3>5. /\ need \cap {"refs", "entries", "relations"} \subseteq k
          /\ k \cap {"refs", "entries", "relations"} \subseteq need
          /\ k # {}
      BY <3>3, <2>2, <1>0 DEF normalizeIntake, templateFieldsPresent, Requires, Keep, ReasonActions
    <3> HIDE DEF u
    <3>6. V(u) = need
      <4>1. CASE need \cap {"refs", "entries"} # {}
        <5>1. u \in {"plain", "labelled", t} /\ "relations" \notin need /\ a \notin ReasonActions
          BY <4>1, <1>0, <1>5, <3>5 DEF ReasonActions
        <5>2. CASE u = t
          BY <5>2, <3>3
        <5>3. CASE u # t
          BY <5>1, <5>3, <2>2, <1>0 DEF intakeClarificationValueForTemplate, intakeClarificationRequiredFields, Keep,
              workflowRelationHintLines, parseIntakeAnswerEntries, splitIntakeAnswerList, JSONRefused
        <5> QED BY <5>2, <5>3
      <4>2. CASE need \cap {"refs", "entries"} = {} /\ "relations" \in need
        <5>1. u = "relations"
          BY <4>2, <1>5, <3>5
        <5>2. need \subseteq {"relations", "terms", "term", "answer", "context"}
          BY <4>2, <1>0
        <5> QED BY <5>1, <5>2, <2>2 DEF intakeClarificationValueForTemplate, intakeClarificationRequiredFields, Keep,
              workflowRelationHintLines, splitIntakeAnswerList
      <4>3. CASE need \cap {"refs", "entries", "relations"} = {}
        <5>1. u = t
          BY <4>3, <1>5, <3>5
        <5> QED BY <5>1, <3>3
      <4> QED BY <4>1, <4>2, <4>3
    <3>7. r.kind = "topology" \/ "relations" \in need => u = "relations"
      <4>1. r.kind = "topology" \/ "relations" \in need => t = "relations" /\ k \cap {"refs", "entries"} = {}
        BY <1>0, <3>1, <3>5
      <4> QED BY <4>1, <1>5
    <3>8. IntakeCanSave(r, a, u)
      BY <3>6, <3>7, <2>2 DEF IntakeCanSave, intakeClarificationRequiredFields, intakeClarificationTemplateValueIsComplete,
         intakeClarificationUsesWorkflowRelations, workflowRelationHintDraftCanSave, templateFieldValueIsPresent,
         eventStormingDepthLines
    <3> QED BY <3>3, <3>5, <3>6, <3>8
  <2> QED BY <2>1, <2>2
<1>7. Kept(r, a, Sent(r, a, u, FieldsOf(r, d))) = k /\ CanSave(r, a, u, FieldsOf(r, d))
  BY <1>2, <1>6 DEF Kept, Sent, CanSave
<1> QED BY <1>2, <1>3, <1>4, <1>6, <1>7 DEF ComesBack, d

LEMMA RepairTaken ==
    ASSUME NEW r \in Questions, r.form = "repair", NEW a \in r.actions, NEW t \in Texts, NEW f,
           CanSave(r, a, t, f)
    PROVE  LET k == Kept(r, a, Sent(r, a, t, f)) IN k # {} /\ ComesBack(r, GivenAnswer(a, k, t))
<1> DEFINE v == RepairValue(r, a, t, f)
           k == normalizeRepair(a, v)
           d == GivenAnswer(a, k, t)
           u == repairDraftText(d)
           g == FieldsOf(r, d)
<1>0. r.kind # "ontology_gap" => a \notin {"bind_existing_term", "alias", "propose_project_local_term"}
  BY QuestionsAssumption
<1>1. RepairCanSave(r, a, t, f)
  BY DEF CanSave
<1>2. Sent(r, a, t, f) = v /\ Kept(r, a, v) = k
  BY DEF Sent, Kept
<1>3. d.action = a /\ d.value = k /\ d.words = t
  BY AnsweredFields
<1>4. TextOf(r, a, d) = u
  BY DEF TextOf
<1>5. u = IF k \cap {"ontology_ref", "alias_of", "reason", "terms"} # {} THEN t
          ELSE IF "relations" \in k THEN "relations"
          ELSE IF k \cap {"entries", "text"} # {} THEN t ELSE "blank"
  BY <1>3 DEF repairDraftText, workflowRelationHintText
<1>6. g = IF r.kind = "ontology_gap" THEN ontologyDraftFields(d) ELSE productSpecDraftFields(d)
  BY DEF FieldsOf
<1> HIDE DEF d, u, g
<1>7. k # {} /\ RepairCanSave(r, a, u, g) /\ k \subseteq normalizeRepair(a, RepairValue(r, a, u, g))
  <2>1. CASE Shape(r, a) = "ontology"
    <3>1. r.kind = "ontology_gap" /\ a \in STRUCTURED_ONTOLOGY_GAP_ACTIONS
      BY <2>1 DEF Shape
    <3>2. \A x, y : RepairCanSave(r, a, x, y) <=> ontologyGapDraftCanSave(a, y)
      BY <2>1 DEF RepairCanSave
    <3>3. \A x, y : RepairValue(r, a, x, y) = answerValueForOntologyGapAction(a, y)
      BY <2>1 DEF RepairValue
    <3>4. g = Keep(k \cap {"term", "terms"} # {}, {"term"}) \cup (k \cap {"ontology_ref", "alias_of", "reason"})
      BY <3>1, <1>3, <1>6 DEF ontologyDraftFields
    <3>5. ontologyGapDraftCanSave(a, f)
      BY <1>1, <3>2
    <3>6. v = answerValueForOntologyGapAction(a, f)
      BY <3>3
    <3> HIDE DEF v
    <3>7. k # {} /\ ontologyGapDraftCanSave(a, g) /\ k \subseteq normalizeRepair(a, answerValueForOntologyGapAction(a, g))
      <4>1. CASE a = "bind_existing_term"
        BY <3>4, <3>5, <3>6, <4>1 DEF ontologyGapDraftCanSave, answerValueForOntologyGapAction,
           normalizeRepair, Requires, Keep
      <4>2. CASE a = "alias"
        BY <3>4, <3>5, <3>6, <4>2 DEF ontologyGapDraftCanSave, answerValueForOntologyGapAction,
           normalizeRepair, Requires, Keep
      <4>3. CASE a = "propose_project_local_term"
        BY <3>4, <3>5, <3>6, <4>3 DEF ontologyGapDraftCanSave, answerValueForOntologyGapAction,
           normalizeRepair, Requires, Keep
      <4>4. CASE a = "reject"
        BY <3>4, <3>5, <3>6, <4>4 DEF ontologyGapDraftCanSave, answerValueForOntologyGapAction,
           normalizeRepair, Requires, Keep
      <4>5. CASE a = "defer"
        BY <3>4, <3>5, <3>6, <4>5 DEF ontologyGapDraftCanSave, answerValueForOntologyGapAction,
           normalizeRepair, Requires, Keep
      <4> QED BY <3>1, <4>5, <4>1, <4>2, <4>3, <4>4 DEF STRUCTURED_ONTOLOGY_GAP_ACTIONS
    <3> QED BY <3>2, <3>3, <3>7
  <2>2. CASE Shape(r, a) = "hints"
    <3>1. r.kind \in {"hint", "topology"} /\ a = "answer_question"
      BY <2>2 DEF Shape, isEventStormingDepthRequest
    <3>2. \A x, y : RepairCanSave(r, a, x, y) <=> eventStormingDepthDraftCanSave(r, x)
      BY <2>2 DEF RepairCanSave
    <3>3. \A x, y : RepairValue(r, a, x, y) = answerValueForEventStormingDepthRequest(r, x)
      BY <2>2 DEF RepairValue
    <3>4. eventStormingDepthDraftCanSave(r, t)
      BY <1>1, <3>2
    <3>5. v = IF r.kind = "topology" THEN {"relations"} ELSE {"entries"}
      BY <3>1, <3>3, <3>4 DEF eventStormingDepthDraftCanSave, answerValueForEventStormingDepthRequest,
         isWorkflowRelationDepthRequest, workflowRelationHintDraftCanSave, workflowRelationHintLines,
         eventStormingDepthLines, Keep
    <3>6. k = v
      BY <3>1, <3>5 DEF normalizeRepair, Requires
    <3>7. u = t
      BY <1>5, <3>4, <3>5, <3>6 DEF eventStormingDepthDraftCanSave, isWorkflowRelationDepthRequest, workflowRelationHintDraftCanSave
    <3> QED BY <3>2, <3>3, <3>4, <3>5, <3>6, <3>7
  <2>3. CASE Shape(r, a) = "product"
    <3>1. r.kind # "ontology_gap" /\ a \in STRUCTURED_PRODUCT_SPEC_ACTIONS
      BY <2>3 DEF Shape, isProductSpecRepairRequest
    <3>2. \A x, y : RepairCanSave(r, a, x, y) <=> productSpecGapDraftCanSave(a, y)
      BY <2>3 DEF RepairCanSave
    <3>3. \A x, y : RepairValue(r, a, x, y) = answerValueForProductSpecAction(a, y)
      BY <2>3 DEF RepairValue
    <3>4. g = Keep("text" \in k, {"answer"})
                \cup Keep(a = "provide_candidate_context" /\ "text" \in k /\ k \cap Context = {}, {"mechanism"})
                \cup (k \cap (Context \cup {"reason", "follow_up"})) \cup {"affected_ref"}
      BY <3>1, <1>3, <1>6 DEF productSpecDraftFields
    <3>5. productSpecGapDraftCanSave(a, f)
      BY <1>1, <3>2
    <3>6. v = answerValueForProductSpecAction(a, f)
      BY <3>3
    <3> HIDE DEF v
    <3>7. k # {} /\ productSpecGapDraftCanSave(a, g) /\ k \subseteq normalizeRepair(a, answerValueForProductSpecAction(a, g))
      <4>1. CASE a = "answer_question"
        <5>1. "answer" \in f /\ v = {"text"} \cup (f \cap {"affected_ref"})
          BY <3>5, <3>6, <4>1 DEF productSpecGapDraftCanSave, answerValueForProductSpecAction, Keep
        <5>2. k = v
          BY <4>1, <5>1 DEF normalizeRepair, Requires
        <5>3. {"answer", "affected_ref"} \subseteq g
          BY <3>4, <5>1, <5>2 DEF Keep
        <5>4. answerValueForProductSpecAction(a, g) = {"text", "affected_ref"}
          BY <4>1, <5>3 DEF answerValueForProductSpecAction, Keep
        <5>5. normalizeRepair(a, {"text", "affected_ref"}) = {"text", "affected_ref"}
          BY <4>1 DEF normalizeRepair, Requires
        <5>6. productSpecGapDraftCanSave(a, g)
          BY <4>1, <5>3 DEF productSpecGapDraftCanSave
        <5> QED BY <5>1, <5>2, <5>4, <5>5, <5>6
      <4>2. CASE a \in {"reject", "defer"}
        <5>1. "reason" \in f /\ v = f \cap (IF a = "reject" THEN {"reason"} ELSE {"reason", "follow_up"})
          BY <3>5, <3>6, <4>2 DEF productSpecGapDraftCanSave, answerValueForProductSpecAction
        <5>2. k = v
          BY <4>2, <5>1 DEF normalizeRepair, Requires
        <5>3. "reason" \in g /\ k \subseteq g
          BY <3>4, <5>1, <5>2
        <5>4. answerValueForProductSpecAction(a, g) = g \cap (IF a = "reject" THEN {"reason"} ELSE {"reason", "follow_up"})
          BY <4>2 DEF answerValueForProductSpecAction
        <5>5. k \subseteq answerValueForProductSpecAction(a, g)
          BY <5>1, <5>2, <5>3, <5>4
        <5>6. normalizeRepair(a, answerValueForProductSpecAction(a, g)) = answerValueForProductSpecAction(a, g)
          BY <4>2, <5>3, <5>4 DEF normalizeRepair, Requires
        <5>7. productSpecGapDraftCanSave(a, g)
          BY <4>2, <5>3 DEF productSpecGapDraftCanSave
        <5> QED BY <5>1, <5>2, <5>5, <5>6, <5>7
      <4>3. CASE a = "provide_candidate_context"
        <5>1. f \cap Context # {} /\ v = {"text", "resolution_intent"} \cup (f \cap (Context \cup {"affected_ref"}))
          BY <3>5, <3>6, <4>3 DEF productSpecGapDraftCanSave, answerValueForProductSpecAction
        <5>2. k = {"text"} \cup (v \cap (Context \cup {"resolution_intent", "affected_ref"}))
          BY <4>3, <5>1 DEF normalizeRepair, Requires
        <5>3. k \cap Context # {}
          BY <5>1, <5>2
        <5>4. "affected_ref" \in g /\ k \cap Context \subseteq g
          BY <3>4
        <5>5. answerValueForProductSpecAction(a, g) = {"text", "resolution_intent"} \cup (g \cap (Context \cup {"affected_ref"}))
          BY <4>3 DEF answerValueForProductSpecAction
        <5>6. normalizeRepair(a, answerValueForProductSpecAction(a, g))
                = {"text"} \cup (answerValueForProductSpecAction(a, g)
                                   \cap (Context \cup {"resolution_intent", "affected_ref"}))
          BY <4>3, <5>5 DEF normalizeRepair, Requires
        <5>7. k \subseteq normalizeRepair(a, answerValueForProductSpecAction(a, g))
          BY <5>2, <5>4, <5>5, <5>6
        <5>8. productSpecGapDraftCanSave(a, g)
          BY <4>3, <5>3, <5>4 DEF productSpecGapDraftCanSave
        <5> QED BY <5>3, <5>7, <5>8
      <4> QED BY <3>1, <4>1, <4>2, <4>3 DEF STRUCTURED_PRODUCT_SPEC_ACTIONS
    <3> QED BY <3>2, <3>3, <3>7
  <2>4. CASE Shape(r, a) = "text"
    <3>1. a \notin {"bind_existing_term", "alias", "propose_project_local_term"}
      BY <2>4, <1>0 DEF Shape, STRUCTURED_ONTOLOGY_GAP_ACTIONS
    <3>2. \A x, y : (RepairCanSave(r, a, x, y) <=> x # "blank") /\ RepairValue(r, a, x, y) = answerValueForDraftAction(a, x)
      BY <2>4 DEF RepairCanSave, RepairValue
    <3>3. \A x : answerValueForDraftAction(a, x) = IF a \in {"reject", "defer"} THEN {"reason"} ELSE {"text"}
      BY <3>1 DEF answerValueForDraftAction
    <3>4. k \cap {"reason", "text"} # {} /\ "relations" \notin k /\ k = normalizeRepair(a, IF a \in {"reject", "defer"} THEN {"reason"} ELSE {"text"})
      BY <3>1, <3>2, <3>3 DEF normalizeRepair, Requires
    <3>5. u = t
      BY <1>5, <3>4
    <3> QED BY <1>1, <3>2, <3>3, <3>4, <3>5
  <2> QED BY <2>1, <2>2, <2>3, <2>4 DEF Shape
<1>8. Kept(r, a, Sent(r, a, u, g)) = normalizeRepair(a, RepairValue(r, a, u, g)) /\ CanSave(r, a, u, g)
  BY <1>7 DEF Kept, Sent, CanSave
<1> QED BY <1>2, <1>3, <1>4, <1>7, <1>8 DEF ComesBack, d, g

\* Every answer that is stored comes back, and only a JSON list was refused.
FormInv ==
    /\ question \in Questions /\ action \in question.actions /\ text \in Texts
    /\ refused # {} => question.form = "intake" /\ refused \cap JSONRefused # {}
    /\ \/ stored = NoAnswer
       \/ /\ stored.action \in question.actions /\ stored.words \in Texts
          /\ stored # NoAnswer /\ ComesBack(question, stored)

LEMMA TextOfIsText ==
    ASSUME NEW r, NEW a, NEW d, r.form \in {"repair", "intake", "term"}, d.words \in Texts
    PROVE  TextOf(r, a, d) \in Texts
  BY DEF TextOf, Texts, repairDraftText, intakeAnswerText, projectLocalDecisionText, workflowRelationHintText,
     JSONRefused

LEMMA FormStep == FormInv /\ [FormNext]_form => FormInv'
<1> SUFFICES ASSUME FormInv, [FormNext]_form PROVE FormInv'
  OBVIOUS
<1> USE DEF FormInv
<1>0. question.form \in {"repair", "intake", "term"} /\ NoAnswer.words \in Texts
  BY QuestionsAssumption DEF NoAnswer, Texts
<1>1. CASE SelectAction
  <2>1. text' \in Texts
    BY <1>0, <1>1, TextOfIsText DEF SelectAction
  <2> QED BY <1>1, <2>1 DEF SelectAction
<1>2. CASE TypeText
  BY <1>2 DEF TypeText
<1>3. CASE TypeField
  BY <1>3 DEF TypeField
<1>4. CASE SaveAnswer
  <2> DEFINE k == Kept(question, action, Sent(question, action, text, fields))
  <2>1. CanSave(question, action, text, fields)
    BY <1>4 DEF SaveAnswer
  <2>0. CASE question.form = "intake" /\ Sent(question, action, text, fields) \cap JSONRefused # {}
    <3>1. k = {}
      BY <2>0, IntakeRefused
    <3> QED BY <2>0, <3>1, <1>4 DEF SaveAnswer
  <2> SUFFICES ASSUME question.form = "intake" =>
                        Sent(question, action, text, fields) \cap JSONRefused = {}
               PROVE  FormInv'
    BY <2>0
  <2>2. k # {} /\ ComesBack(question, GivenAnswer(action, k, text))
    <3>1. CASE question.form = "repair"
      BY <2>1, <3>1, RepairTaken
    <3>2. CASE question.form = "intake"
      BY <2>1, <3>2, IntakeTaken
    <3>3. CASE question.form = "term"
      BY <2>1, <3>3, TermTaken
    <3> QED BY <1>0, <3>1, <3>2, <3>3
  <2>3. stored' = GivenAnswer(action, k, text) /\ UNCHANGED <<question, action, text, refused>>
    BY <1>4, <2>2 DEF SaveAnswer, GivenAnswer
  <2>4. GivenAnswer(action, k, text) # NoAnswer
    <3>1. NoAnswer.value = {}
      BY DEF NoAnswer
    <3> QED BY <3>1, <2>2, AnsweredFields
  <2> HIDE DEF k
  <2> QED BY <2>2, <2>3, <2>4, AnsweredFields
<1>5. CASE Refill
  <2>1. stored # NoAnswer /\ text' = TextOf(question, stored.action, stored) /\ action' = stored.action
        /\ UNCHANGED <<question, stored, refused>>
    BY <1>5 DEF Refill
  <2>2. text' \in Texts
    BY <1>0, <2>1, TextOfIsText
  <2> QED BY <2>1, <2>2
<1>6. CASE UNCHANGED form
  BY <1>6 DEF form
<1> QED BY <1>1, <1>2, <1>3, <1>4, <1>5, <1>6 DEF FormNext

\* What a form lets the operator save the server takes, and what comes back can
\* be saved again without a loss, for any questions the artifacts ask.
THEOREM SavedCorrect == FormSpec => []SavedIsTaken
<1>1. FormInit => FormInv
  <2> SUFFICES ASSUME FormInit PROVE FormInv
    OBVIOUS
  <2>1. question.form \in {"repair", "intake", "term"} /\ NoAnswer.words \in Texts
    BY QuestionsAssumption DEF FormInit, NoAnswer, Texts
  <2>2. text \in Texts
    BY <2>1, TextOfIsText DEF FormInit
  <2> QED BY <2>2 DEF FormInit, FormInv
<1>2. FormInv => SavedIsTaken
  BY DEF FormInv, SavedIsTaken, ComesBack
<1> QED BY <1>1, <1>2, FormStep, PTL DEF FormSpec

-----------------------------------------------------------------------------
(* SpecInspector.                                                          *)
InspectedRoots == InspectedSpecs \cup {NoRoot}
ShownAnswers == [kind : {"idle", "loading", "ok", "error"}, root : InspectedRoots,
          scope : Scopes \cup {NoRoot}, from : Nat]

\* Every variable has its type.
InspectorTypeOK ==
    /\ inspected \in InspectedRoots /\ markdownScope \in Scopes
    /\ fetched \in [Kinds -> ShownAnswers] /\ abortRef \in [Kinds -> Nat]
    /\ effectsOf \in InspectedRoots \X (Scopes \cup {NoRoot}) /\ asked \in [Kinds -> Nat]
    /\ onTheWay \subseteq [k : Kinds, id : Nat, root : InspectedRoots, scope : Scopes]
    /\ compileCapability \in BOOLEAN

\* A request on its way has a number of its own, up to the newest of its kind.
NumbersInv ==
    /\ \A r \in onTheWay : 0 < r.id /\ r.id <= asked[r.k]
    /\ \A r, q \in onTheWay : r.k = q.k /\ r.id = q.id => r = q

\* The awaited request of a kind is the newest, and what is loading is its.
AwaitedInv(k) ==
    /\ fetched[k].kind = "loading" <=> abortRef[k] # 0
    /\ abortRef[k] # 0 =>
          /\ abortRef[k] = asked[k]
          /\ \E r \in onTheWay : r.k = k /\ r.id = asked[k] /\ fetched[k] = Loading(r)

\* What a kind holds came from the newest request.
NewestInv(k) == fetched[k].kind # "idle" => fetched[k].from = asked[k]

\* The details are of the node the effects last ran for.
DetailsInv == fetched["details"].kind # "idle" => fetched["details"].root = effectsOf[1]

InspectorInv ==
    /\ InspectorTypeOK /\ NumbersInv /\ DetailsInv
    /\ \A k \in Kinds : AwaitedInv(k) /\ NewestInv(k)

LEMMA InitInspectorInv == InspectorInit => InspectorInv
<1> SUFFICES ASSUME InspectorInit PROVE InspectorInv
  OBVIOUS
<1>1. Idle \in ShownAnswers /\ Idle.kind = "idle"
  BY DEF Idle, ShownAnswers, InspectedRoots
<1>2. InspectorTypeOK
  BY <1>1 DEF InspectorInit, InspectorTypeOK, InspectedRoots, Scopes
<1>3. NumbersInv
  BY DEF InspectorInit, NumbersInv
<1>4. \A k \in Kinds : fetched[k] = Idle /\ abortRef[k] = 0
  BY DEF InspectorInit
<1>5. DetailsInv /\ \A k \in Kinds : AwaitedInv(k) /\ NewestInv(k)
  BY <1>1, <1>4 DEF Kinds, DetailsInv, AwaitedInv, NewestInv
<1> QED BY <1>2, <1>3, <1>5 DEF InspectorInv

\* A request of a kind that is sent is the newest and the awaited one.
LEMMA SentKeeps ==
    ASSUME InspectorInv, NEW k \in Kinds, NEW q \in [k : Kinds, id : Nat, root : InspectedRoots, scope : Scopes],
           q = Request(k), asked' = [asked EXCEPT ![k] = @ + 1],
           onTheWay' = onTheWay \cup {q},
           abortRef'[k] = q.id, fetched'[k] = Loading(q)
    PROVE  NumbersInv' /\ AwaitedInv(k)' /\ NewestInv(k)'
<1> USE DEF InspectorInv, InspectorTypeOK
<1>1. q.k = k /\ q.id = asked[k] + 1 /\ asked'[k] = asked[k] + 1
  BY DEF Request
<1>2. NumbersInv'
  <2>1. \A r \in onTheWay : r.k \in Kinds /\ r.id \in Nat /\ asked[r.k] \in Nat
                            /\ asked'[r.k] \in Nat /\ asked[r.k] <= asked'[r.k]
    OBVIOUS
  <2>2. \A r \in onTheWay' : 0 < r.id /\ r.id <= asked'[r.k]
    BY <1>1, <2>1 DEF NumbersInv
  <2>3. \A r \in onTheWay : r.k = k => r.id # q.id
    BY <1>1, <2>1 DEF NumbersInv
  <2>4. \A r, p \in onTheWay' : r.k = p.k /\ r.id = p.id => r = p
    BY <1>1, <2>3 DEF NumbersInv
  <2> QED BY <2>2, <2>4 DEF NumbersInv
<1>3. asked[k] \in Nat /\ fetched'[k].kind = "loading" /\ fetched'[k].from = q.id
  BY DEF Loading
<1>4. q \in onTheWay' /\ q.k = k /\ q.id = asked'[k] /\ fetched'[k] = Loading(q)
  BY <1>1
<1>5. abortRef'[k] = asked'[k] /\ asked'[k] # 0 /\ fetched'[k].from = asked'[k]
  BY <1>1, <1>3
<1> HIDE DEF InspectorInv, InspectorTypeOK
<1>6. \E r \in onTheWay' : r.k = k /\ r.id = asked'[k] /\ fetched'[k] = Loading(r)
  BY <1>4
<1>7. AwaitedInv(k)' /\ NewestInv(k)'
  BY <1>3, <1>5, <1>6 DEF AwaitedInv, NewestInv, Loading
<1> QED BY <1>2, <1>7

\* A kind that nothing was sent for, and that changed in nothing or became idle.
LEMMA OtherKeeps ==
    ASSUME InspectorInv, NEW j \in Kinds, asked'[j] = asked[j],
           \A r \in onTheWay : r.k = j => r \in onTheWay',
           \/ fetched'[j] = fetched[j] /\ abortRef'[j] = abortRef[j]
           \/ fetched'[j] = Idle /\ abortRef'[j] = 0
    PROVE  AwaitedInv(j)' /\ NewestInv(j)'
<1> USE DEF InspectorInv, AwaitedInv, NewestInv
<1>1. CASE fetched'[j] = Idle /\ abortRef'[j] = 0
  BY <1>1 DEF Idle
<1>2. CASE fetched'[j] = fetched[j] /\ abortRef'[j] = abortRef[j]
  BY <1>2 DEF Loading
<1> QED BY <1>1, <1>2

\* Another node is inspected, or none.
LEMMA InspectKeeps ==
    ASSUME InspectorInv, NEW id \in InspectedRoots, Inspect(id)
    PROVE  InspectorInv'
<1> USE DEF InspectorInv, InspectorTypeOK
<1>1. asked' = asked /\ onTheWay' = onTheWay
  BY DEF Inspect
<1>2. \/ fetched' = fetched /\ abortRef' = abortRef /\ effectsOf' = effectsOf
      \/ fetched' = [k \in Kinds |-> Idle] /\ abortRef' = [k \in Kinds |-> 0]
  BY DEF Inspect, MountedState
<1>3. InspectorTypeOK'
  BY DEF Inspect, MountedState, Idle, ShownAnswers, InspectedRoots, Scopes, Kinds, NoRoot
<1>4. NumbersInv'
  BY <1>1 DEF NumbersInv
<1>5. DetailsInv'
  BY <1>2 DEF DetailsInv, Idle, Kinds
<1>6. \A k \in Kinds : AwaitedInv(k)' /\ NewestInv(k)'
  BY <1>1, <1>2, OtherKeeps
<1> QED BY <1>3, <1>4, <1>5, <1>6

\* The Markdown is exported or compiled.
LEMMA SendKeeps ==
    ASSUME InspectorInv, NEW k \in {"export", "compile"}, Send(k)
    PROVE  InspectorInv'
<1> USE DEF InspectorInv, InspectorTypeOK
<1> DEFINE q == Request(k)
<1>1. k \in Kinds /\ k # "details" /\ "details" \in Kinds
  BY DEF Kinds
<1>2. q \in [k : Kinds, id : Nat, root : InspectedRoots, scope : Scopes]
  BY <1>1 DEF Request
<1>3. Loading(q) \in ShownAnswers
  BY <1>2 DEF Loading, ShownAnswers
<1>4. InspectorTypeOK'
  BY <1>1, <1>2, <1>3 DEF Send, Request
<1>5. NumbersInv' /\ AwaitedInv(k)' /\ NewestInv(k)'
  BY <1>1, <1>2, SentKeeps DEF Send
<1>6. DetailsInv'
  BY <1>1 DEF Send, DetailsInv
<1>7. \A j \in Kinds \ {k} : AwaitedInv(j)' /\ NewestInv(j)'
  BY <1>1, OtherKeeps DEF Send
<1> QED BY <1>4, <1>5, <1>6, <1>7

\* The callbacks of a request run.
LEMMA AnsweredKeeps ==
    ASSUME InspectorInv, NEW r \in onTheWay, NEW outcome \in {"ok", "error"}, Answered(r, outcome)
    PROVE  InspectorInv'
<1> USE DEF InspectorInv, InspectorTypeOK
<1> DEFINE k == r.k
<1>1. k \in Kinds /\ r.id \in Nat /\ r.id # 0
  BY DEF NumbersInv
<1>2. /\ onTheWay' = onTheWay \ {r} /\ asked' = asked /\ inspected' = inspected
      /\ effectsOf' = effectsOf /\ markdownScope' = markdownScope
      /\ compileCapability' = compileCapability
  BY DEF Answered
<1>3. NumbersInv'
  BY <1>2 DEF NumbersInv
<1>4. \A j \in Kinds \ {k} : fetched'[j] = fetched[j] /\ abortRef'[j] = abortRef[j]
  BY DEF Answered, Settle
<1>5. \A j \in Kinds \ {k} : AwaitedInv(j)' /\ NewestInv(j)'
  BY <1>2, <1>4, OtherKeeps
<1>6. CASE abortRef[k] # r.id
  <2>1. fetched' = fetched /\ abortRef' = abortRef
    BY <1>6 DEF Answered, Settle
  <2>2. ASSUME abortRef[k] # 0
        PROVE  \E q \in onTheWay' : q.k = k /\ q.id = asked[k] /\ fetched[k] = Loading(q)
    <3>1. PICK q \in onTheWay : q.k = k /\ q.id = asked[k] /\ fetched[k] = Loading(q)
      BY <1>1, <2>2 DEF AwaitedInv
    <3>2. q # r
      BY <1>1, <1>6, <2>2, <3>1 DEF AwaitedInv
    <3> QED BY <1>2, <3>1, <3>2
  <2>3. AwaitedInv(k)' /\ NewestInv(k)'
    BY <1>1, <1>2, <2>1, <2>2 DEF AwaitedInv, NewestInv, Loading
  <2> QED BY <1>2, <1>3, <1>5, <2>1, <2>3 DEF DetailsInv
<1>7. CASE abortRef[k] = r.id
  <2> DEFINE new == [kind |-> outcome, root |-> r.root, scope |-> r.scope, from |-> r.id]
  <2>1. fetched' = [fetched EXCEPT ![k] = new] /\ abortRef' = [abortRef EXCEPT ![k] = 0]
    BY <1>7 DEF Answered, Settle
  <2>2. new \in ShownAnswers
    BY DEF ShownAnswers
  <2>3. InspectorTypeOK'
    BY <1>1, <1>2, <2>1, <2>2
  <2>4. PICK q \in onTheWay : q.k = k /\ q.id = asked[k] /\ fetched[k] = Loading(q)
    BY <1>1, <1>7 DEF AwaitedInv
  <2>5. r.id = asked[k]
    BY <1>1, <1>7 DEF AwaitedInv
  <2>6. q = r
    BY <2>4, <2>5 DEF NumbersInv
  <2>7. AwaitedInv(k)' /\ NewestInv(k)'
    BY <1>1, <1>2, <2>1, <2>5 DEF AwaitedInv, NewestInv
  <2>8. DetailsInv'
    BY <1>1, <1>2, <1>4, <2>1, <2>4, <2>6 DEF DetailsInv, Loading, Kinds
  <2> QED BY <1>3, <1>5, <2>3, <2>7, <2>8
<1> QED BY <1>6, <1>7

\* The effects of a render run.
LEMMA InspectorEffectsKeep ==
    ASSUME InspectorInv, InspectorEffects
    PROVE  InspectorInv'
<1> USE DEF InspectorInv, InspectorTypeOK
<1> DEFINE q == Request("details")
<1>1. q \in [k : Kinds, id : Nat, root : InspectedRoots, scope : Scopes]
  BY DEF Request, Kinds
<1>2. Loading(q) \in ShownAnswers /\ Idle \in ShownAnswers
  BY <1>1 DEF Loading, Idle, ShownAnswers, InspectedRoots, NoRoot
<1>3. dropMarkdown \in [Kinds -> ShownAnswers]
  BY <1>2 DEF dropMarkdown
<1>4. /\ dropMarkdown["export"] = Idle /\ dropMarkdown["compile"] = Idle
      /\ dropMarkdown["details"] = fetched["details"]
  BY DEF dropMarkdown, Kinds
<1>5. effectsOf'[1] = inspected /\ Kinds = {"export", "compile", "details"}
  BY DEF InspectorEffects, Kinds
<1>6. effectsOf' \in InspectedRoots \X (Scopes \cup {NoRoot})
  BY DEF InspectorEffects
<1>7. CASE inspected = effectsOf[1]
  <2>1. /\ fetched' = dropMarkdown /\ asked' = asked /\ onTheWay' = onTheWay
        /\ abortRef' = [k \in Kinds |-> IF k = "details" THEN abortRef[k] ELSE 0]
    BY <1>7 DEF InspectorEffects, useSpecNodeDetail
  <2>2. InspectorTypeOK'
    BY <1>3, <1>6, <2>1 DEF InspectorEffects
  <2>3. NumbersInv'
    BY <2>1 DEF NumbersInv
  <2>4. DetailsInv'
    BY <1>4, <1>5, <1>7, <2>1 DEF DetailsInv
  <2>5. \A j \in Kinds : AwaitedInv(j)' /\ NewestInv(j)'
    BY <1>4, <1>5, <2>1, OtherKeeps
  <2> QED BY <2>2, <2>3, <2>4, <2>5
<1>8. CASE inspected # effectsOf[1]
  <2>1. /\ fetched' = [dropMarkdown EXCEPT !["details"] = Loading(q)]
        /\ abortRef' = [k \in Kinds |-> IF k = "details" THEN q.id ELSE 0]
        /\ asked' = [asked EXCEPT !["details"] = @ + 1]
        /\ onTheWay' = onTheWay \cup {q}
    BY <1>8 DEF InspectorEffects, useSpecNodeDetail
  <2>2. InspectorTypeOK'
    <3>1. /\ fetched' \in [Kinds -> ShownAnswers]
          /\ onTheWay' \subseteq [k : Kinds, id : Nat, root : InspectedRoots, scope : Scopes]
      BY <1>1, <1>2, <1>3, <2>1
    <3>2. q.id \in Nat
      BY <1>1
    <3>3. abortRef' \in [Kinds -> Nat]
      BY <2>1, <3>2
    <3>4. asked["details"] + 1 \in Nat
      BY <1>5
    <3>5. asked' \in [Kinds -> Nat]
      BY <2>1, <3>4
    <3> QED BY <1>6, <3>1, <3>3, <3>5 DEF InspectorEffects
  <2>3. fetched'["details"] = Loading(q) /\ abortRef'["details"] = q.id
    BY <1>3, <1>5, <2>1
  <2>4. NumbersInv' /\ AwaitedInv("details")' /\ NewestInv("details")'
    BY <1>1, <1>5, <2>1, <2>3, SentKeeps
  <2>5. DetailsInv'
    BY <1>5, <2>3 DEF DetailsInv, Loading, Request
  <2>6. \A j \in {"export", "compile"} :
           fetched'[j] = Idle /\ abortRef'[j] = 0 /\ asked'[j] = asked[j]
    BY <1>3, <1>4, <1>5, <2>1
  <2>7. \A j \in {"export", "compile"} : AwaitedInv(j)' /\ NewestInv(j)'
    BY <1>5, <2>1, <2>6, OtherKeeps
  <2> QED BY <1>5, <2>2, <2>4, <2>5, <2>7
<1> QED BY <1>7, <1>8

\* Every step keeps the inductive invariant.
LEMMA StepInspectorInv == InspectorInv /\ [InspectorNext]_inspecting => InspectorInv'
<1> SUFFICES ASSUME InspectorInv, [InspectorNext]_inspecting PROVE InspectorInv'
  OBVIOUS
<1>1. ASSUME NEW id \in InspectedSpecs \cup {NoRoot}, Inspect(id) PROVE InspectorInv'
  BY <1>1, InspectKeeps DEF InspectedRoots
<1>2. ASSUME /\ asked' = asked /\ onTheWay' = onTheWay /\ fetched' = fetched
             /\ abortRef' = abortRef /\ effectsOf' = effectsOf /\ inspected' = inspected
             /\ markdownScope' \in Scopes /\ compileCapability' \in BOOLEAN
      PROVE  InspectorInv'
  BY <1>2 DEF InspectorInv, InspectorTypeOK, NumbersInv, DetailsInv, AwaitedInv, NewestInv, Loading
<1>3. ASSUME NEW s \in Scopes, setMarkdownScope(s) PROVE InspectorInv'
  BY <1>2, <1>3 DEF setMarkdownScope, InspectorInv, InspectorTypeOK
<1>4. CASE LearnCapability
  BY <1>2, <1>4 DEF LearnCapability, InspectorInv, InspectorTypeOK
<1>5. CASE UNCHANGED inspecting
  BY <1>2, <1>5 DEF inspecting, InspectorInv, InspectorTypeOK
<1>6. CASE exportMarkdown \/ compileMarkdown
  BY <1>6, SendKeeps DEF exportMarkdown, compileMarkdown
<1>7. CASE InspectorEffects
  BY <1>7, InspectorEffectsKeep
<1>8. ASSUME NEW r \in onTheWay, NEW outcome \in {"ok", "error"}, Answered(r, outcome)
      PROVE  InspectorInv'
  BY <1>8, AnsweredKeeps
<1> QED BY <1>1, <1>3, <1>4, <1>5, <1>6, <1>7, <1>8 DEF InspectorNext

\* The parts of the invariant give the property.
LEMMA KeepsUpFromInspectorInv == InspectorInv => InspectorKeepsUp
<1> SUFFICES ASSUME InspectorInv PROVE InspectorKeepsUp
  OBVIOUS
<1> USE DEF InspectorInv, InspectorTypeOK
<1>1. \A k \in Kinds : activeState(k).kind # "idle" =>
          /\ activeState(k) = fetched[k]
          /\ fetched[k].root = inspected /\ fetched[k].scope = markdownScope
          /\ fetched[k].from = asked[k]
  BY DEF activeState, Idle, NewestInv
<1>2. ShowsItsOwn
  <2>1. "export" \in Kinds /\ "compile" \in Kinds /\ "details" \in Kinds
    BY DEF Kinds
  <2>2. MarkdownExportSection.context =>
            markdownExportContextSource =
                [node |-> inspected, scope |-> markdownScope, from |-> asked["export"]]
    <3> HIDE DEF InspectorInv, InspectorTypeOK
    <3>1. SUFFICES ASSUME activeState("export").kind = "ok"
                   PROVE  markdownExportContextSource =
                            [node |-> inspected, scope |-> markdownScope, from |-> asked["export"]]
      BY DEF MarkdownExportSection, activeMarkdownState
    <3>2. activeState("export").scope = markdownScope /\ activeState("export").from = asked["export"]
      BY <1>1, <2>1, <3>1
    <3> QED BY <3>2 DEF markdownExportContextSource, activeMarkdownState
  <2>3. CompileResult.context =>
            compiledMarkdownContextSource =
                [node |-> inspected, scope |-> markdownScope, from |-> asked["compile"]]
    <3> HIDE DEF InspectorInv, InspectorTypeOK
    <3>1. SUFFICES ASSUME activeState("compile").kind = "ok"
                   PROVE  compiledMarkdownContextSource =
                            [node |-> inspected, scope |-> markdownScope, from |-> asked["compile"]]
      BY DEF CompileResult, activeCompileState
    <3>2. activeState("compile").scope = markdownScope /\ activeState("compile").from = asked["compile"]
      BY <1>1, <2>1, <3>1
    <3> QED BY <3>2 DEF compiledMarkdownContextSource, activeCompileState
  <2>4. effectsOf[1] = inspected /\ detail.kind = "ok" =>
            detail.root = inspected /\ detail.from = asked["details"]
    <3>1. NewestInv("details") /\ DetailsInv
      BY <2>1
    <3> HIDE DEF InspectorInv, InspectorTypeOK
    <3> QED BY <3>1 DEF detail, DetailsInv, NewestInv
  <2> QED BY <2>2, <2>3, <2>4 DEF ShowsItsOwn
<1>3. LoadingIsAwaited
  <2> DEFINE shown(k) == IF k = "details" THEN detail ELSE activeState(k)
  <2>1. ASSUME NEW k \in Kinds, shown(k).kind = "loading"
        PROVE  /\ abortRef[k] = shown(k).from
               /\ \E r \in onTheWay : r.k = k /\ r.id = shown(k).from
    <3>1. shown(k) = fetched[k]
      BY <1>1, <2>1 DEF detail
    <3>2. AwaitedInv(k) /\ NewestInv(k)
      OBVIOUS
    <3> HIDE DEF InspectorInv, InspectorTypeOK, shown
    <3>3. fetched[k].kind = "loading"
      BY <2>1, <3>1
    <3>4. fetched[k].from = asked[k]
      BY <3>2, <3>3 DEF NewestInv
    <3>5. abortRef[k] = asked[k] /\ \E r \in onTheWay : r.k = k /\ r.id = asked[k]
      BY <3>2, <3>3 DEF AwaitedInv
    <3> QED BY <3>1, <3>4, <3>5
  <2> QED BY <2>1 DEF LoadingIsAwaited
<1> QED BY <1>2, <1>3 DEF InspectorKeepsUp

\* Every variable has its type, for any nodes and requests.
THEOREM InspectorTypeCorrect == InspectorSpec => []InspectorTypeOK
<1>1. InspectorInv => InspectorTypeOK
  BY DEF InspectorInv
<1> QED BY InitInspectorInv, StepInspectorInv, <1>1, PTL DEF InspectorSpec

\* The inspector never shows another node's or an older answer, and never
\* waits for an answer it would not take, for any nodes and requests.
THEOREM KeepsUpCorrect == InspectorSpec => []InspectorKeepsUp
  BY InitInspectorInv, StepInspectorInv, KeepsUpFromInspectorInv, PTL DEF InspectorSpec

-----------------------------------------------------------------------------
(* AgentConversation.                                                      *)
Seeds == PromptSeeds \cup {NoSeed}
Prompts == PromptSeeds \cup {"default", "typed", ""}
Messages == [text : Prompts, context : SUBSET PromptSeeds]

\* A chat has five parts.
IsChat(c) ==
    /\ c = [conversation |-> c.conversation, turns |-> c.turns, prompt |-> c.prompt,
            status |-> c.status, stored |-> c.stored]
    /\ c.prompt \in Prompts /\ c.stored.kind \in {"idle", "loading", "ok", "error"}

\* Its turns are those of the conversation it names, one of the store or one
\* of the runtime, and it is busy exactly while it waits for a stored one.
Told(c, talks) ==
    /\ isBusy(c) <=> c.stored.kind = "loading"
    /\ c.stored.kind = "ok" =>
          /\ c.conversation = c.stored.id
          /\ c.turns = projectAgentConversationArtifactToProjection(c.stored.id)
    /\ c.stored.kind # "ok" =>
          \/ c.conversation = NoRef /\ c.turns = <<>>
          \/ c.conversation \in DOMAIN talks /\ c.turns = talks[c.conversation]
    /\ c.stored.kind \in {"loading", "error"} => c.conversation = NoRef /\ c.turns = <<>>

\* Every variable has its type.
TalkTypeOK ==
    /\ promptSeed \in Seeds /\ draftItems \subseteq PromptSeeds
    /\ conversations \in Seq(Seq(Messages)) /\ IsChat(chat)
TalkInv == TalkTypeOK /\ Told(chat, conversations)

\* What a chat is with another prompt.
LEMMA ChatParts ==
    ASSUME NEW c, IsChat(c), NEW p
    PROVE  [c EXCEPT !.prompt = p]
           = [conversation |-> c.conversation, turns |-> c.turns, prompt |-> p,
              status |-> c.status, stored |-> c.stored]
<1>1. PICK a, b, d, e, f :
          c = [conversation |-> a, turns |-> b, prompt |-> d, status |-> e, stored |-> f]
  BY DEF IsChat
<1>2. c.conversation = a /\ c.turns = b /\ c.prompt = d /\ c.status = e /\ c.stored = f
  BY <1>1
<1>3. [c EXCEPT !.prompt = p]
      = [conversation |-> a, turns |-> b, prompt |-> p, status |-> e, stored |-> f]
  BY <1>1
<1> QED BY <1>2, <1>3

\* The prompt a seed puts in says nothing about the turns.
LEMMA SeedKeeps ==
    ASSUME NEW c, NEW seed \in Seeds, NEW seedSet, NEW talks, IsChat(c), Told(c, talks)
    PROVE  IsChat(WithSeed(c, seed, seedSet)) /\ Told(WithSeed(c, seed, seedSet), talks)
<1> DEFINE d == WithSeed(c, seed, seedSet)
<1>1. d = c \/ (d = [c EXCEPT !.prompt = seed] /\ seed # NoSeed)
  BY DEF WithSeed
<1>2. /\ d.conversation = c.conversation /\ d.turns = c.turns /\ d.status = c.status
      /\ d.stored = c.stored
      /\ d = [conversation |-> d.conversation, turns |-> d.turns, prompt |-> d.prompt,
              status |-> d.status, stored |-> d.stored]
  BY <1>1 DEF IsChat
<1>3. d.prompt \in Prompts
  BY <1>1 DEF IsChat, Prompts, Seeds
<1>4. Told(d, talks)
  BY <1>2 DEF Told, isBusy
<1> QED BY <1>2, <1>3, <1>4 DEF IsChat

\* What is true of the chat a step makes is true of the chat it becomes.
LEMMA BecomesKeeps ==
    ASSUME TalkInv, NEW c, Becomes(c), conversations' \in Seq(Seq(Messages)),
           IsChat(c), Told(c, conversations')
    PROVE  TalkInv'
<1>1. chat' = WithSeed(c, promptSeed, FALSE) /\ promptSeed' = promptSeed
      /\ draftItems' = draftItems
  BY DEF Becomes
<1>2. promptSeed \in Seeds
  BY DEF TalkInv, TalkTypeOK
<1>3. IsChat(chat') /\ Told(chat', conversations')
  BY <1>1, <1>2, SeedKeeps
<1> QED BY <1>1, <1>3 DEF TalkInv, TalkTypeOK, IsChat, Told, isBusy

LEMMA FreshIsTold ==
    ASSUME NEW seed \in Seeds, NEW talks
    PROVE  IsChat(FreshChat(seed)) /\ Told(FreshChat(seed), talks)
  BY DEF FreshChat, IsChat, Told, isBusy, NotStored, Prompt, Prompts, Seeds

LEMMA InitTalkInv == TalkInit => TalkInv
<1> SUFFICES ASSUME TalkInit PROVE TalkInv
  OBVIOUS
<1>1. NoSeed \in Seeds
  BY DEF Seeds
<1>2. IsChat(chat) /\ Told(chat, conversations)
  BY <1>1, FreshIsTold DEF TalkInit
<1> QED BY <1>1, <1>2 DEF TalkInit, TalkInv, TalkTypeOK

\* The page opens or closes the panel, or sets what a conversation starts from.
LEMMA PageKeeps ==
    ASSUME TalkInv,
           \/ \E seed \in Seeds : OpenPanel(seed)
           \/ ClosePanel
           \/ \E seed \in PromptSeeds : startConversationFromSpecMarkdown(seed)
           \/ \E item \in ContextItems : onRemoveContextItem(item)
    PROVE  TalkInv'
<1>1. NoSeed \in Seeds /\ PromptSeeds \subseteq Seeds
  BY DEF Seeds
<1>2. ASSUME conversations' = conversations, promptSeed' \in Seeds,
             draftItems' \subseteq PromptSeeds, IsChat(chat'), Told(chat', conversations)
      PROVE  TalkInv'
  BY <1>2 DEF TalkInv, TalkTypeOK, IsChat, Told, isBusy
<1>3. ASSUME NEW seed \in Seeds, OpenPanel(seed) PROVE TalkInv'
  <2>1. draftItems' \subseteq PromptSeeds
    BY <1>3 DEF OpenPanel, TalkInv, TalkTypeOK, Seeds
  <2> QED BY <1>2, <1>3, <2>1, FreshIsTold DEF OpenPanel
<1>4. CASE ClosePanel
  BY <1>1, <1>2, <1>4, FreshIsTold DEF ClosePanel, TalkInv, TalkTypeOK
<1>5. ASSUME NEW seed \in PromptSeeds, startConversationFromSpecMarkdown(seed) PROVE TalkInv'
  <2>1. IsChat(chat') /\ Told(chat', conversations)
    BY <1>1, <1>5, SeedKeeps DEF startConversationFromSpecMarkdown, TalkInv, TalkTypeOK
  <2> QED BY <1>1, <1>2, <1>5, <2>1 DEF startConversationFromSpecMarkdown, TalkInv, TalkTypeOK
<1>6. ASSUME NEW item \in ContextItems, onRemoveContextItem(item) PROVE TalkInv'
  BY <1>2, <1>6 DEF onRemoveContextItem, TalkInv, TalkTypeOK
<1> QED BY <1>3, <1>4, <1>5, <1>6

\* What a step of a message makes of the conversations.
LEMMA TalksKeep ==
    ASSUME NEW talks \in Seq(Seq(Messages)), NEW m \in Messages
    PROVE  /\ Append(talks, <<m>>) \in Seq(Seq(Messages))
           /\ Len(talks) + 1 \in DOMAIN Append(talks, <<m>>)
           /\ Append(talks, <<m>>)[Len(talks) + 1] = <<m>>
           /\ \A k \in DOMAIN talks :
                 LET new == [talks EXCEPT ![k] = Append(@, m)]
                 IN  new \in Seq(Seq(Messages)) /\ k \in DOMAIN new /\ new[k] = Append(talks[k], m)
<1>1. <<m>> \in Seq(Messages)
  OBVIOUS
<1>2. \A k \in DOMAIN talks : Append(talks[k], m) \in Seq(Messages)
  OBVIOUS
<1> QED BY <1>1, <1>2

\* A message is written.
LEMMA SubmitKeeps ==
    ASSUME TalkInv, handleSubmit
    PROVE  TalkInv'
<1> USE DEF TalkInv, TalkTypeOK
<1>0. conversations \in Seq(Seq(Messages))
  OBVIOUS
<1>1. Message \in Messages
  BY DEF Message, Messages, IsChat
<1>2. CASE chat.conversation = NoRef
  <2> DEFINE c == [conversation |-> Len(conversations) + 1, turns |-> <<Message>>, prompt |-> "",
                   status |-> "active", stored |-> NotStored]
  <2>1. conversations' = Append(conversations, <<Message>>) /\ Becomes(c)
    BY <1>2 DEF handleSubmit
  <2>3. /\ conversations' \in Seq(Seq(Messages))
        /\ Len(conversations) + 1 \in DOMAIN conversations'
        /\ conversations'[Len(conversations) + 1] = <<Message>>
    BY <1>1, <1>0, <2>1, TalksKeep
  <2>4. IsChat(c)
    BY DEF IsChat, Prompts, NotStored
  <2>5. Told(c, conversations')
    BY <2>3 DEF Told, isBusy, NotStored
  <2> HIDE DEF c
  <2> QED BY <2>1, <2>3, <2>4, <2>5, BecomesKeeps
<1>3. CASE chat.conversation # NoRef
  <2> DEFINE k == chat.conversation
             c == [conversation |-> k, turns |-> Append(chat.turns, Message), prompt |-> "",
                   status |-> "active", stored |-> chat.stored]
  <2>1. conversations' = [conversations EXCEPT ![k] = Append(@, Message)] /\ Becomes(c)
    BY <1>3 DEF handleSubmit
  <2>2. ~isBusy(chat) /\ chat.stored.kind # "ok"
    BY DEF handleSubmit, Composer, isReadonlyStoredConversation, Told
  <2>3. k \in DOMAIN conversations /\ chat.turns = conversations[k]
    BY <1>3, <2>2 DEF Told
  <2>5. /\ conversations' \in Seq(Seq(Messages)) /\ k \in DOMAIN conversations'
        /\ conversations'[k] = Append(conversations[k], Message)
    BY <1>1, <1>0, <2>1, <2>3, TalksKeep
  <2>6. IsChat(c)
    BY DEF IsChat, Prompts
  <2>7. chat.stored.kind \notin {"loading", "error", "ok"}
    BY <1>3, <2>2 DEF Told
  <2>8. Told(c, conversations')
    BY <2>3, <2>5, <2>7 DEF Told, isBusy
  <2> HIDE DEF c
  <2> QED BY <2>1, <2>5, <2>6, <2>8, BecomesKeeps
<1> QED BY <1>2, <1>3

\* The other steps of the panel change no conversation.
LEMMA PanelKeeps ==
    ASSUME TalkInv,
           \/ TypePrompt \/ handleStartFresh
           \/ \E id \in 1 .. MaxConversations : handleResumeConversation(id)
           \/ \E kind \in {"loading", "ok", "error"} : StoredConversationIndex(kind)
           \/ \E id \in StoredIds : handleOpenStoredConversation(id)
           \/ fetchAgentConversationArtifact
    PROVE  TalkInv'
<1> USE DEF TalkInv, TalkTypeOK
<1>0. IsChat(chat)
  OBVIOUS
<1>1. ASSUME NEW c, Becomes(c), conversations' = conversations, IsChat(c), Told(c, conversations)
      PROVE  TalkInv'
  BY <1>1, BecomesKeeps
<1>2. CASE TypePrompt
  <2>1. PICK typed \in {"typed", ""} : Becomes([chat EXCEPT !.prompt = typed])
    BY <1>2 DEF TypePrompt
  <2> DEFINE c == [conversation |-> chat.conversation, turns |-> chat.turns, prompt |-> typed,
                   status |-> chat.status, stored |-> chat.stored]
  <2>2. Becomes(c) /\ conversations' = conversations
    BY <1>2, <1>0, <2>1, ChatParts DEF TypePrompt
  <2>3. IsChat(c) /\ Told(c, conversations)
    BY DEF IsChat, Told, isBusy, Prompts
  <2> HIDE DEF c
  <2> QED BY <1>1, <2>2, <2>3
<1>3. CASE handleStartFresh
  BY <1>1, <1>3, FreshIsTold DEF handleStartFresh
<1>4. ASSUME NEW id \in 1 .. MaxConversations, handleResumeConversation(id) PROVE TalkInv'
  <2> DEFINE c == [conversation |-> id, turns |-> conversations[id], prompt |-> "default",
                   status |-> "active", stored |-> NotStored]
  <2>1. id \in DOMAIN conversations /\ Becomes(c) /\ conversations' = conversations
    BY <1>4 DEF handleResumeConversation, ConversationHistory, runtimeIds
  <2>2. IsChat(c) /\ Told(c, conversations)
    BY <2>1 DEF IsChat, Told, isBusy, NotStored, Prompts
  <2> QED BY <1>1, <2>1, <2>2
<1>5. ASSUME NEW kind \in {"loading", "ok", "error"}, StoredConversationIndex(kind) PROVE TalkInv'
  BY <1>5 DEF StoredConversationIndex, IsChat, Told, isBusy
<1>6. ASSUME NEW id \in StoredIds, handleOpenStoredConversation(id) PROVE TalkInv'
  <2> DEFINE c == [conversation |-> NoRef, turns |-> <<>>, prompt |-> "default",
                   status |-> "starting", stored |-> Stored("loading", id)]
  <2>1. Becomes(c) /\ conversations' = conversations
    BY <1>6 DEF handleOpenStoredConversation
  <2>2. IsChat(c) /\ Told(c, conversations)
    BY DEF IsChat, Told, isBusy, Stored, Prompts
  <2> QED BY <1>1, <2>1, <2>2
<1>7. CASE fetchAgentConversationArtifact
  <2> DEFINE id == chat.stored.id
             read == [conversation |-> id, prompt |-> "default", status |-> "active",
                      turns |-> projectAgentConversationArtifactToProjection(id),
                      stored |-> Stored("ok", id)]
             failed == [conversation |-> chat.conversation, turns |-> chat.turns,
                        prompt |-> chat.prompt, status |-> "error",
                        stored |-> Stored("error", id)]
  <2>1. (Becomes(read) \/ Becomes(failed)) /\ conversations' = conversations
        /\ chat.stored.kind = "loading"
    BY <1>7 DEF fetchAgentConversationArtifact
  <2>2. IsChat(read) /\ Told(read, conversations)
    BY DEF IsChat, Told, isBusy, Stored, Prompts
  <2>3. IsChat(failed) /\ Told(failed, conversations)
    BY <2>1 DEF IsChat, Told, isBusy, Stored
  <2> HIDE DEF read, failed
  <2> QED BY <1>1, <2>1, <2>2, <2>3
<1> QED BY <1>2, <1>3, <1>4, <1>5, <1>6, <1>7

\* Every step keeps the inductive invariant.
LEMMA StepTalkInv == TalkInv /\ [TalkStep]_talking => TalkInv'
<1> SUFFICES ASSUME TalkInv, [TalkStep]_talking PROVE TalkInv'
  OBVIOUS
<1>1. CASE UNCHANGED talking
  BY <1>1 DEF talking, TalkInv, TalkTypeOK, IsChat, Told, isBusy
<1>2. CASE TalkStep
  BY <1>2, PageKeeps, SubmitKeeps, PanelKeeps DEF TalkStep, Seeds
<1> QED BY <1>1, <1>2

\* Every variable has its type, for any conversations and seeds.
THEOREM ConversationTypeCorrect == TalkSpec => []TalkTypeOK
<1>1. TalkInv => TalkTypeOK
  BY DEF TalkInv
<1> QED BY InitTalkInv, StepTalkInv, <1>1, PTL DEF TalkSpec

\* At rest the transcript is the whole record of the conversation the panel
\* names, for any conversations of the runtime and of the store, also when
\* they share ids.
THEOREM TranscriptCorrect == TalkSpec => []TranscriptIsRecord
<1>1. TalkInv => TranscriptIsRecord
  <2> SUFFICES ASSUME TalkInv, ~isBusy(chat) PROVE TranscriptIsRecord
    BY DEF TranscriptIsRecord
  <2>1. NoRef \notin DOMAIN conversations
    BY DEF TalkInv, TalkTypeOK, NoRef
  <2> QED BY <2>1 DEF TalkInv, Told, TranscriptIsRecord, isReadonlyStoredConversation
<1> QED BY InitTalkInv, StepTalkInv, <1>1, PTL DEF TalkSpec

-----------------------------------------------------------------------------
(* GraphSelection.                                                         *)
(* A node and an edge are never selected together.                         *)
OneSelected ==
    /\ graphDoc \in DOMAIN GraphDocs
    /\ selectedSpecNodeId = None \/ selectedSpecEdgeId = None

\* Nothing selects a second thing, and the effects only drop.
LEMMA OneSelectedStep ==
    OneSelected /\ [SelectionStep]_selecting => OneSelected'
<1> SUFFICES ASSUME OneSelected, [SelectionStep]_selecting
             PROVE  OneSelected'
  OBVIOUS
<1> USE DEF OneSelected, selecting, told, canvasSettings
<1>1. CASE UNCHANGED selecting
  BY <1>1
<1>2. ASSUME NEW id, selectSpecNodeId(id) PROVE OneSelected'
  BY <1>2 DEF selectSpecNodeId
<1>3. ASSUME NEW e, ClickEdge(e) PROVE OneSelected'
  BY <1>3 DEF ClickEdge, selectSpecEdgeId
<1>4. CASE ClickPane \/ clearSpecSelection
  BY <1>4 DEF ClickPane, clearSpecSelection
<1>5. CASE goBackSpecSelection \/ goForwardSpecSelection
  <2>1. ASSUME NEW step, Move(step) PROVE OneSelected'
    BY <2>1 DEF Move
  <2> QED BY <1>5, <2>1 DEF goBackSpecSelection, goForwardSpecSelection
<1>6. CASE CanvasEvent
  BY <1>6 DEF CanvasEvent, setGapFilter, updateEdgeDetailMode, toggleSubtreeCollapse,
              expandAllSubtrees, useSpecGraph, SetCanvas
<1>7. CASE Effects
  BY <1>7 DEF Effects, dropHiddenNode, dropHiddenEdge
<1> QED BY <1>1, <1>2, <1>3, <1>4, <1>5, <1>6, <1>7 DEF SelectionStep, SelectionEvent, ClickNode

\* What is drawn is of the document.
LEMMA DrawnAreNodes ==
    ASSUME graphDoc \in DOMAIN GraphDocs
    PROVE  subtreeNodes \subseteq Nodes(graphDoc) /\ None \notin subtreeNodes
<1> DEFINE c == collapsedIds \cap Nodes(graphDoc)
<1>1. c \in SUBSET Nodes(graphDoc)
  OBVIOUS
<1>2. subtreeNodes
      = Nodes(graphDoc) \ UNION {buildDescendantsByNodeId[graphDoc][id] : id \in c}
  BY <1>1 DEF subtreeNodes, subtreeVisibleNodeIds
<1> QED BY <1>2, GraphAssumption

\* The relations of the inspector lead into its document.
LEMMA RelationsStay ==
    ASSUME NEW g, NEW id PROVE buildSpecInspectorModel(g, id) \subseteq Nodes(g)
  BY DEF buildSpecInspectorModel, relationFromId

\* Once the effects have run, the inspector speaks of the one thing selected,
\* a node or an edge that is drawn, of the document drawn, and its relation
\* buttons lead to nodes of it, for any documents and histories.
THEOREM InspectorTrue == SelectionSpec => []InspectorTruth
<1>1. SelectInit => OneSelected
  BY GraphAssumption DEF SelectInit, OneSelected
<1>2. OneSelected => InspectorTruth
  <2> SUFFICES ASSUME OneSelected, CanvasSettled PROVE
        /\ selectedSpecNodeId = None \/ selectedSpecEdgeId = None
        /\ selectedSpec = IF selectedSpecNodeId = None THEN NoSpec
                          ELSE [doc |-> graphDoc, id |-> selectedSpecNodeId]
        /\ selectedSpecNodeId \in subtreeNodes \cup {None}
        /\ selectedSpecEdgeId # None => edgeDrawn
        /\ RelationButtons \subseteq Nodes(graphDoc)
    BY DEF InspectorTruth
  <2>1. None \notin subtreeNodes
    BY DrawnAreNodes DEF OneSelected
  <2>2. selectedSpecNodeId = None => canvasSelection = NoSpec
    BY <2>1 DEF canvasSelection
  <2>3. selectedSpecNodeId # None => selectedSpecNodeId \in subtreeNodes
    BY DEF CanvasSettled, dropHiddenNode, canvasSelection
  <2>4. selectedSpec = IF selectedSpecNodeId = None THEN NoSpec
                       ELSE [doc |-> graphDoc, id |-> selectedSpecNodeId]
    BY <2>2, <2>3 DEF CanvasSettled, canvasSelection
  <2>5. selectedSpecEdgeId # None => edgeDrawn
    BY DEF CanvasSettled, dropHiddenEdge
  <2>6. RelationButtons \subseteq Nodes(graphDoc)
    <3>1. selectedSpec # NoSpec => selectedSpec.doc = graphDoc
      BY <2>4
    <3> QED BY <3>1, RelationsStay DEF RelationButtons
  <2> QED BY <2>3, <2>4, <2>5, <2>6 DEF OneSelected
<1> QED BY <1>1, <1>2, OneSelectedStep, PTL DEF SelectionSpec

-----------------------------------------------------------------------------
(* UtilityPanels.                                                          *)
(* The filter of the open panel is what it was opened for.                 *)
FilterInv ==
    /\ activeUtilityPanel = "proposals" => proposalContextFilter = openedFor
    /\ activeUtilityPanel = "metrics" => metricsContextFilter = openedFor
    /\ activeUtilityPanel = "agent-conversation" => agentConversationPromptSeed = openedFor

\* Only opening a panel, closing it and clearing its filter change a filter.
LEMMA FilterStep == FilterInv /\ [RailStep]_railVars => FilterInv'
<1> SUFFICES ASSUME FilterInv, [RailStep]_railVars PROVE FilterInv'
  OBVIOUS
<1> USE DEF FilterInv, panelState, contextFilters
<1>1. ASSUME UNCHANGED <<activeUtilityPanel, contextFilters, openedFor>> PROVE FilterInv'
  BY <1>1
<1>2. CASE UNCHANGED railVars
  BY <1>1, <1>2 DEF railVars
<1>3. CASE UtilityToolbar \/ closeUtilityPanel \/ OpenConversation
  BY <1>3 DEF UtilityToolbar, toggleUtilityPanel, closeUtilityPanel, OpenConversation, OpenRail,
              Nothing
<1>4. ASSUME NEW kind \in {"proposals", "metrics"}, NEW id, openNodeOverlayPanel(kind, id)
      PROVE  FilterInv'
  BY <1>4 DEF openNodeOverlayPanel, OpenRail
<1>5. ASSUME NEW id, openEdgeOverlayPanel(id) PROVE FilterInv'
  BY <1>5 DEF openEdgeOverlayPanel, OpenRail
<1>6. CASE ContextFilterNotice
  BY <1>6 DEF ContextFilterNotice
<1>7. CASE ContextActions
  <2>1. ASSUME NEW key, StartConversation(key) PROVE FilterInv'
    BY <2>1 DEF StartConversation, OpenRail
  <2>2. ASSUME NEW key, AddToAgentContext(key) PROVE FilterInv'
    BY <1>1, <2>2 DEF AddToAgentContext, InPanel
  <2> QED BY <1>7, <2>1, <2>2 DEF ContextActions
<1>8. CASE FilterSelect \/ ProposalDetailClose \/ clearAgentContext
           \/ \E entry \in Entries("proposals") : ProposalRow(entry)
  BY <1>1, <1>8 DEF FilterSelect, ProposalDetailClose, clearAgentContext, ProposalRow, InPanel
<1>9. CASE \/ addSelectedSpecToAgentContext \/ addSelectedEdgeToAgentContext
           \/ addSelectedGapToAgentContext \/ EdgeInspectorAdd
           \/ \E key \in agentContextDraft : removeAgentContextItemByKey(key)
  BY <1>1, <1>9 DEF addSelectedSpecToAgentContext, addSelectedEdgeToAgentContext,
      addSelectedGapToAgentContext, EdgeInspectorAdd, removeAgentContextItemByKey,
      ToggleItem, AddToAgentContext, InPanel
<1>10. CASE \/ \E id \in SpecNodeIds \cup SpecEdgeIds \cup {Nothing} : ChooseSpec(id)
            \/ \E answer \in DOMAIN IndexAnswers \cup {Nothing} : IndexRefreshed(answer)
            \/ onSidebarToggle \/ onToggleExpanded
            \/ WorkspaceLauncher \/ closeNewWorkspaceWizard \/ NewWorkspaceSubmit
            \/ NewWorkspaceRefused
  BY <1>1, <1>10 DEF ChooseSpec, IndexRefreshed, onSidebarToggle, onToggleExpanded,
      WorkspaceLauncher, closeNewWorkspaceWizard, NewWorkspaceSubmit, NewWorkspaceRefused,
      Wizard, Rail
<1> QED BY <1>2, <1>3, <1>4, <1>5, <1>6, <1>7, <1>8, <1>9, <1>10 DEF RailStep

\* An open panel lists what it was opened for, whoever opened it and whatever
\* was refreshed since, for any indexes and graphs.
THEOREM PanelCorrect == RailSpec => []PanelShowsWhatWasAsked
<1>1. RailInit => FilterInv
  BY DEF RailInit, FilterInv, Nothing
<1>2. FilterInv => PanelShowsWhatWasAsked
  <2> SUFFICES ASSUME FilterInv PROVE PanelShowsWhatWasAsked
    OBVIOUS
  <2>1. proposalContextFilter = Unfiltered =>
            filterProposalEntriesByContext = Entries("proposals")
    BY DEF filterProposalEntriesByContext
  <2>2. proposalContextFilter # Unfiltered =>
            filterProposalEntriesByContext
              = {entry \in Entries("proposals") :
                    proposalContextFilter.id \in Refers("proposals", entry)}
    BY DEF filterProposalEntriesByContext
  <2>3. metricsContextFilter = Unfiltered =>
            filterMetricsEntriesByContext = Entries("metrics")
    BY DEF filterMetricsEntriesByContext
  <2>4. metricsContextFilter # Unfiltered =>
            filterMetricsEntriesByContext
              = {entry \in Entries("metrics") :
                    metricsContextFilter.id \in Refers("metrics", entry)}
    BY DEF filterMetricsEntriesByContext
  <2> QED
    BY <2>1, <2>2, <2>3, <2>4
       DEF FilterInv, PanelShowsWhatWasAsked, buildSpecGraphCanvasOverlays
<1> QED BY <1>1, <1>2, FilterStep, PTL DEF RailSpec
=============================================================================
