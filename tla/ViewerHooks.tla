---------------------------- MODULE ViewerHooks -----------------------------
(***************************************************************************)
(* The hooks of the browser application that keep a document of the API:   *)
(* for each, how its code is written, in the terms of StateHooks.          *)
(***************************************************************************)
EXTENDS StateHooks

Fails(refused, unreadable, lost, rejected) ==
    [refused |-> refused, unreadable |-> unreadable, lost |-> lost, rejected |-> rejected]

(* What the shared readers make of a request that fails.                   *)
fetchEnvelope == Fails("http-error", "envelope-error", "network-error", "parse-error")
fetchAgentWorkbenchData == Fails("http-error", "response-error", "network-error", "parse-error")
fetchSpecPMLifecycleBadges == Fails("http-error", "response-error", "network-error", "parse-error")
fetchSpecNodeDetail == Fails("http-error", "response-error", "network-error", "parse-error")
loadSpecGraph == Fails("sample", "sample", "sample", "sample")
ThreeWays == Fails("http-error", "response-error", "network-error", "parse-error")
TwoWays == Fails("http-error", "network-error", "network-error", "parse-error")
Always(kind) == Fails(kind, kind, kind, kind)

(* A hook that only reads: an abort and a flag, old data kept on a reload. *)
Reader(parser, fails) ==
    [signal |-> TRUE, flag |-> TRUE, blanks |-> FALSE, reloads |-> TRUE, toggles |-> FALSE,
     saves |-> "no", apart |-> FALSE, steps |-> 1, keyed |-> FALSE, fails |-> fails,
     starts |-> "idle", parser |-> parser]
(* A hook of an owner document: an abort without a flag, and saves that    *)
(* nothing holds back.                                                     *)
Owner(parser) ==
    [Reader(parser, TwoWays) EXCEPT !.flag = FALSE, !.toggles = TRUE, !.saves = "open",
                                    !.apart = TRUE]
(* A hook of a queue of requests: no abort, "loading" at every load, and   *)
(* one save at a time.                                                     *)
Requests(parser) ==
    [Owner(parser) EXCEPT !.signal = FALSE, !.blanks = TRUE, !.saves = "guarded",
                          !.starts = "loading",
                          !.fails = Fails("http-error", "parse-error", "network-error", "parse-error")]

useIdeaToSpecRepairDrafts == Owner(parseIdeaToSpecRepairDraftState)
useIdeaToSpecRepairRerunRequests == Owner(parseIdeaToSpecRepairRerunRequestState)
useIdeaToSpecCandidateApprovalIntents == Owner(parseIdeaToSpecCandidateApprovalIntentState)
useProjectLocalOntologyReviewDecisions == Owner(parseProjectLocalOntologyReviewDecisionState)
useIdeaToSpecIntakeClarificationAnswers == Owner(parseIdeaToSpecIntakeClarificationAnswerState)
useOntologyOwnerDecisionAcknowledgements ==
    [Owner(parseOntologyOwnerDecisionAcknowledgementState) EXCEPT !.apart = FALSE]

useRealIdeaEntryRequests == Requests(parseRealIdeaEntryRequestState)
useRealIdeaIntakeExecutionRequests == Requests(parseRealIdeaIntakeExecutionRequestState)
useRealIdeaAnswerContinuationExecutionRequests ==
    Requests(parseRealIdeaAnswerContinuationExecutionRequestState)
useProductWorkspaceCreationRequests == Requests(parseProductWorkspaceCreationRequestState)

useIdeaToSpecWorkspace == Reader(parseIdeaToSpecWorkspace, ThreeWays)
useAgentSurfaces == Reader(parseAgentSurfaceIndex, ThreeWays)
useArtifactCatalog == Reader(parseCatalog, TwoWays)
useArtifactContent ==
    [Reader(parseContent, TwoWays) EXCEPT !.blanks = TRUE, !.toggles = TRUE]
useOntologyWorkbench == Reader(parseOntologyWorkbench, ThreeWays)
usePracticalOntology == Reader(parsePracticalOntology, ThreeWays)
useOntologyReviewDashboard == Reader(parseOntologyReviewDashboard, fetchEnvelope)
useOntologyComplianceReview == Reader(parseOntologyComplianceReview, fetchEnvelope)
useOntologyOwnerDecisionReview == Reader(parseOntologyOwnerDecisionReview, fetchEnvelope)
useOntologySemanticReviewSurface == Reader(parseOntologySemanticReviewSurface, fetchEnvelope)
useMetricsIndex == Reader(parseMetricsIndex, ThreeWays)
useProposalIndex == Reader(parseProposalIndex, ThreeWays)
useSpecPMRegistrySummary == Reader(parseSpecPMRegistrySummary, ThreeWays)
useSpecSpaceCapabilities == [Reader(parseCapabilities, ThreeWays) EXCEPT !.reloads = FALSE]
useApiDeploymentStatus ==
    [Reader(apiDeploymentStateFromHealth,
            Fails("http-error", "network-error", "network-error", "invalid"))
        EXCEPT !.reloads = FALSE, !.starts = "loading"]
useProposalSpecTraceIndex == Reader(parseProposalSpecTraceIndex, fetchEnvelope)
useImplementationWorkIndex == Reader(parseImplementationWorkIndex, fetchEnvelope)
useRecentChanges == Reader(parseSpecActivityFeed, fetchEnvelope)
useSpecGraph == Reader(parseSpecGraph, loadSpecGraph)
useSpecPMLifecycleBadges ==
    [Reader(parseSpecPMLifecycle, fetchSpecPMLifecycleBadges) EXCEPT !.toggles = TRUE]
useSpecNodePreviewDetail ==
    [Reader(parseSpecNodeDetail, Always("unavailable")) EXCEPT !.blanks = TRUE, !.toggles = TRUE]
useSpecNodeDetail == [Reader(parseSpecNodeDetail, fetchSpecNodeDetail) EXCEPT !.blanks = TRUE]
useAgentWorkbenchConversationIndex ==
    [Reader(parseAgentConversationIndexArtifact, fetchAgentWorkbenchData) EXCEPT !.blanks = TRUE]
CanonicalDecisionsPanel ==
    [Reader(parseProductWorkspaceDecisions, Always("error")) EXCEPT !.blanks = TRUE]
usePublishedOntology ==
    [Reader(envelope, Always("error")) EXCEPT !.blanks = TRUE, !.toggles = TRUE, !.keyed = TRUE,
                                              !.steps = 2, !.starts = "loading"]

AllHooks ==
    [repairDrafts |-> useIdeaToSpecRepairDrafts,
     rerunRequests |-> useIdeaToSpecRepairRerunRequests,
     approvalIntents |-> useIdeaToSpecCandidateApprovalIntents,
     ontologyDecisions |-> useProjectLocalOntologyReviewDecisions,
     intakeAnswers |-> useIdeaToSpecIntakeClarificationAnswers,
     acknowledgements |-> useOntologyOwnerDecisionAcknowledgements,
     entryRequests |-> useRealIdeaEntryRequests,
     intakeRequests |-> useRealIdeaIntakeExecutionRequests,
     continuationRequests |-> useRealIdeaAnswerContinuationExecutionRequests,
     creationRequests |-> useProductWorkspaceCreationRequests,
     workspace |-> useIdeaToSpecWorkspace,
     agentSurfaces |-> useAgentSurfaces,
     artifactCatalog |-> useArtifactCatalog,
     artifactContent |-> useArtifactContent,
     ontologyWorkbench |-> useOntologyWorkbench,
     practicalOntology |-> usePracticalOntology,
     reviewDashboard |-> useOntologyReviewDashboard,
     complianceReview |-> useOntologyComplianceReview,
     ownerDecisionReview |-> useOntologyOwnerDecisionReview,
     semanticReview |-> useOntologySemanticReviewSurface,
     metricsIndex |-> useMetricsIndex,
     proposalIndex |-> useProposalIndex,
     registrySummary |-> useSpecPMRegistrySummary,
     capabilities |-> useSpecSpaceCapabilities,
     deployment |-> useApiDeploymentStatus,
     proposalTrace |-> useProposalSpecTraceIndex,
     implementationWork |-> useImplementationWorkIndex,
     recentChanges |-> useRecentChanges,
     specGraph |-> useSpecGraph,
     lifecycleBadges |-> useSpecPMLifecycleBadges,
     nodePreview |-> useSpecNodePreviewDetail,
     nodeDetail |-> useSpecNodeDetail,
     conversationIndex |-> useAgentWorkbenchConversationIndex,
     canonicalDecisions |-> CanonicalDecisionsPanel,
     publishedOntology |-> usePublishedOntology]
=============================================================================
