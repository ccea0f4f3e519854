--------------------------- MODULE StateDocuments ---------------------------
(***************************************************************************)
(* What the browser accepts as a state document.  Every panel of the user  *)
(* interface reads one JSON document from the API, and its parser decides  *)
(* whether the document may be shown.  The parsers differ in what they     *)
(* demand of the form of a document and in how they read what it claims    *)
(* about authority: a flag that must be false, one that must not be true,  *)
(* one that must not be there, a section that may be missing.              *)
(*                                                                         *)
(* A document says one of four things at each place, and a parser is a set *)
(* of rules <<place, what may be said there>>: what it refuses.  Places    *)
(* without a rule are read unchecked and are left out.  A place is         *)
(* <<section, part, item>>.                                                *)
(***************************************************************************)
EXTENDS FiniteSets

Marks == {"yes", "no", "unsaid", "none"}  \* true, false, no such field, no such part
Demanded == {"yes"}
Denied == {"no"}                          \* !== false is an error
NotClaimed == {"no", "unsaid", "none"}    \* === true is an error
NotEvenNamed == {"unsaid", "none"}

Top(items) == {<<"top", "own", i>> : i \in items}
Claims(sections) == {<<s, "own", "claims">> : s \in sections}
Rules(places, may) == {<<p, may>> : p \in places}

Places(p) == {r[1] : r \in p}

Accepts(p, d) == \A r \in p : d[r[1]] \in r[2]

(* A document as its owner writes it, and every document that differs from *)
(* it at one place or lacks one part.                                      *)
Plain(p) == [x \in Places(p) |->
    LET fits(m) == \A r \in p : r[1] = x => m \in r[2]
    IN  CASE fits("no") -> "no" [] fits("yes") -> "yes" [] OTHER -> "unsaid"]
Documents(p) ==
    {Plain(p)}
    \cup {[Plain(p) EXCEPT ![x] = m] : x \in Places(p), m \in Marks}
    \cup {[x \in Places(p) |-> IF x[1] = y[1] /\ x[2] = y[2] THEN "none" ELSE Plain(p)[x]]
              : y \in Places(p)}

-----------------------------------------------------------------------------
(* Documents that SpecSpace owns: the queues of what an operator asked for.*)

OwnedForm == Rules(Top({"object", "artifact_kind", "schema_version", "state_owner"}), Demanded)
Queue == Rules(Top({"object", "artifact_kind"}), Demanded)
Everywhere == {"top", "consumer_boundary", "authority_boundary", "records"}

parseIdeaToSpecRepairDraftState ==
    OwnedForm \cup Rules(Claims(Everywhere), NotClaimed)
parseIdeaToSpecRepairRerunRequestState ==
    OwnedForm \cup Rules(Claims(Everywhere), NotClaimed)
parseIdeaToSpecCandidateApprovalIntentState ==
    OwnedForm \cup Rules(Claims(Everywhere), NotClaimed)
parseProjectLocalOntologyReviewDecisionState ==
    OwnedForm \cup Rules(Claims(Everywhere), NotClaimed)
parseIdeaToSpecIntakeClarificationAnswerState ==
    OwnedForm \cup Rules(Claims(Everywhere), NotClaimed)
parseOntologyOwnerDecisionAcknowledgementState ==
    OwnedForm
        \cup Rules(Claims({"top"}), Denied)
        \cup Rules(Claims(Everywhere \ {"top"}), NotClaimed)
parseRealIdeaEntryRequestState ==
    Queue \cup Rules(Claims(Everywhere \ {"records"}), NotClaimed)
parseRealIdeaIntakeExecutionRequestState ==
    Queue \cup Rules(Claims(Everywhere \ {"records"}), NotClaimed)
parseRealIdeaAnswerContinuationExecutionRequestState ==
    Queue \cup Rules(Claims(Everywhere \ {"records"}), NotClaimed)
parseProductWorkspaceCreationRequestState ==
    OwnedForm \cup Rules(Claims(Everywhere \ {"records"}), NotClaimed)

-----------------------------------------------------------------------------
(* Documents of SpecGraph and Ontology that are shown for review.          *)

Published == Top({"object", "artifact_kind", "schema_version"})
Reviewed == Published \cup Top({"proposal_id"})
Boundaries == {"top", "consumer_boundary", "authority_boundary"}
Consumed == {<<"consumer_boundary", "own", "present">>, <<"consumer_boundary", "own", "granted">>}

parseOntologySemanticReviewSurface ==
    Rules(Reviewed \cup Consumed \cup Top({"item_ids", "review_item_count"}), Demanded)
        \cup Rules(Claims(Boundaries), Denied)
        \cup Rules(Claims({"review_actions"}), NotClaimed)
parseOntologyReviewDashboard ==
    Rules(Reviewed \cup Consumed
                  \cup Top({"status", "draft_request_count", "evidence_entry_count"}), Demanded)
        \cup Rules(Claims(Boundaries), Denied)
        \cup Rules(Claims({"draft_requests", "closed_loop_entries", "review_actions"}),
                          NotClaimed)
parseOntologyOwnerDecisionReview ==
    Rules(Reviewed \cup Consumed
                  \cup Top({"status", "preview_count", "ignored_decision_count",
                               "accepted_count", "rejected_count", "importable_count",
                               "preview_states", "matched_evidence"}), Demanded)
        \cup Rules(Claims(Boundaries), Denied)
        \cup Rules(Claims({"decision_import_previews"}), NotClaimed)
parseOntologyComplianceReview ==
    Rules(Reviewed \cup Top({"validation_modes", "spec_count"}), Demanded)
        \cup Rules(Claims({"top"}), Denied)
        \cup Rules({<<"validation_modes", "own", "hard_gate_enabled">>}, Denied)
parsePracticalOntology ==
    Rules(Published \cup Top({"read_only"}), Demanded)
        \cup Rules(Claims({"top", "authority_boundary"}), Denied)
parseOntologyWorkbench ==
    Rules(Published \cup Top({"read_only"}), Demanded)
        \cup Rules(Claims({"top", "authority_boundary"}), Denied)

-----------------------------------------------------------------------------
(* Documents that are checked for no authority: catalogs, indexes and      *)
(* graphs, with the counts and references their parsers compare.           *)

Counted(counts) == Rules(Published \cup Top(counts), Demanded)

parseAgentSurfaceIndex == Rules(Published, Demanded)
parseCatalog == Rules(Published \cup Top({"read_only"}), Demanded)
parseContent ==
    Rules(Published \cup Top({"read_only", "path", "content_kind"}), Demanded)
parseCapabilities == Rules(Top({"object", "capabilities", "diagnostics"}), Demanded)
apiDeploymentStateFromHealth == Rules(Top({"object"}), Demanded)
parseProductWorkspaceDecisions ==
    Counted({"contract_ref", "decision_count", "decisions", "unique_ids", "unique_keys"})
parseAgentConversationIndexArtifact == Counted({"entries", "entry_count"})
parseSpecGraph ==
    Rules(Top({"object", "summary_counts", "summary_mirror", "roots", "edge_ends",
                      "gap_totals"}), Demanded)
parseSpecNodeDetail == Rules(Top({"object", "node_id"}), Demanded)
parseSpecPMLifecycle == Rules(Top({"object", "package_count"}), Demanded)
parseSpecPMRegistrySummary == Rules(Top({"object", "kinds"}), Demanded)
parseMetricsIndex == Rules(Published \cup Top({"read_only"}), Demanded)
parseProposalIndex == Rules(Published \cup Top({"read_only"}), Demanded)
envelope == Rules(Published \cup Top({"read_only", "workspace_id", "paths"}), Demanded)

parseSpecActivityFeed == Counted({"entry_count", "summary_entry_count"})
parseImplementationWorkIndex == Counted({"entry_count"})
parseProposalSpecTraceIndex ==
    Counted({"entry_count", "summary_entry_count", "lane_ref_count",
                    "summary_lane_ref_count"})

-----------------------------------------------------------------------------
(* The product workspace: one document of many sections, each with its own *)
(* boundary.  "named" stands for the flags a section's check names, all of *)
(* which must be false; "other" for a flag may_... that it does not name.  *)

InspectOnly(s, part, absent) ==
    {<<<<s, part, "inspect_only">>, Demanded \cup absent>>,
     <<<<s, part, "named">>, Denied \cup absent>>}
OthersDenied(s, part) == {<<<<s, part, "other">>, {"no", "unsaid", "none"}>>}
OthersBarred(s, part) == {<<<<s, part, "other">>, NotEvenNamed>>}
Optional == {"none"}
Mandatory == {}

guidedFlowBoundaryIsSafe(s, part) == InspectOnly(s, part, Optional)
guidedFlowBoundariesAreSafe ==
    UNION {guidedFlowBoundaryIsSafe("guided_flow", part) : part \in {"own", "stages", "next_actions"}}
qualityGuidedActionBoundaryIsSafe(part) ==
    guidedFlowBoundaryIsSafe("product_workspace_overview", part)
        \cup OthersBarred("product_workspace_overview", part)
productWorkspaceOverviewBoundaryIsSafe ==
    guidedFlowBoundaryIsSafe("product_workspace_overview", "own")
        \cup OthersBarred("product_workspace_overview", "own")
        \cup UNION {qualityGuidedActionBoundaryIsSafe(part) :
                        part \in {"action_ranking", "primary_action", "secondary_actions"}}
managedOperationsBoundaryIsSafe ==
    UNION {InspectOnly("managed_operations_observability", part, Optional)
               \cup OthersDenied("managed_operations_observability", part) :
               part \in {"own", "operations"}}
managedModeReadinessBoundaryIsSafe ==
    InspectOnly("managed_mode_readiness", "own", Optional)
        \cup OthersDenied("managed_mode_readiness", "own")
promotionReviewConfirmationBoundaryIsSafe ==
    InspectOnly("promotion_review_confirmation", "own", Optional)
        \cup OthersDenied("promotion_review_confirmation", "own")
guidedRepairPathBoundaryIsSafe == InspectOnly("guided_repair_path", "own", Optional)
guidedApprovalPathBoundaryIsSafe ==
    InspectOnly("guided_approval_path", "own", Optional)
        \cup OthersDenied("guided_approval_path", "own")
candidateOverviewBoundaryIsSafe ==
    InspectOnly("candidate_overview", "own", Optional)
        \cup InspectOnly("candidate_overview", "ontology_applicability", Optional)
        \cup OthersDenied("candidate_overview", "ontology_applicability")

(* The flags and boundaries of other sections, such as what a              *)
(* materialization says it changed, are copied into the data unchecked.    *)
parseIdeaToSpecWorkspace ==
    LET optional == {<<"real_idea_intake", "own">>, <<"intake_clarification", "own">>,
                     <<"intake_clarification", "answer_continuation">>,
                     <<"repair_session", "own">>, <<"project_local_ontology_review", "own">>,
                     <<"project_local_ontology_review", "effective_review">>,
                     <<"project_local_ontology_decision_import_preview", "own">>,
                     <<"workspace_state_hygiene", "own">>,
                     <<"workspace_state_hygiene", "recommended_actions">>,
                     <<"idea_maturity", "own">>, <<"approval_readiness", "own">>}
        mandatory == {<<"repair_review", "own">>, <<"repair_review", "platform_execution">>,
                      <<"controlled_promotion", "own">>}
    IN  Rules(Top({"object", "artifact_kind", "read_only"}), Demanded)
            \cup Rules({<<"top", "own", "named">>, <<"authority_boundary", "own", "named">>}, Denied)
            \cup guidedFlowBoundariesAreSafe
            \cup guidedRepairPathBoundaryIsSafe
            \cup productWorkspaceOverviewBoundaryIsSafe
            \cup managedOperationsBoundaryIsSafe
            \cup managedModeReadinessBoundaryIsSafe
            \cup promotionReviewConfirmationBoundaryIsSafe
            \cup guidedApprovalPathBoundaryIsSafe
            \cup candidateOverviewBoundaryIsSafe
            \cup UNION {InspectOnly(x[1], x[2], Optional) : x \in optional}
            \cup UNION {InspectOnly(x[1], x[2], Mandatory) : x \in mandatory}
=============================================================================
