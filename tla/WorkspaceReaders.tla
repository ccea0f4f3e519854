-------------------------- MODULE WorkspaceReaders --------------------------
(***************************************************************************)
(* What the workspace page takes from the document of WorkspaceProjection. *)
(* use-idea-to-spec-workspace.ts has one parse function per record; an     *)
(* operator of the same name here is the set of places it asks for.  A     *)
(* boolean is shown when it is literally true, and a row is dropped when a *)
(* naming field is missing, its inner places with it.  So an ask has the   *)
(* keys on which it depends: of a row, sets of fields one of which is      *)
(* there.  An ask is presumed when the page shows it unless the document   *)
(* denies it.                                                              *)
(*                                                                         *)
(* Left out: words, numbers and references; the older place, sections, of  *)
(* the parts of the candidate overview, which the backend does not write;  *)
(* the boundaries, which StateDocuments has.                               *)
(***************************************************************************)
EXTENDS WorkspaceProjection

Ask(path, keys, presumed) == [at |-> path, keys |-> keys, presumed |-> presumed]
Flags(names)    == {Ask(<<n>>, {}, FALSE) : n \in names}
Presumed(names) == {Ask(<<n>>, {}, TRUE) : n \in names}
OnKeys(asks, keys) == {[a EXCEPT !.keys = @ \cup keys] : a \in asks}
Inside(n, asks) == {[a EXCEPT !.at = <<n>> \o @,
                          !.keys = {<<<<n>> \o k[1], k[2]>> : k \in @}] : a \in asks}
InsideEach(names, asks) == UNION {Inside(n, asks) : n \in names}
\* A row with one field of each of the sets.
Row(oneOf, inner) ==
    OnKeys({Ask(<<>>, {}, FALSE)} \cup inner, {<<<<>>, alternatives>> : alternatives \in oneOf})
Named(names, inner) == Row({{n} : n \in names}, inner)
KeptRow == Row({}, {})

-----------------------------------------------------------------------------
parseReadiness == Inside("readiness", Flags({"ready"}))
parseArtifactStatus == Flags({"available"})
parseFinding == Named({"finding_id"}, {})
readFindings == Inside("findings", parseFinding)

parseCandidateNode == Named({"id"}, {})
parseOntologySeedBinding == Row({{"term", "ontology_ref"}}, {})
parseOntologySeedGap == Named({"id"}, Flags({"blocks_candidate_graph"}))
parseOntologySeed ==
    Flags({"available"}) \cup parseReadiness \cup Inside("bindings", parseOntologySeedBinding)
      \cup Inside("gaps", parseOntologySeedGap) \cup readFindings
parseRepairAction == Named({"id"}, {})
parseClarificationRequest == Named({"id"}, {})
parseRepairTarget == Named({"request_id"}, {})

parseRealIdeaAnswerTarget == Named({"target_id", "request_id"}, {})
parseRealIdeaAnswerAuthoring ==
    Flags({"available"})
      \cup InsideEach({"template", "report"}, Flags({"available"}) \cup parseReadiness \cup readFindings)
      \cup Inside("template", Inside("targets", parseRealIdeaAnswerTarget))
      \cup Inside("answer_set", Flags({"available"})) \cup Inside("validation", Flags({"ready"}))
      \cup Inside("recommended_actions", KeptRow)
parseRealIdeaAnswerContinuation ==
    Flags({"available", "ready"})
      \cup InsideEach({"import_preview", "continuation_report"},
                  Flags({"available"}) \cup parseReadiness \cup readFindings)
      \cup Inside("recommended_actions", Named({"id"}, {}))
parseAcceptedAnswer == Named({"request_id"}, {})
parseWorkflowRelations == Named({"relation", "source_ref", "target_ref"}, {})
parseIntakeAnswer == Named({"request_id"}, Inside("relations", parseWorkflowRelations))
parseOntologyDecision == Named({"id"}, {})

parseProjectLocalOntologyTerm ==
    Named({"term_key"}, InsideEach({"gap_refs", "resolved_gap_refs", "decisions"}, KeptRow))
parseProjectLocalOntologyReview ==
    Flags({"available"}) \cup parseReadiness \cup readFindings
      \cup Inside("effective_review", Flags({"available", "ready_for_maturity"}) \cup parseReadiness)
      \cup Inside("terms", parseProjectLocalOntologyTerm)
parseProjectLocalOntologyImportDecision ==
    Named({"id"}, Flags({"writes_ontology_package", "accepts_ontology_terms",
                         "applies_to_specgraph"}) \cup Inside("gap_refs", KeptRow))
parseProjectLocalOntologyImportIssue == Named({"id"}, {})
parseProjectLocalOntologyDecisionImportPreview ==
    Flags({"available"}) \cup parseReadiness \cup readFindings
      \cup InsideEach({"accepted_decisions", "non_resolving_decisions", "decision_candidates"},
                  parseProjectLocalOntologyImportDecision)
      \cup InsideEach({"invalid_decisions", "missing_decisions"},
                  parseProjectLocalOntologyImportIssue)

\* Fault: asks for the id under another name than the backend's.
parseRepairSessionStageFault == Named({"stage_id"}, Flags({"ready"}))
parseRepairSessionStage == Named({"stage"}, Flags({"ready"}))
parseRepairSessionBlocker == Named({"id"}, {})
parseRepairSession ==
    Flags({"available"}) \cup parseReadiness \cup readFindings
      \cup Inside("readiness_impact",
              Flags({"ready_for_candidate_approval", "ready_for_platform_promotion",
                     "intermediate_artifacts_ready"}))
      \cup Inside("stages", parseRepairSessionStage)
      \cup Inside("open_blockers", parseRepairSessionBlocker)
      \cup Inside("accepted_answers", parseAcceptedAnswer)
      \cup Inside("ontology_decisions", parseOntologyDecision)

parseProductRepairRerunOperation == Named({"name"}, {})
parseProductRepairRerunOutputArtifact == Named({"key"}, Flags({"present", "ready"}))
readOperations == Inside("operations", parseProductRepairRerunOperation)
readOutputArtifacts == Inside("output_artifacts", parseProductRepairRerunOutputArtifact)
parseRealIdeaIntake ==
    Flags({"available"})
      \cup Inside("clarification_progress", Inside("required_field_findings", parseFinding))
      \cup Inside("answer_template", Flags({"validation_ready"}))
      \cup Inside("continuation_handoff", Flags({"safe_to_continue"}))
      \cup Inside("entry_execution", Flags({"available", "ok", "dry_run"}) \cup readOperations
                                   \cup readOutputArtifacts)
parseResolvedOntologyGap == Named({"gap_id"}, {})
parseStructuralDepthDelta ==
    Flags({"available", "review_only", "canonical_mutations_allowed",
           "materialization_dependency"})
      \cup Inside("added_workflow_relations",
              Row({}, Flags({"review_only", "materialization_dependency"})))
parseIntakeClarification ==
    Flags({"available"})
      \cup InsideEach({"clarification_requests", "clarification_answers", "rerun_input",
                   "clarified_session", "clarified_source", "rerun_report"},
                  Flags({"available"}) \cup parseReadiness)
      \cup Inside("clarification_requests", Inside("requests", parseClarificationRequest))
      \cup Inside("clarification_answers", Inside("answers", parseIntakeAnswer))
      \cup Inside("answer_authoring", parseRealIdeaAnswerAuthoring)
      \cup Inside("answer_continuation", parseRealIdeaAnswerContinuation)

parseProductRepairRerunExecution ==
    Flags({"available", "ok", "dry_run", "follow_up_required"}) \cup readOperations
      \cup readOutputArtifacts
parseProductRepairRerunPublication == Flags({"available", "ok", "dry_run", "manifest_present"})
parseProductRepairRerunPlatformExecution ==
    Flags({"available"}) \cup Inside("execution", parseProductRepairRerunExecution)
      \cup Inside("publication", parseProductRepairRerunPublication)
parseRepairReview ==
    Flags({"available"})
      \cup InsideEach({"clarification_requests", "clarification_answers", "ontology_decisions",
                   "rerun_input", "rerun_preview", "rerun_materialization"},
                  Flags({"available"}) \cup parseReadiness)
      \cup Inside("clarification_requests", Inside("requests", parseClarificationRequest)
                                          \cup Inside("repair_targets", parseRepairTarget))
      \cup Inside("clarification_answers", Inside("accepted_answers", parseAcceptedAnswer))
      \cup Inside("ontology_decisions", Inside("decisions", parseOntologyDecision))
      \cup Inside("rerun_preview", Inside("resolved_gaps", parseResolvedOntologyGap))
      \cup Inside("rerun_materialization",
              Inside("delta", Inside("structural_depth_delta", parseStructuralDepthDelta)))
      \cup Inside("platform_execution", parseProductRepairRerunPlatformExecution)

-----------------------------------------------------------------------------
parseMaterializedFile == Named({"path"}, {})
parsePlatformPromotionRequest == Flags({"available", "ok"})
parseCandidateApprovalDecision == Flags({"available", "ready"})
parseCandidateApprovalExecution ==
    Flags({"available", "ok", "dry_run", "decision_written", "gate_ready"})
      \cup readOperations \cup readOutputArtifacts
parseGitServiceOperation == Named({"name"}, {})
parseGitServiceExecution ==
    Flags({"available", "ok", "dry_run", "open_review_dry_run"})
      \cup Inside("operations", parseGitServiceOperation)
parseProductPromotionExecution ==
    Flags({"available", "ok", "dry_run", "open_review_dry_run", "review_opened",
           "worktree_prepared", "commit_created"})
      \cup readOperations \cup Inside("git_service_operations", parseGitServiceOperation)
parseReviewStatus ==
    Flags({"available", "ok", "review_merged", "review_probe_only"}) \cup readOperations
parseReadModelPublication ==
    Flags({"available", "ok", "dry_run", "published", "read_model_published"})
      \cup readOperations
parsePromotionFinalization ==
    Flags({"available", "ok", "dry_run", "read_model_published"})
      \cup Inside("operations", parseGitServiceOperation)
parseApprovalReadiness ==
    Flags({"available", "candidate_repaired", "ready_for_candidate_approval",
           "ready_for_platform_promotion", "promotion_review_can_be_requested",
           "platform_approval_gate_can_materialize_decision",
           "candidate_approval_decision_ready", "platform_rerun_executed",
           "platform_rerun_published", "repaired_artifacts_published"})

\* The structure depth is there unless its record says otherwise.
parseIdeaMaturityMetrics ==
    Inside("candidate_structure_depth", Flags({"available"}))
      \cup Inside("project_local_ontology_review", Flags({"ready_for_maturity"}))
parseIdeaMaturityFinding == Named({"finding_id"}, {})
parseIdeaMaturityReadinessExplainer == Named({"id"}, {})
parseIdeaMaturityValidationReport == Named({"status"}, {})
parseIdeaMaturity ==
    Flags({"available", "trusted"})
      \cup Inside("report",
              Flags({"available"}) \cup Inside("metrics", parseIdeaMaturityMetrics)
                \cup Inside("findings", parseIdeaMaturityFinding)
                \cup Inside("readiness_explainers", parseIdeaMaturityReadinessExplainer))
      \cup Inside("validation",
              Flags({"available"}) \cup Inside("reports", parseIdeaMaturityValidationReport))

parseWorkflowItem == Named({"id"}, {})
parseWorkflow == Inside("items", parseWorkflowItem)
parseGuidedFlowStage == Named({"id"}, {})
parseGuidedFlowNextAction == Named({"id"}, {})
parseGuidedFlow ==
    Inside("next_actions", parseGuidedFlowNextAction) \cup Inside("stages", parseGuidedFlowStage)

\* Without an overview its phases are made from the guided flow.  A ranking
\* without a usable primary action is not available.
parseProductWorkspaceOverviewPhase == Named({"id"}, {})
parseQualityGuidedAction == Named({"id", "label"}, {})
parseProductWorkspaceOverview ==
    LET primary == Inside("primary_action", parseQualityGuidedAction)
        needed == UNION {a.keys : a \in primary}
    IN Flags({"available"}) \cup parseReadiness
         \cup {[a EXCEPT !.presumed = TRUE] : a \in Inside("phases", parseProductWorkspaceOverviewPhase)}
         \cup Inside("action_ranking", OnKeys(Flags({"available"}), needed) \cup primary
                                     \cup Inside("secondary_actions", parseQualityGuidedAction))

parseManagedOperationRef == Named({"ref"}, Flags({"available", "dynamic"}))
parseManagedOperation ==
    Named({"operation_id"},
          Flags({"dry_run_only", "irreversible", "requires_explicit_confirmation"})
            \cup InsideEach({"input_refs", "output_reports"}, parseManagedOperationRef)
            \cup Inside("hosted_transport", Flags({"available"})
                   \cup Inside("output_reports", Named({"logical_ref", "sha256"}, {}))))
parseManagedOperationsGroup == Named({"phase"}, {})
parseManagedOperationsObservability ==
    Flags({"available"}) \cup Inside("groups", parseManagedOperationsGroup)
      \cup Inside("operations", parseManagedOperation)
parsePromotionReviewConfirmation ==
    Flags({"available", "can_author", "operator_profile_bound"})
      \cup Inside("confirmation", Flags({"available"}))
      \cup Inside("bound_inputs", Named({"logical_ref", "sha256"}, {}))
parseManagedModeReadiness ==
    Flags({"available"})
      \cup Inside("executor", Flags({"enabled", "configured", "platform_dir_configured",
                "platform_cli_present", "hosted_enabled", "hosted_service_configured",
                "hosted_service_reachable"}))
      \cup Inside("state", Flags({"provider_ready", "external_required",
                "specspace_state_dir_configured", "specspace_state_dir_ready",
                "specspace_state_dir_writable", "runs_dir_configured", "runs_dir_ready",
                "runs_dir_writable"}))
      \cup Inside("provider", Presumed({"read_only"}))
      \cup Inside("workspace", Flags({"product_workspace"}))

parseGuidedRepairCheckpoint == Named({"id"}, {})
parseGuidedRepairPath ==
    Flags({"available"}) \cup Inside("checkpoints", parseGuidedRepairCheckpoint)
parseGuidedApprovalCheckpoint == Named({"id"}, {})
parseGuidedApprovalPath ==
    Flags({"available"}) \cup Inside("checkpoints", parseGuidedApprovalCheckpoint)
      \cup Inside("state", Flags({"promotion_request_ok", "read_model_published"}))

-----------------------------------------------------------------------------
parseOverviewItem == Named({"id"}, {})
parseOverviewEdge == Named({"id"}, {})
parseOntologyApplicabilityRecord == Named({"id"}, {})
parseOntologyApplicabilityProfile ==
    Row({{"package_id", "package_ref"}},
        InsideEach({"assumptions", "invalidation_triggers"}, parseOntologyApplicabilityRecord))
parseOntologyApplicabilityChange == Named({"kind", "ref"}, {})
readOntologyApplicability ==
    Flags({"review_only"}) \cup Inside("profiles", parseOntologyApplicabilityProfile)
      \cup Inside("change_classification",
              InsideEach({"structural_changes", "annotation_changes", "applicability_changes"},
                     parseOntologyApplicabilityChange))
parseCandidateOverview ==
    Flags({"available"}) \cup parseReadiness
      \cup Inside("summary", Flags({"ready_for_candidate_approval", "ready_for_platform_promotion"}))
      \cup Inside("event_storming", InsideEach({"actors", "commands", "domain_events", "policies",
                                        "constraints"}, parseOverviewItem))
      \cup Inside("candidate_nodes", Inside("nodes", parseOverviewItem))
      \cup Inside("topology", Inside("edges", parseOverviewEdge))
      \cup Inside("idea_maturity", Flags({"trusted"}))
      \cup Inside("ontology_applicability", readOntologyApplicability)

parseWorkspaceIdentity == Flags({"available", "ready"})
\* The active request is shown with all four of its names.
parseWorkspaceCreation ==
    Inside("active_request", Named({"request_id", "workspace_id", "display_name", "route"},
                               Flags({"root_intent_summary_present"})))
      \cup Inside("initialization",
              Flags({"available", "initialized"}) \cup Presumed({"trusted"})
                \cup Inside("execution_request", Flags({"ready_for_managed_execution"}))
                \cup Inside("execution", Flags({"catalog_written", "workspace_files_created"})))
parseWorkspaceInitializationPath ==
    Flags({"available", "initial_idea_present", "managed_execution_available",
           "initialization_preparation_available"})
parseWorkspaceStateHygieneItem == Named({"kind"}, {})
parseWorkspaceStateRecommendedAction ==
    Named({"id"}, Flags({"requires_current_repair_session", "enabled"}))
parseWorkspaceStateHygiene ==
    Inside("states", parseWorkspaceStateHygieneItem)
      \cup Inside("recommended_actions", parseWorkspaceStateRecommendedAction)

\* The parts parseIdeaToSpecWorkspace reads itself.
readSummary ==
    Flags({"approval_ready", "repair_session_ready_for_candidate_approval",
           "repair_session_ready_for_platform_promotion", "review_merged",
           "read_model_published"})
readCandidateGraph == Flags({"available"}) \cup Inside("nodes", parseCandidateNode)
readPreSib == Flags({"available"}) \cup parseReadiness \cup readFindings
readRepairLoop == Flags({"available"}) \cup parseReadiness \cup Inside("actions", parseRepairAction)
readMaterialization ==
    Flags({"available", "review_contract_trusted"}) \cup parseReadiness
      \cup Inside("files", parseMaterializedFile)
readPromotionGate == Flags({"available"}) \cup parseReadiness \cup readFindings
readControlledPromotion ==
    Flags({"available"})
      \cup Inside("candidate_approval_execution", parseCandidateApprovalExecution)
      \cup Inside("candidate_approval", parseCandidateApprovalDecision)
      \cup Inside("platform_request", parsePlatformPromotionRequest)
      \cup Inside("product_promotion_execution", parseProductPromotionExecution)
      \cup Inside("git_service_execution", parseGitServiceExecution)
      \cup Inside("review_status", parseReviewStatus)
      \cup Inside("read_model_publication", parseReadModelPublication)
      \cup Inside("promotion_finalization", parsePromotionFinalization)
readIdeaToSpecWorkspace ==
    Inside("workspace", parseWorkspaceIdentity)
      \cup Inside("workspace_creation", parseWorkspaceCreation)
      \cup Inside("workspace_initialization_path", parseWorkspaceInitializationPath)
      \cup Inside("product_workspace_overview", parseProductWorkspaceOverview)
      \cup Inside("summary", readSummary)
      \cup Inside("workflow", parseWorkflow)
      \cup Inside("guided_flow", parseGuidedFlow)
      \cup Inside("guided_repair_path", parseGuidedRepairPath)
      \cup Inside("guided_approval_path", parseGuidedApprovalPath)
      \cup Inside("managed_operations_observability", parseManagedOperationsObservability)
      \cup Inside("promotion_review_confirmation", parsePromotionReviewConfirmation)
      \cup Inside("managed_mode_readiness", parseManagedModeReadiness)
      \cup Inside("real_idea_intake", parseRealIdeaIntake)
      \cup Inside("intake", Flags({"available"}))
      \cup Inside("intake_clarification", parseIntakeClarification)
      \cup Inside("candidate_graph", readCandidateGraph)
      \cup Inside("candidate_overview", parseCandidateOverview)
      \cup Inside("ontology_seed", parseOntologySeed)
      \cup Inside("pre_sib", readPreSib)
      \cup Inside("repair_loop", readRepairLoop)
      \cup Inside("repair_session", parseRepairSession)
      \cup Inside("repair_review", parseRepairReview)
      \cup Inside("project_local_ontology_review", parseProjectLocalOntologyReview)
      \cup Inside("project_local_ontology_decision_import_preview",
              parseProjectLocalOntologyDecisionImportPreview)
      \cup Inside("workspace_state_hygiene", parseWorkspaceStateHygiene)
      \cup Inside("idea_maturity", parseIdeaMaturity)
      \cup Inside("approval_readiness", parseApprovalReadiness)
      \cup Inside("materialization", readMaterialization)
      \cup Inside("promotion_gate", readPromotionGate)
      \cup Inside("controlled_promotion", readControlledPromotion)
      \cup Inside("artifacts", Inside("each", parseArtifactStatus))
-----------------------------------------------------------------------------
(* One document after another.  A document differs from the fullest one    *)
(* its reader can get in one respect: something is missing or false, or    *)
(* the rows of one list are written with other fields.                     *)
VARIABLES reader, served, page
reading == <<reader, served, page>>

Readers == {"reader", "operator", "operator of a workspace"}
Places  == [r \in Readers |->
    handle_v1_idea_to_spec_workspace(r # "reader", r = "operator of a workspace")]
AskedFor   == readIdeaToSpecWorkspace
\* Records stand for the places in them; the first action is always written.
Prefixes(path) == {SubSeq(path, 1, i) : i \in 1..Len(path)}
Under(path, outer) == outer \in Prefixes(path)
PrimaryAction == <<"product_workspace_overview", "action_ranking", "primary_action">>
Differences(places) ==
    {[what |-> "none", at |-> <<>>, fields |-> {}]}
      \cup {[what |-> "gone", at |-> p, fields |-> {}] :
               p \in UNION {Prefixes(q.at) : q \in places} \ {PrimaryAction}}
      \cup UNION {{[what |-> "rows", at |-> p.at, fields |-> w] : w \in p.with} : p \in places}

Written == {p.at : p \in {q \in Places[reader] :
                            ~(served.what = "gone" /\ Under(q.at, served.at))}}
FieldsWritten(list) ==
    IF served.what = "rows" /\ served.at = list THEN served.fields
    ELSE UNION UNION {p.with : p \in {q \in Places[reader] : q.at = list}}
\* What the document has of what is asked, and what is presumed of the rest.
Shown ==
    LET written == Written
        has(key) == key[1] \in written /\ key[2] \cap FieldsWritten(key[1]) # {}
        kept == {a \in AskedFor : a.at \in written /\ \A k \in a.keys : has(k)}
        presumed == {a \in AskedFor : a.presumed /\ a.at \notin written
                                    /\ ~(served.what = "gone" /\ served.at = a.at)}
    IN {a.at : a \in kept \cup presumed}

ReadInit == reader \in Readers /\ served = [what |-> "none", at |-> <<>>, fields |-> {}]
              /\ page = "loading"
Serve == /\ page = "loading"
         /\ served' \in Differences(Places[reader])
         /\ page' = "served"
         /\ UNCHANGED reader
Parse == page = "served" /\ page' = "ready" /\ UNCHANGED <<reader, served>>
Reload == /\ page = "ready" /\ page' = "loading"
          /\ served' = [what |-> "none", at |-> <<>>, fields |-> {}]
          /\ UNCHANGED reader
ReadNext == Serve \/ Parse \/ Reload

(* The page shows a fact, or a row, exactly when the backend wrote it: no  *)
(* name drifts between the writer and the hundred parse functions, and no  *)
(* row is written without the field by which the page keeps it.  Shown     *)
(* although not written are what the page presumes of a missing record:    *)
(* a trusted initialization, a read-only provider and phases of its own.   *)
(* A file without a path is counted by the backend and not shown.          *)
PresumedWhenMissing ==
    {<<"workspace_creation", "initialization", "trusted">>,
     <<"managed_mode_readiness", "provider", "read_only">>,
     <<"product_workspace_overview", "phases">>}
Files == <<"materialization", "files">>
ShownIsWritten ==
    page = "ready" =>
        /\ Written \ Shown \subseteq (IF "path" \in FieldsWritten(Files) THEN {} ELSE {Files})
        /\ Shown \ Written \subseteq PresumedWhenMissing
=============================================================================
