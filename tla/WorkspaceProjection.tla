------------------------ MODULE WorkspaceProjection ------------------------
(***************************************************************************)
(* The workspace document as the backend writes it: build_idea_to_spec_    *)
(* workspace and what handle_v1_idea_to_spec_workspace attaches for an     *)
(* operator.  A place of the document is the path of names to it.  Places  *)
(* are facts (a boolean) and lists of rows; the words, counts and          *)
(* references beside them decide nothing here and are left out, as are     *)
(* the boundaries, which StateDocuments has.                               *)
(*                                                                         *)
(* Of a row it matters with which of its naming fields it is written.  The *)
(* artifacts it comes from may lack any of them, and the code leaves the   *)
(* row out, fills the field in or writes the row without it.               *)
(***************************************************************************)
EXTENDS Naturals, Sequences

Facts(names) == {[at |-> <<n>>, rows |-> FALSE, with |-> {}] : n \in names}
In(n, places) == {[p EXCEPT !.at = <<n>> \o @] : p \in places}
InEach(names, places) == UNION {In(n, places) : n \in names}
\* A list whose rows are written with one of the sets of fields in with.
List(n, with, inner) ==
    {[at |-> <<n>>, rows |-> TRUE, with |-> with]} \cup In(n, inner)
Lists(names, with) == UNION {List(n, with, {}) : n \in names}
Always(names) == {names}
OneOf(a, b) == {{a}, {b}, {a, b}}

-----------------------------------------------------------------------------
readiness == In("readiness", Facts({"ready"}))
findings(n) == List(n, Always({"finding_id"}), {})        \* "finding" if it has none
git_service_operations(n) == List(n, Always({"name"}), {})  \* "operation" if none
product_repair_rerun_operations(n) == List(n, Always({"name"}), {})
product_repair_rerun_output_artifacts(n) ==
    List(n, Always({"key"}), Facts({"present", "ready"}))
ontology_decision_rows(n) == List(n, Always({"id"}), {})
accepted_answer_rows(n)   == List(n, Always({"request_id"}), {})
clarification_request_rows(n) == List(n, Always({"id"}), {})

workspace == In("workspace", Facts({"available", "ready"}))
workflow  == In("workflow", List("items", Always({"id"}), {}))

ontology_seed ==
    In("ontology_seed",
       Facts({"available"}) \cup readiness
         \cup List("bindings", {{"term"}, {"term", "ontology_ref"}}, {})
         \cup List("gaps", Always({"id"}), Facts({"blocks_candidate_graph"}))
         \cup findings("findings"))

candidate_nodes == In("candidate_graph", Facts({"available"}) \cup Lists({"nodes"}, Always({"id"})))
repair_actions ==
    In("repair_loop", Facts({"available"}) \cup readiness \cup Lists({"actions"}, Always({"id"})))

overview_items(names) == Lists(names, Always({"id"}))     \* numbered if they have none
overview_ontology_applicability ==
    In("ontology_applicability",
       Facts({"review_only"})
         \cup List("profiles", OneOf("package_id", "package_ref"),
                   Lists({"assumptions", "invalidation_triggers"}, Always({"id"})))
         \cup In("change_classification",
                 Lists({"structural_changes", "annotation_changes", "applicability_changes"},
                       Always({"kind", "ref"}))))
candidate_overview ==
    In("candidate_overview",
       Facts({"available"}) \cup readiness
         \cup In("summary", Facts({"ready_for_candidate_approval", "ready_for_platform_promotion"}))
         \cup In("event_storming", overview_items({"actors", "commands", "domain_events",
                                                   "policies", "constraints"}))
         \cup In("candidate_nodes", overview_items({"nodes"}))
         \cup In("topology", overview_items({"edges"}))
         \cup In("idea_maturity", Facts({"trusted"}))
         \cup overview_ontology_applicability)

real_idea_answer_authoring ==
    In("answer_authoring",
       Facts({"available"})
         \cup In("template", Facts({"available"}) \cup readiness \cup findings("findings")
                               \cup Lists({"targets"}, Always({"target_id", "request_id"})))
         \cup In("report", Facts({"available"}) \cup readiness \cup findings("findings"))
         \cup In("answer_set", Facts({"available"})) \cup In("validation", Facts({"ready"}))
         \cup Lists({"recommended_actions"}, Always({"id"})))
real_idea_answer_continuation ==
    In("answer_continuation",
       Facts({"available", "ready"})
         \cup InEach({"import_preview", "continuation_report"},
                     Facts({"available"}) \cup readiness \cup findings("findings"))
         \cup Lists({"recommended_actions"}, Always({"id"})))
intake_clarification_lane ==
    In("intake_clarification",
       Facts({"available"})
         \cup InEach({"clarification_requests", "clarification_answers", "rerun_input",
                      "clarified_session", "clarified_source", "rerun_report"},
                     Facts({"available"}) \cup readiness)
         \cup In("clarification_requests", clarification_request_rows("requests"))
         \cup In("clarification_answers",
                 List("answers", Always({"request_id"}),
                      Lists({"relations"}, Always({"relation", "source_ref", "target_ref"}))))
         \cup real_idea_answer_authoring \cup real_idea_answer_continuation)
real_idea_intake_projection ==
    In("real_idea_intake",
       Facts({"available"})
         \cup In("clarification_progress", findings("required_field_findings"))
         \cup In("answer_template", Facts({"validation_ready"}))
         \cup In("continuation_handoff", Facts({"safe_to_continue"}))
         \cup In("entry_execution", Facts({"available", "ok", "dry_run"})
                                      \cup product_repair_rerun_operations("operations")
                                      \cup product_repair_rerun_output_artifacts("output_artifacts")))

project_local_ontology_review_lane ==
    In("project_local_ontology_review",
       Facts({"available"}) \cup readiness \cup findings("findings")
         \cup In("effective_review", Facts({"available", "ready_for_maturity"}) \cup readiness)
         \cup List("terms", Always({"id", "term_key"}),
                   Lists({"gap_refs", "resolved_gap_refs", "decisions"}, Always({}))))
import_decision_rows(names) ==
    UNION {List(n, Always({"id"}),
                Facts({"writes_ontology_package", "accepts_ontology_terms", "applies_to_specgraph"})
                  \cup Lists({"gap_refs"}, Always({}))) : n \in names}
project_local_ontology_decision_import_preview ==
    In("project_local_ontology_decision_import_preview",
       Facts({"available"}) \cup readiness \cup findings("findings")
         \cup import_decision_rows({"accepted_decisions", "non_resolving_decisions",
                                    "decision_candidates"})
         \cup Lists({"invalid_decisions", "missing_decisions"}, Always({"id"})))

repair_session ==
    In("repair_session",
       Facts({"available"}) \cup readiness \cup findings("findings")
         \cup In("readiness_impact", Facts({"ready_for_candidate_approval",
                 "ready_for_platform_promotion", "intermediate_artifacts_ready"}))
         \cup List("stages", Always({"stage"}), Facts({"ready"}))
         \cup Lists({"open_blockers"}, Always({"id"}))
         \cup accepted_answer_rows("accepted_answers")
         \cup ontology_decision_rows("ontology_decisions"))
structural_depth_delta ==
    In("structural_depth_delta",
       Facts({"available", "review_only", "canonical_mutations_allowed",
              "materialization_dependency"})
         \cup List("added_workflow_relations", Always({"relation", "source_ref", "target_ref"}),
                   Facts({"review_only", "materialization_dependency"})))
product_repair_rerun_execution_lane ==
    In("platform_execution",
       Facts({"available"})
         \cup In("execution", Facts({"available", "ok", "dry_run", "follow_up_required"})
                                \cup product_repair_rerun_operations("operations")
                                \cup product_repair_rerun_output_artifacts("output_artifacts"))
         \cup In("publication", Facts({"available", "ok", "dry_run", "manifest_present"})))
repair_review_lane ==
    In("repair_review",
       Facts({"available"})
         \cup InEach({"clarification_requests", "clarification_answers", "ontology_decisions",
                      "rerun_input", "rerun_preview", "rerun_materialization"},
                     Facts({"available"}) \cup readiness)
         \cup In("clarification_requests", clarification_request_rows("requests")
                                             \cup Lists({"repair_targets"}, Always({"request_id"})))
         \cup In("clarification_answers", accepted_answer_rows("accepted_answers"))
         \cup In("ontology_decisions", ontology_decision_rows("decisions"))
         \cup In("rerun_preview", Lists({"resolved_gaps"}, Always({"gap_id"})))
         \cup In("rerun_materialization", In("delta", structural_depth_delta))
         \cup product_repair_rerun_execution_lane)

idea_maturity ==
    In("idea_maturity",
       Facts({"available", "trusted"})
         \cup In("report", Facts({"available"})
                   \cup Lists({"findings"}, Always({"finding_id"}))
                   \cup Lists({"readiness_explainers"}, Always({"id"}))
                   \cup In("metrics", In("candidate_structure_depth", Facts({"available"}))
                          \cup In("project_local_ontology_review", Facts({"ready_for_maturity"}))))
         \cup In("validation", Facts({"available"}) \cup Lists({"reports"}, Always({"status"}))))
approval_readiness ==
    In("approval_readiness",
       Facts({"available", "candidate_repaired", "ready_for_candidate_approval",
              "ready_for_platform_promotion", "promotion_review_can_be_requested",
              "platform_approval_gate_can_materialize_decision",
              "candidate_approval_decision_ready", "platform_rerun_executed",
              "platform_rerun_published", "repaired_artifacts_published"}))
materialized_files ==
    In("materialization", Facts({"available", "review_contract_trusted"}) \cup readiness
                            \cup Lists({"files"}, {{"path"}, {}}))       \* kept without a path
promotion_gate ==
    In("promotion_gate", Facts({"available"}) \cup readiness \cup findings("findings"))

candidate_approval_execution ==
    Facts({"available", "ok", "dry_run", "decision_written", "gate_ready"})
      \cup product_repair_rerun_operations("operations")
      \cup product_repair_rerun_output_artifacts("output_artifacts")
git_service_execution ==
    Facts({"available", "ok", "dry_run", "open_review_dry_run"})
      \cup git_service_operations("operations")
product_promotion_execution ==
    Facts({"available", "ok", "dry_run", "open_review_dry_run", "review_opened",
           "worktree_prepared", "commit_created"})
      \cup product_repair_rerun_operations("operations")
      \cup git_service_operations("git_service_operations")
review_status ==
    Facts({"available", "ok", "review_merged", "review_probe_only"})
      \cup product_repair_rerun_operations("operations")
read_model_publication ==
    Facts({"available", "ok", "dry_run", "published", "read_model_published"})
      \cup product_repair_rerun_operations("operations")
promotion_finalization ==
    Facts({"available", "ok", "dry_run", "read_model_published"})
      \cup git_service_operations("operations")
controlled_promotion ==
    In("controlled_promotion",
       Facts({"available"})
         \cup In("candidate_approval_execution", candidate_approval_execution)
         \cup In("candidate_approval", Facts({"available", "ready"}))
         \cup In("platform_request", Facts({"available", "ok"}))
         \cup In("product_promotion_execution", product_promotion_execution)
         \cup In("git_service_execution", git_service_execution)
         \cup In("review_status", review_status)
         \cup In("read_model_publication", read_model_publication)
         \cup In("promotion_finalization", promotion_finalization))

\* attach_guided_flow: the guides and the operations, made from the rest.
guided_repair_path ==
    In("guided_repair_path", Facts({"available"}) \cup Lists({"checkpoints"}, Always({"id"})))
guided_approval_path ==
    In("guided_approval_path",
       Facts({"available"}) \cup Lists({"checkpoints"}, Always({"id"}))
         \cup In("state", Facts({"promotion_request_ok", "read_model_published"})))
guided_flow == In("guided_flow", Lists({"next_actions", "stages"}, Always({"id"})))
managed_operations_observability ==
    LET refs(n) == List(n, Always({"ref"}), Facts({"available", "dynamic"}))
    IN In("managed_operations_observability",
          Facts({"available"}) \cup Lists({"groups"}, Always({"phase"}))
            \cup List("operations", Always({"operation_id"}),
                   Facts({"dry_run_only", "irreversible", "requires_explicit_confirmation"})
                     \cup refs("input_refs") \cup refs("output_reports")
                     \cup In("hosted_transport", Facts({"available"})
                            \cup Lists({"output_reports"}, Always({"logical_ref", "sha256"})))))
quality_guided_action_ranking ==
    In("action_ranking",
       Facts({"available"})
         \cup Lists({"primary_action", "secondary_actions"}, Always({"id", "label"})))
product_workspace_overview ==
    In("product_workspace_overview",
       Facts({"available"}) \cup readiness \cup quality_guided_action_ranking
         \cup Lists({"phases"}, Always({"id"})))

build_idea_to_spec_workspace ==
    workspace \cup workflow \cup ontology_seed \cup candidate_nodes \cup candidate_overview
      \cup repair_actions \cup intake_clarification_lane \cup real_idea_intake_projection
      \cup project_local_ontology_review_lane \cup project_local_ontology_decision_import_preview
      \cup repair_session \cup repair_review_lane \cup idea_maturity \cup approval_readiness
      \cup materialized_files \cup promotion_gate \cup controlled_promotion
      \cup In("artifacts", In("each", Facts({"available"})))       \* one stands for all
      \cup In("intake", Facts({"available"}))
      \cup In("pre_sib", Facts({"available"}) \cup readiness \cup findings("findings"))
      \cup In("summary", Facts({"approval_ready", "repair_session_ready_for_candidate_approval",
              "repair_session_ready_for_platform_promotion", "review_merged",
              "read_model_published"}))
attach_guided_flow ==
    guided_repair_path \cup guided_approval_path \cup guided_flow
      \cup managed_operations_observability \cup product_workspace_overview

-----------------------------------------------------------------------------
\* What the handler attaches.
workspace_creation ==
    In("workspace_creation",
       Lists({"active_request"}, Always({"request_id", "workspace_id", "display_name", "route"}))
         \cup In("active_request", Facts({"root_intent_summary_present"}))
         \cup In("initialization", Facts({"available", "trusted", "initialized"})
                \cup In("execution_request", Facts({"ready_for_managed_execution"}))
                \cup In("execution", Facts({"catalog_written", "workspace_files_created"}))))
workspace_initialization_path ==
    In("workspace_initialization_path",
       Facts({"available", "initial_idea_present", "managed_execution_available",
              "initialization_preparation_available"}))
promotion_review_confirmation ==
    In("promotion_review_confirmation",
       Facts({"available", "can_author", "operator_profile_bound"})
         \cup In("confirmation", Facts({"available"}))
         \cup Lists({"bound_inputs"}, Always({"logical_ref", "sha256"})))
managed_mode_readiness ==
    In("managed_mode_readiness",
       Facts({"available"})
         \cup In("executor", Facts({"enabled", "configured", "platform_dir_configured",
                "platform_cli_present", "hosted_enabled", "hosted_service_configured",
                "hosted_service_reachable"}))
         \cup In("state", Facts({"provider_ready", "external_required",
                "specspace_state_dir_configured", "specspace_state_dir_ready",
                "specspace_state_dir_writable", "runs_dir_configured", "runs_dir_ready",
                "runs_dir_writable"}))
         \cup In("provider", Facts({"read_only"})) \cup In("workspace", Facts({"product_workspace"})))
anonymous_managed_mode_readiness ==
    In("managed_mode_readiness",
       Facts({"available"}) \cup In("provider", Facts({"read_only"}))
         \cup In("workspace", Facts({"product_workspace"})))
build_hygiene ==
    In("workspace_state_hygiene",
       Lists({"states"}, Always({"kind"}))
         \cup List("recommended_actions", Always({"id"}),
                   Facts({"requires_current_repair_session", "enabled"})))

(* A reader gets the projection and whether operations are managed; an     *)
(* operator also the state, and of a selected workspace how it came to be. *)
handle_v1_idea_to_spec_workspace(operator, selected) ==
    build_idea_to_spec_workspace \cup attach_guided_flow
      \cup (IF operator
             THEN managed_mode_readiness \cup build_hygiene \cup promotion_review_confirmation
             ELSE anonymous_managed_mode_readiness)
      \cup (IF operator /\ selected THEN workspace_creation \cup workspace_initialization_path
                                    ELSE {})
=============================================================================
