---------------------------- MODULE UtilityPanels ----------------------------
(***************************************************************************)
(* The rail of the viewer page: which panel is open, about what, and the   *)
(* context the operator gathers for the agent.                             *)
(*                                                                         *)
(* A click comes from the toolbar, from a badge of the canvas, from an     *)
(* inspector or from the open panel.  The effects of a click run before    *)
(* the next one.  The wizard of a new workspace lies over everything else. *)
(*                                                                         *)
(* Left out: the inside of panels that keep nothing, and the time line.    *)
(***************************************************************************)
EXTENDS Naturals, FiniteSets

CONSTANTS IndexAnswers,   \* an answer |-> its proposals and its metrics: id |-> what they refer to
          SpecNodeIds, SpecEdgeIds,
          PanelsOpened,   \* Bound: the panels a user opens
          MaxItems        \* Bound: the items of the draft

Nothing == "nothing"

GraphPanels == {"recent", "work", "proposals", "metrics", "agents", "agent-context",
                "agent-conversation", "proposal-trace", "registry"}
SharedPanels == {"idea-to-spec", "ontology-workbench", "practical-ontology", "ontology-review",
                 "ontology-compliance", "ontology-owner-decisions", "artifacts"}

VARIABLES
    productWorkspace,           \* the page is that of a product workspace
    sidebarOpen, activeUtilityPanel, utilityPanelExpanded,
    proposalContextFilter, metricsContextFilter,
    agentConversationPromptSeed,
    agentContextDraft,          \* the keys of its items
    indexState,                 \* the answer both indexes show
    chosenSpec,                 \* the selected node or edge
    ownFilters, selectedProposalKey, \* the state of the open panel
    workspaceWizard,            \* closed, open or pending, and whether it shows an error
    openedFor                   \* history: what the click that opened the panel was about

panelState == <<activeUtilityPanel, utilityPanelExpanded, ownFilters, selectedProposalKey>>
contextFilters == <<proposalContextFilter, metricsContextFilter, agentConversationPromptSeed>>
railVars == <<productWorkspace, sidebarOpen, panelState, contextFilters, agentContextDraft,
              indexState, chosenSpec, workspaceWizard, openedFor>>

Unfiltered == [kind |-> "all", id |-> Nothing]
About(kind, id) == [kind |-> kind, id |-> id]
WizardClosed == [at |-> "closed", failed |-> FALSE]
railPage == <<productWorkspace, sidebarOpen, workspaceWizard>>

RailInit ==
    /\ productWorkspace \in BOOLEAN
    /\ sidebarOpen = productWorkspace
    /\ activeUtilityPanel = IF productWorkspace THEN "idea-to-spec" ELSE Nothing
    /\ utilityPanelExpanded = productWorkspace
    /\ proposalContextFilter = Unfiltered /\ metricsContextFilter = Unfiltered
    /\ agentConversationPromptSeed = Unfiltered
    /\ agentContextDraft = {}
    /\ indexState = Nothing /\ chosenSpec = Nothing
    /\ ownFilters = FALSE /\ selectedProposalKey = Nothing
    /\ workspaceWizard = WizardClosed /\ openedFor = Unfiltered

-----------------------------------------------------------------------------
(* What the indexes say of a node or an edge.                              *)
Entries(kind) == IF indexState = Nothing THEN {} ELSE DOMAIN IndexAnswers[indexState][kind]
Refers(kind, entry) == IndexAnswers[indexState][kind][entry]

\* The badges of the canvas.
buildSpecGraphCanvasOverlays(kind, id) ==
    Cardinality({entry \in Entries(kind) : id \in Refers(kind, entry)})

filterProposalEntriesByContext ==
    {entry \in Entries("proposals") : \/ proposalContextFilter = Unfiltered
                                      \/ proposalContextFilter.id \in Refers("proposals", entry)}
filterMetricsEntriesByContext ==
    {entry \in Entries("metrics") : \/ metricsContextFilter = Unfiltered
                                    \/ metricsContextFilter.id \in Refers("metrics", entry)}
\* The rows of the two lists; a list has filters of its own besides.
ProposalViewerPanel == IF activeUtilityPanel = "proposals" THEN filterProposalEntriesByContext ELSE {}
MetricsViewerPanel == IF activeUtilityPanel = "metrics" THEN filterMetricsEntriesByContext ELSE {}
\* A proposal that is opened stays open whatever the filters.
selectedProposal == IF selectedProposalKey \in Entries("proposals") THEN selectedProposalKey ELSE Nothing

-----------------------------------------------------------------------------
(* The draft of the agent's context.                                       *)
\* An item that is there already is kept as it was taken.
addAgentContextItem(key) == agentContextDraft \cup {key}
removeAgentContextItem(key) == agentContextDraft \ {key}

agentContextItemKey(kind, id) == <<kind, id>>

-----------------------------------------------------------------------------
NoOverlay == workspaceWizard.at = "closed"   \* nothing lies over the page

\* A product workspace opens its own panel wide.
WideAtFirst(panel) == productWorkspace /\ panel = "idea-to-spec"
\* Another panel comes without the state of the last, and with its own size.
OpenRail(panel, about) ==
    /\ activeUtilityPanel' = panel /\ openedFor' = about
    /\ IF panel = activeUtilityPanel
       THEN UNCHANGED <<utilityPanelExpanded, ownFilters, selectedProposalKey>>
       ELSE /\ utilityPanelExpanded' = WideAtFirst(panel)
            /\ ownFilters' = FALSE /\ selectedProposalKey' = Nothing

\* Fault: a panel opened from the toolbar keeps the filter of a badge.
toggleUtilityPanelFault(panel) ==
    /\ OpenRail(IF panel = activeUtilityPanel THEN Nothing ELSE panel, Unfiltered)
    /\ UNCHANGED <<contextFilters, agentContextDraft, indexState, chosenSpec, railPage>>
toggleUtilityPanel(panel) ==
    /\ OpenRail(IF panel = activeUtilityPanel THEN Nothing ELSE panel, Unfiltered)
    /\ proposalContextFilter' = IF panel = "proposals" THEN Unfiltered ELSE proposalContextFilter
    /\ metricsContextFilter' = IF panel = "metrics" THEN Unfiltered ELSE metricsContextFilter
    /\ agentConversationPromptSeed' = IF panel = "agent-conversation" THEN Unfiltered
                                      ELSE agentConversationPromptSeed
    /\ UNCHANGED <<agentContextDraft, indexState, chosenSpec, railPage>>
UtilityToolbar ==
    /\ NoOverlay /\ sidebarOpen
    /\ \E panel \in PanelsOpened \cap (SharedPanels \cup IF productWorkspace THEN {} ELSE GraphPanels) :
          toggleUtilityPanel(panel)

closeUtilityPanel ==
    /\ NoOverlay /\ activeUtilityPanel # Nothing
    /\ OpenRail(Nothing, Unfiltered)
    /\ agentConversationPromptSeed' = Unfiltered
    /\ UNCHANGED <<proposalContextFilter, metricsContextFilter, agentContextDraft, indexState,
                   chosenSpec, railPage>>

\* A badge of a node; it selects the node.
openNodeOverlayPanel(kind, id) ==
    /\ NoOverlay /\ buildSpecGraphCanvasOverlays(kind, id) > 0
    /\ chosenSpec' = id
    /\ OpenRail(kind, About("node", id))
    /\ proposalContextFilter' = IF kind = "proposals" THEN About("node", id) ELSE Unfiltered
    /\ metricsContextFilter' = IF kind = "metrics" THEN About("node", id) ELSE Unfiltered
    /\ UNCHANGED <<agentConversationPromptSeed, agentContextDraft, indexState, railPage>>
\* Proposals do not name edges.
openEdgeOverlayPanel(id) ==
    /\ NoOverlay /\ buildSpecGraphCanvasOverlays("metrics", id) > 0
    /\ chosenSpec' = id
    /\ OpenRail("metrics", About("edge", id))
    /\ metricsContextFilter' = About("edge", id) /\ proposalContextFilter' = Unfiltered
    /\ UNCHANGED <<agentConversationPromptSeed, agentContextDraft, indexState, railPage>>

ContextFilterNotice ==
    /\ NoOverlay /\ openedFor' = Unfiltered
    /\ \/ /\ activeUtilityPanel = "proposals" /\ proposalContextFilter # Unfiltered
          /\ proposalContextFilter' = Unfiltered /\ UNCHANGED metricsContextFilter
       \/ /\ activeUtilityPanel = "metrics" /\ metricsContextFilter # Unfiltered
          /\ metricsContextFilter' = Unfiltered /\ UNCHANGED proposalContextFilter
    /\ UNCHANGED <<panelState, agentConversationPromptSeed, agentContextDraft, indexState,
                   chosenSpec, railPage>>

-----------------------------------------------------------------------------
(* Inside a panel.                                                         *)
InPanel == UNCHANGED <<activeUtilityPanel, utilityPanelExpanded, contextFilters, openedFor, railPage>>

FilterSelect ==
    /\ NoOverlay /\ activeUtilityPanel \in {"proposals", "metrics"} /\ indexState # Nothing
    /\ ownFilters' = ~ownFilters
    /\ InPanel /\ UNCHANGED <<selectedProposalKey, agentContextDraft, indexState, chosenSpec>>
\* The panel's own filters may hide any of the proposals.
ProposalRow(entry) ==
    /\ NoOverlay /\ entry \in ProposalViewerPanel
    /\ selectedProposalKey' = entry
    /\ InPanel /\ UNCHANGED <<ownFilters, agentContextDraft, indexState, chosenSpec>>
ProposalDetailClose ==
    /\ NoOverlay /\ activeUtilityPanel = "proposals" /\ selectedProposal # Nothing
    /\ selectedProposalKey' = Nothing
    /\ InPanel /\ UNCHANGED <<ownFilters, agentContextDraft, indexState, chosenSpec>>

Room(key) == Cardinality(agentContextDraft \cup {key}) <= MaxItems
AddToAgentContext(key) ==
    /\ Room(key) /\ agentContextDraft' = addAgentContextItem(key)
    /\ InPanel /\ UNCHANGED <<ownFilters, selectedProposalKey, indexState, chosenSpec>>
StartConversation(key) ==
    /\ Room(key) /\ agentContextDraft' = addAgentContextItem(key)
    /\ agentConversationPromptSeed' = About(key[1], key[2])
    /\ OpenRail("agent-conversation", About(key[1], key[2]))
    /\ UNCHANGED <<proposalContextFilter, metricsContextFilter, indexState, chosenSpec, railPage>>

\* What offers to add itself and to start a conversation: the proposal whose
\* details are open, a metric of the list, the Markdown of the inspected node.
OffersItself ==
    {agentContextItemKey("proposal", p) :
        p \in IF activeUtilityPanel = "proposals" THEN {selectedProposal} \ {Nothing} ELSE {}}
    \cup {agentContextItemKey("metric", q) :q \in MetricsViewerPanel}
    \cup {agentContextItemKey("spec_markdown", n) : n \in {chosenSpec} \cap SpecNodeIds}
ContextActions ==
    NoOverlay /\ \E key \in OffersItself : AddToAgentContext(key) \/ StartConversation(key)

AgentContextPanel == NoOverlay /\ activeUtilityPanel = "agent-context"
\* The panel of the context adds what is selected, and removes it again.
ToggleItem(key) ==
    /\ Room(key)
    /\ agentContextDraft' = IF key \in agentContextDraft THEN removeAgentContextItem(key)
                            ELSE addAgentContextItem(key)
    /\ InPanel /\ UNCHANGED <<ownFilters, selectedProposalKey, indexState, chosenSpec>>
addSelectedSpecToAgentContext ==
    /\ AgentContextPanel
    /\ chosenSpec \in SpecNodeIds /\ ToggleItem(agentContextItemKey("spec_node", chosenSpec))
addSelectedEdgeToAgentContext ==
    /\ AgentContextPanel
    /\ chosenSpec \in SpecEdgeIds /\ ToggleItem(agentContextItemKey("spec_edge", chosenSpec))
\* A gap the node has, and the edge's own inspector, which only adds.
addSelectedGapToAgentContext ==
    /\ AgentContextPanel
    /\ chosenSpec \in SpecNodeIds /\ ToggleItem(agentContextItemKey("spec_gap", chosenSpec))
EdgeInspectorAdd ==
    /\ NoOverlay /\ chosenSpec \in SpecEdgeIds
    /\ AddToAgentContext(agentContextItemKey("spec_edge", chosenSpec))

removeAgentContextItemByKey(key) ==
    /\ NoOverlay /\ activeUtilityPanel \in {"agent-context", "agent-conversation"}
    /\ agentContextDraft' = removeAgentContextItem(key)
    /\ InPanel /\ UNCHANGED <<ownFilters, selectedProposalKey, indexState, chosenSpec>>
clearAgentContext ==
    /\ AgentContextPanel /\ agentContextDraft # {}
    /\ agentContextDraft' = {}
    /\ InPanel /\ UNCHANGED <<ownFilters, selectedProposalKey, indexState, chosenSpec>>
OpenConversation ==
    /\ AgentContextPanel
    /\ agentConversationPromptSeed' = Unfiltered
    /\ OpenRail("agent-conversation", Unfiltered)
    /\ UNCHANGED <<proposalContextFilter, metricsContextFilter, agentContextDraft, indexState,
                   chosenSpec, railPage>>

-----------------------------------------------------------------------------
(* The page around the rail.                                               *)
Rail == UNCHANGED <<panelState, contextFilters, agentContextDraft, openedFor>>

ChooseSpec(id) ==
    /\ NoOverlay /\ id # chosenSpec /\ chosenSpec' = id
    /\ Rail /\ UNCHANGED <<railPage, indexState>>
\* A refresh; a failed one leaves the panels and the badges without entries.
IndexRefreshed(answer) ==
    /\ indexState' = answer
    /\ Rail /\ UNCHANGED <<railPage, chosenSpec>>

onSidebarToggle ==
    /\ NoOverlay /\ sidebarOpen' = ~sidebarOpen
    /\ Rail /\ UNCHANGED <<productWorkspace, workspaceWizard, indexState, chosenSpec>>
\* By its button, and by the key that makes it small again.
onToggleExpanded ==
    /\ NoOverlay /\ activeUtilityPanel # Nothing
    /\ utilityPanelExpanded' = ~utilityPanelExpanded
    /\ UNCHANGED <<activeUtilityPanel, ownFilters, selectedProposalKey, contextFilters,
                   agentContextDraft, openedFor, railPage, indexState, chosenSpec>>

Wizard(w) ==
    /\ workspaceWizard' = w
    /\ Rail /\ UNCHANGED <<productWorkspace, sidebarOpen, indexState, chosenSpec>>
WorkspaceLauncher == NoOverlay /\ sidebarOpen /\ Wizard([at |-> "open", failed |-> FALSE])
closeNewWorkspaceWizard == workspaceWizard.at = "open" /\ Wizard(WizardClosed)
NewWorkspaceSubmit == workspaceWizard.at = "open" /\ Wizard([at |-> "pending", failed |-> FALSE])
\* A saved request takes the browser to its workspace: another page.
NewWorkspaceRefused == workspaceWizard.at = "pending" /\ Wizard([at |-> "open", failed |-> TRUE])

RailStep ==
    \/ UtilityToolbar \/ closeUtilityPanel \/ ContextFilterNotice \/ FilterSelect
    \/ \E kind \in {"proposals", "metrics"}, id \in SpecNodeIds : openNodeOverlayPanel(kind, id)
    \/ \E id \in SpecEdgeIds : openEdgeOverlayPanel(id)
    \/ \E entry \in Entries("proposals") : ProposalRow(entry)
    \/ ProposalDetailClose \/ ContextActions
    \/ addSelectedSpecToAgentContext \/ addSelectedEdgeToAgentContext
    \/ addSelectedGapToAgentContext \/ EdgeInspectorAdd
    \/ \E key \in agentContextDraft : removeAgentContextItemByKey(key)
    \/ clearAgentContext \/ OpenConversation
    \/ \E id \in SpecNodeIds \cup SpecEdgeIds \cup {Nothing} : ChooseSpec(id)
    \/ \E answer \in DOMAIN IndexAnswers \cup {Nothing} : IndexRefreshed(answer)
    \/ onSidebarToggle \/ onToggleExpanded
    \/ WorkspaceLauncher \/ closeNewWorkspaceWizard \/ NewWorkspaceSubmit \/ NewWorkspaceRefused
RailSpec == RailInit /\ [][RailStep]_railVars

-----------------------------------------------------------------------------
(* A panel is about what the click that opened it asked for: the list a    *)
(* badge opens has as many entries as the badge counts, a panel opened     *)
(* from the toolbar shows everything, and a conversation starts from the   *)
(* prompt of what it was started from, or from none.                       *)
PanelShowsWhatWasAsked ==
    /\ activeUtilityPanel = "proposals" =>
          /\ proposalContextFilter = openedFor
          /\ Cardinality(filterProposalEntriesByContext) =
                IF openedFor = Unfiltered THEN Cardinality(Entries("proposals"))
                ELSE buildSpecGraphCanvasOverlays("proposals", openedFor.id)
    /\ activeUtilityPanel = "metrics" =>
          /\ metricsContextFilter = openedFor
          /\ Cardinality(filterMetricsEntriesByContext) =
                IF openedFor = Unfiltered THEN Cardinality(Entries("metrics"))
                ELSE buildSpecGraphCanvasOverlays("metrics", openedFor.id)
    /\ activeUtilityPanel = "agent-conversation" => agentConversationPromptSeed = openedFor
=============================================================================
