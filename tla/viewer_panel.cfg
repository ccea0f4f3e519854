INIT Init
NEXT Next
CONSTANTS
  Docs <- MCDocs
  Hashes <- MCHashes
  Workspaces = {"A", "B"}
  Refs = {"none", "legacy", "A", "B"}
  MaxClicks = 2
  Questions <- MCQuestions
  GraphDocs <- MCGraphs
  GapFilters = {"all", "input"}
  EdgeDetails = {"hierarchy", "full"}
  HistoryLimit = 2
  InspectedSpecs = {"x", "y"}
  MaxAsked <- MCMaxAsked
  MaxOnTheWay = 2
  IndexAnswers <- MCIndexes
  SpecNodeIds = {"a"}
  SpecEdgeIds = {"e"}
  PanelsOpened = {"idea-to-spec", "proposals", "metrics", "agent-context", "agent-conversation"}
  MaxItems = 1
  StoredIds = {1, 9}
  PromptSeeds = {"m"}
  MaxConversations = 2
  MaxMessages = 3
  Starts <- MCStarts
  SentItems <- MCSentItems
  MaxRecords = 2
  MaxSends = 2
  MaxSwitches = 2
  StatusOf <- MCStatusOf
  ForestNodes = 7
  GraphNodes = 4
  MaxGraphEdges = 3
  DrawnNodes <- MCDrawnNodes
  DragPlaces <- MCDragPlaces
  StoredPresets = {"refinement-ladder", "odd"}
INVARIANTS
    LinkLands
    ReadOnlyWritesNothing
    AnswersStayHome
    OneInFlight
    SavedIsTaken
    ShownIsWritten
    InspectorTruth
    InspectorKeepsUp
    PanelShowsWhatWasAsked
    TranscriptIsRecord
    RecordReadsBack
    LayoutIsReadable
    CanvasAtRest
