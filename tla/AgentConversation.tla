-------------------------- MODULE AgentConversation --------------------------
(***************************************************************************)
(* The conversation panel and the local runtime behind it.  The runtime    *)
(* lives as long as the page; the panel comes and goes with its state.  A  *)
(* conversation is local, and then it can be continued, or one of the      *)
(* Workbench's store, and then it can only be read.  A stored conversation *)
(* of an earlier session may have the id the runtime gives out again.      *)
(*                                                                         *)
(* The runtime answers before anybody can click; the store answers later,  *)
(* or fails.  An answer to a panel that is gone changes nothing.  The      *)
(* effects of a step run before the next.                                  *)
(*                                                                         *)
(* Left out: the words, the titles and the parts of an agent's turn, which *)
(* follow from the message and its context.                                *)
(***************************************************************************)
EXTENDS Naturals, Sequences, FiniteSets

CONSTANTS StoredIds,        \* the conversations of the store; local ones are 1, 2, ...
          PromptSeeds,      \* the sources a conversation may be started from
          MaxConversations, \* Bound: the local conversations of a session
          MaxMessages       \* Bound: the messages of a session

NoRef == 0
NoSeed == "none"
ContextItems == PromptSeeds   \* what a conversation is started from is an item of the draft

VARIABLES
    panelOpen,             \* the panel is the one of the rail
    promptSeed,            \* of the page: what the conversation is started from
    draftItems,            \* of the page: the draft of the agent's context
    chat,                  \* the state of the panel
    storeIndexState,       \* of the panel: the list of the store
    conversations          \* of the runtime: the messages of each conversation

talking == <<panelOpen, promptSeed, draftItems, chat, storeIndexState, conversations>>
runtimeIds == DOMAIN conversations

NotStored == [kind |-> "idle", id |-> NoRef]
Stored(kind, id) == [kind |-> kind, id |-> id]
\* The turns of a stored conversation are not of this session.
projectAgentConversationArtifactToProjection(id) == <<[text |-> "stored", context |-> {id}]>>

Prompt(seed) == IF seed = NoSeed THEN "default" ELSE seed
FreshChat(seed) == [conversation |-> NoRef, turns |-> <<>>, prompt |-> Prompt(seed),
                    status |-> "idle", stored |-> NotStored]

isBusy(c) == c.status \in {"starting", "streaming"}
isReadonlyStoredConversation(c) == c.stored.kind = "ok" /\ c.conversation = c.stored.id

TalkInit ==
    /\ panelOpen = FALSE /\ promptSeed = NoSeed /\ draftItems = {}
    /\ chat = FreshChat(NoSeed) /\ storeIndexState = "loading" /\ conversations = <<>>

-----------------------------------------------------------------------------
\* The effect of the seed: a panel without a conversation takes its prompt,
\* whenever the seed is set, the conversation is left or the panel stops
\* being busy.
WithSeed(c, seed, seedSet) ==
    IF /\ seed # NoSeed /\ c.conversation = NoRef /\ ~isBusy(c)
       /\ seedSet \/ c.conversation # chat.conversation \/ isBusy(chat)
    THEN [c EXCEPT !.prompt = seed] ELSE c
Becomes(c) ==
    /\ chat' = WithSeed(c, promptSeed, FALSE)
    /\ UNCHANGED <<panelOpen, promptSeed, draftItems, storeIndexState>>

(* The page.                                                               *)
OpenPanel(seed) ==
    /\ ~panelOpen /\ panelOpen' = TRUE /\ promptSeed' = seed
    /\ draftItems' = draftItems \cup ({seed} \ {NoSeed})
    /\ chat' = FreshChat(seed) /\ storeIndexState' = "loading"
    /\ UNCHANGED conversations
ClosePanel ==
    /\ panelOpen /\ panelOpen' = FALSE
    /\ chat' = FreshChat(NoSeed) /\ storeIndexState' = "loading" /\ promptSeed' = NoSeed
    /\ UNCHANGED <<draftItems, conversations>>
\* The inspector starts a conversation while the panel is open.
startConversationFromSpecMarkdown(seed) ==
    /\ panelOpen /\ promptSeed' = seed
    /\ draftItems' = draftItems \cup {seed}
    /\ chat' = WithSeed(chat, seed, TRUE)
    /\ UNCHANGED <<panelOpen, storeIndexState, conversations>>
onRemoveContextItem(item) ==
    /\ item \in draftItems /\ draftItems' = draftItems \ {item}
    /\ UNCHANGED <<panelOpen, promptSeed, chat, storeIndexState, conversations>>

-----------------------------------------------------------------------------
(* The panel.                                                              *)
Composer == panelOpen /\ ~isBusy(chat) /\ ~isReadonlyStoredConversation(chat)
TypePrompt ==
    /\ Composer
    /\ \E typed \in {"typed", ""} : Becomes([chat EXCEPT !.prompt = typed])
    /\ UNCHANGED conversations

Message == [text |-> chat.prompt, context |-> draftItems]
\* The message goes to the conversation, or starts one.
handleSubmit ==
    /\ Composer /\ chat.prompt # ""
    /\ Cardinality(UNION {{n} \X DOMAIN conversations[n] : n \in runtimeIds}) < MaxMessages
    /\ IF chat.conversation = NoRef
       THEN /\ Len(conversations) < MaxConversations
            /\ conversations' = Append(conversations, <<Message>>)
            /\ Becomes([conversation |-> Len(conversations) + 1, turns |-> <<Message>>,
                        prompt |-> "", status |-> "active", stored |-> NotStored])
       ELSE /\ conversations' = [conversations EXCEPT ![chat.conversation] = Append(@, Message)]
            /\ Becomes([conversation |-> chat.conversation, turns |-> Append(chat.turns, Message),
                        prompt |-> "", status |-> "active", stored |-> chat.stored])

handleStartFresh ==
    /\ panelOpen /\ ~isBusy(chat)
    /\ Becomes(FreshChat(promptSeed))
    /\ UNCHANGED conversations

\* The list of the runtime's conversations; the one in hand is known by its id
\* alone.
ConversationHistory == {id \in runtimeIds : id # chat.conversation}

\* Fault: the stored conversation is not put away.
handleResumeConversationFault(id) ==
    /\ panelOpen /\ ~isBusy(chat) /\ id \in ConversationHistory
    /\ Becomes([conversation |-> id, turns |-> conversations[id], prompt |-> "default",
                status |-> "active", stored |-> chat.stored])
    /\ UNCHANGED conversations
handleResumeConversation(id) ==
    /\ panelOpen /\ ~isBusy(chat) /\ id \in ConversationHistory
    /\ Becomes([conversation |-> id, turns |-> conversations[id], prompt |-> "default",
                status |-> "active", stored |-> NotStored])
    /\ UNCHANGED conversations

StoredConversationIndex(kind) ==
    /\ panelOpen
    /\ \/ storeIndexState = "loading" /\ kind \in {"ok", "error"}
       \/ storeIndexState # "loading" /\ ~isBusy(chat) /\ kind = "loading"
    /\ storeIndexState' = kind
    /\ UNCHANGED <<panelOpen, promptSeed, draftItems, chat, conversations>>

handleOpenStoredConversation(id) ==
    /\ panelOpen /\ ~isBusy(chat) /\ storeIndexState = "ok"
    /\ ~(isReadonlyStoredConversation(chat) /\ id = chat.conversation)
    /\ Becomes([conversation |-> NoRef, turns |-> <<>>, prompt |-> "default",
                status |-> "starting", stored |-> Stored("loading", id)])
    /\ UNCHANGED conversations
fetchAgentConversationArtifact ==
    /\ panelOpen /\ chat.stored.kind = "loading"
    /\ LET id == chat.stored.id
       IN \/ Becomes([conversation |-> id, prompt |-> "default", status |-> "active",
                      turns |-> projectAgentConversationArtifactToProjection(id),
                      stored |-> Stored("ok", id)])
          \/ Becomes([conversation |-> chat.conversation, turns |-> chat.turns,
                      prompt |-> chat.prompt, status |-> "error", stored |-> Stored("error", id)])
    /\ UNCHANGED conversations

TalkStep ==
    \/ \E seed \in PromptSeeds \cup {NoSeed} : OpenPanel(seed)
    \/ ClosePanel
    \/ \E seed \in PromptSeeds : startConversationFromSpecMarkdown(seed)
    \/ \E item \in ContextItems : onRemoveContextItem(item)
    \/ TypePrompt \/ handleSubmit \/ handleStartFresh
    \/ \E id \in 1 .. MaxConversations : handleResumeConversation(id)
    \/ \E kind \in {"loading", "ok", "error"} : StoredConversationIndex(kind)
    \/ \E id \in StoredIds : handleOpenStoredConversation(id)
    \/ fetchAgentConversationArtifact
TalkSpec == TalkInit /\ [][TalkStep]_talking

-----------------------------------------------------------------------------
(* At rest the transcript is the whole record of the conversation the      *)
(* panel names, of the runtime or of the store, whichever it was opened    *)
(* from, even when both have one of that id; and only a conversation of    *)
(* the runtime can be continued.                                           *)
TranscriptIsRecord ==
    ~isBusy(chat) =>
        /\ chat.stored.kind = "ok" =>
              /\ chat.turns = projectAgentConversationArtifactToProjection(chat.stored.id)
              /\ isReadonlyStoredConversation(chat)
        /\ chat.stored.kind # "ok" =>
              chat.turns = IF chat.conversation = NoRef THEN <<>>
                           ELSE conversations[chat.conversation]

=============================================================================
