------------------------- MODULE ConversationRecords -------------------------
(***************************************************************************)
(* The record the local runtime keeps of each conversation: a list of      *)
(* events, the artifact made of it, and the artifact read back as one of   *)
(* the Workbench's store is.  An answer is a stream; its reader takes one  *)
(* event at a time, may stop early, and may read two streams at once.      *)
(*                                                                         *)
(* A context item is its kind, its key, the fields that are blank in it    *)
(* and, for a Markdown, its text.  Ids and times the runtime makes itself  *)
(* are numbers, and never blank.  A text is the sequence of its pieces,    *)
(* and blank when it has none.                                             *)
(***************************************************************************)
EXTENDS Naturals, Sequences, FiniteSets

CONSTANTS Starts,           \* what a conversation is started with: title, prompt, items
          SentItems,        \* the items a message may be sent with
          MaxRecords,       \* Bound: the conversations started
          MaxSends,         \* Bound: the messages sent
          MaxSwitches       \* Bound: how often another stream is read than the last

ItemKind == [spec_node |-> "spec_node", spec_edge |-> "spec_edge", spec_gap |-> "gap",
             proposal |-> "proposal", metric |-> "metric", spec_markdown |-> "external_link"]
Needed == [spec_node |-> {"node_id"}, spec_edge |-> {"source_id", "target_id", "edge_kind"},
           gap |-> {"node_id"}, proposal |-> {"proposal_key"},
           metric |-> {"metric_key", "item_id", "category"},
           external_link |-> {"title", "download_filename", "node_id"}]
\* Of what the store needs, only the title of a specification can be blank;
\* ids and kinds come from indexes that are keyed by them.
Items == {item \in [kind : DOMAIN ItemKind, key : STRING, blank : SUBSET STRING, body : {"", "long"}] :
              item.blank \cap Needed[ItemKind[item.kind]] \subseteq {"title"}}
ASSUME RecordsAssumption ==
    /\ Starts \subseteq [title : STRING, prompt : STRING, items : Seq(Items)]
    /\ SentItems \subseteq Seq(Items)

VARIABLES
    records,                \* the conversations of the runtime
    streams,                \* message |-> the events its reader has not taken
    lastRead,               \* history: the stream read last
    switches,               \* history: how often that changed
    clock

recordVars == <<records, streams, lastRead, switches, clock>>
RecordsInit == records = <<>> /\ streams = <<>> /\ lastRead = 0 /\ switches = 0 /\ clock = 0

-----------------------------------------------------------------------------
(* Context sets, and the events of a message.                              *)
createAgentContextDraft(items) ==
    [context_set_id |-> "ctx-draft", created_at |-> 0, label |-> "draft",
     items |-> items]

\* The text of a Markdown is not kept with the conversation.
serializeHistoryContextSet(set) ==
    [set EXCEPT !.items = [i \in DOMAIN @ |-> [@[i] EXCEPT !.body = ""]]]

normalizeConversationTitle(title, prompt) ==
    CASE title # ""  -> title
      [] prompt # "" -> prompt
      [] OTHER       -> "Untitled"

Attached(set) == set.items # <<>>
summarizeContextItems(set) == [i \in DOMAIN set.items |-> set.items[i].key]
Delta(turn, text) == [kind |-> "text_delta", turn |-> turn, text |-> text]
MessageEvents(text, set, turn, at) ==
    LET Started(t, role) ==
          [kind |-> "turn_started", turn |-> t, role |-> role, at |-> at, context |-> set]
        Completed(t) == [kind |-> "turn_completed", turn |-> t]
    IN <<Started(turn, "operator"), Delta(turn, text), Completed(turn), Started(turn + 1, "agent")>>
       \o (IF Attached(set) THEN <<[kind |-> "tool_call", turn |-> turn + 1]>> ELSE <<>>)
       \o <<Delta(turn + 1, <<"received">> \o text), Delta(turn + 1, <<"context">>)>>
       \o (IF Attached(set) THEN <<Delta(turn + 1, summarizeContextItems(set))>> ELSE <<>>)
       \o <<[kind |-> "output_created", turn |-> turn + 1, at |-> at], Completed(turn + 1)>>

-----------------------------------------------------------------------------
(* What the events of a conversation show.                                 *)
updateTurn(turns, id, Update(_)) ==
    [i \in DOMAIN turns |-> IF turns[i].turn = id THEN Update(turns[i]) ELSE turns[i]]
projectAgentRuntimeEvent(turns, e) ==
    CASE e.kind = "turn_started" ->
           IF \E i \in DOMAIN turns : turns[i].turn = e.turn THEN turns
           ELSE Append(turns, [turn |-> e.turn, role |-> e.role, text |-> <<>>,
                               outputs |-> <<>>, completed |-> FALSE])
      [] e.kind = "text_delta" ->
           updateTurn(turns, e.turn, LAMBDA t : [t EXCEPT !.text = @ \o e.text])
      [] e.kind = "tool_call" -> turns   \* the calls of a turn are not in its artifact
      [] e.kind = "output_created" ->
           updateTurn(turns, e.turn, LAMBDA t : [t EXCEPT !.outputs = Append(@, "analysis")])
      [] e.kind = "turn_completed" ->
           updateTurn(turns, e.turn, LAMBDA t : [t EXCEPT !.completed = TRUE])
projectAgentRuntimeEvents(events) ==
    LET turns[k \in 0 .. Len(events)] ==
            IF k = 0 THEN <<>> ELSE projectAgentRuntimeEvent(turns[k - 1], events[k])
    IN turns[Len(events)]

-----------------------------------------------------------------------------
(* The artifact of a conversation.                                         *)
mapContextItem(item) == [kind |-> ItemKind[item.kind], key |-> item.key, blank |-> item.blank]
createArtifactContextSet(set) ==
    [set EXCEPT !.items = [i \in DOMAIN @ |-> mapContextItem(@[i])]]

\* The sets registered so far, each as it was and with the id it is given:
\* another set of a known name gets a number of its own.  No set is named
\* like another one with a number, so an id stands for the name made of it.
Registered(reg, set) == {i \in DOMAIN reg : reg[i].was = createArtifactContextSet(set)}
contextSetId(reg, set) == reg[CHOOSE i \in Registered(reg, set) : TRUE].id
baseId(set) == IF set.context_set_id = "" THEN "ctx" ELSE set.context_set_id
seenCount(reg, set) == Cardinality({i \in DOMAIN reg : reg[i].id[1] = baseId(set)})
\* Fault: the number is left out.
registerContextSetFault(reg, set) ==
    IF Registered(reg, set) # {} THEN reg
    ELSE Append(reg, [was |-> createArtifactContextSet(set), id |-> <<baseId(set), 1>>])
registerContextSet(reg, set) ==
    IF Registered(reg, set) # {} THEN reg
    ELSE Append(reg, [was |-> createArtifactContextSet(set),
                      id |-> <<baseId(set), seenCount(reg, set) + 1>>])

\* The newest set of the conversation comes first.
collectEventMetadata(source) ==
    LET events == source.events
        reg[k \in 0 .. Len(events)] ==
            IF k = 0 THEN registerContextSet(<<>>, source.context_set)
            ELSE IF events[k].kind = "turn_started" THEN registerContextSet(reg[k - 1], events[k].context)
            ELSE reg[k - 1]
    IN reg[Len(events)]
TurnStarted(source, turn) ==
    source.events[CHOOSE i \in DOMAIN source.events :
                    source.events[i].kind = "turn_started" /\ source.events[i].turn = turn]

createTurnArtifact(turn, createdAt, setIds) ==
    [turn_id |-> turn.turn, role |-> turn.role, created_at |-> createdAt,
     completed |-> turn.completed, context_set_ids |-> setIds,
     content |-> IF turn.text = <<>> THEN <<>> ELSE <<[kind |-> "text", text |-> turn.text]>>]
createOutputArtifact(kind, turn, createdAt, setIds) ==
    [kind |-> kind, origin_turn_id |-> turn, created_at |-> createdAt,
     context_set_ids |-> setIds]

createAgentConversationArtifactSnapshot(id) ==
    LET source == records[id]
        turns  == projectAgentRuntimeEvents(source.events)
        reg    == collectEventMetadata(source)
        At(t)  == TurnStarted(source, t.turn).at
        Sets(t) == <<contextSetId(reg, TurnStarted(source, t.turn).context)>>
        Outputs(t) == [k \in DOMAIN t.outputs |->
                         createOutputArtifact(t.outputs[k], t.turn, At(t), Sets(t))]
        outputs[k \in 0 .. Len(turns)] ==
            IF k = 0 THEN <<>> ELSE outputs[k - 1] \o Outputs(turns[k])
    IN [artifact_kind |-> "specspace_agent_conversation", api_version |-> "v1",
        schema_version |-> 1, storage |-> "specspace", conversation_id |-> id,
        title |-> source.title, status |-> "active",
        created_at |-> source.created_at, updated_at |-> source.updated_at,
        participants |-> <<>>, parent_refs |-> <<>>,
        context_sets |-> [i \in DOMAIN reg |-> [reg[i].was EXCEPT !.context_set_id = reg[i].id]],
        turns |-> [i \in DOMAIN turns |-> createTurnArtifact(turns[i], At(turns[i]), Sets(turns[i]))],
        outputs |-> outputs[Len(turns)]]

createAgentConversationIndexEntry(a) ==
    [conversation_id |-> a.conversation_id, title |-> a.title, status |-> a.status,
     updated_at |-> a.updated_at, turn_count |-> Len(a.turns), output_count |-> Len(a.outputs),
     context_item_count |-> Cardinality(UNION {{i} \X DOMAIN a.context_sets[i].items :
                                                   i \in DOMAIN a.context_sets})]
compareIndexEntries(left, right) ==
    \/ left.updated_at > right.updated_at
    \/ left.updated_at = right.updated_at /\ left.conversation_id >= right.conversation_id
createAgentConversationIndexArtifact ==
    LET entry(id) == createAgentConversationIndexEntry(createAgentConversationArtifactSnapshot(id))
        entries == CHOOSE s \in [DOMAIN records -> {entry(id) : id \in DOMAIN records}] :
                      \A i, j \in DOMAIN s : i < j => s[i] # s[j] /\ compareIndexEntries(s[i], s[j])
    IN [artifact_kind |-> "specspace_agent_conversation_index", api_version |-> "v1",
        schema_version |-> 1, entry_count |-> Len(entries), entries |-> entries]

-----------------------------------------------------------------------------
(* An artifact read back: a record with a blank where a value must be is   *)
(* refused, and all of the artifact with it; other blanks are filled.      *)
Refused == [ok |-> FALSE]
Read(data) == [ok |-> TRUE, data |-> data]
\* A list of records is read when each of them is.
ReadEach(s, ReadOne(_)) ==
    LET results == [i \in DOMAIN s |-> ReadOne(s[i])]
    IN IF \A i \in DOMAIN s : results[i].ok THEN Read([i \in DOMAIN s |-> results[i].data])
       ELSE Refused

parseArtifactHeader(raw, kind) ==
    raw.artifact_kind = kind /\ raw.api_version = "v1" /\ raw.schema_version = 1

LeftBlank == {"source_title", "target_title", "proposal_path"}
parseContextItem(raw) ==
    IF raw.kind \notin DOMAIN Needed \/ raw.blank \cap Needed[raw.kind] # {} THEN Refused
    ELSE Read([raw EXCEPT !.blank = @ \cap LeftBlank])
parseContextSet(raw) ==
    LET items == ReadEach(raw.items, parseContextItem)
    IN IF raw.context_set_id[1] = "" \/ raw.label = "" \/ ~items.ok THEN Refused
       ELSE Read([raw EXCEPT !.items = items.data])

participantRole(role) == role \in {"operator", "agent", "system", "tool"}
outputKind(kind) ==
    kind \in {"analysis", "proposal_draft", "implementation_handoff", "metric_note"}
parseContentBlock(raw) ==
    IF raw.kind \notin {"text", "markdown"} \/ raw.text = <<>> THEN Refused ELSE Read(raw)
parseTurn(raw) ==
    IF ~participantRole(raw.role) \/ ~ReadEach(raw.content, parseContentBlock).ok THEN Refused
    ELSE Read(raw)
parseOutput(raw) == IF outputKind(raw.kind) THEN Read(raw) ELSE Refused

parseAgentConversationArtifact(raw) ==
    LET sets  == ReadEach(raw.context_sets, parseContextSet)
        turns == ReadEach(raw.turns, parseTurn)
        outputs == ReadEach(raw.outputs, parseOutput)
    IN IF /\ parseArtifactHeader(raw, "specspace_agent_conversation")
          /\ raw.title # "" /\ raw.status \in {"active", "archived", "superseded"}
          /\ raw.storage = "specspace"
          /\ sets.ok /\ turns.ok /\ outputs.ok
       THEN Read([raw EXCEPT !.context_sets = sets.data, !.turns = turns.data,
                             !.outputs = outputs.data])
       ELSE Refused

parseIndexEntry(raw) == IF raw.title = "" THEN Refused ELSE Read(raw)
parseAgentConversationIndexArtifact(raw) ==
    LET entries == ReadEach(raw.entries, parseIndexEntry)
    IN IF /\ parseArtifactHeader(raw, "specspace_agent_conversation_index")
          /\ entries.ok /\ raw.entry_count = Len(raw.entries)
       THEN Read(raw) ELSE Refused

formatContentBlock(block) == block.text
\* A turn has one block at most, so no separator comes between two.
Joined(content) ==
    LET joined[k \in 0 .. Len(content)] ==
            IF k = 0 THEN <<>> ELSE joined[k - 1] \o formatContentBlock(content[k])
    IN joined[Len(content)]
outputsByTurn(outputs, turn) ==
    LET own[k \in 0 .. Len(outputs)] ==
            IF k = 0 THEN <<>>
            ELSE IF outputs[k].origin_turn_id = turn THEN Append(own[k - 1], outputs[k].kind)
            ELSE own[k - 1]
    IN own[Len(outputs)]
\* The turns the panel shows of an artifact.
TranscriptOf(a) ==
    [i \in DOMAIN a.turns |->
       LET t == a.turns[i]
       IN [turn |-> t.turn_id, role |-> t.role, completed |-> t.completed,
           text |-> Joined(t.content), outputs |-> outputsByTurn(a.outputs, t.turn_id)]]

-----------------------------------------------------------------------------
(* The runtime's calls.                                                    *)

ReadFrom(n) ==
    /\ lastRead' = n
    /\ switches' = IF lastRead = n THEN switches ELSE switches + 1
    /\ switches' <= MaxSwitches

startConversation(start) ==
    /\ Len(records) < MaxRecords
    /\ records' = Append(records,
         [title |-> normalizeConversationTitle(start.title, start.prompt), events |-> <<>>,
          context_set |-> serializeHistoryContextSet(createAgentContextDraft(start.items)),
          created_at |-> clock, updated_at |-> clock, turn_count |-> 0])
    /\ UNCHANGED <<streams, lastRead, switches, clock>>

\* The record is changed when the reader asks for the first event.
sendMessage(id, text, set) ==
    /\ id \in DOMAIN records /\ Len(streams) < MaxSends
    /\ clock' = clock + 1 /\ ReadFrom(Len(streams) + 1)
    /\ LET rec == records[id]
           events == MessageEvents(text, set, 2 * Len(streams) + 1, clock')
       IN /\ records' = [records EXCEPT ![id] =
                [rec EXCEPT !.context_set = set, !.updated_at = clock', !.turn_count = @ + 2,
                            !.events = Append(@, Head(events))]]
          /\ streams' = Append(streams, [of |-> id, events |-> Tail(events)])

appendEvent(n) ==
    /\ n \in DOMAIN streams /\ streams[n].events # <<>>
    /\ records' = [records EXCEPT ![streams[n].of].events = Append(@, Head(streams[n].events))]
    /\ streams' = [streams EXCEPT ![n].events = Tail(@)]
    /\ ReadFrom(n) /\ UNCHANGED clock
\* The reader stops: an error of its own, or it is left.
StopReading(n) ==
    /\ n \in DOMAIN streams /\ streams[n].events # <<>>
    /\ streams' = [streams EXCEPT ![n].events = <<>>]
    /\ UNCHANGED <<records, lastRead, switches, clock>>

\* A conversation is shown again: its events are read, and stay.
resumeConversation(id) == id \in DOMAIN records /\ UNCHANGED recordVars

RecordsNext ==
    \/ \E start \in Starts : startConversation(start)
    \/ \E id \in DOMAIN records :
          \/ resumeConversation(id)
          \/ sendMessage(id, <<"ask">>, records[id].context_set)
          \/ \E items \in SentItems :
                sendMessage(id, <<"ask">>, serializeHistoryContextSet(createAgentContextDraft(items)))
    \/ \E n \in DOMAIN streams : appendEvent(n) \/ StopReading(n)
RecordsSpec == RecordsInit /\ [][RecordsNext]_recordVars

-----------------------------------------------------------------------------
(* Whatever two readers have taken, and wherever one stopped, the artifact *)
(* of a conversation can be read back, shows the turns its events show,    *)
(* and names for each turn, and for what it put out, one listed context    *)
(* set: the one its message was sent with.  The list of the conversations  *)
(* is in order and counts what reading each of them shows.  The exception: *)
(* a Markdown of a spec without a title makes the artifact unreadable.     *)
HoldsUntitled(a) ==
    \E i \in DOMAIN a.context_sets : \E k \in DOMAIN a.context_sets[i].items :
       LET item == a.context_sets[i].items[k]
       IN item.kind = "external_link" /\ "title" \in item.blank
NamesItsSet(a, ids, sent) ==
    LET named == {i \in DOMAIN a.context_sets :
                    \E k \in DOMAIN ids : a.context_sets[i].context_set_id = ids[k]}
    IN /\ Cardinality(named) = 1
       /\ \A i \in named : a.context_sets[i].items =
             [k \in DOMAIN sent.items |-> parseContextItem(mapContextItem(sent.items[k])).data]
ReadsBack(id) ==
    LET written == createAgentConversationArtifactSnapshot(id)
        read == parseAgentConversationArtifact(written)
        Sent(turn) == TurnStarted(records[id], turn).context
    IN \/ HoldsUntitled(written)
       \/ /\ read.ok
          /\ TranscriptOf(read.data) = projectAgentRuntimeEvents(records[id].events)
          /\ \A i \in DOMAIN read.data.turns :
                LET t == read.data.turns[i]
                IN NamesItsSet(read.data, t.context_set_ids, Sent(t.turn_id))
          /\ \A i \in DOMAIN read.data.outputs :
                LET o == read.data.outputs[i]
                IN NamesItsSet(read.data, o.context_set_ids, Sent(o.origin_turn_id))
IndexIsTrue ==
    LET index == createAgentConversationIndexArtifact
        At(i) == index.entries[i]
        Of(i) == createAgentConversationArtifactSnapshot(At(i).conversation_id)
    IN /\ parseAgentConversationIndexArtifact(index).ok
       /\ \A i \in DOMAIN index.entries :
             /\ i > 1 => At(i - 1).updated_at >= At(i).updated_at
             /\ At(i).turn_count = Len(TranscriptOf(Of(i)))
RecordReadsBack == IndexIsTrue /\ \A id \in DOMAIN records : ReadsBack(id)
=============================================================================
