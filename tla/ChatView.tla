------------------------------ MODULE ChatView ------------------------------
(***************************************************************************)
(* What the user sees of a turn.  Events of the nodes and signals of the   *)
(* prompt go through the reducer of ui/store.py into app_state; ChatLog    *)
(* shows app_state, at most once a frame: a state change schedules a       *)
(* flush, and whatever has been dispatched by then is shown in one pass,   *)
(* the last turn's block compared with its segments place by place.        *)
(*                                                                         *)
(* Texts are left out: a chunk of prose or thinking extends the segment it *)
(* belongs to.  Context, raw output, results, plans and reports are all    *)
(* "card" segments, for they are appended and never touched again.         *)
(***************************************************************************)
EXTENDS Integers, Sequences, FiniteSets, SequencesExt

CONSTANTS
  Nodes,      \* nodes that stream, call tools and ask
  Graphs,     \* compiled graphs: nodes that run a graph of other nodes
  CallIds,    \* ids the provider gives to tool calls
  MaxTurns,   \* bound of the model: turns of the session
  Streams,     \* kinds of text the nodes stream: "text", "thinking"
  MaxSegments, \* bound of the model: segments and retries of all turns
  MaxLag       \* bound of the model: steps one frame shows together

ASSUME NodesAssumption == Nodes \cap Graphs = {}
ASSUME StreamsAssumption == Streams \subseteq {"text", "thinking"}
ASSUME ViewBounds ==
  MaxTurns \in Nat /\ MaxSegments \in Nat /\ MaxLag \in Nat

VARIABLES
  turns,      \* app_state.turns
  processing, \* app_state.is_processing
  awaiting,   \* app_state.awaiting_input
  conclusion, \* app_state.turn_conclusion, its reason
  scheduled,  \* steps since the last flush; > 0 is ChatLog._sync_scheduled
  blocks,     \* the TurnBlocks of the log
  worker,     \* the worker that drives the turn, see WorkerStates
  stack,      \* nodes entered and not finished, the innermost last
  call        \* the id of the tool call in flight

state  == <<turns, processing, awaiting, conclusion>>
view   == <<scheduled, blocks>>
driver == <<worker, stack, call>>
vars   == <<state, view, driver>>

(* parked: it returned with a question.  unwinding: cancelled by Esc.      *)
WorkerStates == {"none", "driving", "parked", "unwinding"}

None  == "none"
Turn  == Len(turns)
Segs  == turns[Turn].segs

-----------------------------------------------------------------------------
(* Segments.                                                               *)

LabelSegment(n) == [kind |-> "label", node |-> n, st |-> "running", retry |-> 0]
ToolCallView(c) == [kind |-> "tool", id |-> c, st |-> "running"]
QuerySegment(k) == [kind |-> "query", no |-> k]
Stream(k)       == [kind |-> k]       \* TextSegment, NodeThinkingSegment
AnswerSegment   == [kind |-> "answer"]
CardSegment     == [kind |-> "card"]

Segments ==
  [kind : {"label"}, node : Nodes \cup Graphs, retry : Nat,
   st : {"running", "done", "failed", "parked", "interrupted"}]
    \cup [kind : {"tool"}, id : CallIds, st : {"running", "done", "failed"}]
    \cup [kind : {"query"}, no : Nat]
    \cup [kind : Streams \cup {"answer", "card"}]

Statuses == {"running", "done", "failed", "paused"}

(* The reasons of TurnConcluded; "concluded" stands for those of a driver  *)
(* that returned without a question.                                       *)
Conclusions == {None, "suspended", "concluded", "error", "interrupted"}

(* Places of the segments of s that satisfy P.                             *)
Places(s, P(_)) == {i \in DOMAIN s : P(s[i])}

IsLabel(x) == x.kind = "label"
IsTool(x)  == x.kind = "tool"
IsQuery(x) == x.kind = "query"

(* Of these places the last; none: none.                                   *)
Latest(is) == {i \in is : \A j \in is : j <= i}

-----------------------------------------------------------------------------
(* The reducer, as functions of the segments of the turn.                  *)

(* AssistantTextDelta, AssistantMessageCompleted, NodeThinkingDelta.       *)
Streamed(s, seg) == IF s # <<>> /\ Last(s) = seg THEN s ELSE Append(s, seg)

(* NodeEntered: the same header twice in a row is a retry.                 *)
NodeEntered(s, n) ==
  IF s # <<>> /\ IsLabel(Last(s)) /\ Last(s).node = n
  THEN [s EXCEPT ![Len(s)].retry = @ + 1]
  ELSE Append(s, LabelSegment(n))

(* NodeFinished, of one node or of several: the last header of each.       *)
NodesFinished(s, ns, st) ==
  LET Headers(n) == Places(s, LAMBDA x : IsLabel(x) /\ x.node = n)
  IN  [i \in DOMAIN s |-> IF \E n \in ns : i \in Latest(Headers(n))
                          THEN [s[i] EXCEPT !.st = st] ELSE s[i]]

NodeFinished(s, n, st) == NodesFinished(s, {n}, st)

(* _update_tool_call: the first call with that id.                         *)
ToolCallEnded(s, c, st) ==
  LET calls == Places(s, LAMBDA x : IsTool(x) /\ x.id = c)
  IN  [i \in DOMAIN s |-> IF i \in calls /\ \A j \in calls : i <= j
                          THEN [s[i] EXCEPT !.st = st] ELSE s[i]]

(* TurnInterrupted: one header is marked.                                  *)
Interrupted(s) ==
  LET running == Places(s, LAMBDA x : IsLabel(x) /\ x.st = "running")
  IN  [i \in DOMAIN s |-> IF i \in Latest(running)
                          THEN [s[i] EXCEPT !.st = "interrupted"] ELSE s[i]]

Query(s) == QuerySegment(Cardinality(Places(s, IsQuery)) + 1)

-----------------------------------------------------------------------------
(* The log.                                                                *)

(* _query_interactive: every question, as long as one awaits its answer.   *)
Interactive(seg) == IsQuery(seg) /\ awaiting

WidgetKind(seg) ==
  IF Interactive(seg) THEN "picker"
  ELSE IF seg.kind \in {"query", "answer"} THEN "static" ELSE seg.kind

(* _make_segment_widget                                                    *)
Widget(seg) == [widget |-> WidgetKind(seg), seg |-> seg]

(* The picker of an answered question is kept.                             *)
ReusableMutant(w, seg) ==
  /\ w.seg.kind = seg.kind
  /\ IsLabel(seg) => w.seg.node = seg.node

(* _try_reuse_seg, _reuse_item: a widget of another kind is replaced, and  *)
(* so is the card of another node.                                         *)
Reusable(w, seg) ==
  /\ w.widget = WidgetKind(seg)
  /\ IsLabel(seg) => w.seg.node = seg.node

(* A picker that is kept keeps the question it was made for.               *)
Reused(w, seg) == IF w.widget = "picker" THEN w ELSE [w EXCEPT !.seg = seg]

(* _diff_segments                                                          *)
Diff(items, segs) ==
  [i \in DOMAIN segs |-> IF i \in DOMAIN items /\ Reusable(items[i], segs[i])
                         THEN Reused(items[i], segs[i]) ELSE Widget(segs[i])]

(* _card_flags: the header that animates, if any.                          *)
ActiveLabel(turn) ==
  {i \in Latest(Places(turn.segs, IsLabel)) :
     turn.status = "running" /\ turn.segs[i].st = "running"}

(* _conclusion_text, of the last turn.                                     *)
ConclusionText == IF conclusion = "suspended" THEN None ELSE conclusion

(* TurnBlock.compose (items = <<>>) and refresh_from.                      *)
TurnBlock(items, turn) ==
  [status |-> turn.status, items |-> Diff(items, turn.segs),
   active |-> ActiveLabel(turn), ending |-> ConclusionText]

(* The last block is refreshed while the turn runs only.                   *)
SyncedMutant(bs, ts) ==
  LET n == Len(ts)
  IN  IF n > Len(bs)
      THEN bs \o [i \in 1 .. n - Len(bs) |-> TurnBlock(<<>>, ts[Len(bs) + i])]
      ELSE IF n > 0 /\ ts[n].status = "running"
      THEN [bs EXCEPT ![n] = TurnBlock(bs[n].items, ts[n])]
      ELSE bs

(* _sync_turns: new turns are mounted, and then the block before them is   *)
(* not looked at; else the last block is refreshed if its turn runs or has *)
(* another status than the block shows.                                    *)
Synced(bs, ts) ==
  LET n == Len(ts)
  IN  IF n > Len(bs)
      THEN bs \o [i \in 1 .. n - Len(bs) |-> TurnBlock(<<>>, ts[Len(bs) + i])]
      ELSE IF n > 0 /\ (bs[n].status # ts[n].status \/ ts[n].status = "running")
      THEN [bs EXCEPT ![n] = TurnBlock(bs[n].items, ts[n])]
      ELSE bs

(* _flush_sync                                                             *)
Flush ==
  /\ scheduled > 0
  /\ scheduled' = 0
  /\ blocks' = Synced(blocks, turns)
  /\ UNCHANGED <<state, driver>>

(* _on_state_change                                                        *)
Schedule ==
  /\ scheduled < MaxLag
  /\ scheduled' = scheduled + 1
  /\ UNCHANGED blocks

(* Store.dispatch, once or several times with no await between: the log is *)
(* told, and what a flush will show is the state it finds.                 *)
Dispatch(segs, status) ==
  /\ turns' = [turns EXCEPT ![Turn] = [status |-> status, segs |-> segs]]
  /\ Schedule

(* Room for the segments of one more step.                                 *)
Size(segs) == FoldSeq(LAMBDA x, k : k + 1 + IF IsLabel(x) THEN x.retry ELSE 0, 0, segs)
Room(n)    == FoldSeq(LAMBDA t, k : k + Size(t.segs), n, turns) <= MaxSegments

-----------------------------------------------------------------------------
(* The user.                                                               *)

LastStatus == IF Turn = 0 THEN "done" ELSE turns[Turn].status

(* submit of a new request: PromptSubmitted and TurnStarted.               *)
Submit ==
  /\ ~processing
  /\ LastStatus \in {"done", "failed"}
  /\ Turn < MaxTurns
  /\ turns' = Append(turns, [status |-> "running", segs |-> <<>>])
  /\ processing' = TRUE
  /\ conclusion' = None
  /\ Schedule
  /\ worker' = "driving"
  /\ UNCHANGED <<awaiting, stack, call>>

(* submit or answer_query on a question: AnswerSubmitted, or               *)
(* SteeringSubmitted when the Smart Driver asked.                          *)
Answer ==
  /\ awaiting
  /\ Room(1)
  /\ Dispatch(Append(Segs, AnswerSegment), LastStatus)
  /\ awaiting' = FALSE
  /\ worker' = "driving"
  /\ UNCHANGED <<processing, conclusion, stack, call>>

(* submit after Esc: SteeringSubmitted, and the turn runs again.           *)
Steer ==
  /\ ~processing
  /\ LastStatus = "paused"
  /\ worker = "none"
  /\ Room(1)
  /\ Dispatch(Append(Segs, AnswerSegment), "running")
  /\ processing' = TRUE
  /\ awaiting' = FALSE
  /\ worker' = "driving"
  /\ UNCHANGED <<conclusion, stack, call>>

(* action_interrupt: the worker is cancelled, TurnInterrupted.             *)
Interrupt ==
  /\ processing
  /\ Dispatch(Interrupted(Segs), "paused")
  /\ processing' = FALSE
  /\ awaiting' = FALSE
  /\ worker' = IF worker = "driving" THEN "unwinding" ELSE "none"
  /\ UNCHANGED <<conclusion, stack, call>>

-----------------------------------------------------------------------------
(* The worker: TurnSink's events, in the order in which the driver, the    *)
(* nodes and _drive send them.                                             *)

Busy == worker = "driving" /\ call = None

(* A node of Nodes is being run.                                           *)
InNode == Busy /\ stack # <<>> /\ Last(stack) \in Nodes

(* Events of a node leave everything but the segments alone.               *)
Emit(segs) ==
  /\ Dispatch(segs, LastStatus)
  /\ UNCHANGED <<processing, awaiting, conclusion, worker>>

(* Driver.run, before node.run: of the turn's graph, or of the graph that  *)
(* was entered last.                                                       *)
EnterNode(n) ==
  /\ Busy
  /\ stack # <<>> => Last(stack) \in Graphs /\ n \notin ToSet(stack)
  /\ Room(1)
  /\ Emit(NodeEntered(Segs, n))
  /\ stack' = Append(stack, n)
  /\ UNCHANGED call

(* Prose (fast path) or thinking.                                          *)
StreamText(k) ==
  /\ InNode
  /\ Room(1)
  /\ Emit(Streamed(Segs, Stream(k)))
  /\ UNCHANGED <<stack, call>>

(* node_context, node_raw_output.                                          *)
Capture ==
  /\ InNode
  /\ Room(1)
  /\ Emit(Append(Segs, CardSegment))
  /\ UNCHANGED <<stack, call>>

StartTool(c) ==
  /\ InNode
  /\ Room(1)
  /\ Emit(Append(Segs, ToolCallView(c)))
  /\ call' = c
  /\ UNCHANGED stack

EndTool(st) ==
  /\ worker = "driving"
  /\ call # None
  /\ Emit(ToolCallEnded(Segs, call, st))
  /\ call' = None
  /\ UNCHANGED stack

(* node_finished, and node_produced when there is a headline.  A graph     *)
(* that ends has run at least one node.                                    *)
EndNode(st, cards) ==
  /\ Busy
  /\ stack # <<>>
  /\ Room(cards)
  /\ Emit(NodeFinished(Segs, Last(stack), st) \o [i \in 1 .. cards |-> CardSegment])
  /\ stack' = Front(stack)
  /\ UNCHANGED call

(* A node asks: it and the graphs around it end as parked; _drive          *)
(* concludes, shows the plan to confirm and raises the question.           *)
Ask(cards) ==
  /\ InNode
  /\ Room(cards + 1)
  /\ LET parked == NodesFinished(Segs, ToSet(stack), "parked")
         shown  == parked \o [i \in 1 .. cards |-> CardSegment]
     IN  Dispatch(Append(shown, Query(Segs)), LastStatus)
  /\ conclusion' = "suspended"
  /\ awaiting' = TRUE
  /\ worker' = "parked"
  /\ stack' = <<>>
  /\ UNCHANGED <<processing, call>>

(* The driver returned: conclusion, plan, report, TurnEnded.               *)
Finish(cards) ==
  /\ Busy
  /\ stack = <<>>
  /\ Room(cards)
  /\ Dispatch(Segs \o [i \in 1 .. cards |-> CardSegment], "done")
  /\ processing' = FALSE
  /\ conclusion' = "concluded"
  /\ worker' = "none"
  /\ UNCHANGED <<awaiting, stack, call>>

(* An exception came out of it: conclusion, TurnFailed.                    *)
Crash ==
  /\ worker = "driving"
  /\ stack # <<>>
  /\ Dispatch(Segs, "failed")
  /\ processing' = FALSE
  /\ awaiting' = FALSE
  /\ conclusion' = "error"
  /\ worker' = "none"
  /\ stack' = <<>>
  /\ call' = None

(* The cancelled worker is gone.  Its CancelledError, or, when that was    *)
(* swallowed around a tool, the end of the nodes: the driver returns at    *)
(* its loop top, for its event is set.                                     *)
Unwind(swallowed) ==
  /\ worker = "unwinding"
  /\ swallowed => call # None
  /\ LET ended == ToolCallEnded(Segs, call, "done")
         late  == NodesFinished(ended, ToSet(stack), "done")
     IN  Dispatch(IF swallowed THEN late ELSE Segs, LastStatus)
  /\ conclusion' = "interrupted"
  /\ worker' = "none"
  /\ stack' = <<>>
  /\ call' = None
  /\ UNCHANGED <<processing, awaiting>>

-----------------------------------------------------------------------------
Init ==
  /\ turns = <<>>
  /\ processing = FALSE
  /\ awaiting = FALSE
  /\ conclusion = None
  /\ scheduled = 0
  /\ blocks = <<>>
  /\ worker = "none"
  /\ stack = <<>>
  /\ call = None

User == Submit \/ Answer \/ Steer \/ Interrupt

Worker ==
  \/ \E n \in Nodes \cup Graphs : EnterNode(n)
  \/ \E k \in Streams : StreamText(k)
  \/ Capture
  \/ \E c \in CallIds : StartTool(c)
  \/ \E st \in {"done", "failed"} : EndTool(st)
  \/ \E st \in {"done", "failed"}, cards \in 0 .. 1 : EndNode(st, cards)
  \/ \E cards \in 0 .. 1 : Ask(cards)
  \/ \E cards \in 0 .. 2 : Finish(cards)
  \/ Crash
  \/ \E swallowed \in BOOLEAN : Unwind(swallowed)

Next == User \/ Worker \/ Flush

Spec == Init /\ [][Next]_vars

-----------------------------------------------------------------------------
(* Properties.                                                             *)

Widgets == [widget : {"picker", "static", "label", "tool", "text", "thinking", "card"},
            seg : Segments]

Turns  == [status : Statuses, segs : Seq(Segments)]
Blocks == [status : Statuses, items : Seq(Widgets), active : SUBSET Nat,
           ending : Conclusions]

(* The variables hold values of the types of AppState and of the widgets.  *)
TypeOK ==
  /\ turns \in Seq(Turns)
  /\ blocks \in Seq(Blocks)
  /\ {processing, awaiting} \subseteq BOOLEAN
  /\ conclusion \in Conclusions
  /\ scheduled \in 0 .. MaxLag
  /\ worker \in WorkerStates
  /\ stack \in Seq(Nodes \cup Graphs)
  /\ call \in CallIds \cup {None}

LastBlock == blocks[Len(blocks)]

(* Between two frames the log has every turn, and its last block shows the *)
(* turn as it is, segment by segment, with its conclusion, although only a *)
(* running turn or one whose status changed is looked at: nothing is sent  *)
(* after the event that ends a turn.  A paused turn is left out: what a    *)
(* cancelled worker still sends is not shown.                              *)
SettledLogShowsTurn ==
  scheduled = 0 =>
    /\ Len(blocks) = Turn
    /\ Turn > 0 /\ LastStatus # "paused" =>
         /\ LastBlock.status = LastStatus
         /\ [i \in DOMAIN LastBlock.items |-> LastBlock.items[i].seg] = Segs
         /\ LastBlock.ending = ConclusionText

IsPicker(w) == w.widget = "picker"

(* Between two frames there are pickers in the last turn's block exactly as*)
(* long as an answer is awaited, and the newest question is one.  There may*)
(* be others: while a question waits, the earlier ones of its turn, though *)
(* answered, are pickers again (_query_interactive).                       *)
OpenQuestionIsLive ==
  scheduled = 0 /\ Turn > 0 =>
    /\ Places(LastBlock.items, IsPicker) # {} <=> awaiting
    /\ awaiting => IsPicker(Last(LastBlock.items))
=============================================================================
