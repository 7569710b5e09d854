# poor-code: a verification development

TLA+ modules that model the harness of poor-code (a coding agent that walks a
request through understanding, planning, implementing and validating), TLC
configurations that check them on small instances, and TLAPS proofs of what
holds for every value of the constants. Paths below are relative to
`src/src/poor_code/`.

## 1. The system

| part | state it keeps | operations | talks to |
|---|---|---|---|
| **Driver** `domain/harness/driver.py` | `state`, `steps`, `last_escape`, a `DriverRuntime` | `run`: look up node, await it, apply, route, advance, checkpoint | nodes, edge table, app through `on_step` |
| **Graph** `graph.py`, `route.py`, `subgraphs/implement_loop.py` | none; the saved subgraph cursor lives in the state | `EdgeTable.route`, `CompiledGraph.run` (fork, inner driver, merge) | driver, both ways |
| **Session state** `domain/session/models.py` | one immutable value: cursor, plan, attempts, interview, pending query, history, subgraph cursors, report | the `with_*` functions and `apply_to` of every output | everything |
| **Gates** `nodes/gates.py`, `confirm_gates.py`, `plan_reviewer.py` | none: counts are read from `history` and `interview` | accept, bounce, ask or escalate | driver, user |
| **Front nodes** router, explorer, interviewer, planner, provisioner, fast path | caches only | one model-driven output each | provider, tools |
| **Implement loop** task_selector, composer, implementer, verifier | the plan's tasks and attempts | pick a task, work on it, judge it | inner driver, shell |
| **Global validation, report** | counts in `history` | reopen a task, ask for a plan, pass; SUCCEEDED report | driver |
| **Headless** `headless.py` | none | run under FULL_AUTO, auto-answer, stamp ABANDONED | driver |
| **TUI** `app.py` | `_harness_state`, `_live_state`, `_cancel`, `_interrupted`, `_turn_id` | `submit`, `answer_query`, `_drive`, `action_interrupt`, `_on_checkpoint` | driver, store |
| **Smart Driver** `smart_driver.py`, `steering.py` | `driver_control` in the state | classify an utterance, redirect the cursor | driver |
| **Tool loop** `node.py` | the transcript of a node | rounds of tool calls, forced decisions, re-rolls of a structured output | provider, tools |
| **Read cache, tools** `tool/read_cache.py`, `tool/*.py` | the last read of each path | read, write, edit, bash | OS, from threads and processes |
| **Chat agent** `agent.py` | `history`, for the whole session | one turn of answers and tool calls, each in a task that is polled | provider, tools |
| **Provider client** `provider/client.py`, `framing.py`, `protocols/openai_chat.py` | one parser per attempt | stream, retry, give up | the provider |
| **Session store** `session/service.py`, `store.py` | files under `.poor-code/` | start a session, begin and end a task, checkpoint | disk, other processes |
| **UI reducer** `ui/store.py`, **chat log** `ui/widgets/chat_log.py` | `AppState`; widgets | `reduce(state, action)`; flush once a frame | sink events |
| **Project map, slash, infra** | files, tables | extraction, commands | nodes, app |

### What is hard

* *Re-entry.* Four loops (understanding, acceptance, plan, implementation) pass
  through the same nodes, and each node decides from counts over one shared
  history whether it is its own turn to bounce, ask or give in.
* *Two drivers.* The implement loop is a node with a driver of its own. Its
  state is forked, checkpointed through the parent, and merged on success but
  **dropped** on an escape.
* *Interruption.* Esc cancels a coroutine inside a node; the turn goes on from
  the last checkpoint, perhaps in the middle of the inner graph.
* *Ends.* A run may end by a terminal edge, a query, a park at an unregistered
  node, the step budget, an exception or a cancel, and the two wrappers (TUI,
  headless) must tell them apart.
* *Things that outlive their owner.* A read cache outlives transcripts, a
  thread outlives the node that started it, a process group its call, a call
  its turn, the implementer's baselines their plan, the agent's history a turn.
* *Awaits under Esc.* The event and the cancellation of the task come together;
  which one an await sees first decides what is cleaned up.
* *Streams.* A model's answer arrives in pieces, may break and be asked for again,
  and is put together by ids that providers use differently.
* *Frames.* The screen sees states, not events, and reuses what it has drawn.
* *Tasks and dependencies.* The selector says "done" when nothing is runnable,
  which is not the same as everything being done.

### What makes each part correct

* Driver: every run returns; no node starts beyond the budget; a checkpoint
  says exactly where the run is; the reason of an end is not lost.
* Graph: merging and forking lose no finished task and resume the right node.
* Gates: caps hold through every interleaving of loops; each answer is acted on
  once; a rejected plan is not built.
* Loop: dependencies first; the cursor's task is in the plan; no step is worked on
  past a red one; the patch has all the work; a task the verifier did not see
  work is let through only when its rounds are spent.
* Tool loop, agent: every request is well formed; a run ends; after Esc no tool runs
  and no round begins; a stub tells the truth; a cancelled command dies with its group.
* Provider client: one answer from one attempt, within one budget.
* Smart Driver: no message and no feedback is lost on the way.
* Screen: what is shown is the turn; an open question can be answered.
* Wrappers: success is reported only for a finished plan; no end is silent.
* App: no message, question or paused session is lost; one worker's end never
  touches another turn; the prompt is never locked.
* Store: whatever write fails, no file is torn and no work item is named without its files.

`PROJECT.json` lists every component with its status, and every hazard with its
line and the properties aimed at it.

## 2. Modules

| module | models | role |
|---|---|---|
| `HarnessGraph` | `route.py`, the tables of `implement_loop.py`, `EdgeTable.route`, the registry, `NodeResult` and `Verdict` | constants-free operators |
| `SessionState` | `session/models.py`, fork and merge of `graph.py` | the data type `Session` and its updates; constant `NTasks` |
| `Harness` | `driver.py`, `graph.py`, every registered node, `headless.py`, the turn in `app.py` | the state machine, `Spec`, `FairSpec`, properties |
| `MCHarness` | | plan shapes for TLC |
| `HarnessProofs` | | types; the checkpoint; bounces, answers and questions; the plan and its tasks |
| `AppSession` | `app.py` (`submit`, `answer_query`, `action_interrupt`, `_drive`, `_on_checkpoint`), the turn events of `ui/store.py`, the steering branch of `driver.py` | several workers on the fields they share |
| `Turn` | | what the app promises of a turn: the abstract specification `AppSession` implements |
| `AppSessionProofs` | | types; the safety properties; the steps of `Turn` |
| `ChatView` | `ui/store.py`, `ui/widgets/chat_log.py`, the events of `driver.py` and `sink.py` | events to state, state to widgets |
| `TaskBuild`, `MCTaskBuild` | `nodes/implementer.py`, `nodes/verifier.py`, `snapshot.py` | one task in detail; step plans for TLC |
| `ToolLoop` | the loops of `node.py` and their hooks in the nodes, `tool/read_cache.py`, `read.py` | a node at work with its tools |
| `BashRun` | `tool/bash.py` | one call against a free command; `NodeSpec`: awaited by a node |
| `ChatAgent` | `agent.py` | composes the chat agent with `BashRun` |
| `SmartDriver` | `driver.py` 179-398, `steering.py`, `driver_control` of `models.py` | advice over the two graphs of `HarnessGraph` |
| `SessionStore` | `session/service.py`, `session/store.py`, `project_map/store.py`, the hook in `cli.py` | writes, failures and crashes |
| `LLMStream` | `provider/client.py`, `framing.py`, `protocols/openai_chat.py` | one call of the model |
| `TaskBuildProofs`, `ToolLoopProofs`, `ChatAgentProofs`, `SmartDriverProofs`, `SessionStoreProofs` | | types and safety of the module they are named after; `ChatAgentProofs` has those of `BashRun` too |
| `StreamProofs` | | types and safety of `LLMStream` and of `ChatView`: from the provider to the screen |

`MCHarness` EXTENDS `Harness` EXTENDS `SessionState` EXTENDS `HarnessGraph`. The
proof modules extend what they prove. `LLMStream` says `StreamInit`, `StreamNext`,
`StreamSpec`, so that a module can extend it and `ChatView` both. `AppSession` stands beside `Harness`: it abstracts the
nodes `Harness` has, and has the workers `Harness` leaves out. `SmartDriver` EXTENDS
`HarnessGraph`, `ChatAgent` EXTENDS `BashRun`. The others stand alone and say in
their heading which module has the rest: `Harness` sees of `TaskBuild` that the
implementer is green or not, `TaskBuild` of `ToolLoop` that files change, `ToolLoop`
of `LLMStream` that a round has calls, or fails, of `BashRun` that a command ends.
An operator with the suffix `Mutant` is a plausible bug in the
definition of the same name below it; nothing in the specification uses it, and it shows that a
property would notice.

### State and actions

`st` is the root driver's local `state`, `ch` the inner driver's while
`inner`, `ckpt` the app's `_live_state`. Between runs `st` is
what the app keeps in `_harness_state` (or what `run_headless` returns).
`steps`, `innerSteps` and `lastEscape` are the drivers' locals and attribute;
`mode` says whether the turn is running, suspended on a query, interrupted,
done or failed.

A coroutine of the driver suspends only inside `await node.run(...)`. So one
action is: the running node's result, `_apply`, routing, `_advance`, `on_step`
and the start of the next node, with every early return of `Driver.run` as a
disjunct of `DriverStep` (root) or `InnerStep` (inner; it falls through to
`DriverStep` when the inner run ends, since `CompiledGraph.run` returns and
the root driver goes on without another suspension). There is one action per
node; `InferenceFails` is the driver's `except` for the two recoverable errors,
`NodeRaises` any other exception, `TaskAssertionFails` the assertion of the
loop's nodes. `AnswerQuery`, `Interrupt` and `Resume` are the app's
handlers. Model output is an existential choice.

**`AppSession`.** The variables are the app's fields: `turnId`, `harness`
(`_harness_state`), `live` (`_live_state`), `interrupted`, the latest worker
(`runs`, whose event is `_cancel`) and the workers whose event is set
(`cancels`); per worker what became of its task and the `state` in its driver;
and `processing`, `awaiting`, `status` of `AppState`. Textual runs handlers and
workers on one event loop, so a handler is one action and a worker, from one
await to the next, is one action. `SubmitRequest`, `SubmitSteering`,
`AnswerSmartQuery` and `AnswerQuery` are the branches of `submit` (the last two
also of `answer_query`); each ends in `Launch`, where `run_worker(exclusive=True)`
cancels the workers there are. A cancelled worker that has not begun never does
(`gone`); one that awaits is `unwinding` and comes to the end of `_drive` at any
later time, by its `CancelledError` (`UnwindCancelled`), by a node that swallowed
it (`UnwindReturned`, `UnwindDrivesOn`) or by another exception
(`UnwindRaised`). A session is the number of its turn, the boundaries it is past
(`work`), its pending query and how many messages it contains.

**`ChatView`.** `turns`, `processing`, `awaiting` and `conclusion` are fields of
`AppState`, `blocks` are the widgets of the log, `scheduled` its pending flush.
`Dispatch` is `Store.dispatch`: the reducer, then the subscriber that schedules a
flush; `Flush` shows whatever state there is by then. The worker's actions emit events
in the order the driver, the sink and `_drive` do.

**`TaskBuild`.** The work tree is a set of pieces of work, each with its plan, its
visit and the implementer object that made it; a baseline is the set there was. `Author` and `Gate` are
the retry loops of `_drive_test_step` and `_drive_impl_step`, `Record` is the extraction
of the attempt with its routing and checkpoint, `Judge` the verifier.

**`ToolLoop`.** `Start` begins a node; `AskModel` is a streamed round whose calls are
free; each kind of call is an action or, for a read, three: the call, `Stat` and `Open`
of its thread. `Proceed` and `AfterRounds` are what a node adds. There are four kinds of
node (`role`). The explorer reads receivers and rolls a structured output from its
transcript; the planner does the same, without importers to read. The verifier has bash
and rolls, and so does the global validator (verifier.py:130-135,
global_validator.py:125-131). The decider decides in a round or is made to. The
implementer only has rounds. `roll` is an open request for a structured output:
`RollRejected` opens the next one, `RollEnds` is every end, that by the cancel event,
which is seen at the first event of the stream, among them.

**`BashRun`, `ChatAgent`.** `call` is the await a call is at. The command's processes are a
leader, a child in its group and one that has left it; each may hold the pipe.
`Torn` throws a `CancelledError` into the current await. The agent's handler between two
awaits is one action; its task for a call is the module's `Tool`.

**`SmartDriver`.** Sessions are reduced to cursor, saved cursor, pending question, and
the bookkeeping of notes and packets; nodes to the results they may route by.

**`SessionStore`.** An operation queues its writes (`job`); `Open`, `Fill` and `Replace`
are the steps of `_atomic_write_json`, any of which may `Fail` or be the last (`Crash`).
`Tasks` are the work items of `begin_task`, which have files; `PlanTasks` are the tasks
of a plan, which have none. `Persist` writes a checkpoint with the driver's status and
active task: `NoTask`, or one of `PlanTasks`.

**`LLMStream`.** `Frame` is the body of the loop over frames: deadline, parser, events
handed over. `TransportFails` is the `except`. The provider's `Piece` chooses ids and indexes in
its style.

### Abstractions

* A plan is its set of task ids, its dependencies and one Boolean for the
  structural checks of `PlanGate` that have nothing to do with dependencies.
  Ids are distinct and in plan order.
* An attempt is its `adversarial_rounds` (-1: none). No validation runner is
  registered, so an attempt never gets a run result and is always refined in
  place.
* `history` is the count of each back edge some node counts.
* `interview` is the number of answers per asker, and for a gate the last one.
* `plan.decision` is a history variable: the user's answer about this very plan.
  Only properties read it.
* A node that finishes although Esc was pressed (cancellation swallowed inside
  it) is folded into `Interrupt`: the driver sees `cancel` at its next loop top
  and `_drive` ignores what it returns (app.py:276-279). After Esc the option
  picker is unmounted, so a parked query is not answered through it.
* `repair_hint`, steering texts and excerpts only reach prompts. The Smart Driver is
  off (its default) in `Harness`.
* Two concurrent workers (an old one unwinding while a new one starts) are in
  `AppSession`, not in `Harness`. There a node is any step that moves on, asks,
  stops or raises, and the Smart Driver's advisor proceeds, moves the cursor or
  asks; where the cursor goes is in `SmartDriver`.
* A file's body is a version number, a tool's output what it says about one. `fine`
  assumes that each change of a file changes its mtime.
* Texts are one segment each in `ChatView`; contexts, raw outputs, results, plans and
  reports, appended and never touched again, are "cards".
* The clock of `LLMStream` ticks; a tick without a chunk counts towards the
  idle timeout.

## 3. Runs

| run | bounds | question |
|---|---|---|
| `turns` | two tasks, six plan shapes, both policies, advisory on and off, caps 1, budget 20, no Esc | are caps, answers, rejections, dependencies and the report of success respected |
| `interrupts` | two tasks, three shapes, both policies, caps 0/1, budget 10, one Esc anywhere | what does Esc and resume lose or repeat; does every run return and the turn end |
| `workers` | two turns, four messages, two boundaries, Smart Driver on and off, calm and not | do messages, Esc and workers keep the promises of `Turn` |
| `screen` | two turns, five segments and retries, one node, one graph, frames of up to two steps | does the log show the turn, and can its open question be answered |
| `steps` | two plans, two ids, four step plans, both caps 2, one Esc | are gates, patches and rounds of a task what they should be |
| `steering` | three messages, Esc twice, packets for a node of either graph, for two, for the loop, for all, ttl up to 2 | is a message or feedback lost |
| `tools` | two runs of four kinds of node, two files, two rounds of two calls, cache of one entry, one change, one receiver | are transcripts and stubs right, and what is still done after Esc |
| `chat` | two turns, two answers of two calls, one bash call, both ways to cancel | what do timeout, cancel, exit and a free command do to the agent |
| `store` | two processes, two work items, one task of a plan, one checkpoint each, one failed write, crashes anywhere | what may a reader find |
| `stream` | two retries, a budget of 3 ticks, an idle timeout of 2, two calls in four pieces, three styles, clock 6 | is one answer put together right |
| `confirmed`, `orphans` | small | two things the repository says and the code does not do |

*Harness.* Caps are compared against counts, so 0 and 1 are their boundary values; the
budget of `turns` lets every capped loop reach its cap before the backstop. Six plan
shapes: one task; two in a chain, along and against plan order; a
cycle; a dependency on a task outside the plan; a plan refused for other
reasons. Two tasks suffice for every relation the properties name (a task and
one it waits for, a task and one that replaces it). One Esc suffices to save a
cursor, resume and use it.

*Workers.* Four messages are enough for a request, an
answer, a steering message and a new request, so that three workers of two
turns can be there at once.

*The others.* Two of a kind is the least with an order, an overlap or an owner that
is gone, so everything shared or reused comes in twos: turns over one history and one
log, node runs over one cache, plans over one table of baselines, processes over one
directory, pieces of two calls over one parser. A cache of one entry evicts. A budget of
three ticks with an idle timeout of two can be spent in one attempt or over several.
In `steps` the third and fourth visit are past the cap of 2.

*The assumption `calm`.* Most promises of the app hold only if a cancelled worker
has ended before the next message is sent, and ended by its `CancelledError` or a normal
return. `calm` says so: it is a variable without a next value, a guard of the
prompt (`PromptOpen`) and of `UnwindRaised`. A human who types takes longer than
a cancelled await, so this is the usual case, but the code does not enforce it.
`BusyHasWorker` and `PromptReopens` are checked without it. A `calm` worker may still
swallow its cancellation.

Every property of a passing run has a mutant in `PROJECT.json`, a plausible
bug in one modelled definition that TLC finds with that property.

*Fairness.* `Harness.FairSpec` has weak fairness of `NodeEnds`, the union of all ways
a running node ends: model calls, tool calls and gate commands have
timeouts, and tool rounds are capped (`NodeEnds` of `ToolLoop` and `TurnEnds` of
`ChatAgent` check that much in their own models), so an awaited node ends. Nothing is assumed
about which result comes. `RunReturns` needs only that. `TurnEnds` adds, as its
hypothesis, that the user answers and resumes; the code promises neither.
`AppSession` has weak fairness of
`Work(r)` for each worker: a ready task gets to run, and nodes, the advisor and
cleanups have timeouts. `TaskBuild` and `ToolLoop` have it of the node's own steps, threads
included; `ChatAgent` and `BashRun` of the agent and of each call's task, and of the exit of a
background launcher, but not of the command: it may run for ever. No fairness of the user is
assumed anywhere. `LLMStream` has none: see the keep-alive comments below.
Deadlock is checked for the harness; `TurnOver` is the only stutter and
is enabled only after the turn's end. The other configurations do not check it: an idle prompt may
stay idle, a turn ends, and the bounds stop the rest.

### Findings

* `BuiltPlanWasConfirmed`: after an approval, a replan from the loop or from
  global validation is carried out without confirmation, because the old
  approval still counts as fresh (confirm_gates.py:85).
* `CancelledGroupDies`: Esc during a node's foreground command leaves the
  command's process group running. The event is set and the task cancelled in the same step,
  the `CancelledError` reaches `asyncio.wait` first, and only the other branch kills
  (bash.py:85-103). Under the chat agent the group does die (`OrphanKillsGroup`).

### Known divergences without a run

Met while modelling; the model has the behaviour unless it says otherwise.

*Harness.*
* A saved subgraph cursor survives a REPAIR(plan) that comes after Esc and a resume, and is applied
  to the next plan (graph.py:102, 130-131): the assertion of execution.py:32 ends the turn.
  `CursorTaskInPlan` is therefore checked without Esc.
* The cap that should stop implementer-to-planner cycles is read from an attempt the
  escape has just discarded (implementer.py:386), so the "best effort" of its docstring is never
  made (`GreenBeforeNext` relies on it) and only the step budget ends the cycle.
* The message of an escalation is overwritten by the parking notice (driver.py:92).
* With no acceptance spec, the advance gate looks only at the checks the judge emitted
  (verifier.py:180-192), though the comment above it says every criterion (139-141).
* Baselines are kept per task id for the life of the implementer (implementer.py:124, 150), so a
  patch may contain the work of an earlier plan or turn under the same id.
* A test step driven again after a repair is told its test "PASSED before any implementation
  exists" (implementer.py:367); a gate without a command is green, so such a test is never
  red; a gate that times out (124) or is not found counts as red.
* A provider failure inside the fast path is shown as finished (sink.py:156-159).

*App and Smart Driver.*
* A worker that Esc cancelled, and that unwinds after the next message was sent (not `calm`),
  fails the resumed turn and drops its session while the new worker goes on behind an idle
  prompt (app.py:266).
* A Smart Driver question interrupted by Esc stays pending and is asked again after the run
  (driver.py:375-376).
* A redirect to `reporter` gives a SUCCEEDED report without validation; one to
  `implement_loop` or `global_validator` without a plan fails the turn; one to `implementer` with a saved
  loop cursor enters the loop where the cursor says. Packets for `implement_loop` or `*` are used up
  by nodes that have no prompt. `FeedbackNotLost` counts such a node as having heard.
* `set_llm` makes a new driver, so read cache and baselines start anew while the turn goes on.

*Tools and agent.*
* Esc while bash runs in the last round of the verifier or of the global validator may
  be swallowed around bash. Nothing looks at the event after the last round
  (node.py:714-745), so the node still opens the request for its structured output; the
  event is looked at when the stream's first event comes (node.py:610-614), and if the
  stream has none, the request is made again, up to `MAX_DISPATCH_ATTEMPTS`.
  `NothingAfterEsc` excepts exactly these requests.
* The nodes of the root driver share one read cache for the session; each entry of the implement loop
  has a cache of its own (graph.py:117-122). `ToolLoop` has one cache, of either kind.
* The explorer records the stub of a cached read as an excerpt (explorer.py:149-165), which 152-153
  calls ground-truth file bodies; a stub may refer to a body another node has seen.
* A chat turn cut inside a round leaves calls without answers in `history`, which the next turn
  sends (`RequestWellFormed` of `ChatAgent` allows exactly that round). A `CancelledError` a tool
  raises by itself is not caught at agent.py:262.

*Provider.*
* The deadline is looked at only when a data frame comes (client.py:128). A provider that sends
  comments (`Comment`) resets the idle timeout and never trips the budget that "bounds a call
  that keeps trickling chunks forever" (client.py:32-34).
* A connection lost after the first event is no recoverable error for the driver
  (driver.py:40): the turn fails. An answer that ends without a reason to finish loses the calls it
  was streaming; the round then looks like one without calls. A repeated reason to finish
  hands the calls over twice; the model has at most one.

*Screen and store.*
* Whether a question is a picker depends on the flag `awaiting_input` alone (chat_log.py:494-505,
  556-563). So the second question of a turn makes the first one, though answered, a picker again
  beside it; a test expects "exactly one QueryWidget while interactive"
  (tests/ui/test_chat_log_query_reconcile.py:10), and has one question. `OpenQuestionIsLive` says
  what does hold: pickers exactly while an answer is awaited, and the newest question among them.
* `state.json` does not say what the session service holds. The step hook (cli.py:100-127)
  replaces it with the driver's state, which is never busy and whose active task is null or a
  task of the plan (models.py:255-257, 705-706; the merge keeps it, implement_loop.py:91-93), an
  id without files under `tasks/`; session/CONTRACT.md:12 names only the service's writes.
  `ActiveTaskOnDisk` is therefore about the work items that `state.json` names.
* A turn's last changes are not shown if the next turn is mounted in the
  same frame (711-717); what a cancelled worker still sends on a paused turn is not shown; tool cards of a turn
  that Esc cut keep spinning.
* `project_map.json` is written by all
  processes through one temporary file and may be torn; it is read once, at start.
  `end_task` is never called.

## 4. Proofs

Every invariant and every action property the passing runs check is also a theorem, for every
value of the constants (two of them as long as nobody presses Esc); what TLC adds is liveness, the findings, and the evidence that the
properties can fail. The assumptions are those the modules declare (`NTasksAssumption` to
`CapAssumption` of the harness, the bounds, kinds and limits of the others): sets of choices
contain choices, bounds are numbers. Three say a little more, and the code justifies them:
`NodesAssumption` (no node has the name of a graph), `TasksAssumption` (`NoTask` is no task) and
`ShellsAssumption` (a session runs finitely many commands). An argument always has the same
outline: a lemma for each operator says what it keeps, one for each action or group of actions that
the inductive invariant survives it, and the theorems follow from that invariant.

### The harness (`HarnessProofs`), for any number of tasks, caps, plans and interrupts

| theorem | statement |
|---|---|
| `TypeCorrect` | `Spec => []TypeOK` |
| `CheckpointAlwaysFollowsRun` | `Spec => []CheckpointFollowsRun` |
| `TallyInvariant`, `KeptInvariant`, `LoopInvariant` | the inductive invariants |
| `BouncesAlwaysCapped`, `AnswersAlwaysActedOn`, `QuestionsAlwaysBounded` | the invariants of those names |
| `SuccessAlwaysMeansAllDone`, `RejectedPlanNeverBuilt` | the invariants of those names |
| `CursorTaskAlwaysInPlan` | `Spec => [](interrupts = 0 => CursorTaskInPlan)` |
| `DoneAlwaysAfterDeps` | `Spec /\ [](interrupts = 0) => DoneOnlyAfterDeps` |
| `DoneAlwaysStaysDone` | `Spec => DoneStaysDone` |

*Type correctness* goes through one lemma per operator of `SessionState`
(`AdvancingToType`, `SubgraphType`, ...), then `DriverStepType` and
`InnerStepType`: whatever well-typed result a node has, the step is well typed.
The theorem then only has to show that each node's results are well typed.

*The checkpoint theorem* is inductive given `TypeOK`; the work is in
`Merge`/`Fork` being inverse to each other on what the property compares
(`MergeFields`, `MergeSaved`, `ForkFields`).

*The tallies.* None of the three invariants is inductive alone. The cap of a
bounce depends on the gate that takes it being the only one that does, and the state
that is current may come from the checkpoint (after Esc) or from the outer
state (after an escape). `TallyInv` therefore asserts `Tallied` of `st`, `ch`
and `ckpt` at once: every counter within its cap, answers and bounces of a gate
apart by at most one, and room for the question that is pending. It adds that a suspended
turn has a pending query and that the inner driver runs only at `implement_loop`.
Steps that change no counter are handled by `TalliedSame`.

*The plan.* `KeptInv` has the same form, for the same reason: `Kept` of all three sessions. It
says where a plan can be. A plan past `plan_gate` is valid and one past the loop is carried out
(`Checked`; unless the gates only advise), and a refused plan is at the gate that bounces it, at
the planner or given up (`Heeded`). That the loop's end means everything is done is `NothingLeft`: if the selector has
nothing to select, the unfinished tasks each wait for another of them, and a valid plan
has no such set.

*The loop.* `LoopInv` relates the forked session to the one it came from (no finished task is
missing in it) and says that the nodes after the selector work on a task that is ready. The
second part, and the two theorems from it, hold as long as nobody pressed Esc: after that a
saved cursor may outlive the plan it was saved with (see the divergences), and it is the code, not
the proof, that needs the hypothesis.

### The application (`AppSessionProofs`), for any number of turns, messages and boundaries

| theorem | statement |
|---|---|
| `AppTypeCorrect` | `Spec => []TypeOK` |
| `AppQuestionsAnswerable`, `AppPausedTurnsKept`, `AppMessagesKept`, `AppOneDriver` | the invariants of those names, which speak of calm workers |
| `AppBusyHasWorker` | the invariant of that name, of any workers |
| `AppClosedStaysClosed` | the action property |
| `AppStepsAreTurnSteps` | `Spec => T!Init /\ [][T!Next]_(T!vars)`, the safety part of `ImplementsTurn` |

*Types.* `TypeOK` is not inductive: a session's counters of messages are bounded
by the number of workers started. `Sized` says so of the parked session, the last
checkpoint and every worker's state; `LaunchSized`, `GoneSized` and
`CheckpointSized` are the three ways an action changes them.

*Four situations.* No safety property is inductive alone, for each ties flags of
the screen to a session and to workers that different handlers write. `CalmInv`
says that a calm application is in one of four situations (`Idle`, `Driven`,
`Waiting`, `Stopped`), each a complete description of those fields. One lemma
per situation (`FromIdle` to `FromStopped`) shows which one a step leads to and
what becomes of the messages and the work. The invariants follow from the
situations, and the simulation of `Turn` from those lemmas: `Phases` says what
`Turn` sees in each situation, `TurnMoves` which pairs of views are a step of it.

*A busy prompt.* `AppBusyHasWorker` holds without `calm`. `BusyInv` adds that
after Esc the prompt is open, so a worker that stands down leaves it so.

### The other modules

| module | theorems | for any number of |
|---|---|---|
| `TaskBuildProofs` | `BuildTypeCorrect`, `GatesAlwaysGreenBeforeNext`, `PatchAlwaysCoversWork`, `UnseenAlwaysSpent` | tasks, step plans, caps, plans, interrupts |
| `ToolLoopProofs` | `ToolTypeCorrect`, `StubAlwaysTrue`, `RequestAlwaysWellFormed`, `NothingEverAfterEsc` | files, rounds, calls, receivers, node runs; sizes of the cache |
| `ChatAgentProofs` | `NodeExitAlwaysTruthful` (of `NodeSpec`), `ChatTypeCorrect`, `AgentExitAlwaysTruthful`, `RequestAlwaysWellFormed` | calls, answers, turns |
| `SmartDriverProofs` | `SteerTypeCorrect`, `NotesAlwaysHeard`, `FeedbackNeverLost` | messages, interrupts, targets; lives of a packet |
| `SessionStoreProofs` | `StoreTypeCorrect`, `FilesNeverTorn`, `ActiveTaskAlwaysOnDisk` | processes, tasks, failures, crashes |
| `StreamProofs` | of `LLMStream`: `StreamTypeCorrect`, `AlwaysHeardFromOneAttempt`, `NeverAfterBudget`, `CallsAlwaysWhole`; of `ChatView`: `ViewTypeCorrect`, `LogAlwaysShowsTurn`, `QuestionAlwaysLive` | retries, calls, pieces, budgets; nodes, turns, steps a frame shows |

* `TaskBuild`. `BuildInv` has the properties and three parts more. `Placed`: the loop is at a step
  of the plan, with a try left when it authors. `Rounded`: an attempt has had fewer rounds than
  there were visits, and the one that is refined is below the cap, in the checkpoint too.
  `Baselines`: a baseline is an earlier tree, that of the task at hand has none of the work of this plan
  and this implementer object, and so the patch, what came after it, has all of it.
* `ToolLoop`. `Typed` has the types, that calls are pending exactly inside a round and
  that a node at work is somewhere; `Rolling` has the limit on rolls. On `Typed` stand
  three invariants that do not need each other. `Versioned`: neither a cache entry nor a
  thread's stat is newer than the body it vouches for or will open, for a thread opens
  the file after it has looked at the time, and a node that is gone may still have
  threads. `Transcript`: only the last round of calls can be unanswered, and what it
  lacks is what is pending. `EscInv`: what survives Esc is a node that has bash
  (`BashOnly`), and one that gets as far as a roll is a verifier whose rounds are spent
  (`Survivor`).
* `BashRun`, `ChatAgent`. `BashInv` ties the reason a call ended for to the await it is at and to
  the state of its own shell; each step of the tool keeps it, whoever calls it, so it serves the
  node and the agent. `TalkInv` has the agent's types and that shells are left for the
  calls that are due. `TranscriptInv` says of each round of the session that it is answered, is the
  one under way, or was left open by a turn that then said no more.
* `SmartDriver`. The session exists in up to three copies, and it depends on an Esc or the end of the loop
  which one goes on. `SteerInv` says of each that advice not heard yet is still in it, and of
  those a run may start from that they have every message.
* `SessionStore`. The invariant is about who may write where: a file other than
  `project_map.json` has one writer (`Owned`), whose temporary file holds what it is to
  hold (`WriteOK`), and what is left of `begin_task` tells what of it is on disk
  (`JobOK`: `Requesting`, `Iteming`, `Naming`). That a work item has one writer needs
  `ActiveTaskOnDisk` itself: a fresh id is one without a file. A checkpoint may replace
  what `state.json` said, but only by a name that is no work item.
* `LLMStream`. `Parsed`: while an attempt is read, the parser's keys and arguments are
  those of the pieces sent, in a form that depends on the provider's style; `Told`: what
  was heard is text, the calls, the rest, of this attempt; `InBudget`: the deadline
  never moves. The types of the parser follow from `Parsed` (`ParsedIsTyped`), and stay
  once the budget is spent (`SpentKeepsParser`).
* `ChatView`. `WorkInv` ties the worker to the flags and to the status of the turn. `BlockInv` says
  of the last block, at any time, that a picker has the question of its place, that a block with another
  status than "running" has none, and that one that is not looked at again shows all there will be. It is
  inductive because the reducer touches no question that is there (`Changes`, one lemma for each of its
  functions), and because a step that changes the turn finds it running or paused.

### Model-checked only

Liveness: `RunReturns` and `TurnEnds` of the harness, `PromptReopens` and the fairness of
`Turn` in `ImplementsTurn`, `NodeEnds`, `OrphanKillsGroup`, `TurnEnds` of the chat agent,
`TaskSettles`. It rests on fairness, hence on ENABLED, which is out of this prover's reach. The
two findings are counterexamples, which TLC exhibits.

## 5. Plan

The models planned are there, and each safety property of theirs is proved. What is left:

1. The steps behind the liveness that are safety: that each run of the driver spends its budget, that each round of
   the tool loop and each attempt of the client uses up something of which there is a finite amount.
2. `CursorTaskInPlan` after Esc, with the plan a saved cursor belongs to as a hypothesis instead
   of `interrupts = 0`.
3. The hazards without a property in `PROJECT.json`.

### Not modelled

* The codec of `SessionState` (store.py 96-672): `state.json` is never read back, so no
  behaviour depends on it. (The status of acceptance checks and the understanding's environment would
  not survive a round trip.)
* The project map's builder, resolvers and parsers: pure extraction over tree-sitter parses.
* Grep, glob, list and the text replacement of edit: single functions of the file system.
* The provider's registry, authentication, request bodies and usage totals; prompts, parsing and
  coercion of structured outputs: data no property reads.
* Layout, styles and keys of the widgets, the other screens, slash commands, settings and
  credentials: rendering, stateless tables and file I/O without protocol state.
* Probes, ledgers, traces, narration: text for prompts and logs.
* Nodes no graph registers (`completion_judge`, `validator`, `failure_analyst`, `locator`, and three
  of `execution.py`).
