----------------------------- MODULE ChatAgent -----------------------------
(***************************************************************************)
(* The chat agent (domain/agent.py) behind the fast path: one history for  *)
(* the whole session, at most MaxIterations answers of the model per turn, *)
(* the tool calls of an answer one after the other, each in a task of its  *)
(* own that the agent polls.  Every call of the bash tool is the module    *)
(* BashRun, and a call may outlive its turn.  The other tools end by       *)
(* themselves.  Opening the session's task is in SessionStore.             *)
(***************************************************************************)
EXTENDS BashRun, Sequences, SequencesExt

CONSTANTS
  Cancels,       \* "esc": the TUI cancels; "event": a caller that only sets the event
  MaxIterations, \* MAX_ITERATIONS
  MaxCalls,      \* bound of the model: tool calls in an answer
  MaxTurns       \* bound of the model: turns

ASSUME CancelsAssumption == Cancels \subseteq {"esc", "event"}
ASSUME LimitsAssumption  == {MaxIterations, MaxCalls, MaxTurns} \subseteq Nat \ {0}

VARIABLES
  turn,    \* turns begun
  at,      \* where the agent is, see AgentPlaces
  cancel,  \* the event of the turn is set
  round,   \* answers asked for in this turn
  todo,    \* its calls that have no result yet
  open,    \* the bash call that it polls
  history, \* Agent.history
  cut      \* turns that ended inside a round of calls

talk == <<turn, at, cancel, round, todo, open, history, cut>>
vars == <<bash, talk>>

(* ask: at the top of the loop.  stream: the model answers.  call: the next*)
(* call is due.  tool, bash: polling its task.  join: the task is cancelled*)
(* and awaited.                                                            *)
AgentPlaces == {"idle", "ask", "stream", "call", "tool", "bash", "join"}

(* Where it awaits something: only there can others act.                   *)
Awaiting == {"stream", "tool", "bash", "join"}

(* fail: an unknown tool or invalid arguments.                             *)
Calls == {"fail", "tool", "bash", "background"}

NoShell == "none"

User(t)         == [role |-> "user", calls |-> 0, turn |-> t]
Assistant(t, n) == [role |-> "assistant", calls |-> n, turn |-> t]
ToolResult(t)   == [role |-> "tool", calls |-> 0, turn |-> t]

Init ==
  /\ BashInit
  /\ turn = 0
  /\ at = "idle"
  /\ cancel = FALSE
  /\ round = 0
  /\ todo = <<>>
  /\ open = NoShell
  /\ history = <<>>
  /\ cut = {}

-----------------------------------------------------------------------------

(* The turn is over, answered or not; a round of calls may be left open.   *)
(* The next turn brings its own event.                                     *)
TurnOver ==
  /\ at' = "idle"
  /\ round' = 0
  /\ todo' = <<>>
  /\ open' = NoShell
  /\ cancel' = FALSE
  /\ cut' = IF todo = <<>> THEN cut ELSE cut \cup {turn}
  /\ UNCHANGED <<turn, history>>

(* The call has its result, also when the result is an error.              *)
Result ==
  /\ history' = Append(history, ToolResult(turn))
  /\ todo' = Tail(todo)
  /\ open' = NoShell
  /\ at' = IF Len(todo) = 1 THEN "ask" ELSE "call"
  /\ UNCHANGED <<turn, cancel, round, cut>>

(* run: the message goes to the history.                                   *)
Prompt ==
  /\ at = "idle"
  /\ turn < MaxTurns
  /\ turn' = turn + 1
  /\ at' = "ask"
  /\ history' = Append(history, User(turn'))
  /\ UNCHANGED <<bash, cancel, round, todo, open, cut>>

(* The top of the loop.                                                    *)
Ask ==
  /\ at = "ask"
  /\ IF cancel \/ round = MaxIterations
     THEN TurnOver
     ELSE /\ at' = "stream"
          /\ round' = round + 1
          /\ UNCHANGED <<turn, cancel, todo, open, history, cut>>
  /\ UNCHANGED bash

(* The stream raises, or brings an event after the cancel.                 *)
StreamFails ==
  /\ at = "stream"
  /\ TurnOver
  /\ UNCHANGED bash

(* The stream ends: the assistant message, with its calls if it has any.   *)
(* The bound: no more calls of the bash tool than Shells has left.         *)
Answer(calls) ==
  /\ at = "stream"
  /\ Cardinality({i \in DOMAIN calls : calls[i] \in {"bash", "background"}})
       <= Cardinality({s \in Shells : call[s] = "none"})
  /\ LET said == Append(history, Assistant(turn, Len(calls)))
     IN  IF calls = <<>>
         THEN /\ at' = "idle"
              /\ cancel' = FALSE
              /\ round' = 0
              /\ history' = said
              /\ UNCHANGED <<turn, todo, open, cut>>
         ELSE /\ at' = "call"
              /\ todo' = calls
              /\ history' = said
              /\ UNCHANGED <<turn, cancel, round, open, cut>>
  /\ UNCHANGED bash

(* A call that cannot start gets no message.                               *)
CallFailsMutant ==
  /\ at = "call"
  /\ Head(todo) = "fail"
  /\ todo' = Tail(todo)
  /\ at' = IF Len(todo) = 1 THEN "ask" ELSE "call"
  /\ UNCHANGED <<bash, turn, cancel, round, open, history, cut>>

CallFails ==
  /\ at = "call"
  /\ Head(todo) = "fail"
  /\ Result
  /\ UNCHANGED bash

(* The task of a tool starts, unless the turn is cancelled already: the    *)
(* first look at the event comes before the task's first step.             *)
CallTool ==
  /\ at = "call"
  /\ Head(todo) = "tool"
  /\ IF cancel
     THEN TurnOver
     ELSE at' = "tool" /\ UNCHANGED <<turn, cancel, round, todo, open, history, cut>>
  /\ UNCHANGED bash

CallBash ==
  /\ at = "call"
  /\ Head(todo) \in {"bash", "background"}
  /\ IF cancel
     THEN TurnOver /\ UNCHANGED bash
     ELSE LET s == CHOOSE s \in Shells : call[s] = "none"
          IN  /\ at' = "bash"
              /\ open' = s
              /\ IF Head(todo) = "bash" THEN Spawn(s) ELSE SpawnBackground(s)
              /\ UNCHANGED <<turn, cancel, round, todo, history, cut>>

(* The poll finds the task of another tool done.                           *)
ToolReturns ==
  /\ at = "tool"
  /\ Result
  /\ UNCHANGED bash

(* The poll finds the bash call done.  Its CancelledError is no Exception: *)
(* it leaves the agent.                                                    *)
BashReturns ==
  /\ at = "bash"
  /\ call[open] = "done"
  /\ IF result[open] = "raised" THEN TurnOver ELSE Result
  /\ UNCHANGED bash

(* The poll sees the event and cancels the task.                           *)
PollCancel ==
  /\ at \in {"tool", "bash"}
  /\ cancel
  /\ IF at = "bash"
     THEN /\ call[open] # "done"
          /\ at' = "join"
          /\ Torn(open)
          /\ UNCHANGED <<stop, turn, cancel, round, todo, open, history, cut>>
     ELSE TurnOver /\ UNCHANGED bash

(* The cancelled task has ended.                                           *)
Join ==
  /\ at = "join"
  /\ call[open] = "done"
  /\ TurnOver
  /\ UNCHANGED bash

(* The event of the turn is set: the bash call it polls sees it.           *)
StopCalls == stop' = [s \in Shells |-> stop[s] \/ s = open]

(* A caller sets the event and nothing else.                               *)
CancelEvent ==
  /\ "event" \in Cancels
  /\ at \in Awaiting
  /\ ~cancel
  /\ cancel' = TRUE
  /\ StopCalls
  /\ UNCHANGED <<call, why, result, procs, pipe, turn, at, round, todo, open, history, cut>>

(* action_interrupt: the event is set and the worker's task is cancelled.  *)
(* The agent is gone at once, from whatever it awaits; the task of the tool*)
(* it polled is not.                                                       *)
Esc ==
  /\ "esc" \in Cancels
  /\ at \in Awaiting
  /\ ~cancel
  /\ TurnOver
  /\ StopCalls
  /\ UNCHANGED <<call, why, result, procs, pipe>>

-----------------------------------------------------------------------------
Outside(A) == A /\ UNCHANGED talk

Agent ==
  \/ Ask \/ StreamFails \/ CallFails \/ CallTool \/ CallBash \/ ToolReturns \/ BashReturns
  \/ PollCancel \/ Join
  \/ \E calls \in BoundedSeq(Calls, MaxCalls) : Answer(calls)

Next ==
  \/ Prompt \/ Agent \/ CancelEvent \/ Esc
  \/ \E s \in Shells : Outside(Command(s)) \/ Outside(Tool(s))

(* The event loop runs the agent and the calls, the provider answers or    *)
(* fails, the other tools and a background launcher end.  The command does *)
(* what it likes.                                                          *)
Fairness ==
  /\ WF_vars(Agent)
  /\ \A s \in Shells :
       /\ WF_vars(Outside(Tool(s)))
       /\ WF_vars(call[s] = "launching" /\ Outside(Exit(s, "leader", "ok")))

Spec == Init /\ [][Next]_vars /\ Fairness

-----------------------------------------------------------------------------
(* Properties.                                                             *)

TypeOK ==
  /\ call \in [Shells -> Places]
  /\ why \in [Shells -> Reasons]
  /\ result \in [Shells -> Results]
  /\ stop \in [Shells -> BOOLEAN]
  /\ procs \in [Shells -> [Kinds -> States]]
  /\ pipe \in [Shells -> SUBSET Kinds]
  /\ turn \in 0 .. MaxTurns
  /\ at \in AgentPlaces
  /\ cancel \in BOOLEAN
  /\ round \in 0 .. MaxIterations
  /\ todo \in BoundedSeq(Calls, MaxCalls)
  /\ open \in Shells \cup {NoShell}
  /\ \A i \in DOMAIN history :
       history[i] \in [role : {"user", "assistant", "tool"}, calls : 0 .. MaxCalls,
                       turn : 1 .. MaxTurns]
  /\ cut \subseteq 1 .. turn

(* What a provider demands of a request: the calls of an assistant message *)
(* are answered one for one before anything else follows.  It holds over   *)
(* all turns of the session, whatever tools and streams fail, except for   *)
(* the last round of a turn that was cancelled inside it.                  *)
RequestWellFormed ==
  at = "stream" =>
    \A i \in DOMAIN history : history[i].role = "assistant" =>
      \/ \A j \in 1 .. history[i].calls :
           i + j \in DOMAIN history /\ history[i + j].role = "tool"
      \/ /\ history[i].turn \in cut
         /\ \A j \in DOMAIN history :
              j > i /\ history[j].turn = history[i].turn => history[j].role = "tool"

(* A bash call that Esc left behind still kills what it started, although  *)
(* the agent that polled it and its turn are gone, unless its output ended *)
(* first.  (Only the task of the tool stands between Esc and the command:  *)
(* see CancelledGroupDies for a caller that has none.)                     *)
OrphanKillsGroup ==
  \A s \in Shells :
    call[s] = "waiting" /\ open # s ~> Alive(s, Group) = {} \/ why[s] = "eof"

(* Every turn ends: a command that never exits, or a process that has left *)
(* its group and keeps the pipe open, cannot hold the agent.               *)
TurnEnds == at # "idle" ~> at = "idle"
=============================================================================
