------------------------------ MODULE ToolLoop ------------------------------
(***************************************************************************)
(* The loops in which a node lets the model call tools (harness/node.py),  *)
(* and the read cache they share (tool/read_cache.py).  One node runs at a *)
(* time: rounds of the model, the calls of a round one after the other,    *)
(* then what the node does with the transcript.  The explorer also reads   *)
(* the importers of what it read and rolls a structured output; a planner  *)
(* is an explorer that finds no importer.  The verifier, and like it the   *)
(* global validator, has bash and rolls.  The decider (the interviewer's   *)
(* _decide_with_tools) may decide in any round and is forced to after the  *)
(* last.  The implementer is done.                                         *)
(*                                                                         *)
(* A file is read in a thread: a node that is cancelled leaves its thread  *)
(* behind, and the cache outlives the node.  A body is its version number. *)
(***************************************************************************)
EXTENDS Integers, Sequences, FiniteSets, SequencesExt

CONSTANTS
  Paths,      \* files
  Ranges,     \* (start, limit) of a read
  Roles,      \* kinds of node: "explorer", "verifier", "decider", "implementer"
  MaxRounds,  \* max_iterations, max_tool_rounds
  Attempts,   \* MAX_DISPATCH_ATTEMPTS
  Receivers,  \* MAX_RECEIVER_READS
  CacheCap,   \* max_entries of the cache
  Fine,       \* values of fine
  MaxCalls,   \* bound of the model: tool calls in a round
  MaxWrites,  \* bound of the model: times the files change
  MaxRuns     \* bound of the model: node runs

ASSUME RolesAssumption == Roles \subseteq {"explorer", "verifier", "decider", "implementer"}
ASSUME FineAssumption  == Fine \subseteq BOOLEAN
ASSUME LimitsAssumption ==
  /\ {MaxRounds, Attempts, CacheCap} \subseteq Nat \ {0}
  /\ {Receivers, MaxCalls, MaxWrites, MaxRuns} \subseteq Nat

VARIABLES
  disk,     \* body and mtime of every file
  fine,     \* assumption: every change of a file gives it a new mtime
  cache,    \* ReadCache._states in insertion order
  threads,  \* _read calls in flight, see Threads
  run,      \* node runs so far; the latest is the one that runs
  role,     \* the node that runs, "idle": none
  at,       \* where it is, see Places
  cancel,   \* its cancel event is set
  round,    \* rounds begun
  rolls,    \* structured outputs rolled after the rounds
  messages, \* the transcript, without its seed
  todo,     \* calls of the round that have not run yet
  hops,     \* receivers read
  excerpts  \* what the explorer recorded for each file

loop == <<run, role, at, cancel, round, rolls>>
text == <<messages, todo, hops, excerpts>>
vars == <<disk, fine, cache, threads, loop, text>>

(* ask: the next round is due.  call: the next call of the round is due.   *)
(* read, bash: awaiting that tool.  hop: the next receiver is due.  hopped:*)
(* awaiting its read.  roll: the structured output is due.                 *)
Places == {"none", "ask", "call", "read", "bash", "hop", "hopped", "roll"}

Body     == 0 .. MaxWrites
NoBody   == -1
StubBody == -2

(* An entry: body, mtime and range of the latest read of a path.           *)
FileState == [path : Paths, range : Ranges, body : Body, mtime : Body]

(* A thread: before its stat (mtime NoBody) or between stat and open.      *)
Threads == [run : 1 .. MaxRuns, path : Paths, range : Ranges, mtime : Body \cup {NoBody}]

(* fail: an unknown tool, invalid arguments, an exception of the tool.     *)
(* decide, reject: the terminal tool, its output valid or not.             *)
Tools ==
  {"read", "fail"} \cup CASE role = "implementer" -> {"write", "bash"}
                        [] role = "verifier"    -> {"bash"}
                        [] role = "decider"     -> {"decide", "reject"}
                        [] OTHER                -> {}

(* A call, whatever role made it.                                          *)
ToolNames == {"read", "fail", "write", "bash", "decide", "reject"}
Call      == [tool : ToolNames, path : Paths, range : Ranges]

(* Only reads and writes have a path, only reads a range.                  *)
Calls ==
  LET p0 == CHOOSE p \in Paths : TRUE
      r0 == CHOOSE r \in Ranges : TRUE
  IN  {c \in [tool : Tools, path : Paths, range : Ranges] :
         /\ c.tool \notin {"read", "write"} => c.path = p0
         /\ c.tool # "read" => c.range = r0}

Message == [role : {"assistant", "tool", "user"}, calls : Nat]

Assistant(n) == [role |-> "assistant", calls |-> n]
ToolMessage  == [role |-> "tool", calls |-> 0]
UserMessage  == [role |-> "user", calls |-> 0]

-----------------------------------------------------------------------------
(* ReadCache.                                                              *)

Entries(p) == {i \in DOMAIN cache : cache[i].path = p}

(* is_fresh_hit                                                            *)
FreshHit(p, r, mtime) ==
  \E i \in Entries(p) : cache[i].mtime = mtime /\ cache[i].range = r

(* An entry that is there only gets the new mtime.                         *)
CachedMutant(e) ==
  IF Entries(e.path) # {}
  THEN [i \in DOMAIN cache |-> IF i \in Entries(e.path)
                               THEN [cache[i] EXCEPT !.mtime = e.mtime] ELSE cache[i]]
  ELSE Append(IF Len(cache) >= CacheCap THEN Tail(cache) ELSE cache, e)

(* set: in place, or at the end, the oldest entry evicted at the cap.      *)
Cached(e) ==
  IF Entries(e.path) # {}
  THEN [i \in DOMAIN cache |-> IF i \in Entries(e.path) THEN e ELSE cache[i]]
  ELSE Append(IF Len(cache) >= CacheCap THEN Tail(cache) ELSE cache, e)

-----------------------------------------------------------------------------
(* The transcript.                                                         *)

(* The next call of the round, or the end of the round; the implementer's  *)
(* hook may add a nudge, not twice in a row.                               *)
Proceed(msgs, calls) ==
  LET lastAsked == Max({i \in DOMAIN msgs : msgs[i].role = "assistant"} \cup {0})
      nudged    == lastAsked > 1 /\ msgs[lastAsked - 1].role = "user"
  IN  /\ todo' = calls
      /\ IF calls # <<>>
         THEN at' = "call" /\ messages' = msgs
         ELSE /\ at' = "ask"
              /\ messages' \in {msgs} \cup
                   (IF role = "implementer" /\ ~nudged
                    THEN {Append(msgs, UserMessage)} ELSE {})

(* The result of the call goes to the model.                               *)
Result == Proceed(Append(messages, ToolMessage), Tail(todo))

(* _maybe_record_excerpt: the output of a read, last read wins.            *)
Recorded(p, body) ==
  IF role = "explorer" THEN [excerpts EXCEPT ![p] = body] ELSE excerpts

NoExcerpts == [p \in Paths |-> NoBody]

(* The node's coroutine ends, with a result or an exception, and what it   *)
(* has in its variables with it.                                           *)
Vanish ==
  /\ role' = "idle"
  /\ at' = "none"
  /\ round' = 0
  /\ rolls' = 0
  /\ messages' = <<>>
  /\ todo' = <<>>
  /\ hops' = 0
  /\ excerpts' = NoExcerpts
  /\ UNCHANGED run

Leave == Vanish /\ UNCHANGED cancel

-----------------------------------------------------------------------------
(* Rounds.                                                                 *)

(* The driver runs a node, with a fresh event after Esc.                   *)
Start(r) ==
  /\ role = "idle"
  /\ run < MaxRuns
  /\ run' = run + 1
  /\ role' = r
  /\ at' = "ask"
  /\ cancel' = FALSE
  /\ UNCHANGED <<disk, fine, cache, threads, round, rolls, text>>

(* Where a node goes when its rounds are over, with its transcript.        *)
AfterRounds ==
  CASE role = "explorer"               -> "hop"
    [] role \in {"verifier", "decider"} -> "roll"
    [] OTHER                           -> "none"

(* The rounds are over: no calls any more, or max_iterations.              *)
Stop(n, msgs) ==
  IF AfterRounds = "none"
  THEN Leave
  ELSE /\ at' = AfterRounds
       /\ round' = n
       /\ messages' = msgs
       /\ UNCHANGED <<run, role, cancel, rolls, todo, hops, excerpts>>

(* A round: _stream_llm_round and the assistant message.                   *)
AskModel(calls) ==
  /\ at = "ask"
  /\ ~cancel
  /\ round < MaxRounds
  /\ LET msgs == Append(messages, Assistant(Len(calls)))
     IN  IF calls = <<>>
         THEN Stop(round + 1, msgs)
         ELSE /\ at' = "call"
              /\ round' = round + 1
              /\ messages' = msgs
              /\ todo' = calls
              /\ UNCHANGED <<run, role, cancel, rolls, hops, excerpts>>
  /\ UNCHANGED <<disk, fine, cache, threads>>

RoundsSpent ==
  /\ at = "ask"
  /\ round = MaxRounds
  /\ Stop(round, messages)
  /\ UNCHANGED <<disk, fine, cache, threads>>

(* The stream raises, LLMCallTimeout or a provider error: the node ends.   *)
StreamFails ==
  /\ at = "ask"
  /\ ~cancel
  /\ round < MaxRounds
  /\ Leave
  /\ UNCHANGED <<disk, fine, cache, threads>>

(* cancel is checked at the top of a round, but not after the last one.    *)
StopCancelled ==
  /\ at = "ask"
  /\ cancel
  /\ round < MaxRounds
  /\ Leave
  /\ UNCHANGED <<disk, fine, cache, threads>>

-----------------------------------------------------------------------------
(* Calls.                                                                  *)

Due(k) == at = "call" /\ todo # <<>> /\ Head(todo).tool = k

(* Every tool raises CancelledError when cancel is set; it is no Exception *)
(* and ends the node.                                                      *)
ToolCancelled ==
  /\ at = "call"
  /\ Head(todo).tool \in {"read", "write", "bash"}
  /\ cancel
  /\ Leave
  /\ UNCHANGED <<disk, fine, cache, threads>>

(* A changed file has a new body, and a new mtime unless the clock of the  *)
(* file system is too coarse.                                              *)
Change(p) ==
  LET body == Max({disk[q].body : q \in Paths}) + 1
  IN  /\ body <= MaxWrites
      /\ \E mtime \in {body} \cup (IF fine THEN {} ELSE {disk[p].mtime}) :
           disk' = [disk EXCEPT ![p] = [body |-> body, mtime |-> mtime]]

(* The edit tool does not look at the event.                               *)
CallWriteMutant ==
  /\ Due("write")
  /\ Change(Head(todo).path) \/ UNCHANGED disk
  /\ Result
  /\ UNCHANGED <<fine, cache, threads, run, role, cancel, round, rolls, hops, excerpts>>

(* edit, write; an edit whose old string is not there changes nothing.     *)
CallWrite ==
  /\ Due("write")
  /\ ~cancel
  /\ Change(Head(todo).path) \/ UNCHANGED disk
  /\ Result
  /\ UNCHANGED <<fine, cache, threads, run, role, cancel, round, rolls, hops, excerpts>>

(* "ERROR: ..." goes back to the model.                                    *)
CallFails ==
  /\ Due("fail")
  /\ Result
  /\ UNCHANGED <<disk, fine, cache, threads, run, role, cancel, round, rolls, hops, excerpts>>

(* completion.extract returns the node's result.                           *)
CallDecides ==
  /\ Due("decide")
  /\ Leave
  /\ UNCHANGED <<disk, fine, cache, threads>>

(* A rejected decision is not answered.                                    *)
CallRejectedMutant ==
  /\ Due("reject")
  /\ Proceed(messages, Tail(todo))
  /\ UNCHANGED <<disk, fine, cache, threads, run, role, cancel, round, rolls, hops, excerpts>>

(* It raises: the nudge is the result of the call.                         *)
CallRejected ==
  /\ Due("reject")
  /\ Result
  /\ UNCHANGED <<disk, fine, cache, threads, run, role, cancel, round, rolls, hops, excerpts>>

CallBash ==
  /\ Due("bash")
  /\ ~cancel
  /\ at' = "bash"
  /\ UNCHANGED <<disk, fine, cache, threads, run, role, cancel, round, rolls, text>>

(* The command is over.                                                    *)
BashReturns ==
  /\ at = "bash"
  /\ Result
  /\ UNCHANGED <<disk, fine, cache, threads, run, role, cancel, round, rolls, hops, excerpts>>

NewThread(p, r) == [run |-> run, path |-> p, range |-> r, mtime |-> NoBody]

(* ReadTool.execute: asyncio.to_thread.                                    *)
CallRead ==
  /\ Due("read")
  /\ ~cancel
  /\ at' = "read"
  /\ threads' = threads \cup {NewThread(Head(todo).path, Head(todo).range)}
  /\ UNCHANGED <<disk, fine, cache, run, role, cancel, round, rolls, text>>

(* _pull_receivers: an importer that was not read yet.                     *)
HopRead(p, r) ==
  /\ at = "hop"
  /\ ~cancel
  /\ hops < Receivers
  /\ excerpts[p] = NoBody
  /\ at' = "hopped"
  /\ hops' = hops + 1
  /\ threads' = threads \cup {NewThread(p, r)}
  /\ UNCHANGED <<disk, fine, cache, run, role, cancel, round, rolls, messages, todo, excerpts>>

(* No importer left, or cancel.                                            *)
HopsOver ==
  /\ at = "hop"
  /\ at' = "roll"
  /\ UNCHANGED <<disk, fine, cache, threads, run, role, cancel, round, rolls, text>>

(* The body or the stub comes back: to the node that awaits it, or to      *)
(* nobody.                                                                 *)
ReadReturns(t, body) ==
  IF t.run = run /\ at \in {"read", "hopped"}
  THEN /\ excerpts' = Recorded(t.path, body)
       /\ IF at = "read" THEN Result ELSE at' = "hop" /\ UNCHANGED <<messages, todo>>
       /\ UNCHANGED <<run, role, cancel, round, rolls, hops>>
  ELSE UNCHANGED <<loop, text>>

(* _read up to the stat: a hit returns the stub.                           *)
Stat(t) ==
  /\ t.mtime = NoBody
  /\ LET mtime == disk[t.path].mtime
     IN  IF FreshHit(t.path, t.range, mtime)
         THEN threads' = threads \ {t} /\ ReadReturns(t, StubBody)
         ELSE /\ threads' = (threads \ {t}) \cup {[t EXCEPT !.mtime = mtime]}
              /\ UNCHANGED <<loop, text>>
  /\ UNCHANGED <<disk, fine, cache>>

(* ... and from the open on: the body is cached with the mtime of before.  *)
Open(t) ==
  /\ t.mtime # NoBody
  /\ threads' = threads \ {t}
  /\ cache' = Cached([path |-> t.path, range |-> t.range,
                      body |-> disk[t.path].body, mtime |-> t.mtime])
  /\ ReadReturns(t, disk[t.path].body)
  /\ UNCHANGED <<disk, fine>>

-----------------------------------------------------------------------------
(* The structured output: _dispatch, or _terminal, whose attempts each     *)
(* roll up to Attempts times.  At "roll" a request to the model is open:   *)
(* the first one, or the one after rolls that were rejected.  cancel is    *)
(* looked at when an event of the stream arrives, not before the request.  *)

MaxRolls == IF role = "decider" THEN Attempts * Attempts ELSE Attempts

(* Valid; or the attempts are spent and StructuredOutputError goes up; or  *)
(* the stream raises, or its first event finds cancel set.                 *)
RollEnds ==
  /\ at = "roll"
  /\ Leave
  /\ UNCHANGED <<disk, fine, cache, threads>>

(* The counter of attempts starts again.                                   *)
RollRejectedMutant ==
  /\ at = "roll"
  /\ rolls' = (rolls + 1) % MaxRolls
  /\ UNCHANGED <<disk, fine, cache, threads, run, role, at, cancel, round, text>>

(* The output is invalid, or there is none: with cancel set, only a stream *)
(* without any event gets here.                                            *)
RollRejected ==
  /\ at = "roll"
  /\ rolls + 1 < MaxRolls
  /\ rolls' = rolls + 1
  /\ UNCHANGED <<disk, fine, cache, threads, run, role, at, cancel, round, text>>

-----------------------------------------------------------------------------
(* Around the node.                                                        *)

(* Esc: the event is set and the task cancelled, in one step.  The await   *)
(* raises, and the node ends; a thread runs on.  Only around bash may the  *)
(* CancelledError be swallowed.                                            *)
Esc ==
  /\ role # "idle"
  /\ ~cancel
  /\ cancel' = TRUE
  /\ \/ Vanish
     \/ at = "bash" /\ UNCHANGED <<run, role, at, round, rolls, text>>
  /\ UNCHANGED <<disk, fine, cache, threads>>

(* The user, a command or a background process changes a file.             *)
OutsideWrite(p) ==
  /\ Change(p)
  /\ UNCHANGED <<fine, cache, threads, loop, text>>

-----------------------------------------------------------------------------
Init ==
  /\ disk = [p \in Paths |-> [body |-> 0, mtime |-> 0]]
  /\ fine \in Fine
  /\ cache = <<>>
  /\ threads = {}
  /\ run = 0
  /\ role = "idle"
  /\ at = "none"
  /\ cancel = FALSE
  /\ round = 0
  /\ rolls = 0
  /\ messages = <<>>
  /\ todo = <<>>
  /\ hops = 0
  /\ excerpts = NoExcerpts

(* What a round may ask for: up to MaxCalls calls.                         *)
Asked == UNION {[1 .. n -> Calls] : n \in 0 .. MaxCalls}

(* One step of the node or of its thread.                                  *)
Step ==
  \/ \E calls \in Asked : AskModel(calls)
  \/ RoundsSpent \/ StreamFails \/ StopCancelled \/ ToolCancelled
  \/ CallWrite \/ CallFails \/ CallDecides \/ CallRejected
  \/ CallBash \/ BashReturns \/ CallRead
  \/ \E p \in Paths, r \in Ranges : HopRead(p, r)
  \/ HopsOver
  \/ \E t \in threads : Stat(t) \/ Open(t)
  \/ RollEnds \/ RollRejected

Next ==
  \/ \E r \in Roles : Start(r)
  \/ Step
  \/ Esc
  \/ \E p \in Paths : OutsideWrite(p)

Spec == Init /\ [][Next]_vars

(* A node goes on, and so does a thread: a stream of the model ends, for   *)
(* the client times out, and so does a command (BashRun).                  *)
FairSpec == Spec /\ WF_vars(Step)

-----------------------------------------------------------------------------
(* Properties.                                                             *)

(* The variables hold values of the types of the code, within the limits   *)
(* of each role, and a call is pending exactly inside a round.             *)
TypeOK ==
  /\ disk \in [Paths -> [body : Body, mtime : Body]]
  /\ cache \in Seq(FileState) /\ Len(cache) <= CacheCap
  /\ threads \subseteq Threads
  /\ run \in 0 .. MaxRuns
  /\ role \in Roles \cup {"idle"}
  /\ at \in Places
  /\ {fine, cancel} \subseteq BOOLEAN
  /\ round \in 0 .. MaxRounds
  /\ rolls \in 0 .. MaxRolls - 1
  /\ hops \in 0 .. Receivers
  /\ excerpts \in [Paths -> Body \cup {NoBody, StubBody}]
  /\ messages \in Seq(Message)
  /\ todo \in Seq(Call)
  /\ todo # <<>> <=> at \in {"call", "read", "bash"}

(* Each assistant message is followed by one tool message for each of its  *)
(* calls, and there are no others: what the provider insists on.           *)
WellFormed(msgs) ==
  LET Answers(i) == {j \in DOMAIN msgs :
                       /\ j > i
                       /\ \A k \in i + 1 .. j : msgs[k].role = "tool"}
  IN  /\ \A i \in DOMAIN msgs :
           msgs[i].role = "assistant" => Cardinality(Answers(i)) = msgs[i].calls
      /\ \A i \in DOMAIN msgs :
           msgs[i].role = "tool" => i > 1 /\ msgs[i - 1].role \in {"assistant", "tool"}

(* Whenever the model is asked, in a round or for the forced decision, the *)
(* transcript is well formed, whatever failed, was nudged or rejected.     *)
RequestWellFormed == at \in {"ask", "hop", "roll"} => WellFormed(messages)

(* An entry with the mtime of its file has the body of its file, so a stub *)
(* that says "unchanged" is true: no write-side bookkeeping is needed, for *)
(* every read stats before it opens, even in the thread of a node that was *)
(* cancelled.  Only a clock that separates any two changes is assumed.     *)
StubIsTrue ==
  fine => \A i \in DOMAIN cache :
            LET e == cache[i]
            IN  e.mtime = disk[e.path].mtime => e.body = disk[e.path].body

(* A request for a structured output, of a first roll or of the next.      *)
OpensRequest == at' = "roll" /\ (at # "roll" \/ rolls' # rolls)

(* From Esc on the node awaits no other tool, begins no round and changes  *)
(* no file, even when bash swallowed the CancelledError: whoever changes a *)
(* file then is not the node.  It opens no request for a structured output *)
(* either, with one exception: when bash swallowed the CancelledError in   *)
(* the last round of a verifier or of a global validator.                  *)
NothingAfterEsc ==
  [][cancel /\ cancel' =>
       /\ at' \in {"read", "bash", "hopped"} => at' = at
       /\ round' <= round
       /\ OpensRequest => role = "verifier" /\ round = MaxRounds
       /\ disk' # disk => UNCHANGED <<loop, text>>]_vars

(* Every run of a node ends: it decided, gave up or was cancelled.         *)
NodeEnds == role # "idle" ~> role = "idle"

=============================================================================
