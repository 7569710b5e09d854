------------------------------ MODULE BashRun ------------------------------
(***************************************************************************)
(* The bash tool (tool/bash.py): a shell in a session of its own, whose    *)
(* output is read to the end of the pipe, or until the timeout, or until   *)
(* the turn is cancelled.  The command is free: it forks processes into    *)
(* its group or out of it, any process may close the pipe, exit, or never  *)
(* exit.  Output is left out; of an exit code only zero, not zero and the  *)
(* tool's own 124 are kept apart.                                          *)
(*                                                                         *)
(* Two callers exist.  The chat agent runs the tool in a task of its own   *)
(* (ChatAgent composes it with this module).  A harness node awaits it in  *)
(* its own coroutine: NodeSpec below.                                      *)
(***************************************************************************)
EXTENDS Integers, FiniteSets

CONSTANT Shells  \* the calls of the tool

ASSUME ShellsAssumption == IsFiniteSet(Shells)

VARIABLES
  call,   \* where each call is, see Places
  why,    \* why it stopped reading, see Reasons
  result, \* its exit code, or "raised": CancelledError
  stop,   \* ctx.cancel is set
  procs,  \* the processes of its command, see Kinds and States
  pipe    \* those that hold the write end of its output

bash == <<call, why, result, stop, procs, pipe>>

(* waiting: asyncio.wait on the read, the event and the timeout.           *)
(* draining: _drain.  dying: proc.wait() after a cancel.  closing: the     *)
(* finally.  reaping: the bounded proc.wait().  launching, probing: a      *)
(* background command's launcher, and the look whether it stays alive.     *)
Places  == {"none", "waiting", "draining", "dying", "closing", "reaping",
            "launching", "probing", "done"}
Reasons == {"none", "eof", "timeout", "cancel", "torn"}
Results == {"none", "ok", "fail", "124", "raised"}

(* The shell, a process of its group, one that has left the group.         *)
Kinds  == {"leader", "child", "stray"}
Group  == {"leader", "child"}
States == {"none", "running", "ok", "fail", "killed"}

NoProcs == [k \in Kinds |-> "none"]

BashInit ==
  /\ call   = [s \in Shells |-> "none"]
  /\ why    = [s \in Shells |-> "none"]
  /\ result = [s \in Shells |-> "none"]
  /\ stop   = [s \in Shells |-> FALSE]
  /\ procs  = [s \in Shells |-> NoProcs]
  /\ pipe   = [s \in Shells |-> {}]

Alive(s, ks) == {k \in ks : procs[s][k] = "running"}

-----------------------------------------------------------------------------
(* The command.  It is not followed after its call.                        *)

(* A process of the group starts another in it, which may inherit the pipe.*)
Fork(s) ==
  /\ call[s] \notin {"launching", "probing"}
  /\ Alive(s, Group) # {}
  /\ procs[s]["child"] = "none"
  /\ procs' = [procs EXCEPT ![s]["child"] = "running"]
  /\ \E holds \in SUBSET {"child"} :
       /\ pipe[s] = {} => holds = {}
       /\ pipe' = [pipe EXCEPT ![s] = @ \cup holds]
  /\ UNCHANGED <<call, why, result, stop>>

(* A process leaves the group.  It matters as long as it holds the pipe.   *)
Stray(s) ==
  /\ call[s] \notin {"launching", "probing"}
  /\ Alive(s, Group) # {}
  /\ pipe[s] # {}
  /\ procs[s]["stray"] = "none"
  /\ procs' = [procs EXCEPT ![s]["stray"] = "running"]
  /\ pipe' = [pipe EXCEPT ![s] = @ \cup {"stray"}]
  /\ UNCHANGED <<call, why, result, stop>>

(* A process redirects its output: the pipe loses a writer.                *)
Redirect(s, k) ==
  /\ k \in pipe[s]
  /\ pipe' = [pipe EXCEPT ![s] = @ \ {k}]
  /\ UNCHANGED <<call, why, result, stop, procs>>

(* A process exits by itself.  Only the shell's exit code is looked at.    *)
Exit(s, k, code) ==
  /\ procs[s][k] = "running"
  /\ procs' = [procs EXCEPT ![s][k] = code]
  /\ pipe' = [pipe EXCEPT ![s] = @ \ {k}]
  /\ UNCHANGED <<call, why, result, stop>>

Command(s) ==
  /\ call[s] # "done"
  /\ \/ Fork(s) \/ Stray(s)
     \/ \E k \in Kinds : Redirect(s, k)
     \/ \E k \in Group : Exit(s, k, "ok")
     \/ Exit(s, "leader", "fail")

-----------------------------------------------------------------------------
(* The tool.                                                               *)

(* _killpg: SIGKILL to the group, also when its leader has gone.           *)
Killed(s) ==
  [procs EXCEPT ![s] = [k \in Kinds |-> IF k \in Alive(s, Group) THEN "killed" ELSE @[k]]]

KillGroup(s) ==
  /\ procs' = Killed(s)
  /\ pipe' = [pipe EXCEPT ![s] = {k \in @ : Killed(s)[s][k] = "running"}]

(* create_subprocess_shell, and the two tasks.                             *)
Spawn(s) ==
  /\ call' = [call EXCEPT ![s] = "waiting"]
  /\ procs' = [procs EXCEPT ![s]["leader"] = "running"]
  /\ pipe' = [pipe EXCEPT ![s] = {"leader"}]
  /\ UNCHANGED <<why, result, stop>>

(* The read is done: every writer has closed the pipe.                     *)
EndOfOutput(s) ==
  /\ call[s] = "waiting"
  /\ pipe[s] = {}
  /\ call' = [call EXCEPT ![s] = "closing"]
  /\ why' = [why EXCEPT ![s] = "eof"]
  /\ UNCHANGED <<result, stop, procs, pipe>>

(* Neither the read nor the cancel came in time.                           *)
TimeOut(s) ==
  /\ call[s] = "waiting"
  /\ pipe[s] # {}
  /\ call' = [call EXCEPT ![s] = "draining"]
  /\ why' = [why EXCEPT ![s] = "timeout"]
  /\ KillGroup(s)
  /\ UNCHANGED <<result, stop>>

(* The group is not killed.                                                *)
CancelledMutant(s) ==
  /\ call[s] = "waiting"
  /\ stop[s]
  /\ call' = [call EXCEPT ![s] = "draining"]
  /\ why' = [why EXCEPT ![s] = "cancel"]
  /\ UNCHANGED <<result, stop, procs, pipe>>

(* The cancel event woke the call.                                         *)
Cancelled(s) ==
  /\ call[s] = "waiting"
  /\ stop[s]
  /\ call' = [call EXCEPT ![s] = "draining"]
  /\ why' = [why EXCEPT ![s] = "cancel"]
  /\ KillGroup(s)
  /\ UNCHANGED <<result, stop>>

(* The drain has no grace: it waits for the end of the pipe.               *)
DrainedMutant(s) ==
  /\ call[s] = "draining"
  /\ pipe[s] = {}
  /\ call' = [call EXCEPT ![s] = IF why[s] = "cancel" THEN "dying" ELSE "closing"]
  /\ UNCHANGED <<why, result, stop, procs, pipe>>

(* _drain returns: the pipe has ended, or the grace has.                   *)
Drained(s) ==
  /\ call[s] = "draining"
  /\ call' = [call EXCEPT ![s] = IF why[s] = "cancel" THEN "dying" ELSE "closing"]
  /\ UNCHANGED <<why, result, stop, procs, pipe>>

Died(s) ==
  /\ call[s] = "dying"
  /\ procs[s]["leader"] # "running"
  /\ call' = [call EXCEPT ![s] = "closing"]
  /\ UNCHANGED <<why, result, stop, procs, pipe>>

(* The finally is over: an exception goes on, a return value is due.       *)
Closed(s) ==
  /\ call[s] = "closing"
  /\ IF why[s] \in {"cancel", "torn"}
     THEN /\ call' = [call EXCEPT ![s] = "done"]
          /\ result' = [result EXCEPT ![s] = "raised"]
     ELSE /\ call' = [call EXCEPT ![s] = "reaping"]
          /\ UNCHANGED result
  /\ UNCHANGED <<why, stop, procs, pipe>>

(* A shell that has not exited yet passes.                                 *)
ExitCodeMutant(s) ==
  IF why[s] = "timeout" THEN "124"
  ELSE IF procs[s]["leader"] \in {"ok", "running"} THEN "ok" ELSE "fail"

(* A command that timed out, or closed its output and did not exit, has no *)
(* exit code of its own.                                                   *)
ExitCode(s) ==
  IF why[s] = "timeout" \/ procs[s]["leader"] = "running" THEN "124"
  ELSE IF procs[s]["leader"] = "ok" THEN "ok" ELSE "fail"

(* The shell has exited, or two more seconds have passed.                  *)
Reaped(s) ==
  /\ call[s] = "reaping"
  /\ call' = [call EXCEPT ![s] = "done"]
  /\ result' = [result EXCEPT ![s] = ExitCode(s)]
  /\ UNCHANGED <<why, stop, procs, pipe>>

(* _run_background: a launcher starts the command, its output in a file.   *)
SpawnBackground(s) ==
  /\ call' = [call EXCEPT ![s] = "launching"]
  /\ procs' = [procs EXCEPT ![s]["leader"] = "running", ![s]["child"] = "running"]
  /\ pipe' = [pipe EXCEPT ![s] = {"leader"}]
  /\ UNCHANGED <<why, result, stop>>

(* communicate() returns.                                                  *)
Launched(s) ==
  /\ call[s] = "launching"
  /\ procs[s]["leader"] # "running"
  /\ pipe[s] = {}
  /\ call' = [call EXCEPT ![s] = "probing"]
  /\ UNCHANGED <<why, result, stop, procs, pipe>>

(* _await_liveness has seen it die, or stay.                               *)
Probed(s) ==
  /\ call[s] = "probing"
  /\ call' = [call EXCEPT ![s] = "done"]
  /\ result' = [result EXCEPT ![s] = "ok"]
  /\ UNCHANGED <<why, stop, procs, pipe>>

Tool(s) ==
  \/ EndOfOutput(s) \/ TimeOut(s) \/ Cancelled(s) \/ Drained(s) \/ Died(s)
  \/ Closed(s) \/ Reaped(s) \/ Launched(s) \/ Probed(s)

(* CancelledError is thrown into the await the call is at.  The finally's  *)
(* suppress swallows it.                                                   *)
Torn(s) ==
  /\ CASE call[s] \in {"waiting", "draining", "dying"} ->
            /\ call' = [call EXCEPT ![s] = "closing"]
            /\ why' = [why EXCEPT ![s] = "torn"]
            /\ UNCHANGED result
       [] call[s] \in {"reaping", "launching", "probing"} ->
            /\ call' = [call EXCEPT ![s] = "done"]
            /\ why' = [why EXCEPT ![s] = "torn"]
            /\ result' = [result EXCEPT ![s] = "raised"]
       [] OTHER -> UNCHANGED <<call, why, result>>
  /\ UNCHANGED <<procs, pipe>>

-----------------------------------------------------------------------------
(* A node that awaits the tool itself.                                     *)

NodeCalls(s) ==
  /\ \A t \in Shells : call[t] \in {"none", "done"}
  /\ call[s] = "none"
  /\ Spawn(s)

(* action_interrupt sets the event and cancels the worker's task.  The     *)
(* CancelledError arrives before the event has woken the call.             *)
NodeEsc(s) ==
  /\ call[s] \notin {"none", "done"}
  /\ ~stop[s]
  /\ stop' = [stop EXCEPT ![s] = TRUE]
  /\ Torn(s)

NodeNext == \E s \in Shells : NodeCalls(s) \/ NodeEsc(s) \/ Command(s) \/ Tool(s)

NodeSpec == BashInit /\ [][NodeNext]_bash /\ \A s \in Shells : WF_bash(Tool(s))

-----------------------------------------------------------------------------
(* Properties.                                                             *)

(* A command that passed did: an exit code of zero, on which the           *)
(* implementer's gates rely, is the shell's own, whichever of the end of   *)
(* the output, the timeout and the cancel came first.                      *)
ExitIsTruthful ==
  \A s \in Shells : call[s] = "done" /\ result[s] = "ok" /\ why[s] # "none" =>
    /\ why[s] = "eof"
    /\ procs[s]["leader"] = "ok"

(* "on timeout or cancel we can SIGKILL the whole group" (bash.py:55-56):  *)
(* of a command whose output is being read when the turn is cancelled,     *)
(* nothing in its group keeps running, unless the output ended first.      *)
CancelledGroupDies ==
  \A s \in Shells :
    stop[s] /\ (call[s] = "waiting" \/ (call[s] = "closing" /\ why[s] = "torn"))
      ~> Alive(s, Group) = {} \/ why[s] = "eof"
=============================================================================
