---------------------------- MODULE SessionStore ----------------------------
(***************************************************************************)
(* The session's files under .poor-code/ (session/service.py, store.py,    *)
(* project_map/store.py, the persist hook of cli.py).  A process writes    *)
(* one file after the other, each through a temporary file of a fixed name *)
(* that is then renamed; any step may fail (OSError) or be the last one    *)
(* before a crash.  A process that starts again is a new process with a    *)
(* session of its own, so processes share project_map.json and nothing     *)
(* else.  A file's content is what the properties tell apart of it.        *)
(***************************************************************************)
EXTENDS Integers, Sequences, FiniteSets, TLC

CONSTANTS
  Procs,       \* processes: two at a time, or one after the other
  Tasks,       \* ids of work items, fresh for every begin_task
  PlanTasks,   \* ids of the tasks of a plan, which the planner gives them
  MaxSteps,    \* bound of the model: checkpoints of a process
  MaxFailures  \* bound of the model: failed writes

ASSUME BoundsAssumption == {MaxSteps, MaxFailures} \subseteq Nat

VARIABLES
  file,     \* content of every path
  tmp,      \* content of its temporary file
  job,      \* the writes that an operation of a process has left
  stage,    \* of the first of them: "open", "fill", "replace"
  fd,       \* what the open temporary file has become, see Fill
  goal,     \* the memory of a process when its job is done
  mem,      \* SessionService._session_state and _active_task
  steps,    \* checkpoints begun
  failures

disk == <<file, tmp>>
work == <<job, stage, fd, goal>>
vars == <<disk, work, mem, steps, failures>>

(* Paths of a session, of a task in it, and the shared one.                *)
SessionJson(p)  == [name |-> "session", proc |-> p]
StateJson(p)    == [name |-> "state", proc |-> p]
RequestJson(t)  == [name |-> "request", task |-> t]
TaskState(t)    == [name |-> "task_state", task |-> t]
ProjectMap      == [name |-> "project_map"]

SessionPaths == {SessionJson(p) : p \in Procs} \cup {StateJson(p) : p \in Procs}
TaskPaths    == {RequestJson(t) : t \in Tasks} \cup {TaskState(t) : t \in Tasks}
Paths        == SessionPaths \cup TaskPaths \cup {ProjectMap}

NoTask == "none"

ASSUME TasksAssumption     == NoTask \notin Tasks
ASSUME PlanTasksAssumption == PlanTasks \cap (Tasks \cup {NoTask}) = {}

(* Torn: not one whole content, as seen by a reader.                       *)
Absent == [is |-> "absent"]
Torn   == [is |-> "torn"]
Empty  == [is |-> "empty"]

Session(p)         == [is |-> "session", proc |-> p]
State(status, t)   == [is |-> "state", status |-> status, task |-> t, step |-> 0]
Checkpoint(k, t)   == [is |-> "state", status |-> "ready", task |-> t, step |-> k]
Request(p, t)      == [is |-> "request", proc |-> p, task |-> t]
ItemState(status)  == [is |-> "item", status |-> status]
Look               == [is |-> "look"]
Placeholder        == [is |-> "map", proc |-> "nobody"]
Map(p)             == [is |-> "map", proc |-> p]

Terminal == {"done", "aborted"}

(* Down, or the status and the active task, and the status of that task.   *)
Down == [up |-> "never", status |-> "ready", task |-> NoTask, item |-> "none"]
Gone == [Down EXCEPT !.up = "gone"]
Up(status, t, item) == [up |-> "yes", status |-> status, task |-> t, item |-> item]

Init ==
  /\ file = [f \in Paths |-> Absent]
  /\ tmp = [f \in Paths |-> Absent]
  /\ job = [p \in Procs |-> <<>>]
  /\ stage = [p \in Procs |-> "open"]
  /\ fd = [p \in Procs |-> "closed"]
  /\ goal = [p \in Procs |-> Down]
  /\ mem = [p \in Procs |-> Down]
  /\ steps = [p \in Procs |-> 0]
  /\ failures = 0

-----------------------------------------------------------------------------
(* Operations: the writes, and the memory when all of them are done.       *)

Free(p) == job[p] = <<>> /\ mem[p].up = "yes"

Begin(p, writes, m) ==
  /\ job' = [job EXCEPT ![p] = writes]
  /\ stage' = [stage EXCEPT ![p] = "open"]
  /\ goal' = [goal EXCEPT ![p] = m]
  /\ UNCHANGED <<disk, fd, failures>>

(* start_session                                                           *)
StartSession(p) ==
  /\ mem[p].up = "never"
  /\ job[p] = <<>>
  /\ Begin(p, << <<SessionJson(p), Session(p)>>,
                 <<StateJson(p), State("ready", NoTask)>>,
                 <<ProjectMap, Look>> >>,
           Up("ready", NoTask, "none"))
  /\ UNCHANGED <<mem, steps>>

(* _build_project_map, in the TUI's event loop.                            *)
WriteMap(p) ==
  /\ Free(p)
  /\ file[ProjectMap] # Map(p)
  /\ Begin(p, << <<ProjectMap, Map(p)>> >>, mem[p])
  /\ UNCHANGED <<mem, steps>>

(* classify_message says "new".                                            *)
NewTask(p) == mem[p].task = NoTask \/ mem[p].item \in Terminal

Fresh(t) == file[RequestJson(t)] = Absent /\ \A p \in Procs : goal[p].task # t

(* The session's state is written first.                                   *)
BeginTaskMutant(p, t) ==
  /\ Free(p)
  /\ NewTask(p)
  /\ Fresh(t)
  /\ Begin(p, << <<StateJson(p), State("busy", t)>>,
                 <<RequestJson(t), Request(p, t)>>,
                 <<TaskState(t), ItemState("pending")>> >>,
           Up("busy", t, "pending"))
  /\ UNCHANGED <<mem, steps>>

(* begin_task                                                              *)
BeginTask(p, t) ==
  /\ Free(p)
  /\ NewTask(p)
  /\ Fresh(t)
  /\ Begin(p, << <<RequestJson(t), Request(p, t)>>,
                 <<TaskState(t), ItemState("pending")>>,
                 <<StateJson(p), State("busy", t)>> >>,
           Up("busy", t, "pending"))
  /\ UNCHANGED <<mem, steps>>

(* end_task: a retry after a failure included.                             *)
EndTask(p, status) ==
  /\ Free(p)
  /\ mem[p].task # NoTask
  /\ Begin(p, << <<TaskState(mem[p].task), ItemState(status)>>,
                 <<StateJson(p), State("ready", NoTask)>> >>,
           Up("ready", NoTask, "none"))
  /\ UNCHANGED <<mem, steps>>

(* persist, on every step of the driver: the driver's own SessionState over*)
(* that of the service.  It is never busy, and its active task is a task of*)
(* the plan: none until the first is selected.                             *)
Persist(p, t) ==
  /\ Free(p)
  /\ steps[p] < MaxSteps
  /\ steps' = [steps EXCEPT ![p] = @ + 1]
  /\ Begin(p, << <<StateJson(p), Checkpoint(steps'[p], t)>> >>, mem[p])
  /\ UNCHANGED mem

-----------------------------------------------------------------------------
(* One write: _atomic_write_json.                                          *)

Target(p) == Head(job[p])[1]
Content(p) == Head(job[p])[2]

(* A write is over: the next one is due, or the memory changes.            *)
Written(p) ==
  /\ job' = [job EXCEPT ![p] = Tail(@)]
  /\ stage' = [stage EXCEPT ![p] = "open"]
  /\ mem' = IF Len(job[p]) = 1 THEN [mem EXCEPT ![p] = goal[p]] ELSE mem
  /\ UNCHANGED <<goal, steps, failures>>

(* The operation raises: its other writes do not happen, the memory stays. *)
(* start_session is not retried, main ends.                                *)
Raise(p) ==
  /\ job' = [job EXCEPT ![p] = <<>>]
  /\ stage' = [stage EXCEPT ![p] = "open"]
  /\ goal' = [goal EXCEPT ![p] = mem[p]]
  /\ mem' = [mem EXCEPT ![p] = IF mem[p].up = "never" THEN Gone ELSE mem[p]]
  /\ UNCHANGED steps

(* ensure_project_map looks, and writes when there is no file; another     *)
(* process may write it in between.                                        *)
LookForMap(p) ==
  /\ job[p] # <<>>
  /\ Content(p) = Look
  /\ IF file[ProjectMap] # Absent
     THEN Written(p)
     ELSE /\ job' = [job EXCEPT ![p] = << <<ProjectMap, Placeholder>> >>]
          /\ UNCHANGED <<stage, goal, mem, steps, failures>>
  /\ UNCHANGED <<disk, fd>>

(* The target is written to, not renamed onto.                             *)
OpenMutant(p) ==
  /\ job[p] # <<>>
  /\ stage[p] = "open"
  /\ Content(p) # Look
  /\ tmp' = [tmp EXCEPT ![Target(p)] = Empty]
  /\ file' = [file EXCEPT ![Target(p)] = Empty]
  /\ fd' = [fd EXCEPT ![p] = "tmp"]
  /\ stage' = [stage EXCEPT ![p] = "fill"]
  /\ UNCHANGED <<job, goal, mem, steps, failures>>

(* The temporary file is opened, and emptied if it is there.               *)
Open(p) ==
  /\ job[p] # <<>>
  /\ stage[p] = "open"
  /\ Content(p) # Look
  /\ tmp' = [tmp EXCEPT ![Target(p)] = Empty]
  /\ fd' = [fd EXCEPT ![p] = "tmp"]
  /\ stage' = [stage EXCEPT ![p] = "fill"]
  /\ UNCHANGED <<file, job, goal, mem, steps, failures>>

Filled(old, new) == IF old \in {Empty, new} THEN new ELSE Torn

(* The bytes go to the file that was opened: it may have been renamed to   *)
(* the target by another process, or replaced there since.                 *)
Fill(p) ==
  /\ job[p] # <<>>
  /\ stage[p] = "fill"
  /\ tmp' = IF fd[p] = "tmp" THEN [tmp EXCEPT ![Target(p)] = Filled(@, Content(p))] ELSE tmp
  /\ file' = IF fd[p] = "target" THEN [file EXCEPT ![Target(p)] = Filled(@, Content(p))] ELSE file
  /\ stage' = [stage EXCEPT ![p] = "replace"]
  /\ UNCHANGED <<job, fd, goal, mem, steps, failures>>

(* The other open handles on that path follow their files.                 *)
Renamed(p) ==
  [q \in Procs |->
     IF q = p THEN "closed"
     ELSE IF job[q] = <<>> \/ stage[q] = "open" \/ Target(q) # Target(p) THEN fd[q]
     ELSE CASE fd[q] = "tmp"    -> "target"
            [] fd[q] = "target" -> "lost"
            [] OTHER            -> fd[q]]

(* os.replace                                                              *)
Replace(p) ==
  /\ job[p] # <<>>
  /\ stage[p] = "replace"
  /\ tmp[Target(p)] # Absent
  /\ file' = [file EXCEPT ![Target(p)] = tmp[Target(p)]]
  /\ tmp' = [tmp EXCEPT ![Target(p)] = Absent]
  /\ fd' = Renamed(p)
  /\ Written(p)

(* The temporary file is gone: another process has renamed it.             *)
ReplaceMissing(p) ==
  /\ job[p] # <<>>
  /\ stage[p] = "replace"
  /\ tmp[Target(p)] = Absent
  /\ Raise(p)
  /\ fd' = [fd EXCEPT ![p] = "closed"]
  /\ UNCHANGED <<disk, failures>>

(* OSError.  A temporary file that could not be renamed is removed, one    *)
(* that could not be filled stays.                                         *)
Fail(p) ==
  /\ failures < MaxFailures
  /\ job[p] # <<>>
  /\ Content(p) # Look
  /\ tmp' = IF stage[p] = "replace" THEN [tmp EXCEPT ![Target(p)] = Absent] ELSE tmp
  /\ Raise(p)
  /\ fd' = [fd EXCEPT ![p] = "closed"]
  /\ failures' = failures + 1
  /\ UNCHANGED file

(* The process dies.                                                       *)
Crash(p) ==
  /\ mem[p].up = "yes" \/ job[p] # <<>>
  /\ mem' = [mem EXCEPT ![p] = Gone]
  /\ job' = [job EXCEPT ![p] = <<>>]
  /\ stage' = [stage EXCEPT ![p] = "open"]
  /\ fd' = [fd EXCEPT ![p] = "closed"]
  /\ goal' = [goal EXCEPT ![p] = Down]
  /\ UNCHANGED <<disk, steps, failures>>

-----------------------------------------------------------------------------
Operation(p) ==
  \/ StartSession(p) \/ WriteMap(p)
  \/ \E t \in PlanTasks \cup {NoTask} : Persist(p, t)
  \/ \E t \in Tasks : BeginTask(p, t)
  \/ \E status \in Terminal : EndTask(p, status)

WriteStep(p) ==
  LookForMap(p) \/ Open(p) \/ Fill(p) \/ Replace(p) \/ ReplaceMissing(p) \/ Fail(p)

Next == \E p \in Procs : Operation(p) \/ WriteStep(p) \/ Crash(p)

Spec == Init /\ [][Next]_vars

-----------------------------------------------------------------------------
Symmetry == Permutations(Procs) \cup Permutations(Tasks)

(* Properties.                                                             *)

Contents ==
  {Absent, Torn, Empty, Look, Placeholder}
    \cup {Session(p) : p \in Procs} \cup {Map(p) : p \in Procs}
    \cup {Checkpoint(k, t) : k \in 1 .. MaxSteps, t \in PlanTasks \cup {NoTask}}
    \cup {State(s, t) : s \in {"ready", "busy"}, t \in Tasks \cup {NoTask}}
    \cup {Request(p, t) : p \in Procs, t \in Tasks}
    \cup {ItemState(s) : s \in Terminal \cup {"pending"}}

Memory == [up : {"never", "yes", "gone"}, status : {"ready", "busy"},
           task : Tasks \cup {NoTask}, item : Terminal \cup {"pending", "none"}]

TypeOK ==
  /\ file \in [Paths -> Contents]
  /\ tmp \in [Paths -> Contents]
  /\ \A p \in Procs : \A i \in DOMAIN job[p] : job[p][i] \in Paths \X Contents
  /\ stage \in [Procs -> {"open", "fill", "replace"}]
  /\ fd \in [Procs -> {"closed", "tmp", "target", "lost"}]
  /\ goal \in [Procs -> Memory]
  /\ mem \in [Procs -> Memory]
  /\ steps \in [Procs -> 0 .. MaxSteps]
  /\ failures \in 0 .. MaxFailures

(* "All writes are atomic" (CONTRACT.md:21): whatever step of a write fails*)
(* or is the last before a crash, a reader of a session's or a task's file *)
(* finds one whole content of that file, or no file.  It does not hold of  *)
(* project_map.json, which several processes write through one temporary   *)
(* file: its reader takes a broken map for an empty one.                   *)
NeverTorn ==
  /\ \A p \in Procs :
       /\ file[SessionJson(p)] \in {Absent, Session(p)}
       /\ file[StateJson(p)].is \in {"absent", "state"}
  /\ \A t \in Tasks :
       /\ file[RequestJson(t)].is \in {"absent", "request"}
       /\ file[TaskState(t)].is \in {"absent", "item"}

(* A work item that a session's state.json names has its two files,        *)
(* whatever failed or crashed; so has the one that the service holds in    *)
(* memory.  A checkpoint names a task of the plan, which has no files.     *)
ActiveTaskOnDisk ==
  \A p \in Procs :
    LET named == IF file[StateJson(p)].is = "state" THEN file[StateJson(p)].task ELSE NoTask
    IN  \A t \in {named, mem[p].task} \cap Tasks :
          /\ file[RequestJson(t)] = Request(p, t)
          /\ file[TaskState(t)].is = "item"
=============================================================================
