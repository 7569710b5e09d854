------------------------- MODULE SessionStoreProofs -------------------------
(***************************************************************************)
(* Proofs about SessionStore: for any number of processes, tasks, failed   *)
(* writes and crashes, no file of a session or of a task is ever torn, and *)
(* the files of a work item that a session names are there.                *)
(*                                                                         *)
(* The argument is about who may write where.  Only project_map.json is    *)
(* written by two processes; the other files have one writer, so their     *)
(* temporary file holds what that writer put there.  That a task has one   *)
(* writer follows from Fresh and from ActiveTaskOnDisk itself.             *)
(***************************************************************************)
EXTENDS SessionStore, SequenceTheorems, TLAPS

OnDisk(p, t) ==
  /\ file[RequestJson(t)] = Request(p, t)
  /\ file[TaskState(t)].is = "item"

(* The tasks a process has, or is about to have.                           *)
Has(p) == {mem[p].task, goal[p].task} \ {NoTask}

(* No two processes have the same task.                                    *)
Owned == \A p, q \in Procs : p # q => Has(p) \cap Has(q) = {}

Checkpoints == {Checkpoint(k, t) : k \in 1 .. MaxSteps, t \in PlanTasks \cup {NoTask}}

(* The writes that name no work item, and the item of the active one.      *)
Plain(p) ==
  {<<ProjectMap, c>> : c \in {Look, Placeholder, Map(p)}}
  \cup {<<SessionJson(p), Session(p)>>}
  \cup {<<StateJson(p), c>> : c \in {State("ready", NoTask)} \cup Checkpoints}
  \cup {<<TaskState(t), ItemState(s)>> : t \in {mem[p].task} \cap Tasks, s \in Terminal}

PlainJob(p) ==
  /\ goal[p].task \in {NoTask, mem[p].task}
  /\ \A i \in 1 .. Len(job[p]) : job[p][i] \in Plain(p)

(* What is left of begin_task, and what of it is done.                     *)
RequestWrite(p, t) == <<RequestJson(t), Request(p, t)>>
ItemWrite(t)       == <<TaskState(t), ItemState("pending")>>
BusyWrite(p, t)    == <<StateJson(p), State("busy", t)>>

Requesting(p, t) ==
  /\ job[p] = <<RequestWrite(p, t), ItemWrite(t), BusyWrite(p, t)>>
  /\ file[RequestJson(t)] = Absent

Iteming(p, t) ==
  /\ job[p] = <<ItemWrite(t), BusyWrite(p, t)>>
  /\ file[RequestJson(t)] = Request(p, t)

Naming(p, t) == job[p] = <<BusyWrite(p, t)>> /\ OnDisk(p, t)

BeginJob(p) ==
  /\ goal[p].task \in Tasks
  /\ \/ Requesting(p, goal[p].task)
     \/ Iteming(p, goal[p].task)
     \/ Naming(p, goal[p].task)

JobOK == \A p \in Procs : job[p] # <<>> => PlainJob(p) \/ BeginJob(p)

(* The temporary file of a write that is under way.                        *)
Clean(p) ==
  /\ stage[p] = "fill"    => fd[p] = "tmp" /\ tmp[Target(p)] = Empty
  /\ stage[p] = "replace" => tmp[Target(p)] = Content(p)

WriteOK == \A p \in Procs : job[p] # <<>> /\ Target(p) # ProjectMap => Clean(p)

Typed == TypeOK /\ job \in [Procs -> Seq(Paths \X Contents)]

(* The inductive invariant.                                                *)
StoreInv == Typed /\ NeverTorn /\ ActiveTaskOnDisk /\ Owned /\ JobOK /\ WriteOK

-----------------------------------------------------------------------------
(* The paths are different, and so are the contents.                       *)

(* Different files have different names.                                   *)
LEMMA PathNames ==
  /\ \A p, q : SessionJson(p) = SessionJson(q) => p = q
  /\ \A p, q : StateJson(p) = StateJson(q) => p = q
  /\ \A t, u : RequestJson(t) = RequestJson(u) => t = u
  /\ \A t, u : TaskState(t) = TaskState(u) => t = u
  /\ \A p, q, t, u : /\ SessionJson(p) # StateJson(q) /\ SessionJson(p) # RequestJson(t)
                     /\ SessionJson(p) # TaskState(t) /\ SessionJson(p) # ProjectMap
                     /\ StateJson(p) # RequestJson(t) /\ StateJson(p) # TaskState(t)
                     /\ StateJson(p) # ProjectMap /\ RequestJson(t) # TaskState(u)
                     /\ RequestJson(t) # ProjectMap /\ TaskState(t) # ProjectMap
BY DEF SessionJson, StateJson, RequestJson, TaskState, ProjectMap

(* The files the operations write.                                         *)
LEMMA PathsExist ==
  /\ ProjectMap \in Paths
  /\ \A p \in Procs : SessionJson(p) \in Paths /\ StateJson(p) \in Paths
  /\ \A t \in Tasks : RequestJson(t) \in Paths /\ TaskState(t) \in Paths
BY DEF Paths, SessionPaths, TaskPaths

(* The contents that the operations write are of different kinds.          *)
LEMMA Kinds ==
  /\ Absent.is = "absent" /\ Torn.is = "torn" /\ Empty.is = "empty" /\ Look.is = "look"
  /\ Placeholder.is = "map"
  /\ \A p : Session(p).is = "session" /\ Map(p).is = "map"
  /\ \A s, t : State(s, t).is = "state" /\ State(s, t).task = t
  /\ \A k, t : Checkpoint(k, t).is = "state" /\ Checkpoint(k, t).task = t
  /\ \A p, t : Request(p, t).is = "request"
  /\ \A s : ItemState(s).is = "item"
  /\ \A p, q, t, u : Request(p, t) = Request(q, u) => p = q /\ t = u
BY DEF Absent, Torn, Empty, Look, Placeholder, Session, Map, State, Checkpoint, Request,
       ItemState

(* And they are contents.                                                  *)
LEMMA ContentsExist ==
  /\ {Absent, Torn, Empty, Look, Placeholder} \subseteq Contents
  /\ \A p \in Procs : Session(p) \in Contents /\ Map(p) \in Contents
  /\ Checkpoints \subseteq Contents
  /\ \A s \in {"ready", "busy"}, t \in Tasks \cup {NoTask} : State(s, t) \in Contents
  /\ \A p \in Procs, t \in Tasks : Request(p, t) \in Contents
  /\ \A s \in Terminal \cup {"pending"} : ItemState(s) \in Contents
BY DEF Contents, Checkpoints

(* A checkpoint names no work item.                                        *)
LEMMA CheckpointTask == \A c \in Checkpoints : c.is = "state" /\ c.task \notin Tasks
BY Kinds, TasksAssumption, PlanTasksAssumption DEF Checkpoints

(* A request written is a file.                                            *)
LEMMA RequestIsThere == \A p, t : Request(p, t) # Absent
<1> TAKE p, t
<1>1. Request(p, t).is = "request" /\ Absent.is = "absent"
  BY Kinds
<1> QED
  BY <1>1

(* Jobs of three writes, taken one after the other.                        *)
LEMMA Tails ==
  \A S : \A a, b, c \in S :
    /\ <<a, b, c>> \in Seq(S) /\ <<b, c>> \in Seq(S) /\ <<c>> \in Seq(S) /\ <<>> \in Seq(S)
    /\ <<a, b, c>> # <<>> /\ <<b, c>> # <<>> /\ <<c>> # <<>>
    /\ Head(<<a, b, c>>) = a /\ Head(<<b, c>>) = b /\ Head(<<c>>) = c
    /\ Tail(<<a, b, c>>) = <<b, c>> /\ Tail(<<b, c>>) = <<c>> /\ Tail(<<c>>) = <<>>
    /\ Len(<<a, b, c>>) = 3 /\ Len(<<b, c>>) = 2 /\ Len(<<c>>) = 1 /\ Len(<<>>) = 0
<1> TAKE S
<1> TAKE a, b, c \in S
<1>1. /\ <<a, b, c>> \in Seq(S) /\ <<b, c>> \in Seq(S) /\ <<c>> \in Seq(S) /\ <<>> \in Seq(S)
      /\ <<a, b, c>> # <<>> /\ <<b, c>> # <<>> /\ <<c>> # <<>>
      /\ Len(<<a, b, c>>) = 3 /\ Len(<<b, c>>) = 2 /\ Len(<<c>>) = 1 /\ Len(<<>>) = 0
  OBVIOUS
<1>2. Head(<<a, b, c>>) = a /\ Head(<<b, c>>) = b /\ Head(<<c>>) = c
  OBVIOUS
<1>3. Tail(<<a, b, c>>) = <<b, c>>
  <2>1. /\ Tail(<<a, b, c>>) \in Seq(S) /\ Len(Tail(<<a, b, c>>)) = 2
        /\ \A i \in 1 .. 2 : Tail(<<a, b, c>>)[i] = <<a, b, c>>[i + 1]
    BY <1>1, HeadTailProperties
  <2>2. \A i \in 1 .. 2 : <<a, b, c>>[i + 1] = <<b, c>>[i]
    OBVIOUS
  <2> QED
    BY <1>1, <2>1, <2>2, SeqEqual
<1>4. Tail(<<b, c>>) = <<c>>
  <2>1. /\ Tail(<<b, c>>) \in Seq(S) /\ Len(Tail(<<b, c>>)) = 1
        /\ \A i \in 1 .. 1 : Tail(<<b, c>>)[i] = <<b, c>>[i + 1]
    BY <1>1, HeadTailProperties
  <2>2. \A i \in 1 .. 1 : <<b, c>>[i + 1] = <<c>>[i]
    OBVIOUS
  <2> QED
    BY <1>1, <2>1, <2>2, SeqEqual
<1>5. Tail(<<c>>) = <<>>
  <2>1. Tail(<<c>>) \in Seq(S) /\ Len(Tail(<<c>>)) = 0
    BY <1>1, HeadTailProperties
  <2> QED
    BY <2>1, EmptySeq
<1> QED
  BY <1>1, <1>2, <1>3, <1>4, <1>5

-----------------------------------------------------------------------------
(* Types.                                                                  *)

(* What a process knows.                                                   *)
LEMMA MemoryTypes ==
  /\ Down \in Memory /\ Gone \in Memory /\ Down.task = NoTask /\ Gone.task = NoTask
  /\ Down.up = "never" /\ Gone.up = "gone"
  /\ \A s \in {"ready", "busy"}, t \in Tasks \cup {NoTask}, i \in Terminal \cup {"pending", "none"} :
       Up(s, t, i) \in Memory /\ Up(s, t, i).task = t
BY DEF Memory, Down, Gone, Up

(* The write that a process is at.                                         *)
LEMMA NextWrite ==
  \A p \in Procs :
    Typed /\ job[p] # <<>> =>
      /\ Target(p) \in Paths /\ Content(p) \in Contents
      /\ job[p] = <<>> \/ Len(job[p]) \in Nat \ {0}
      /\ Head(job[p]) = job[p][1] /\ 1 \in 1 .. Len(job[p])
      /\ Tail(job[p]) \in Seq(Paths \X Contents)
      /\ Len(Tail(job[p])) = Len(job[p]) - 1
      /\ \A i \in 1 .. Len(Tail(job[p])) : Tail(job[p])[i] = job[p][i + 1] /\ i + 1 \in 1 .. Len(job[p])
<1> TAKE p \in Procs
<1> SUFFICES ASSUME Typed, job[p] # <<>>
             PROVE  /\ Target(p) \in Paths /\ Content(p) \in Contents
                    /\ job[p] = <<>> \/ Len(job[p]) \in Nat \ {0}
                    /\ Head(job[p]) = job[p][1] /\ 1 \in 1 .. Len(job[p])
                    /\ Tail(job[p]) \in Seq(Paths \X Contents)
                    /\ Len(Tail(job[p])) = Len(job[p]) - 1
                    /\ \A i \in 1 .. Len(Tail(job[p])) :
                         Tail(job[p])[i] = job[p][i + 1] /\ i + 1 \in 1 .. Len(job[p])
  OBVIOUS
<1>1. job[p] \in Seq(Paths \X Contents)
  BY DEF Typed
<1>2. Head(job[p]) \in Paths \X Contents
  BY <1>1, HeadTailProperties
<1>3. Len(job[p]) \in Nat \ {0}
  BY <1>1, EmptySeq
<1>4. Head(job[p]) = job[p][1]
  BY <1>1, <1>3
<1>5. /\ Tail(job[p]) \in Seq(Paths \X Contents)
      /\ Len(Tail(job[p])) = Len(job[p]) - 1
      /\ \A i \in 1 .. Len(Tail(job[p])) : Tail(job[p])[i] = job[p][i + 1]
  BY <1>1, HeadTailProperties
<1>6. \A i \in 1 .. Len(Tail(job[p])) : i + 1 \in 1 .. Len(job[p])
  BY <1>3, <1>5
<1> QED
  BY <1>2, <1>3, <1>4, <1>5, <1>6 DEF Target, Content

(* What begins an operation is well typed.                                 *)
LEMMA BeginTyped ==
  \A p \in Procs : \A w \in Seq(Paths \X Contents), m \in Memory :
    Typed /\ Begin(p, w, m) /\ mem' = mem /\ steps' \in [Procs -> 0 .. MaxSteps] => Typed'
<1> TAKE p \in Procs
<1> TAKE w \in Seq(Paths \X Contents), m \in Memory
<1> SUFFICES ASSUME Typed, Begin(p, w, m), mem' = mem, steps' \in [Procs -> 0 .. MaxSteps]
             PROVE  Typed'
  OBVIOUS
<1>1. job' \in [Procs -> Seq(Paths \X Contents)]
  BY DEF Typed, Begin
<1>2. \A q \in Procs : \A i \in DOMAIN job'[q] : job'[q][i] \in Paths \X Contents
  BY <1>1, ElementOfSeq, LenProperties
<1>3. stage' \in [Procs -> {"open", "fill", "replace"}] /\ goal' \in [Procs -> Memory]
  BY DEF Typed, TypeOK, Begin
<1>4. UNCHANGED <<file, tmp, fd, failures>>
  BY DEF Begin, disk
<1> QED
  BY <1>1, <1>2, <1>3, <1>4 DEF Typed, TypeOK

(* The jobs are sequences of writes.                                       *)
LEMMA JobsTyped ==
  \A p \in Procs :
    Typed =>
      /\ mem[p] \in Memory /\ goal[p] \in Memory /\ mem[p].task \in Tasks \cup {NoTask}
      /\ << <<SessionJson(p), Session(p)>>, <<StateJson(p), State("ready", NoTask)>>,
            <<ProjectMap, Look>> >> \in Seq(Paths \X Contents)
      /\ << <<ProjectMap, Map(p)>> >> \in Seq(Paths \X Contents)
      /\ << <<ProjectMap, Placeholder>> >> \in Seq(Paths \X Contents)
      /\ \A c \in Checkpoints : << <<StateJson(p), c>> >> \in Seq(Paths \X Contents)
      /\ \A t \in Tasks : <<RequestWrite(p, t), ItemWrite(t), BusyWrite(p, t)>> \in Seq(Paths \X Contents)
      /\ \A t \in Tasks, s \in Terminal :
           << <<TaskState(t), ItemState(s)>>, <<StateJson(p), State("ready", NoTask)>> >>
             \in Seq(Paths \X Contents)
<1> TAKE p \in Procs
<1> SUFFICES ASSUME Typed
             PROVE  /\ mem[p] \in Memory /\ goal[p] \in Memory /\ mem[p].task \in Tasks \cup {NoTask}
                    /\ << <<SessionJson(p), Session(p)>>, <<StateJson(p), State("ready", NoTask)>>,
                          <<ProjectMap, Look>> >> \in Seq(Paths \X Contents)
                    /\ << <<ProjectMap, Map(p)>> >> \in Seq(Paths \X Contents)
                    /\ << <<ProjectMap, Placeholder>> >> \in Seq(Paths \X Contents)
                    /\ \A c \in Checkpoints : << <<StateJson(p), c>> >> \in Seq(Paths \X Contents)
                    /\ \A t \in Tasks :
                         <<RequestWrite(p, t), ItemWrite(t), BusyWrite(p, t)>> \in Seq(Paths \X Contents)
                    /\ \A t \in Tasks, s \in Terminal :
                         << <<TaskState(t), ItemState(s)>>, <<StateJson(p), State("ready", NoTask)>> >>
                           \in Seq(Paths \X Contents)
  OBVIOUS
<1> DEFINE W == Paths \X Contents
<1>1. /\ mem[p] \in Memory /\ goal[p] \in Memory
  BY DEF Typed, TypeOK
<1>2. mem[p].task \in Tasks \cup {NoTask}
  BY <1>1 DEF Memory
<1>3. /\ <<SessionJson(p), Session(p)>> \in W /\ <<StateJson(p), State("ready", NoTask)>> \in W
      /\ <<ProjectMap, Look>> \in W /\ <<ProjectMap, Map(p)>> \in W /\ <<ProjectMap, Placeholder>> \in W
  BY PathsExist, ContentsExist
<1>4. \A c \in Checkpoints : <<StateJson(p), c>> \in W
  BY PathsExist, ContentsExist
<1>5. \A t \in Tasks : RequestWrite(p, t) \in W /\ ItemWrite(t) \in W /\ BusyWrite(p, t) \in W
  BY PathsExist, ContentsExist DEF RequestWrite, ItemWrite, BusyWrite
<1>6. \A t \in Tasks, s \in Terminal : <<TaskState(t), ItemState(s)>> \in W
  BY PathsExist, ContentsExist
<1> HIDE DEF W
<1>7. << <<SessionJson(p), Session(p)>>, <<StateJson(p), State("ready", NoTask)>>,
         <<ProjectMap, Look>> >> \in Seq(W)
  BY <1>3, Tails
<1>8. << <<ProjectMap, Map(p)>> >> \in Seq(W) /\ << <<ProjectMap, Placeholder>> >> \in Seq(W)
  BY <1>3, Tails
<1>9. \A c \in Checkpoints : << <<StateJson(p), c>> >> \in Seq(W)
  BY <1>4, Tails
<1>10. \A t \in Tasks : <<RequestWrite(p, t), ItemWrite(t), BusyWrite(p, t)>> \in Seq(W)
  BY <1>5, Tails
<1>11. \A t \in Tasks, s \in Terminal :
         << <<TaskState(t), ItemState(s)>>, <<StateJson(p), State("ready", NoTask)>> >> \in Seq(W)
  BY <1>3, <1>6, Tails
<1> QED
  BY <1>1, <1>2, <1>7, <1>8, <1>9, <1>10, <1>11 DEF W

LEMMA OperationTyped == \A p \in Procs : Typed /\ Operation(p) => Typed'
<1> TAKE p \in Procs
<1> SUFFICES ASSUME Typed, Operation(p) PROVE Typed'
  OBVIOUS
<1>0. steps \in [Procs -> 0 .. MaxSteps]
  BY DEF Typed, TypeOK
<1>1. CASE StartSession(p)
  <2>1. Up("ready", NoTask, "none") \in Memory
    BY MemoryTypes
  <2> QED
    BY <1>0, <1>1, <2>1, JobsTyped, BeginTyped DEF StartSession
<1>2. CASE WriteMap(p)
  BY <1>0, <1>2, JobsTyped, BeginTyped DEF WriteMap
<1>3. ASSUME NEW t \in PlanTasks \cup {NoTask}, Persist(p, t) PROVE Typed'
  <2> DEFINE c == Checkpoint(steps'[p], t)
  <2>1. steps' = [steps EXCEPT ![p] = steps[p] + 1] /\ steps[p] < MaxSteps /\ mem' = mem
        /\ Begin(p, << <<StateJson(p), c>> >>, mem[p])
    BY <1>3 DEF Persist
  <2>2. steps' \in [Procs -> 0 .. MaxSteps] /\ steps'[p] \in 1 .. MaxSteps
    BY <1>0, <2>1, BoundsAssumption
  <2>3. c \in Checkpoints
    BY <2>2 DEF Checkpoints
  <2> HIDE DEF c
  <2>4. << <<StateJson(p), c>> >> \in Seq(Paths \X Contents)
    BY <2>3, JobsTyped
  <2> QED
    BY <2>1, <2>2, <2>4, JobsTyped, BeginTyped
<1>4. ASSUME NEW t \in Tasks, BeginTask(p, t) PROVE Typed'
  <2>1. Up("busy", t, "pending") \in Memory
    BY MemoryTypes
  <2>2. Begin(p, <<RequestWrite(p, t), ItemWrite(t), BusyWrite(p, t)>>, Up("busy", t, "pending"))
        /\ mem' = mem /\ steps' = steps
    BY <1>4 DEF BeginTask, RequestWrite, ItemWrite, BusyWrite
  <2> QED
    BY <1>0, <2>1, <2>2, JobsTyped, BeginTyped
<1>5. ASSUME NEW s \in Terminal, EndTask(p, s) PROVE Typed'
  <2>1. Up("ready", NoTask, "none") \in Memory
    BY MemoryTypes
  <2>2. mem[p].task \in Tasks
    BY <1>5, JobsTyped DEF EndTask
  <2> QED
    BY <1>0, <1>5, <2>1, <2>2, JobsTyped, BeginTyped DEF EndTask
<1> QED
  BY <1>1, <1>2, <1>3, <1>4, <1>5 DEF Operation

(* A write that is over, or that raised, leaves the types of the job.      *)
JobTypes ==
  /\ job \in [Procs -> Seq(Paths \X Contents)]
  /\ stage \in [Procs -> {"open", "fill", "replace"}]
  /\ goal \in [Procs -> Memory]
  /\ mem \in [Procs -> Memory]
  /\ steps \in [Procs -> 0 .. MaxSteps]

DiskTypes ==
  /\ file \in [Paths -> Contents]
  /\ tmp \in [Paths -> Contents]
  /\ fd \in [Procs -> {"closed", "tmp", "target", "lost"}]
  /\ failures \in 0 .. MaxFailures

(* Queue and disk apart.                                                   *)
LEMMA TypedParts ==
  /\ Typed <=> JobTypes /\ DiskTypes
  /\ Typed' <=> JobTypes' /\ DiskTypes'
<1>1. \A j \in [Procs -> Seq(Paths \X Contents)] :
        \A p \in Procs : \A i \in DOMAIN j[p] : j[p][i] \in Paths \X Contents
  BY ElementOfSeq, LenProperties
<1> QED
  BY <1>1 DEF Typed, TypeOK, JobTypes, DiskTypes

LEMMA WrittenTyped == \A p \in Procs : Typed /\ job[p] # <<>> /\ Written(p) => JobTypes'
<1> TAKE p \in Procs
<1> SUFFICES ASSUME Typed, job[p] # <<>>, Written(p) PROVE JobTypes'
  OBVIOUS
<1>1. JobTypes
  BY TypedParts
<1>2. job' \in [Procs -> Seq(Paths \X Contents)]
  <2>1. Tail(job[p]) \in Seq(Paths \X Contents)
    BY NextWrite
  <2> QED
    BY <1>1, <2>1 DEF JobTypes, Written
<1>3. mem' \in [Procs -> Memory]
  BY <1>1 DEF JobTypes, Written
<1> QED
  BY <1>1, <1>2, <1>3 DEF JobTypes, Written

LEMMA RaiseTyped == \A p \in Procs : Typed /\ Raise(p) => JobTypes'
<1> TAKE p \in Procs
<1> SUFFICES ASSUME Typed, Raise(p) PROVE JobTypes'
  OBVIOUS
<1>1. JobTypes
  BY TypedParts
<1>2. <<>> \in Seq(Paths \X Contents)
  OBVIOUS
<1>3. mem' \in [Procs -> Memory]
  BY <1>1, MemoryTypes DEF JobTypes, Raise
<1>4. job' \in [Procs -> Seq(Paths \X Contents)]
  BY <1>1, <1>2 DEF JobTypes, Raise
<1> QED
  BY <1>1, <1>3, <1>4 DEF JobTypes, Raise

LEMMA FilledTypes == \A a, b \in Contents : Filled(a, b) \in Contents
BY ContentsExist DEF Filled

LEMMA WriteStepTyped == \A p \in Procs : Typed /\ WriteStep(p) => Typed'
<1> TAKE p \in Procs
<1> SUFFICES ASSUME Typed, WriteStep(p) PROVE JobTypes' /\ DiskTypes'
  BY TypedParts
<1>0. JobTypes /\ DiskTypes
  BY TypedParts
<1>1. CASE LookForMap(p)
  <2>1. DiskTypes'
    BY <1>0, <1>1 DEF LookForMap, DiskTypes, disk, Written
  <2>2. CASE Written(p)
    BY <1>1, <2>1, <2>2, WrittenTyped DEF LookForMap
  <2>3. CASE /\ job' = [job EXCEPT ![p] = << <<ProjectMap, Placeholder>> >>]
             /\ UNCHANGED <<stage, goal, mem, steps, failures>>
    <3>1. << <<ProjectMap, Placeholder>> >> \in Seq(Paths \X Contents)
      BY JobsTyped
    <3> QED
      BY <1>0, <2>1, <2>3, <3>1 DEF JobTypes
  <2> QED
    BY <1>1, <2>2, <2>3 DEF LookForMap
<1>2. CASE Open(p)
  <2>1. Target(p) \in Paths /\ Empty \in Contents
    BY <1>2, NextWrite, ContentsExist DEF Open
  <2> QED
    BY <1>0, <1>2, <2>1 DEF Open, JobTypes, DiskTypes
<1>3. CASE Fill(p)
  <2> DEFINE f == Target(p)
             c == Content(p)
  <2>1. f \in Paths /\ c \in Contents
    BY <1>3, NextWrite DEF Fill
  <2>2. /\ tmp' \in {tmp, [tmp EXCEPT ![f] = Filled(tmp[f], c)]}
        /\ file' \in {file, [file EXCEPT ![f] = Filled(file[f], c)]}
    BY <1>3 DEF Fill
  <2>3. tmp' \in [Paths -> Contents] /\ file' \in [Paths -> Contents]
    <3>1. Filled(tmp[f], c) \in Contents /\ Filled(file[f], c) \in Contents
      BY <1>0, <2>1, FilledTypes DEF DiskTypes
    <3> QED
      BY <1>0, <2>1, <2>2, <3>1 DEF DiskTypes
  <2> QED
    BY <1>0, <1>3, <2>3 DEF Fill, JobTypes, DiskTypes
<1>4. CASE Replace(p)
  <2>1. Target(p) \in Paths /\ Absent \in Contents
    BY <1>4, NextWrite, ContentsExist DEF Replace
  <2>2. JobTypes'
    BY <1>4, WrittenTyped DEF Replace
  <2>3. fd' \in [Procs -> {"closed", "tmp", "target", "lost"}]
    <3>1. \A q \in Procs : fd[q] \in {"closed", "tmp", "target", "lost"}
      BY <1>0 DEF DiskTypes
    <3> QED
      BY <1>4, <3>1 DEF Replace, Renamed
  <2> QED
    BY <1>0, <1>4, <2>1, <2>2, <2>3 DEF Replace, Written, DiskTypes
<1>5. CASE ReplaceMissing(p)
  <2>1. JobTypes'
    BY <1>5, RaiseTyped DEF ReplaceMissing
  <2> QED
    BY <1>0, <1>5, <2>1 DEF ReplaceMissing, DiskTypes, disk
<1>6. CASE Fail(p)
  <2>1. JobTypes'
    BY <1>6, RaiseTyped DEF Fail
  <2>2. Target(p) \in Paths /\ Absent \in Contents
    BY <1>6, NextWrite, ContentsExist DEF Fail
  <2>3. failures' \in 0 .. MaxFailures
    BY <1>0, <1>6, BoundsAssumption DEF Fail, DiskTypes
  <2> QED
    BY <1>0, <1>6, <2>1, <2>2, <2>3 DEF Fail, DiskTypes
<1> QED
  BY <1>1, <1>2, <1>3, <1>4, <1>5, <1>6 DEF WriteStep

LEMMA CrashTyped == \A p \in Procs : Typed /\ Crash(p) => Typed'
<1> TAKE p \in Procs
<1> SUFFICES ASSUME Typed, Crash(p) PROVE JobTypes' /\ DiskTypes'
  BY TypedParts
<1>1. JobTypes /\ DiskTypes
  BY TypedParts
<1>2. <<>> \in Seq(Paths \X Contents)
  OBVIOUS
<1> QED
  BY <1>1, <1>2, MemoryTypes DEF Crash, JobTypes, DiskTypes, disk

LEMMA NextTyped == Typed /\ [Next]_vars => Typed'
<1> SUFFICES ASSUME Typed, [Next]_vars PROVE Typed'
  OBVIOUS
<1>1. CASE UNCHANGED vars
  BY <1>1 DEF vars, disk, work, Typed, TypeOK
<1> QED
  BY <1>1, OperationTyped, WriteStepTyped, CrashTyped DEF Next

LEMMA InitTyped == Init => Typed
<1> SUFFICES ASSUME Init PROVE JobTypes /\ DiskTypes
  BY TypedParts
<1>1. <<>> \in Seq(Paths \X Contents) /\ 0 \in 0 .. MaxSteps /\ 0 \in 0 .. MaxFailures
  BY BoundsAssumption
<1>2. JobTypes
  BY <1>1, MemoryTypes DEF Init, JobTypes
<1> QED
  BY <1>1, <1>2, ContentsExist DEF Init, DiskTypes

-----------------------------------------------------------------------------
(* Who writes where.                                                       *)

(* The write that a process is at is one of its own.                       *)
OwnWrite(p) ==
  \/ Target(p) = ProjectMap /\ Content(p) \in {Look, Placeholder, Map(p)}
  \/ Target(p) = SessionJson(p) /\ Content(p) = Session(p)
  \/ /\ Target(p) = StateJson(p)
     /\ Content(p).is = "state"
     /\ \/ Content(p).task \notin Tasks
        \/ Content(p).task \in Tasks \cap Has(p) /\ OnDisk(p, Content(p).task)
  \/ \E t \in Tasks \cap Has(p) :
       \/ /\ Target(p) = RequestJson(t)
          /\ Content(p) = Request(p, t)
          /\ file[RequestJson(t)] = Absent
       \/ /\ Target(p) = TaskState(t)
          /\ Content(p).is = "item"

(* A process writes files of its own, and those of its own task.           *)
LEMMA OwnWrites ==
  \A p \in Procs : Typed /\ JobOK /\ job[p] # <<>> => OwnWrite(p)
<1> TAKE p \in Procs
<1> SUFFICES ASSUME Typed, JobOK, job[p] # <<>> PROVE OwnWrite(p)
  OBVIOUS
<1>1. CASE PlainJob(p)
  <2>1. Head(job[p]) \in Plain(p)
    BY <1>1, NextWrite DEF PlainJob
  <2>2. CASE Head(job[p]) \in {<<ProjectMap, c>> : c \in {Look, Placeholder, Map(p)}}
    BY <2>2 DEF OwnWrite, Target, Content
  <2>3. CASE Head(job[p]) = <<SessionJson(p), Session(p)>>
    BY <2>3 DEF OwnWrite, Target, Content
  <2>4. CASE Head(job[p]) \in {<<StateJson(p), c>> : c \in {State("ready", NoTask)} \cup Checkpoints}
    <3>1. /\ Target(p) = StateJson(p)
          /\ Content(p) \in {State("ready", NoTask)} \cup Checkpoints
      BY <2>4 DEF Target, Content
    <3>2. Content(p).is = "state" /\ Content(p).task \notin Tasks
      BY <3>1, Kinds, CheckpointTask, TasksAssumption
    <3> QED
      BY <3>1, <3>2 DEF OwnWrite
  <2>5. CASE Head(job[p]) \in {<<TaskState(t), ItemState(s)>> : t \in {mem[p].task} \cap Tasks,
                                                                s \in Terminal}
    <3>1. /\ mem[p].task \in Tasks
          /\ Target(p) = TaskState(mem[p].task) /\ Content(p).is = "item"
      BY <2>5, Kinds DEF Target, Content
    <3>2. mem[p].task \in Tasks \cap Has(p)
      BY <3>1, TasksAssumption DEF Has
    <3> QED
      BY <3>1, <3>2 DEF OwnWrite
  <2> QED
    BY <2>1, <2>2, <2>3, <2>4, <2>5 DEF Plain
<1>2. CASE BeginJob(p)
  <2> DEFINE t == goal[p].task
  <2>1. t \in Tasks \cap Has(p)
    BY <1>2, TasksAssumption DEF BeginJob, Has
  <2>2. CASE Requesting(p, t)
    <3>1. Head(job[p]) = RequestWrite(p, t) /\ file[RequestJson(t)] = Absent
      BY <2>2, Tails DEF Requesting
    <3> QED
      BY <2>1, <3>1 DEF OwnWrite, Target, Content, RequestWrite
  <2>3. CASE Iteming(p, t)
    <3>1. Head(job[p]) = ItemWrite(t)
      BY <2>3, Tails DEF Iteming
    <3> QED
      BY <2>1, <3>1, Kinds DEF OwnWrite, Target, Content, ItemWrite
  <2>4. CASE Naming(p, t)
    <3>1. Head(job[p]) = BusyWrite(p, t) /\ OnDisk(p, t)
      BY <2>4, Tails DEF Naming
    <3> QED
      BY <2>1, <3>1, Kinds DEF OwnWrite, Target, Content, BusyWrite
  <2> QED
    BY <1>2, <2>2, <2>3, <2>4 DEF BeginJob
<1> QED
  BY <1>1, <1>2 DEF JobOK

(* Two processes that write at the same time write different files, unless *)
(* it is the project map.                                                  *)
LEMMA Alone ==
  \A p, q \in Procs :
    /\ Typed /\ JobOK /\ Owned /\ p # q /\ job[p] # <<>> /\ job[q] # <<>>
    /\ Target(p) = Target(q)
    => Target(p) = ProjectMap
<1> TAKE p, q \in Procs
<1> SUFFICES ASSUME Typed, JobOK, Owned, p # q, job[p] # <<>>, job[q] # <<>>,
                    Target(p) = Target(q), Target(p) # ProjectMap
             PROVE  FALSE
  OBVIOUS
<1>1. OwnWrite(p) /\ OwnWrite(q)
  BY OwnWrites
<1>2. Has(p) \cap Has(q) = {}
  BY DEF Owned
<1>3. \A r \in {p, q} :
        \/ Target(r) = SessionJson(r) \/ Target(r) = StateJson(r)
        \/ \E t \in Has(r) : Target(r) = RequestJson(t)
        \/ \E t \in Has(r) : Target(r) = TaskState(t)
  BY <1>1 DEF OwnWrite
<1> QED
  BY <1>2, <1>3, PathNames

-----------------------------------------------------------------------------
(* A step of one process leaves what the others are doing alone.           *)

KeepsOthers(p) ==
  /\ \A q \in Procs \ {p} :
       /\ job'[q] = job[q] /\ stage'[q] = stage[q] /\ goal'[q] = goal[q] /\ mem'[q] = mem[q]
       /\ job[q] # <<>> /\ Target(q) # ProjectMap => fd'[q] = fd[q]
  /\ \A f \in Paths :
       (job[p] # <<>> => f # Target(p)) => file'[f] = file[f] /\ tmp'[f] = tmp[f]

(* The files of a task stay, once they are there.                          *)
KeepsTasks ==
  \A t \in Tasks :
    /\ \A q \in Procs : file[RequestJson(t)] = Request(q, t) => file'[RequestJson(t)] = Request(q, t)
    /\ file[TaskState(t)].is = "item" => file'[TaskState(t)].is = "item"

(* What the process itself does next is sound.                             *)
GoesOn(p) ==
  /\ \A q \in Procs \ {p} : Has(p)' \cap Has(q) = {}
  /\ job'[p] # <<>> => PlainJob(p)' \/ BeginJob(p)'
  /\ job'[p] # <<>> /\ Target(p)' # ProjectMap => Clean(p)'

(* A step of one process leaves the writes of the others in order.         *)
LEMMA OthersGoOn ==
  \A p \in Procs :
    StoreInv /\ Typed' /\ KeepsOthers(p) /\ KeepsTasks /\ GoesOn(p) => Owned' /\ JobOK' /\ WriteOK'
<1> TAKE p \in Procs
<1> SUFFICES ASSUME StoreInv, Typed', KeepsOthers(p), KeepsTasks, GoesOn(p)
             PROVE  Owned' /\ JobOK' /\ WriteOK'
  OBVIOUS
<1>1. \A q \in Procs \ {p} :
        job'[q] = job[q] /\ stage'[q] = stage[q] /\ goal'[q] = goal[q] /\ mem'[q] = mem[q]
  BY DEF KeepsOthers
<1>2. \A q \in Procs \ {p} : Has(q)' = Has(q)
  BY <1>1 DEF Has
<1>3. Owned'
  <2>1. \A q, r \in Procs \ {p} : q # r => Has(q)' \cap Has(r)' = {}
    BY <1>2 DEF StoreInv, Owned
  <2>2. \A q \in Procs \ {p} : Has(p)' \cap Has(q)' = {}
    BY <1>2 DEF GoesOn
  <2> QED
    BY <2>1, <2>2 DEF Owned
<1>4. ASSUME NEW q \in Procs \ {p}, job[q] # <<>>, job[p] # <<>>, Target(q) # ProjectMap
      PROVE  Target(q) # Target(p)
  BY <1>4, Alone DEF StoreInv
<1>5. \A q \in Procs \ {p} : job[q] # <<>> /\ Target(q) # ProjectMap =>
        file'[Target(q)] = file[Target(q)] /\ tmp'[Target(q)] = tmp[Target(q)]
  <2> SUFFICES ASSUME NEW q \in Procs \ {p}, job[q] # <<>>, Target(q) # ProjectMap
               PROVE  file'[Target(q)] = file[Target(q)] /\ tmp'[Target(q)] = tmp[Target(q)]
    OBVIOUS
  <2>1. Target(q) \in Paths
    BY NextWrite DEF StoreInv
  <2> QED
    BY <1>4, <2>1 DEF KeepsOthers
<1>6. JobOK'
  <2> SUFFICES ASSUME NEW q \in Procs, job'[q] # <<>> PROVE PlainJob(q)' \/ BeginJob(q)'
    BY DEF JobOK
  <2>1. CASE q = p
    BY <2>1 DEF GoesOn
  <2>2. CASE q # p /\ PlainJob(q)
    BY <1>1, <2>2 DEF PlainJob, Plain
  <2>3. CASE q # p /\ BeginJob(q)
    <3> DEFINE t == goal[q].task
    <3>1. t \in Tasks /\ goal'[q].task = t /\ job'[q] = job[q]
      BY <1>1, <2>3 DEF BeginJob
    <3>2. CASE Requesting(q, t)
      <4>1. Head(job[q]) = RequestWrite(q, t)
        BY <3>2, Tails DEF Requesting
      <4>2. Target(q) = RequestJson(t) /\ Target(q) # ProjectMap
        BY <4>1, PathNames DEF Target, RequestWrite
      <4>3. file'[RequestJson(t)] = Absent
        BY <1>5, <2>3, <3>1, <3>2, <4>2 DEF Requesting
      <4> QED
        BY <3>1, <3>2, <4>3 DEF Requesting, BeginJob
    <3>3. CASE Iteming(q, t)
      BY <3>1, <3>3 DEF Iteming, BeginJob, KeepsTasks
    <3>4. CASE Naming(q, t)
      BY <3>1, <3>4 DEF Naming, OnDisk, BeginJob, KeepsTasks
    <3> QED
      BY <2>3, <3>2, <3>3, <3>4 DEF BeginJob
  <2> QED
    BY <1>1, <2>1, <2>2, <2>3 DEF StoreInv, JobOK
<1>7. WriteOK'
  <2> SUFFICES ASSUME NEW q \in Procs, job'[q] # <<>>, Target(q)' # ProjectMap PROVE Clean(q)'
    BY DEF WriteOK, ProjectMap
  <2>1. CASE q = p
    BY <2>1 DEF GoesOn, ProjectMap
  <2>2. CASE q # p
    <3>1. job[q] # <<>> /\ Target(q)' = Target(q) /\ Content(q)' = Content(q) /\ Target(q) # ProjectMap
      BY <1>1, <2>2 DEF Target, Content
    <3>2. Clean(q)
      BY <3>1 DEF StoreInv, WriteOK
    <3>3. tmp'[Target(q)] = tmp[Target(q)] /\ fd'[q] = fd[q] /\ stage'[q] = stage[q]
      BY <1>5, <2>2, <3>1 DEF KeepsOthers
    <3> QED
      BY <3>1, <3>2, <3>3 DEF Clean
  <2> QED
    BY <2>1, <2>2
<1> QED
  BY <1>3, <1>6, <1>7

-----------------------------------------------------------------------------
(* The steps that change no file.                                          *)

(* A step that touches no file.                                            *)
LEMMA FilesKept ==
  /\ NeverTorn /\ ActiveTaskOnDisk /\ file' = file
  /\ \A q \in Procs : mem'[q].task \in {NoTask, mem[q].task} \/ OnDisk(q, mem'[q].task)
  => NeverTorn' /\ ActiveTaskOnDisk' /\ KeepsTasks
<1> SUFFICES ASSUME NeverTorn, ActiveTaskOnDisk, file' = file,
                    \A q \in Procs : mem'[q].task \in {NoTask, mem[q].task} \/ OnDisk(q, mem'[q].task)
             PROVE  NeverTorn' /\ ActiveTaskOnDisk' /\ KeepsTasks
  OBVIOUS
<1>1. NeverTorn' /\ KeepsTasks
  BY DEF NeverTorn, KeepsTasks, SessionJson, StateJson, RequestJson, TaskState
<1>2. ActiveTaskOnDisk'
  BY TasksAssumption
  DEF ActiveTaskOnDisk, OnDisk, SessionJson, StateJson, RequestJson, TaskState
<1> QED
  BY <1>1, <1>2

(* An operation that begins: its first write is not yet open.              *)
LEMMA BeginSound ==
  \A p \in Procs : \A w, m :
    /\ StoreInv /\ Typed' /\ job[p] = <<>> /\ Begin(p, w, m) /\ mem' = mem
    /\ \A q \in Procs \ {p} : {m.task} \cap Has(q) \subseteq {NoTask}
    /\ PlainJob(p)' \/ BeginJob(p)'
    => StoreInv'
<1> TAKE p \in Procs
<1> TAKE w, m
<1> SUFFICES ASSUME StoreInv, Typed', job[p] = <<>>, Begin(p, w, m), mem' = mem,
                    \A q \in Procs \ {p} : {m.task} \cap Has(q) \subseteq {NoTask},
                    PlainJob(p)' \/ BeginJob(p)'
             PROVE  StoreInv'
  OBVIOUS
<1>1. UNCHANGED <<file, tmp, fd>>
  BY DEF Begin, disk
<1>2. KeepsOthers(p)
  BY <1>1 DEF KeepsOthers, Begin, StoreInv, Typed, TypeOK
<1>3. goal'[p] = m /\ stage'[p] = "open"
  BY DEF Begin, StoreInv, Typed, TypeOK
<1>4. Has(p)' \subseteq Has(p) \cup ({m.task} \ {NoTask})
  BY <1>3 DEF Has
<1>5. \A q \in Procs \ {p} : Has(p)' \cap Has(q) = {}
  BY <1>4 DEF StoreInv, Owned, Has
<1>6. GoesOn(p)
  BY <1>3, <1>5 DEF GoesOn, Clean
<1>7. NeverTorn' /\ ActiveTaskOnDisk' /\ KeepsTasks
  BY <1>1, FilesKept DEF StoreInv
<1> QED
  BY <1>2, <1>6, <1>7, OthersGoOn DEF StoreInv

LEMMA OperationSound == \A p \in Procs : StoreInv /\ Operation(p) => StoreInv'
<1> TAKE p \in Procs
<1> SUFFICES ASSUME StoreInv, Operation(p) PROVE StoreInv'
  OBVIOUS
<1>0. Typed /\ Typed' /\ goal' \in [Procs -> Memory] /\ job \in [Procs -> Seq(Paths \X Contents)]
      /\ goal \in [Procs -> Memory]
  BY OperationTyped DEF StoreInv, Typed, TypeOK
<1>1. CASE StartSession(p)
  <2> DEFINE a == <<SessionJson(p), Session(p)>>
             b == <<StateJson(p), State("ready", NoTask)>>
             c == <<ProjectMap, Look>>
             m == Up("ready", NoTask, "none")
  <2>1. a \in Plain(p)' /\ b \in Plain(p)' /\ c \in Plain(p)'
    BY DEF Plain
  <2>2. m.task = NoTask
    BY MemoryTypes
  <2> HIDE DEF a, b, c, m
  <2>3. job[p] = <<>> /\ Begin(p, <<a, b, c>>, m) /\ mem' = mem
    BY <1>1 DEF StartSession, a, b, c, m
  <2>4. job'[p] = <<a, b, c>> /\ goal'[p] = m
    BY <1>0, <2>3 DEF Begin
  <2>5. Len(job'[p]) = 3 /\ \A i \in 1 .. 3 : job'[p][i] \in {a, b, c}
    BY <2>4
  <2>6. PlainJob(p)'
    BY <2>1, <2>2, <2>4, <2>5 DEF PlainJob
  <2> QED
    BY <1>0, <2>2, <2>3, <2>6, BeginSound
<1>2. CASE WriteMap(p)
  <2> DEFINE a == <<ProjectMap, Map(p)>>
  <2>1. a \in Plain(p)'
    BY DEF Plain
  <2>2. \A q \in Procs \ {p} : {mem[p].task} \cap Has(q) \subseteq {NoTask}
    BY DEF StoreInv, Owned, Has
  <2> HIDE DEF a
  <2>3. job[p] = <<>> /\ Begin(p, <<a>>, mem[p]) /\ mem' = mem
    BY <1>2 DEF WriteMap, Free, a
  <2>4. job'[p] = <<a>> /\ goal'[p] = mem[p]
    BY <1>0, <2>3 DEF Begin
  <2>5. PlainJob(p)'
    BY <2>1, <2>3, <2>4 DEF PlainJob
  <2> QED
    BY <1>0, <2>2, <2>3, <2>5, BeginSound
<1>3. ASSUME NEW t \in PlanTasks \cup {NoTask}, Persist(p, t) PROVE StoreInv'
  <2> DEFINE a == <<StateJson(p), Checkpoint(steps'[p], t)>>
  <2>1. a \in Plain(p)'
    <3>1. steps[p] \in 0 .. MaxSteps /\ steps[p] < MaxSteps /\ steps'[p] = steps[p] + 1
      BY <1>3 DEF Persist, StoreInv, Typed, TypeOK
    <3>2. steps[p] + 1 \in 1 .. MaxSteps
      BY <3>1, BoundsAssumption
    <3> QED
      BY <3>1, <3>2 DEF Plain, Checkpoints
  <2>2. \A q \in Procs \ {p} : {mem[p].task} \cap Has(q) \subseteq {NoTask}
    BY DEF StoreInv, Owned, Has
  <2>3. job[p] = <<>> /\ Begin(p, <<a>>, mem[p]) /\ mem' = mem
    BY <1>3 DEF Persist, Free
  <2> HIDE DEF a
  <2>4. job'[p] = <<a>> /\ goal'[p] = mem[p]
    BY <1>0, <2>3 DEF Begin
  <2>5. PlainJob(p)'
    BY <2>1, <2>3, <2>4 DEF PlainJob
  <2> QED
    BY <1>0, <2>2, <2>3, <2>5, BeginSound
<1>4. ASSUME NEW t \in Tasks, BeginTask(p, t) PROVE StoreInv'
  <2> DEFINE w == <<RequestWrite(p, t), ItemWrite(t), BusyWrite(p, t)>>
             m == Up("busy", t, "pending")
  <2>1. job[p] = <<>> /\ Begin(p, w, m) /\ mem' = mem /\ Fresh(t) /\ m.task = t /\ file' = file
    BY <1>4, MemoryTypes DEF BeginTask, Free, RequestWrite, ItemWrite, BusyWrite, Begin, disk
  <2> HIDE DEF w, m
  <2>2. \A q \in Procs : mem[q].task # t
    <3> SUFFICES ASSUME NEW q \in Procs, mem[q].task = t PROVE FALSE
      OBVIOUS
    <3>1. file[RequestJson(t)] = Request(q, t)
      BY TasksAssumption DEF StoreInv, ActiveTaskOnDisk
    <3>2. file[RequestJson(t)] = Absent
      BY <2>1 DEF Fresh
    <3> QED
      BY <3>1, <3>2, RequestIsThere
  <2>3. \A q \in Procs \ {p} : {m.task} \cap Has(q) \subseteq {NoTask}
    BY <2>1, <2>2 DEF Has, Fresh
  <2>4. job'[p] = w /\ goal'[p] = m
    BY <1>0, <2>1 DEF Begin
  <2>5. BeginJob(p)'
    BY <2>1, <2>4 DEF BeginJob, Requesting, Fresh, w, RequestJson
  <2> QED
    BY <1>0, <2>1, <2>3, <2>5, BeginSound
<1>5. ASSUME NEW s \in Terminal, EndTask(p, s) PROVE StoreInv'
  <2> DEFINE a == <<TaskState(mem[p].task), ItemState(s)>>
             b == <<StateJson(p), State("ready", NoTask)>>
             m == Up("ready", NoTask, "none")
  <2>1. mem[p].task \in Tasks
    BY <1>0, <1>5, JobsTyped DEF EndTask
  <2>2. job[p] = <<>> /\ Begin(p, <<a, b>>, m) /\ mem' = mem
    BY <1>5 DEF EndTask, Free
  <2>3. a \in Plain(p)' /\ b \in Plain(p)'
    BY <2>1, <2>2 DEF Plain
  <2>4. m.task = NoTask
    BY MemoryTypes
  <2> HIDE DEF a, b, m
  <2>5. job'[p] = <<a, b>> /\ goal'[p] = m
    BY <1>0, <2>2 DEF Begin
  <2>6. Len(job'[p]) = 2 /\ \A i \in 1 .. 2 : job'[p][i] \in {a, b}
    BY <2>5
  <2>7. PlainJob(p)'
    BY <2>3, <2>4, <2>5, <2>6 DEF PlainJob
  <2> QED
    BY <1>0, <2>2, <2>4, <2>7, BeginSound
<1> QED
  BY <1>1, <1>2, <1>3, <1>4, <1>5 DEF Operation

-----------------------------------------------------------------------------
(* A write that is over, or given up.                                      *)

(* What is left of a job after its first write: the write has been made if *)
(* it was the request or the item of a new task.                           *)
LEMMA WrittenSound ==
  \A p \in Procs :
    /\ StoreInv /\ Typed' /\ job[p] # <<>> /\ Written(p)
    /\ \A t \in Tasks : Requesting(p, t) => file'[RequestJson(t)] = Request(p, t)
    /\ \A t \in Tasks : Iteming(p, t) => OnDisk(p, t)'
    => /\ Has(p)' \subseteq Has(p)
       /\ job'[p] # <<>> => PlainJob(p)' \/ BeginJob(p)'
       /\ stage'[p] = "open"
       /\ mem'[p].task \in {NoTask, mem[p].task} \/ OnDisk(p, mem'[p].task)
<1> TAKE p \in Procs
<1> SUFFICES ASSUME StoreInv, Typed', job[p] # <<>>, Written(p),
                    \A t \in Tasks : Requesting(p, t) => file'[RequestJson(t)] = Request(p, t),
                    \A t \in Tasks : Iteming(p, t) => OnDisk(p, t)'
             PROVE  /\ Has(p)' \subseteq Has(p)
                    /\ job'[p] # <<>> => PlainJob(p)' \/ BeginJob(p)'
                    /\ stage'[p] = "open"
                    /\ mem'[p].task \in {NoTask, mem[p].task} \/ OnDisk(p, mem'[p].task)
  OBVIOUS
<1>0. /\ Typed /\ JobTypes
      /\ job'[p] = Tail(job[p]) /\ stage'[p] = "open" /\ goal' = goal
      /\ Len(job[p]) = 1 => mem'[p] = goal[p]
      /\ Len(job[p]) # 1 => mem'[p] = mem[p]
  BY TypedParts DEF StoreInv, JobTypes, Written
<1>1. Has(p)' \subseteq Has(p)
  BY <1>0 DEF Has
<1>2. CASE PlainJob(p)
  <2>1. goal[p].task \in {NoTask, mem[p].task}
    BY <1>2 DEF PlainJob
  <2>2. mem'[p].task \in {NoTask, mem[p].task}
    BY <1>0, <2>1
  <2>3. job'[p] # <<>> => PlainJob(p)'
    <3> SUFFICES ASSUME job'[p] # <<>> PROVE PlainJob(p)'
      OBVIOUS
    <3>1. Len(job[p]) # 1
      <4> SUFFICES ASSUME Len(job[p]) = 1 PROVE FALSE
        OBVIOUS
      <4>1. Tail(job[p]) \in Seq(Paths \X Contents) /\ Len(Tail(job[p])) = 0
        BY <1>0, NextWrite
      <4> QED
        BY <1>0, <4>1, EmptySeq
    <3>2. mem'[p] = mem[p] /\ goal'[p] = goal[p]
      BY <1>0, <3>1
    <3>3. Plain(p)' = Plain(p)
      BY <3>2 DEF Plain
    <3>4. \A i \in 1 .. Len(job'[p]) : job'[p][i] \in Plain(p)
      BY <1>0, <1>2, NextWrite DEF PlainJob
    <3> QED
      BY <1>2, <3>2, <3>3, <3>4 DEF PlainJob
  <2> QED
    BY <1>0, <1>1, <2>2, <2>3
<1>3. CASE BeginJob(p)
  <2> DEFINE t == goal[p].task
             a == RequestWrite(p, t)
             b == ItemWrite(t)
             c == BusyWrite(p, t)
  <2>1. t \in Tasks /\ goal'[p].task = t
    BY <1>0, <1>3 DEF BeginJob
  <2>2. CASE Requesting(p, t)
    <3>1. job[p] = <<a, b, c>>
      BY <2>2 DEF Requesting
    <3>2. Tail(job[p]) = <<b, c>> /\ Len(job[p]) # 1
      <4> HIDE DEF a, b, c
      <4> QED
        BY <3>1, Tails
    <3>3. Iteming(p, t)'
      BY <1>0, <2>1, <2>2, <3>2 DEF Iteming, ItemWrite, BusyWrite, RequestJson, Request
    <3> QED
      BY <1>0, <1>1, <2>1, <3>2, <3>3 DEF BeginJob
  <2>3. CASE Iteming(p, t)
    <3>1. job[p] = <<b, c>>
      BY <2>3 DEF Iteming
    <3>2. Tail(job[p]) = <<c>> /\ Len(job[p]) # 1
      <4> HIDE DEF b, c
      <4> QED
        BY <3>1, Tails
    <3>3. Naming(p, t)'
      BY <1>0, <2>1, <2>3, <3>2 DEF Naming, BusyWrite, OnDisk
    <3> QED
      BY <1>0, <1>1, <2>1, <3>2, <3>3 DEF BeginJob
  <2>4. CASE Naming(p, t)
    <3>1. job[p] = <<c>> /\ OnDisk(p, t)
      BY <2>4 DEF Naming
    <3>2. Tail(job[p]) = <<>> /\ Len(job[p]) = 1
      <4> HIDE DEF c
      <4> QED
        BY <3>1, Tails
    <3> QED
      BY <1>0, <1>1, <3>1, <3>2
  <2> QED
    BY <1>3, <2>2, <2>3, <2>4 DEF BeginJob
<1> QED
  BY <1>2, <1>3 DEF StoreInv, JobOK

(* An operation that is over at once, by an error or a crash.              *)
Stops(p) ==
  /\ job'[p] = <<>>
  /\ Has(p)' \subseteq Has(p)
  /\ mem'[p].task \in {NoTask, mem[p].task}

(* A process that stops in the middle of its writes leaves no name         *)
(* dangling.                                                               *)
LEMMA StopsSound ==
  \A p \in Procs :
    StoreInv /\ Typed' /\ KeepsOthers(p) /\ file' = file /\ Stops(p) => StoreInv'
<1> TAKE p \in Procs
<1> SUFFICES ASSUME StoreInv, Typed', KeepsOthers(p), file' = file, Stops(p) PROVE StoreInv'
  OBVIOUS
<1>1. GoesOn(p)
  BY DEF GoesOn, Stops, StoreInv, Owned
<1>2. \A q \in Procs : mem'[q].task \in {NoTask, mem[q].task}
  BY DEF KeepsOthers, Stops
<1>3. NeverTorn' /\ ActiveTaskOnDisk' /\ KeepsTasks
  BY <1>2, FilesKept DEF StoreInv
<1> QED
  BY <1>1, <1>3, OthersGoOn DEF StoreInv

LEMMA RaiseStops == \A p \in Procs : Typed /\ Raise(p) => Stops(p)
<1> TAKE p \in Procs
<1> SUFFICES ASSUME Typed, Raise(p) PROVE Stops(p)
  OBVIOUS
<1>1. /\ job'[p] = <<>> /\ goal'[p] = mem[p]
      /\ mem'[p] \in {Gone, mem[p]}
  BY DEF Typed, TypeOK, Raise
<1> QED
  BY <1>1, MemoryTypes DEF Stops, Has

-----------------------------------------------------------------------------
(* The steps of a write.                                                   *)

LEMMA LookSound == \A p \in Procs : StoreInv /\ LookForMap(p) => StoreInv'
<1> TAKE p \in Procs
<1> SUFFICES ASSUME StoreInv, LookForMap(p) PROVE StoreInv'
  OBVIOUS
<1>0. /\ Typed /\ Typed' /\ JobTypes
      /\ job[p] # <<>> /\ Content(p) = Look /\ UNCHANGED <<file, tmp, fd>>
  BY WriteStepTyped, TypedParts DEF StoreInv, WriteStep, LookForMap, disk
<1>1. Target(p) = ProjectMap
  <2>1. OwnWrite(p)
    BY <1>0, OwnWrites DEF StoreInv
  <2>2. Look.is = "look" /\ Session(p).is = "session" /\ \A t : Request(p, t).is = "request"
    BY Kinds
  <2> QED
    BY <1>0, <2>1, <2>2 DEF OwnWrite
<1>2. CASE Written(p)
  <2>1. \A t \in Tasks : ~Requesting(p, t) /\ ~Iteming(p, t)
    <3> SUFFICES ASSUME NEW t \in Tasks, Requesting(p, t) \/ Iteming(p, t) PROVE FALSE
      OBVIOUS
    <3>1. Head(job[p]) \in {RequestWrite(p, t), ItemWrite(t)}
      BY Tails DEF Requesting, Iteming
    <3>2. Target(p) \in {RequestJson(t), TaskState(t)}
      BY <3>1 DEF Target, RequestWrite, ItemWrite
    <3> QED
      BY <1>1, <3>2, PathNames
  <2>2. KeepsOthers(p)
    BY <1>0, <1>2 DEF KeepsOthers, Written, JobTypes
  <2>3. /\ Has(p)' \subseteq Has(p)
        /\ job'[p] # <<>> => PlainJob(p)' \/ BeginJob(p)'
        /\ stage'[p] = "open"
        /\ mem'[p].task \in {NoTask, mem[p].task} \/ OnDisk(p, mem'[p].task)
    BY <1>0, <1>2, <2>1, WrittenSound
  <2>4. GoesOn(p)
    BY <2>3 DEF GoesOn, Clean, StoreInv, Owned
  <2>5. \A q \in Procs : mem'[q].task \in {NoTask, mem[q].task} \/ OnDisk(q, mem'[q].task)
    BY <2>2, <2>3 DEF KeepsOthers
  <2>6. NeverTorn' /\ ActiveTaskOnDisk' /\ KeepsTasks
    BY <1>0, <2>5, FilesKept DEF StoreInv
  <2> QED
    BY <1>0, <2>2, <2>4, <2>6, OthersGoOn DEF StoreInv
<1>3. CASE /\ job' = [job EXCEPT ![p] = << <<ProjectMap, Placeholder>> >>]
           /\ UNCHANGED <<stage, goal, mem, steps, failures>>
  <2> DEFINE a == <<ProjectMap, Placeholder>>
  <2>1. a \in Plain(p)' /\ Head(<<a>>)[1] = ProjectMap
    BY DEF Plain
  <2>2. job'[p] = <<a>> /\ \A q \in Procs \ {p} : job'[q] = job[q]
    BY <1>0, <1>3 DEF JobTypes
  <2>3. goal[p].task \in {NoTask, mem[p].task}
    <3>1. ~BeginJob(p)
      <4> SUFFICES ASSUME BeginJob(p) PROVE FALSE
        OBVIOUS
      <4>1. PICK t \in Tasks : Requesting(p, t) \/ Iteming(p, t) \/ Naming(p, t)
        BY DEF BeginJob
      <4>2. Head(job[p]) \in {RequestWrite(p, t), ItemWrite(t), BusyWrite(p, t)}
        BY <4>1, Tails DEF Requesting, Iteming, Naming
      <4>3. Target(p) \in {RequestJson(t), TaskState(t), StateJson(p)}
        BY <4>2 DEF Target, RequestWrite, ItemWrite, BusyWrite
      <4> QED
        BY <1>1, <4>3, PathNames
    <3> QED
      BY <1>0, <3>1 DEF StoreInv, JobOK, PlainJob
  <2>4. Target(p)' = ProjectMap
    BY <2>1, <2>2 DEF Target
  <2> HIDE DEF a
  <2>5. PlainJob(p)'
    BY <1>3, <2>1, <2>2, <2>3 DEF PlainJob
  <2>6. KeepsOthers(p)
    BY <1>0, <1>3, <2>2 DEF KeepsOthers
  <2>7. GoesOn(p)
    BY <1>3, <2>4, <2>5 DEF GoesOn, StoreInv, Owned, Has, ProjectMap
  <2>8. NeverTorn' /\ ActiveTaskOnDisk' /\ KeepsTasks
    BY <1>0, <1>3, FilesKept DEF StoreInv
  <2> QED
    BY <1>0, <2>6, <2>7, <2>8, OthersGoOn DEF StoreInv
<1> QED
  BY <1>2, <1>3 DEF LookForMap

(* The job of a process whose files and memory are as they were.           *)
LEMMA SameJob ==
  \A p \in Procs :
    /\ StoreInv /\ job[p] # <<>> /\ UNCHANGED <<job, goal, mem>>
    /\ \/ UNCHANGED file
       \/ Target(p) = ProjectMap /\ \A f \in Paths : f # ProjectMap => file'[f] = file[f]
    => PlainJob(p)' \/ BeginJob(p)'
<1> TAKE p \in Procs
<1> SUFFICES ASSUME StoreInv, job[p] # <<>>, UNCHANGED <<job, goal, mem>>,
                    \/ UNCHANGED file
                    \/ Target(p) = ProjectMap /\ \A f \in Paths : f # ProjectMap => file'[f] = file[f]
             PROVE  PlainJob(p)' \/ BeginJob(p)'
  OBVIOUS
<1>1. CASE PlainJob(p)
  BY <1>1 DEF PlainJob, Plain
<1>2. CASE BeginJob(p)
  <2>1. \A t \in Tasks : file'[RequestJson(t)] = file[RequestJson(t)] /\ file'[TaskState(t)] = file[TaskState(t)]
    BY PathNames, PathsExist
  <2> QED
    BY <1>2, <2>1 DEF BeginJob, Requesting, Iteming, Naming, OnDisk
<1> QED
  BY <1>1, <1>2 DEF StoreInv, JobOK

LEMMA OpenSound == \A p \in Procs : StoreInv /\ Open(p) => StoreInv'
<1> TAKE p \in Procs
<1> SUFFICES ASSUME StoreInv, Open(p) PROVE StoreInv'
  OBVIOUS
<1>0. /\ Typed' /\ JobTypes /\ DiskTypes /\ job[p] # <<>> /\ UNCHANGED <<file, job, goal, mem>>
      /\ Target(p) \in Paths
  BY WriteStepTyped, TypedParts, NextWrite DEF StoreInv, WriteStep, Open
<1>1. KeepsOthers(p)
  BY <1>0 DEF Open, KeepsOthers, JobTypes, DiskTypes
<1>2. PlainJob(p)' \/ BeginJob(p)'
  BY <1>0, SameJob
<1>3. Clean(p)'
  <2>1. stage'[p] = "fill" /\ fd'[p] = "tmp" /\ tmp'[Target(p)] = Empty /\ Target(p)' = Target(p)
    BY <1>0 DEF Open, JobTypes, DiskTypes, Target
  <2> QED
    BY <2>1 DEF Clean
<1>4. Has(p)' = Has(p)
  BY <1>0 DEF Has
<1>5. GoesOn(p)
  BY <1>2, <1>3, <1>4 DEF GoesOn, StoreInv, Owned
<1>6. NeverTorn' /\ ActiveTaskOnDisk' /\ KeepsTasks
  BY <1>0, FilesKept DEF StoreInv
<1> QED
  BY <1>0, <1>1, <1>5, <1>6, OthersGoOn DEF StoreInv

(* What the map's file is does not matter to the others.                   *)
LEMMA MapOnly ==
  /\ Typed' /\ NeverTorn /\ ActiveTaskOnDisk /\ mem' = mem
  /\ \A f \in Paths : f # ProjectMap => file'[f] = file[f]
  => NeverTorn' /\ ActiveTaskOnDisk' /\ KeepsTasks
<1> SUFFICES ASSUME Typed', NeverTorn, ActiveTaskOnDisk, mem' = mem,
                    \A f \in Paths : f # ProjectMap => file'[f] = file[f]
             PROVE  NeverTorn' /\ ActiveTaskOnDisk' /\ KeepsTasks
  OBVIOUS
<1>1. /\ \A q \in Procs : /\ file'[SessionJson(q)] = file[SessionJson(q)]
                          /\ file'[StateJson(q)] = file[StateJson(q)]
      /\ \A t \in Tasks : /\ file'[RequestJson(t)] = file[RequestJson(t)]
                          /\ file'[TaskState(t)] = file[TaskState(t)]
  BY PathNames, PathsExist
<1>2. NeverTorn' /\ KeepsTasks
  BY <1>1 DEF NeverTorn, KeepsTasks
<1>3. ActiveTaskOnDisk'
  <2> SUFFICES ASSUME NEW q \in Procs,
                      NEW t \in {IF file'[StateJson(q)].is = "state" THEN file'[StateJson(q)].task
                                 ELSE NoTask, mem'[q].task} \cap Tasks
               PROVE  OnDisk(q, t)'
    BY DEF ActiveTaskOnDisk, OnDisk
  <2>1. OnDisk(q, t)
    BY <1>1 DEF ActiveTaskOnDisk, OnDisk
  <2> QED
    BY <1>1, <2>1 DEF OnDisk, RequestJson, TaskState
<1> QED
  BY <1>2, <1>3

LEMMA FillSound == \A p \in Procs : StoreInv /\ Fill(p) => StoreInv'
<1> TAKE p \in Procs
<1> SUFFICES ASSUME StoreInv, Fill(p) PROVE StoreInv'
  OBVIOUS
<1>0. /\ Typed' /\ JobTypes /\ DiskTypes /\ job[p] # <<>> /\ UNCHANGED <<job, goal, mem, fd>>
      /\ Target(p) \in Paths /\ stage[p] = "fill" /\ stage' = [stage EXCEPT ![p] = "replace"]
      /\ tmp' = IF fd[p] = "tmp" THEN [tmp EXCEPT ![Target(p)] = Filled(tmp[Target(p)], Content(p))] ELSE tmp
      /\ file' = IF fd[p] = "target" THEN [file EXCEPT ![Target(p)] = Filled(file[Target(p)], Content(p))] ELSE file
  BY WriteStepTyped, TypedParts, NextWrite DEF StoreInv, WriteStep, Fill
<1>1. KeepsOthers(p)
  BY <1>0 DEF KeepsOthers, JobTypes, DiskTypes
<1>2. Target(p) # ProjectMap => fd[p] = "tmp" /\ tmp[Target(p)] = Empty /\ file' = file
  BY <1>0 DEF StoreInv, WriteOK, Clean
<1>3. \A f \in Paths : f # ProjectMap => file'[f] = file[f]
  BY <1>0, <1>2 DEF DiskTypes
<1>4. PlainJob(p)' \/ BeginJob(p)'
  BY <1>0, <1>2, <1>3, SameJob
<1>5. Target(p)' = Target(p) /\ Content(p)' = Content(p)
  BY <1>0 DEF Target, Content
<1>6. Target(p) # ProjectMap => Clean(p)'
  <2> SUFFICES ASSUME Target(p) # ProjectMap PROVE Clean(p)'
    OBVIOUS
  <2>1. stage'[p] = "replace"
    BY <1>0 DEF JobTypes
  <2>2. tmp'[Target(p)] = Content(p)
    BY <1>0, <1>2 DEF Filled, DiskTypes
  <2> QED
    BY <1>5, <2>1, <2>2 DEF Clean
<1>7. Has(p)' = Has(p)
  BY <1>0 DEF Has
<1>8. GoesOn(p)
  BY <1>4, <1>5, <1>6, <1>7 DEF GoesOn, StoreInv, Owned, ProjectMap
<1>9. NeverTorn' /\ ActiveTaskOnDisk' /\ KeepsTasks
  BY <1>0, <1>3, MapOnly DEF StoreInv
<1> QED
  BY <1>0, <1>1, <1>8, <1>9, OthersGoOn DEF StoreInv

LEMMA ReplaceSound == \A p \in Procs : StoreInv /\ Replace(p) => StoreInv'
<1> TAKE p \in Procs
<1> SUFFICES ASSUME StoreInv, Replace(p) PROVE StoreInv'
  OBVIOUS
<1> DEFINE f == Target(p)
           c == Content(p)
<1>0. /\ Typed /\ Typed' /\ JobTypes /\ DiskTypes /\ job[p] # <<>> /\ Written(p) /\ f \in Paths
      /\ file' = [file EXCEPT ![f] = tmp[f]]
      /\ tmp' = [tmp EXCEPT ![f] = Absent]
      /\ fd' = Renamed(p)
  BY WriteStepTyped, TypedParts, NextWrite DEF StoreInv, WriteStep, Replace
<1>1. OwnWrite(p)
  BY <1>0, OwnWrites DEF StoreInv
<1>2. /\ f # ProjectMap => file'[f] = c
      /\ \A g \in Paths : g # f => file'[g] = file[g]
  <2>1. f # ProjectMap => tmp[f] = c
    BY <1>0 DEF Replace, StoreInv, WriteOK, Clean
  <2> QED
    BY <1>0, <2>1 DEF DiskTypes
<1>3. KeepsOthers(p)
  <2>1. \A q \in Procs \ {p} :
          job'[q] = job[q] /\ stage'[q] = stage[q] /\ goal'[q] = goal[q] /\ mem'[q] = mem[q]
    BY <1>0 DEF Written, JobTypes
  <2>2. \A q \in Procs \ {p} : job[q] # <<>> /\ Target(q) # ProjectMap => fd'[q] = fd[q]
    <3> SUFFICES ASSUME NEW q \in Procs \ {p}, job[q] # <<>>, Target(q) # ProjectMap
                 PROVE  fd'[q] = fd[q]
      OBVIOUS
    <3>1. Target(q) # Target(p)
      BY <1>0, Alone DEF StoreInv
    <3> QED
      BY <1>0, <3>1 DEF Renamed
  <2>3. \A g \in Paths : g # f => file'[g] = file[g] /\ tmp'[g] = tmp[g]
    BY <1>0 DEF DiskTypes
  <2> QED
    BY <1>0, <2>1, <2>2, <2>3 DEF KeepsOthers
<1>4. KeepsTasks
  <2> SUFFICES ASSUME NEW t \in Tasks
               PROVE  /\ \A q \in Procs : file[RequestJson(t)] = Request(q, t) =>
                                            file'[RequestJson(t)] = Request(q, t)
                      /\ file[TaskState(t)].is = "item" => file'[TaskState(t)].is = "item"
    BY DEF KeepsTasks
  <2>1. RequestJson(t) \in Paths /\ TaskState(t) \in Paths
    BY PathsExist
  <2>2. f = RequestJson(t) => file[RequestJson(t)] = Absent
    BY <1>1, PathNames DEF OwnWrite
  <2>3. f = TaskState(t) => c.is = "item" /\ f # ProjectMap
    BY <1>1, PathNames DEF OwnWrite
  <2> QED
    BY <1>2, <2>1, <2>2, <2>3, RequestIsThere
<1>5. /\ \A t \in Tasks : Requesting(p, t) => file'[RequestJson(t)] = Request(p, t)
      /\ \A t \in Tasks : Iteming(p, t) => OnDisk(p, t)'
  <2> SUFFICES ASSUME NEW t \in Tasks
               PROVE  /\ Requesting(p, t) => file'[RequestJson(t)] = Request(p, t)
                      /\ Iteming(p, t) => OnDisk(p, t)'
    OBVIOUS
  <2>1. CASE Requesting(p, t)
    <3>1. Head(job[p]) = RequestWrite(p, t)
      BY <2>1, Tails DEF Requesting
    <3>2. f = RequestJson(t) /\ c = Request(p, t)
      BY <3>1 DEF Target, Content, RequestWrite
    <3>3. file'[RequestJson(t)] = Request(p, t)
      BY <1>2, <3>2, PathNames
    <3>4. ~Iteming(p, t)
      BY <2>1, RequestIsThere DEF Requesting, Iteming
    <3> QED
      BY <3>3, <3>4
  <2>2. CASE Iteming(p, t)
    <3>1. Head(job[p]) = ItemWrite(t) /\ file[RequestJson(t)] = Request(p, t)
      BY <2>2, Tails DEF Iteming
    <3>2. f = TaskState(t) /\ c = ItemState("pending")
      BY <3>1 DEF Target, Content, ItemWrite
    <3>3. file'[TaskState(t)].is = "item"
      BY <1>2, <3>2, PathNames, Kinds
    <3>4. file'[RequestJson(t)] = Request(p, t)
      BY <1>4, <3>1 DEF KeepsTasks
    <3>5. ~Requesting(p, t)
      BY <3>1, RequestIsThere DEF Requesting
    <3> QED
      BY <3>3, <3>4, <3>5 DEF OnDisk, RequestJson, TaskState
  <2> QED
    BY <2>1, <2>2
<1>6. /\ Has(p)' \subseteq Has(p)
      /\ job'[p] # <<>> => PlainJob(p)' \/ BeginJob(p)'
      /\ stage'[p] = "open"
      /\ mem'[p].task \in {NoTask, mem[p].task} \/ OnDisk(p, mem'[p].task)
  BY <1>0, <1>5, WrittenSound
<1>7. GoesOn(p)
  BY <1>6 DEF GoesOn, Clean, StoreInv, Owned
<1>8. NeverTorn'
  <2>1. \A q \in Procs : file'[SessionJson(q)] \in {Absent, Session(q)}
    <3> SUFFICES ASSUME NEW q \in Procs PROVE file'[SessionJson(q)] \in {Absent, Session(q)}
      OBVIOUS
    <3>1. f = SessionJson(q) => f # ProjectMap /\ c = Session(q)
      BY <1>1, PathNames DEF OwnWrite
    <3> QED
      BY <1>2, <3>1, PathsExist DEF StoreInv, NeverTorn
  <2>2. \A q \in Procs : file'[StateJson(q)].is \in {"absent", "state"}
    <3> SUFFICES ASSUME NEW q \in Procs PROVE file'[StateJson(q)].is \in {"absent", "state"}
      OBVIOUS
    <3>1. f = StateJson(q) => f # ProjectMap /\ c.is = "state"
      BY <1>1, PathNames DEF OwnWrite
    <3> QED
      BY <1>2, <3>1, PathsExist DEF StoreInv, NeverTorn
  <2>3. \A t \in Tasks : file'[RequestJson(t)].is \in {"absent", "request"}
    <3> SUFFICES ASSUME NEW t \in Tasks PROVE file'[RequestJson(t)].is \in {"absent", "request"}
      OBVIOUS
    <3>1. f = RequestJson(t) => f # ProjectMap /\ c.is = "request"
      BY <1>1, PathNames, Kinds DEF OwnWrite
    <3> QED
      BY <1>2, <3>1, PathsExist DEF StoreInv, NeverTorn
  <2>4. \A t \in Tasks : file'[TaskState(t)].is \in {"absent", "item"}
    <3> SUFFICES ASSUME NEW t \in Tasks PROVE file'[TaskState(t)].is \in {"absent", "item"}
      OBVIOUS
    <3>1. f = TaskState(t) => f # ProjectMap /\ c.is = "item"
      BY <1>1, PathNames DEF OwnWrite
    <3> QED
      BY <1>2, <3>1, PathsExist DEF StoreInv, NeverTorn
  <2> QED
    BY <2>1, <2>2, <2>3, <2>4 DEF NeverTorn
<1>9. ActiveTaskOnDisk'
  <2> SUFFICES ASSUME NEW q \in Procs,
                      NEW t \in {IF file'[StateJson(q)].is = "state" THEN file'[StateJson(q)].task
                                 ELSE NoTask, mem'[q].task} \cap Tasks
               PROVE  OnDisk(q, t)'
    BY DEF ActiveTaskOnDisk, OnDisk
  <2>1. t \in Tasks
    OBVIOUS
  <2>2. OnDisk(q, t)
    <3>1. CASE t = mem'[q].task
      <4>1. q # p => mem'[q] = mem[q]
        BY <1>3 DEF KeepsOthers
      <4>2. t = mem[q].task => OnDisk(q, t)
        BY DEF StoreInv, ActiveTaskOnDisk, OnDisk
      <4> QED
        BY <1>6, <3>1, <4>1, <4>2, TasksAssumption
    <3>2. CASE file'[StateJson(q)].is = "state" /\ t = file'[StateJson(q)].task
      <4>1. CASE f = StateJson(q)
        <5>1. q = p /\ f # ProjectMap /\ (c.task \notin Tasks \/ OnDisk(p, c.task))
          BY <1>1, <4>1, PathNames DEF OwnWrite
        <5> QED
          BY <1>2, <3>2, <4>1, <5>1
      <4>2. CASE f # StateJson(q)
        <5>1. file'[StateJson(q)] = file[StateJson(q)]
          BY <1>2, <4>2, PathsExist
        <5> QED
          BY <3>2, <5>1 DEF StoreInv, ActiveTaskOnDisk, OnDisk
      <4> QED
        BY <4>1, <4>2
    <3> QED
      BY <3>1, <3>2, TasksAssumption
  <2> QED
    BY <1>4, <2>1, <2>2 DEF OnDisk, KeepsTasks, RequestJson, TaskState
<1> QED
  BY <1>0, <1>3, <1>4, <1>7, <1>8, <1>9, OthersGoOn DEF StoreInv

LEMMA StopSound ==
  \A p \in Procs : StoreInv /\ (ReplaceMissing(p) \/ Fail(p) \/ Crash(p)) => StoreInv'
<1> TAKE p \in Procs
<1> SUFFICES ASSUME StoreInv, ReplaceMissing(p) \/ Fail(p) \/ Crash(p) PROVE StoreInv'
  OBVIOUS
<1>0. Typed /\ Typed' /\ JobTypes /\ DiskTypes
  BY WriteStepTyped, CrashTyped, TypedParts DEF StoreInv, WriteStep
<1>1. CASE ReplaceMissing(p)
  <2>1. file' = file /\ tmp' = tmp /\ Stops(p)
    BY <1>0, <1>1, RaiseStops DEF ReplaceMissing, disk
  <2>2. KeepsOthers(p)
    BY <1>0, <1>1, <2>1 DEF ReplaceMissing, Raise, KeepsOthers, JobTypes, DiskTypes
  <2> QED
    BY <1>0, <2>1, <2>2, StopsSound
<1>2. CASE Fail(p)
  <2>1. file' = file /\ Stops(p)
    BY <1>0, <1>2, RaiseStops DEF Fail
  <2>2. \A f \in Paths : f # Target(p) => tmp'[f] = tmp[f]
    BY <1>0, <1>2 DEF Fail, DiskTypes
  <2>3. KeepsOthers(p)
    BY <1>0, <1>2, <2>1, <2>2 DEF Fail, Raise, KeepsOthers, JobTypes, DiskTypes
  <2> QED
    BY <1>0, <2>1, <2>3, StopsSound
<1>3. CASE Crash(p)
  <2>1. file' = file /\ tmp' = tmp
    BY <1>3 DEF Crash, disk
  <2>2. job'[p] = <<>> /\ goal'[p] = Down /\ mem'[p] = Gone
    BY <1>0, <1>3 DEF Crash, JobTypes
  <2>3. Stops(p)
    BY <2>2, MemoryTypes DEF Stops, Has
  <2>4. KeepsOthers(p)
    BY <1>0, <1>3, <2>1 DEF Crash, KeepsOthers, JobTypes, DiskTypes
  <2> QED
    BY <1>0, <2>1, <2>3, <2>4, StopsSound
<1> QED
  BY <1>1, <1>2, <1>3

-----------------------------------------------------------------------------
(* The invariant, and the theorems.                                        *)

LEMMA StoreInvInit == Init => StoreInv
<1> SUFFICES ASSUME Init PROVE StoreInv
  OBVIOUS
<1>1. Typed
  BY InitTyped
<1>2. /\ \A f \in Paths : file[f] = Absent
      /\ \A p \in Procs : job[p] = <<>> /\ mem[p].task = NoTask /\ goal[p].task = NoTask
  BY MemoryTypes DEF Init
<1>3. NeverTorn
  BY <1>2, PathsExist, Kinds DEF NeverTorn
<1>4. ActiveTaskOnDisk
  <2>1. \A p \in Procs : file[StateJson(p)].is # "state"
    BY <1>2, PathsExist, Kinds
  <2> QED
    BY <1>2, <2>1, TasksAssumption DEF ActiveTaskOnDisk
<1>5. Owned /\ JobOK /\ WriteOK
  BY <1>2 DEF Owned, Has, JobOK, WriteOK
<1> QED
  BY <1>1, <1>3, <1>4, <1>5 DEF StoreInv

LEMMA StoreInvNext == StoreInv /\ [Next]_vars => StoreInv'
<1> SUFFICES ASSUME StoreInv, [Next]_vars PROVE StoreInv'
  OBVIOUS
<1>1. CASE UNCHANGED vars
  <2>1. UNCHANGED <<file, tmp, job, stage, fd, goal, mem, steps, failures>>
    BY <1>1 DEF vars, disk, work
  <2>2. Typed'
    BY <1>1, NextTyped DEF StoreInv
  <2>3. KeepsTasks /\ NeverTorn' /\ ActiveTaskOnDisk'
    BY <2>1, FilesKept DEF StoreInv
  <2>4. Owned' /\ WriteOK'
    BY <2>1 DEF StoreInv, Owned, Has, WriteOK, Clean, Target, Content, ProjectMap
  <2>5. JobOK'
    BY <2>1, SameJob DEF StoreInv, JobOK
  <2> QED
    BY <2>2, <2>3, <2>4, <2>5 DEF StoreInv
<1>2. ASSUME NEW p \in Procs, WriteStep(p) PROVE StoreInv'
  BY <1>2, LookSound, OpenSound, FillSound, ReplaceSound, StopSound DEF WriteStep
<1> QED
  BY <1>1, <1>2, OperationSound, StopSound DEF Next

LEMMA StoreInvAlways == Spec => []StoreInv
<1> QED
  BY StoreInvInit, StoreInvNext, PTL DEF Spec

(* The files, the handles and the memory of the session service have their *)
(* types, whatever several processes do to one directory.                  *)
THEOREM StoreTypeCorrect == Spec => []TypeOK
<1>1. StoreInv => TypeOK
  BY DEF StoreInv, Typed
<1> QED
  BY <1>1, StoreInvAlways, PTL

(* _atomic_write_json: at every moment, so after a crash at any moment too,*)
(* each session.json, state.json, request.json and task state has one      *)
(* whole content of its own, or is not there.                              *)
THEOREM FilesNeverTorn == Spec => []NeverTorn
<1>1. StoreInv => NeverTorn
  BY DEF StoreInv
<1> QED
  BY <1>1, StoreInvAlways, PTL

(* begin_task writes the work item's files before the state.json that names*)
(* it, and nothing takes them away: a work item that a session names, on   *)
(* disk or in memory, always has its request and its state, for any number *)
(* of processes, work items and tasks of plans.                            *)
THEOREM ActiveTaskAlwaysOnDisk == Spec => []ActiveTaskOnDisk
<1>1. StoreInv => ActiveTaskOnDisk
  BY DEF StoreInv
<1> QED
  BY <1>1, StoreInvAlways, PTL
=============================================================================
