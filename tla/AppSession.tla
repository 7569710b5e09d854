----------------------------- MODULE AppSession -----------------------------
(***************************************************************************)
(* PoorCodeApp: the user's messages and Esc, the workers that drive a turn *)
(* and the fields they share.  Each message cancels the workers there are  *)
(* and starts one; a cancelled worker still has to unwind (it kills a git  *)
(* child, closes a stream) and then runs the end of _drive, on fields that *)
(* may belong to the next worker by then.  All of it is one event loop, so *)
(* a handler, and a worker from one await to the next, is one action.      *)
(*                                                                         *)
(* What the driver does between two awaits is reduced to the session it    *)
(* leaves: Harness has its nodes.  The Smart Driver's branch is here, for  *)
(* it decides what becomes of a message and of a parked query.             *)
(***************************************************************************)
EXTENDS Integers, FiniteSets

CONSTANTS
  MaxTurns,     \* bound of the model: turns the user opens
  MaxRuns,      \* bound of the model: messages the user sends
  MaxWork,      \* node boundaries of a turn: GLOBAL_STEP_BUDGET, in small
  SmartChoices, \* values of POORCODE_SMART_DRIVER
  CalmChoices   \* values of calm

ASSUME BoundsAssumption == MaxTurns \in Nat /\ MaxRuns \in Nat /\ MaxWork \in Nat
ASSUME SmartAssumption  == SmartChoices \subseteq BOOLEAN
ASSUME CalmAssumption   == CalmChoices \subseteq BOOLEAN

VARIABLES
  smart,       \* _smart_driver_enabled(self._harness_driver)
  calm,        \* assumption: a cancelled worker has ended before the next
               \* message, and no exception replaced its CancelledError
  turnId,      \* self._turn_id: the latest turn (0: none yet)
  harness,     \* self._harness_state: the session the next message goes on with
  live,        \* self._live_state: the last checkpoint
  interrupted, \* self._interrupted
  runs,        \* workers started; the latest one's event is self._cancel
  cancels,     \* workers whose event is set
  worker,      \* what became of each worker, see WorkerStates
  job,         \* `state` inside each worker's driver
  processing,  \* app_state.is_processing
  awaiting,    \* app_state.awaiting_input
  status,      \* app_state.turns[...].status
  told         \* history: messages the user gave to the latest turn

app    == <<smart, calm, turnId, harness, live, interrupted>>
pool   == <<runs, cancels, worker, job>>
screen == <<processing, awaiting, status>>
vars   == <<app, pool, screen, told>>

Turns == 1 .. MaxTurns
Runs  == 1 .. MaxRuns

(* ready: its task has not run yet.  running: it awaits a node or the      *)
(* advisor.  unwinding: cancelled there.  gone: ended, or never run.       *)
WorkerStates == {"none", "ready", "running", "unwinding", "gone"}

(* pending is the query a session is parked on: a node's or the Smart      *)
(* Driver's.  steering counts steering_notes, seen those of them that are  *)
(* processed, answers the interview.                                       *)
Session ==
  [turn : 0 .. MaxTurns, work : 0 .. MaxWork, pending : {"no", "node", "smart"},
   steering : 0 .. MaxRuns, seen : 0 .. MaxRuns, answers : 0 .. MaxRuns]

NewSession(t) ==
  [turn |-> t, work |-> 0, pending |-> "no", steering |-> 0, seen |-> 0, answers |-> 0]

(* None                                                                    *)
NoSession == NewSession(0)

WithSteering(s)        == [s EXCEPT !.steering = @ + 1]
WithoutPendingQuery(s) == [s EXCEPT !.pending = "no"]
WithUserResponse(s)    == [s EXCEPT !.answers = @ + 1, !.pending = "no"]

(* Messages of the turn a session contains: the request, then the others.  *)
Heard(s) == 1 + s.steering + s.answers

In(state) == {r \in Runs : worker[r] = state}

-----------------------------------------------------------------------------
(* Workers.                                                                *)

(* A cancelled worker is left to run.                                      *)
CancelledMutant == worker

(* cancel_group("turn"): a task that has not run never will, one that      *)
(* awaits gets a CancelledError.                                           *)
Cancelled ==
  [r \in Runs |-> CASE worker[r] = "ready"   -> "gone"
                    [] worker[r] = "running" -> "unwinding"
                    [] OTHER                 -> worker[r]]

(* The message is not recorded as a checkpoint.                            *)
LaunchMutant(s) ==
  /\ runs' = runs + 1
  /\ worker' = [Cancelled EXCEPT ![runs + 1] = "ready"]
  /\ job' = [job EXCEPT ![runs + 1] = s]
  /\ interrupted' = FALSE
  /\ told' = IF s.turn = turnId THEN told + 1 ELSE 1
  /\ UNCHANGED <<smart, calm, harness, live, cancels>>

(* A fresh event, then _live_state = s and run_worker(exclusive=True).     *)
Launch(s) ==
  /\ runs' = runs + 1
  /\ worker' = [Cancelled EXCEPT ![runs + 1] = "ready"]
  /\ job' = [job EXCEPT ![runs + 1] = s]
  /\ live' = s
  /\ interrupted' = FALSE
  /\ told' = IF s.turn = turnId THEN told + 1 ELSE 1
  /\ UNCHANGED <<smart, calm, harness, cancels>>

-----------------------------------------------------------------------------
(* The user.                                                               *)

(* The prompt takes no message while a run is in flight; the picker of a   *)
(* question is there as long as the question awaits its answer.            *)
PromptOpen ==
  /\ ~processing \/ awaiting
  /\ runs < MaxRuns
  /\ calm => In("unwinding") = {}

(* was_interrupted and parked is not None                                  *)
Resumes == interrupted /\ harness # NoSession

(* SteeringSubmitted                                                       *)
ShowSteering ==
  /\ processing' = TRUE
  /\ awaiting' = FALSE
  /\ status' = [status EXCEPT ![turnId] = "running"]

(* submit after Esc: the message steers the turn.  The Smart Driver gets   *)
(* the parked query to see what the message objects to.                    *)
SubmitSteering ==
  /\ PromptOpen
  /\ Resumes
  /\ Launch(WithSteering(IF smart THEN harness ELSE WithoutPendingQuery(harness)))
  /\ ShowSteering
  /\ UNCHANGED turnId

(* submit or answer_query on a question of the Smart Driver.               *)
AnswerSmartQuery ==
  /\ PromptOpen
  /\ ~Resumes
  /\ harness.pending = "smart"
  /\ Launch(WithSteering(WithoutPendingQuery(harness)))
  /\ ShowSteering
  /\ UNCHANGED turnId

(* submit or answer_query on a node's question: AnswerSubmitted.           *)
AnswerQuery ==
  /\ PromptOpen
  /\ ~Resumes
  /\ harness.pending = "node"
  /\ Launch(WithUserResponse(harness))
  /\ awaiting' = FALSE
  /\ UNCHANGED <<turnId, processing, status>>

(* submit of a new request: PromptSubmitted and TurnStarted.               *)
SubmitRequest ==
  /\ PromptOpen
  /\ ~Resumes
  /\ harness.pending = "no"
  /\ turnId < MaxTurns
  /\ turnId' = turnId + 1
  /\ Launch(NewSession(turnId + 1))
  /\ processing' = TRUE
  /\ status' = [status EXCEPT ![turnId + 1] = "running"]
  /\ UNCHANGED awaiting

(* Esc goes back to the router.                                            *)
KeptMutant == [live EXCEPT !.work = 0]

(* What Esc keeps: the parked question, or the last checkpoint.            *)
Kept ==
  IF awaiting /\ harness # NoSession /\ harness.pending # "no" THEN harness ELSE live

(* action_interrupt, a no-op when idle.                                    *)
Interrupt ==
  /\ processing
  /\ cancels' = cancels \cup {runs}
  /\ worker' = Cancelled
  /\ harness' = Kept
  /\ interrupted' = TRUE
  /\ processing' = FALSE
  /\ awaiting' = FALSE
  /\ status' = [status EXCEPT ![turnId] = "paused"]
  /\ UNCHANGED <<smart, calm, turnId, live, runs, job, told>>

-----------------------------------------------------------------------------
(* The end of _drive.                                                      *)

(* TurnFailed leaves the prompt busy.                                      *)
FailMutant ==
  /\ harness' = NoSession
  /\ awaiting' = FALSE
  /\ status' = [status EXCEPT ![turnId] = "failed"]
  /\ UNCHANGED processing

(* TurnFailed, and the session is dropped.                                 *)
Fail ==
  /\ harness' = NoSession
  /\ processing' = FALSE
  /\ awaiting' = FALSE
  /\ status' = [status EXCEPT ![turnId] = "failed"]

(* TurnEnded leaves the prompt busy.                                       *)
EndMutant ==
  /\ harness' = NoSession
  /\ status' = [status EXCEPT ![turnId] = "done"]
  /\ UNCHANGED <<processing, awaiting>>

(* TurnEnded, and the session is dropped.                                  *)
End ==
  /\ harness' = NoSession
  /\ processing' = FALSE
  /\ status' = [status EXCEPT ![turnId] = "done"]
  /\ UNCHANGED awaiting

(* The question is shown, and the session it is parked on is not kept.     *)
RaiseMutant(s) ==
  /\ awaiting' = TRUE
  /\ UNCHANGED <<harness, processing, status>>

(* The session is parked, and the question is not shown.                   *)
RaiseUnseenMutant(s) ==
  /\ harness' = s
  /\ UNCHANGED screen

(* QueryRaised: the turn stays open.                                       *)
Raise(s) ==
  /\ harness' = s
  /\ awaiting' = TRUE
  /\ UNCHANGED <<processing, status>>

(* An ending worker drops the session whatever happened to it.             *)
StandDownMutant == Fail

(* Esc was pressed: action_interrupt has already kept the session.         *)
StandDown ==
  IF interrupted THEN UNCHANGED <<harness, screen>> ELSE Fail

(* The driver returned s.  The event asked is the latest one.              *)
Return(s) ==
  \/ /\ runs \in cancels
     /\ StandDown
  \/ /\ runs \notin cancels
     /\ s.pending # "no"
     /\ Raise(s)
  \/ /\ runs \notin cancels
     /\ s.pending = "no"
     /\ End

(* The worker is gone, its driver with it.                                 *)
Gone(r) ==
  /\ worker' = [worker EXCEPT ![r] = "gone"]
  /\ job' = [job EXCEPT ![r] = NoSession]
  /\ UNCHANGED <<smart, calm, turnId, interrupted, runs, cancels, told>>

-----------------------------------------------------------------------------
(* Driver.run, from one await to the next.                                 *)

Start(r) ==
  /\ worker[r] = "ready"
  /\ worker' = [worker EXCEPT ![r] = "running"]
  /\ UNCHANGED <<app, runs, cancels, job, screen, told>>

(* At its loop top the driver consults the advisor about new steering.     *)
Advising(r) == smart /\ job[r].steering > job[r].seen

Processed(s) == [s EXCEPT !.seen = s.steering]

(* _without_interrupted_query: only a node's question is dropped.          *)
WithoutInterruptedQuery(s) ==
  IF s.pending = "smart" THEN s ELSE WithoutPendingQuery(s)

(* A node boundary: the output is applied and the cursor moves.            *)
Moved(s) == [s EXCEPT !.work = @ + 1]

(* on_step(s), and the run goes on.                                        *)
Checkpoint(r, s) ==
  /\ job' = [job EXCEPT ![r] = s]
  /\ live' = s
  /\ UNCHANGED <<smart, calm, turnId, harness, interrupted, runs, cancels, worker, screen, told>>

(* The advisor lets the run proceed, or fails.                             *)
AdviseProceed(r) ==
  /\ worker[r] = "running"
  /\ Advising(r)
  /\ job' = [job EXCEPT ![r] = WithoutInterruptedQuery(Processed(job[r]))]
  /\ UNCHANGED <<app, runs, cancels, worker, screen, told>>

(* It moves the cursor: a redirect, a pivot or a bubbled repair.           *)
AdviseMove(r) ==
  /\ worker[r] = "running"
  /\ Advising(r)
  /\ job[r].work < MaxWork
  /\ Checkpoint(r, Moved(WithoutInterruptedQuery(Processed(job[r]))))

(* It asks: answer_only, ask_user, rollback_request.                       *)
AdviseAsk(r) ==
  LET s == [Processed(job[r]) EXCEPT !.pending = "smart"]
  IN  /\ worker[r] = "running"
      /\ Advising(r)
      /\ live' = s
      /\ Gone(r)
      /\ Return(s)

(* A node produced something and the next one starts.                      *)
NodeDone(r) ==
  /\ worker[r] = "running"
  /\ ~Advising(r)
  /\ job[r].work < MaxWork
  /\ Checkpoint(r, Moved(job[r]))

(* A node asks; the cursor stays at it.                                    *)
NodeAsks(r) ==
  LET s == [job[r] EXCEPT !.pending = "node"]
  IN  /\ worker[r] = "running"
      /\ ~Advising(r)
      /\ live' = s
      /\ Gone(r)
      /\ Return(s)

(* The last node: the driver returns without a checkpoint.                 *)
NodeStops(r) ==
  /\ worker[r] = "running"
  /\ ~Advising(r)
  /\ Gone(r)
  /\ Return(job[r])
  /\ UNCHANGED live

(* An exception comes out of the driver.                                   *)
NodeRaises(r) ==
  /\ worker[r] = "running"
  /\ ~Advising(r)
  /\ Gone(r)
  /\ Fail
  /\ UNCHANGED live

(* The CancelledError comes out of the driver of a cancelled worker.       *)
UnwindCancelled(r) ==
  /\ worker[r] = "unwinding"
  /\ Gone(r)
  /\ StandDown
  /\ UNCHANGED live

(* The CancelledError was swallowed (bash suppresses it around its cancel  *)
(* task) and the node ends all the same, as any node does.  The driver     *)
(* returns at its loop top, for its event is set ...                       *)
UnwindReturned(r) ==
  /\ worker[r] = "unwinding"
  /\ ~Advising(r)
  /\ Gone(r)
  /\ \/ /\ UNCHANGED live
        /\ Return(job[r])
     \/ /\ r \in cancels
        /\ job[r].work < MaxWork
        /\ live' = Moved(job[r])
        /\ Return(Moved(job[r]))
     \/ LET s == [job[r] EXCEPT !.pending = "node"]
        IN  live' = s /\ Return(s)

(* ... unless a message cancelled the worker, and not Esc: it drives on.   *)
UnwindDrivesOn(r) ==
  /\ worker[r] = "unwinding"
  /\ ~Advising(r)
  /\ r \notin cancels
  /\ job[r].work < MaxWork
  /\ worker' = [worker EXCEPT ![r] = "running"]
  /\ job' = [job EXCEPT ![r] = Moved(job[r])]
  /\ live' = Moved(job[r])
  /\ UNCHANGED <<smart, calm, turnId, harness, interrupted, runs, cancels, screen, told>>

(* Another exception came in its place, as from proc.kill() on a child     *)
(* that has just gone: the session is dropped, interrupted or not.         *)
UnwindRaised(r) ==
  /\ worker[r] = "unwinding"
  /\ ~calm
  /\ Gone(r)
  /\ Fail
  /\ UNCHANGED live

-----------------------------------------------------------------------------
Init ==
  /\ smart \in SmartChoices
  /\ calm \in CalmChoices
  /\ turnId = 0
  /\ harness = NoSession
  /\ live = NoSession
  /\ interrupted = FALSE
  /\ runs = 0
  /\ cancels = {}
  /\ worker = [r \in Runs |-> "none"]
  /\ job = [r \in Runs |-> NoSession]
  /\ processing = FALSE
  /\ awaiting = FALSE
  /\ status = [t \in Turns |-> "none"]
  /\ told = 0

User == SubmitRequest \/ SubmitSteering \/ AnswerSmartQuery \/ AnswerQuery \/ Interrupt

(* A worker comes to its next await, its end or its beginning.             *)
Work(r) ==
  \/ Start(r)
  \/ AdviseProceed(r) \/ AdviseMove(r) \/ AdviseAsk(r)
  \/ NodeDone(r) \/ NodeAsks(r) \/ NodeStops(r) \/ NodeRaises(r)
  \/ UnwindCancelled(r) \/ UnwindReturned(r) \/ UnwindDrivesOn(r) \/ UnwindRaised(r)

Next == User \/ \E r \in Runs : Work(r)

Spec == Init /\ [][Next]_vars

(* Nodes, the advisor and the cleanups have timeouts, and a task that is   *)
(* ready gets to run: each worker comes to its end.                        *)
FairSpec == Spec /\ \A r \in Runs : WF_vars(Work(r))

-----------------------------------------------------------------------------
(* PROPERTIES                                                              *)

(* Type invariant: sessions, workers and what is on the screen.            *)
TypeOK ==
  /\ smart \in BOOLEAN /\ calm \in BOOLEAN
  /\ turnId \in 0 .. MaxTurns
  /\ harness \in Session /\ live \in Session
  /\ interrupted \in BOOLEAN
  /\ runs \in 0 .. MaxRuns
  /\ cancels \subseteq 0 .. MaxRuns
  /\ worker \in [Runs -> WorkerStates]
  /\ job \in [Runs -> Session]
  /\ processing \in BOOLEAN /\ awaiting \in BOOLEAN
  /\ status \in [Turns -> {"none", "running", "done", "failed", "paused"}]
  /\ told \in 0 .. MaxRuns

Paused == turnId > 0 /\ status[turnId] = "paused"

(* Workers that drive the turn, or will.                                   *)
Driving == In("ready") \cup In("running")

(* A question on the screen is one a message will answer: it is parked     *)
(* with the session of the latest turn, no Esc hides it, and no worker is  *)
(* left that could overwrite it.                                           *)
QuestionAnswerable ==
  calm /\ awaiting => /\ harness.pending # "no"
                      /\ harness.turn = turnId
                      /\ ~interrupted
                      /\ Driving = {}

(* A prompt that takes no message has a worker behind it, however the      *)
(* cancelled ones end: nobody is locked out by a worker that is gone.      *)
BusyHasWorker == processing /\ ~awaiting => Driving # {}

(* Two workers never drive a session at a time.                            *)
OneDriver == calm => Cardinality(Driving) <= 1

(* No message is lost: the session that runs, waits or is paused contains  *)
(* every message given to the turn, also when Esc comes before its worker  *)
(* took a single step.                                                     *)
MessagesKept ==
  calm /\ turnId > 0 /\ status[turnId] \in {"running", "paused"} =>
    IF awaiting \/ Paused THEN Heard(harness) = told
                          ELSE \E r \in Driving : Heard(job[r]) = told

(* "Preserve the last node-boundary checkpoint so the next message resumes *)
(* from cursor.current_node instead of restarting at the router": a turn   *)
(* that Esc paused keeps its session until a message goes on with it, and  *)
(* no worker's end declares it failed in the meantime.                     *)
PausedTurnKept == calm /\ interrupted => Paused /\ harness.turn = turnId

(* A turn that ended is never taken up again, by Esc, by a message or by a *)
(* worker of an earlier turn.                                              *)
ClosedStaysClosed ==
  [][calm => \A t \in Turns :
               status[t] \in {"done", "failed"} => status'[t] = status[t]]_vars

(* A busy prompt opens again: by a question, an end, a failure or Esc.     *)
PromptReopens == processing /\ ~awaiting ~> ~processing \/ awaiting

(* The application implements Turn, if it is calm.                         *)
Phase ==
  IF ~calm \/ turnId = 0 THEN "idle"
  ELSE CASE status[turnId] = "paused"             -> "paused"
         [] status[turnId] \in {"done", "failed"} -> "idle"
         [] awaiting                              -> "waiting"
         [] OTHER                                 -> "running"

GoesOnWith == IF Phase \in {"waiting", "paused"} THEN harness ELSE live

HeardSoFar  == IF Phase = "idle" THEN 0 ELSE Heard(GoesOnWith)
WorkedSoFar == IF Phase = "idle" THEN 0 ELSE GoesOnWith.work

T == INSTANCE Turn WITH phase <- Phase, heard <- HeardSoFar, work <- WorkedSoFar

(* Every step of the application is a step of Turn or leaves it alone, and *)
(* what runs comes to a question or an end: see Turn.                      *)
ImplementsTurn == T!Spec
=============================================================================
