-------------------------- MODULE AppSessionProofs --------------------------
(***************************************************************************)
(* What the application keeps, for every number of turns, messages and     *)
(* node boundaries: first the types; then what a calm one keeps, and that  *)
(* each of its steps is one of Turn; and that, calm or not, a busy prompt  *)
(* has a worker behind it.  The invariant of the calm application says in  *)
(* which of four situations its fields are: idle, driven by the latest     *)
(* worker, waiting with a parked question, or paused with a kept session   *)
(* and workers that only unwind.                                           *)
(***************************************************************************)
EXTENDS AppSession, FiniteSetTheorems, TLAPS

(* A session has heard no more messages than were sent.                    *)
Small(s) == s.steering <= runs /\ s.answers <= runs /\ s.seen <= s.steering

(* What keeps the counters of a session within their types.                *)
Sized ==
  /\ TypeOK
  /\ Small(harness) /\ Small(live)
  /\ \A r \in Runs : Small(job[r])
  /\ told <= runs
  /\ cancels \subseteq 0 .. runs
  /\ \A r \in Runs : r > runs => worker[r] = "none"

USE BoundsAssumption, SmartAssumption, CalmAssumption DEF Runs, Turns

-----------------------------------------------------------------------------
(* The fields of a session.                                                *)
LEMMA SessionFields ==
  ASSUME NEW s \in Session
  PROVE  /\ s.turn \in 0 .. MaxTurns /\ s.work \in 0 .. MaxWork
         /\ s.pending \in {"no", "node", "smart"}
         /\ s.steering \in Nat /\ s.seen \in Nat /\ s.answers \in Nat
BY DEF Session

(* What the updates of models.py do to a session that has room for one     *)
(* more.                                                                   *)
LEMMA SessionOps ==
  ASSUME NEW s \in Session, NEW n \in Nat, n < MaxRuns,
         s.steering <= n, s.answers <= n, s.seen <= s.steering
  PROVE  /\ WithSteering(s) \in Session
         /\ WithSteering(s).steering = s.steering + 1 /\ WithSteering(s).answers = s.answers
         /\ WithSteering(s).seen = s.seen /\ WithSteering(s).turn = s.turn
         /\ WithSteering(s).work = s.work
         /\ WithUserResponse(s) \in Session
         /\ WithUserResponse(s).steering = s.steering
         /\ WithUserResponse(s).answers = s.answers + 1
         /\ WithUserResponse(s).seen = s.seen /\ WithUserResponse(s).turn = s.turn
         /\ WithUserResponse(s).work = s.work
<1>1. WithSteering(s) \in Session
  BY DEF Session, WithSteering
<1>2. WithUserResponse(s) \in Session
  <2>1. s.answers + 1 \in 0 .. MaxRuns
    BY SessionFields
  <2> DEFINE a == [s EXCEPT !.answers = s.answers + 1]
  <2>2. a \in Session
    BY <2>1 DEF Session
  <2>3. [a EXCEPT !.pending = "no"] \in Session
    BY <2>2 DEF Session
  <2> QED
    BY <2>3 DEF WithUserResponse
<1> QED
  BY <1>1, <1>2 DEF Session, WithSteering, WithUserResponse

(* A question that is taken off leaves everything else alone.              *)
LEMMA Unparked ==
  ASSUME NEW s \in Session
  PROVE  /\ WithoutPendingQuery(s) \in Session
         /\ WithoutPendingQuery(s) = [s EXCEPT !.pending = "no"]
         /\ WithoutPendingQuery(s).steering = s.steering
         /\ WithoutPendingQuery(s).answers = s.answers
         /\ WithoutPendingQuery(s).seen = s.seen
         /\ WithoutPendingQuery(s).turn = s.turn
         /\ WithoutPendingQuery(s).work = s.work
BY DEF Session, WithoutPendingQuery

(* The session of a new turn.                                              *)
LEMMA NewSmall ==
  ASSUME NEW t \in 0 .. MaxTurns
  PROVE  /\ NewSession(t) \in Session
         /\ NewSession(t).steering = 0 /\ NewSession(t).answers = 0 /\ NewSession(t).seen = 0
         /\ NewSession(t).pending = "no" /\ NewSession(t).turn = t /\ NewSession(t).work = 0
BY DEF Session, NewSession

(* What a driver makes of its session between two awaits.                  *)
LEMMA DriverOps ==
  ASSUME NEW s \in Session, s.seen <= s.steering
  PROVE  /\ Processed(s) \in Session /\ Processed(s).steering = s.steering
         /\ Processed(s).answers = s.answers /\ Processed(s).seen = s.steering
         /\ Processed(s).pending = s.pending
         /\ Processed(s).turn = s.turn /\ Processed(s).work = s.work
         /\ WithoutInterruptedQuery(s) \in Session
         /\ WithoutInterruptedQuery(s).steering = s.steering
         /\ WithoutInterruptedQuery(s).answers = s.answers
         /\ WithoutInterruptedQuery(s).seen = s.seen
         /\ WithoutInterruptedQuery(s).turn = s.turn
         /\ WithoutInterruptedQuery(s).work = s.work
         /\ s.work < MaxWork => Moved(s) \in Session /\ Moved(s).work = s.work + 1
         /\ Moved(s).steering = s.steering /\ Moved(s).answers = s.answers
         /\ Moved(s).seen = s.seen /\ Moved(s).turn = s.turn
         /\ \A q \in {"node", "smart"} :
              LET a == [s EXCEPT !.pending = q]
              IN  /\ a \in Session /\ a.pending = q
                  /\ a.steering = s.steering /\ a.answers = s.answers
                  /\ a.seen = s.seen /\ a.turn = s.turn /\ a.work = s.work
BY DEF Session, Processed, WithoutInterruptedQuery, WithoutPendingQuery, Moved

(* A message starts a worker on session s.                                 *)
LEMMA LaunchSized ==
  ASSUME Sized, NEW s \in Session, Launch(s), runs < MaxRuns,
         s.steering <= runs + 1, s.answers <= runs + 1, s.seen <= s.steering,
         turnId' \in 0 .. MaxTurns, processing' \in BOOLEAN, awaiting' \in BOOLEAN,
         status' \in [Turns -> {"none", "running", "done", "failed", "paused"}]
  PROVE  Sized'
<1>1. /\ runs' = runs + 1 /\ runs' \in 0 .. MaxRuns
      /\ live' = s /\ job' = [job EXCEPT ![runs + 1] = s]
      /\ worker' = [Cancelled EXCEPT ![runs + 1] = "ready"]
      /\ told' \in 0 .. runs'
  BY DEF Launch, Sized, TypeOK
<1>2. UNCHANGED <<smart, calm, harness, cancels>> /\ interrupted' = FALSE
  BY DEF Launch
<1>0. runs \in 0 .. MaxRuns /\ runs + 1 \in Runs
  BY DEF Sized, TypeOK
<1>3. Cancelled \in [Runs -> WorkerStates]
      /\ \A r \in Runs : r > runs => Cancelled[r] = "none"
  BY DEF Cancelled, Sized, TypeOK, WorkerStates
<1>4. worker' \in [Runs -> WorkerStates] /\ \A r \in Runs : r > runs' => worker'[r] = "none"
  BY <1>0, <1>1, <1>3 DEF WorkerStates
<1>5. job' \in [Runs -> Session] /\ \A r \in Runs : Small(job[r])'
  <2>1. \A r \in Runs : job[r] \in Session /\ Small(job[r])
    BY DEF Sized, TypeOK
  <2>2. \A r \in Runs : job'[r] = IF r = runs + 1 THEN s ELSE job[r]
    BY <1>1 DEF Sized, TypeOK
  <2>3. ASSUME NEW r \in Runs PROVE Small(job[r])'
    <3>1. CASE r = runs + 1
      BY <3>1, <1>0, <1>1, <2>2 DEF Small
    <3>2. CASE r # runs + 1
      <4>1. job'[r] = job[r] /\ job[r] \in Session /\ Small(job[r])
        BY <3>2, <2>1, <2>2
      <4> QED
        BY <4>1, <1>0, <1>1, SessionFields DEF Small
    <3> QED
      BY <3>1, <3>2
  <2> QED
    BY <1>1, <2>3 DEF Sized, TypeOK
<1>6. Small(harness)' /\ Small(live)'
  BY <1>1, <1>2, SessionFields DEF Sized, TypeOK, Small
<1>7. turnId' \in 0 .. MaxTurns /\ cancels' \subseteq 0 .. runs' /\ cancels' \subseteq 0 .. MaxRuns
  BY <1>0, <1>1, <1>2 DEF Sized, TypeOK
<1>8. TypeOK'
  <2>1. smart' \in BOOLEAN /\ calm' \in BOOLEAN /\ interrupted' \in BOOLEAN
    BY <1>2 DEF Sized, TypeOK
  <2>2. harness' \in Session /\ live' \in Session
    BY <1>1, <1>2 DEF Sized, TypeOK
  <2>3. told' \in 0 .. MaxRuns
    BY <1>0, <1>1
  <2> QED
    BY <1>1, <1>4, <1>5, <1>7, <2>1, <2>2, <2>3 DEF TypeOK
<1>9. told' <= runs'
  BY <1>0, <1>1
<1> QED
  BY <1>4, <1>5, <1>6, <1>7, <1>8, <1>9 DEF Sized

(* A worker ends, with whatever its driver returned.                       *)
LEMMA GoneSized ==
  ASSUME Sized, NEW r \in Runs, worker[r] # "none", Gone(r),
         live' \in Session, Small(live)',
         NEW s \in Session, s.steering <= runs, s.answers <= runs, s.seen <= s.steering,
         Return(s) \/ Fail \/ StandDown
  PROVE  Sized'
<1>1. /\ worker' = [worker EXCEPT ![r] = "gone"] /\ job' = [job EXCEPT ![r] = NoSession]
      /\ UNCHANGED <<smart, calm, turnId, interrupted, runs, cancels, told>>
  BY DEF Gone
<1>2. NoSession \in Session /\ NoSession.steering = 0 /\ NoSession.answers = 0
                            /\ NoSession.seen = 0
  BY NewSmall DEF NoSession
<1>3. worker' \in [Runs -> WorkerStates] /\ \A q \in Runs : q > runs => worker'[q] = "none"
  BY <1>1 DEF Sized, TypeOK, WorkerStates
<1>4. job' \in [Runs -> Session] /\ \A q \in Runs : Small(job[q])'
  BY <1>1, <1>2 DEF Sized, TypeOK, Small
<1>5. harness' \in {harness, s, NoSession}
      /\ processing' \in BOOLEAN /\ awaiting' \in BOOLEAN
      /\ status' \in [Turns -> {"none", "running", "done", "failed", "paused"}]
  BY DEF Return, Fail, StandDown, Raise, End, screen, Sized, TypeOK
<1>6. harness' \in Session /\ Small(harness)'
  BY <1>1, <1>2, <1>5 DEF Sized, TypeOK, Small
<1> QED
  BY <1>1, <1>3, <1>4, <1>5, <1>6 DEF Sized, TypeOK

(* A worker's driver passes a boundary and goes on with session s.         *)
LEMMA CheckpointSized ==
  ASSUME Sized, NEW r \in Runs, NEW s \in Session,
         s.steering <= runs, s.answers <= runs, s.seen <= s.steering,
         job' = [job EXCEPT ![r] = s], live' \in {live, s},
         worker' \in [Runs -> WorkerStates], \A q \in Runs : q > runs => worker'[q] = "none",
         UNCHANGED <<smart, calm, turnId, harness, interrupted, runs, cancels, screen, told>>
  PROVE  Sized'
<1>1. job' \in [Runs -> Session] /\ \A q \in Runs : Small(job[q])'
  BY DEF Sized, TypeOK, Small
<1>2. live' \in Session /\ Small(live)' /\ Small(harness)'
  BY DEF Sized, TypeOK, Small
<1> QED
  BY <1>1, <1>2 DEF Sized, TypeOK, screen

-----------------------------------------------------------------------------
LEMMA InitSized == Init => Sized
<1> SUFFICES ASSUME Init PROVE Sized
  OBVIOUS
<1>1. NoSession \in Session /\ Small(NoSession)
  BY NewSmall DEF NoSession, Small, Init
<1>2. TypeOK
  <2>1. smart \in BOOLEAN /\ calm \in BOOLEAN
    BY DEF Init
  <2>2. turnId \in 0 .. MaxTurns /\ runs \in 0 .. MaxRuns /\ told \in 0 .. MaxRuns
    BY DEF Init
  <2>3. interrupted \in BOOLEAN /\ processing \in BOOLEAN /\ awaiting \in BOOLEAN
    BY DEF Init
  <2>4. job \in [Runs -> Session] /\ harness \in Session /\ live \in Session
    BY <1>1 DEF Init
  <2>5. worker \in [Runs -> WorkerStates] /\ cancels \subseteq 0 .. MaxRuns
        /\ status \in [Turns -> {"none", "running", "done", "failed", "paused"}]
    BY DEF Init, WorkerStates
  <2> QED
    BY <2>1, <2>2, <2>3, <2>4, <2>5 DEF TypeOK
<1> QED
  BY <1>1, <1>2 DEF Init, Sized

(* What the user does.                                                     *)
LEMMA UserSized ==
  ASSUME Sized, User
  PROVE  Sized'
<1>1. /\ runs \in 0 .. MaxRuns /\ harness \in Session /\ Small(harness)
      /\ turnId \in 0 .. MaxTurns /\ processing \in BOOLEAN /\ awaiting \in BOOLEAN
      /\ status \in [Turns -> {"none", "running", "done", "failed", "paused"}]
  BY DEF Sized, TypeOK
<1>2. harness.steering <= runs /\ harness.answers <= runs /\ harness.seen <= harness.steering
      /\ harness.steering \in Nat /\ harness.answers \in Nat /\ harness.seen \in Nat
  BY <1>1, SessionFields DEF Small
<1> DEFINE bare == WithoutPendingQuery(harness)
<1>3. /\ bare \in Session /\ bare.steering = harness.steering
      /\ bare.answers = harness.answers /\ bare.seen = harness.seen
  BY <1>1, Unparked
<1>4. CASE SubmitRequest
  <2> DEFINE s == NewSession(turnId + 1)
  <2>1. turnId + 1 \in 0 .. MaxTurns /\ turnId' \in 0 .. MaxTurns /\ runs < MaxRuns
    BY <1>1, <1>4 DEF SubmitRequest, PromptOpen
  <2>2. s \in Session /\ s.steering = 0 /\ s.answers = 0 /\ s.seen = 0
    BY <2>1, NewSmall
  <2>3. Launch(s) /\ processing' \in BOOLEAN /\ awaiting' \in BOOLEAN
        /\ status' \in [Turns -> {"none", "running", "done", "failed", "paused"}]
    BY <1>1, <1>4 DEF SubmitRequest
  <2> HIDE DEF s
  <2> QED
    BY <1>1, <2>1, <2>2, <2>3, LaunchSized
<1>5. ASSUME NEW s \in Session, PromptOpen, Launch(s), UNCHANGED turnId,
             s.steering <= runs + 1, s.answers <= runs + 1, s.seen <= s.steering,
             ShowSteering \/ (awaiting' = FALSE /\ UNCHANGED <<processing, status>>)
      PROVE  Sized'
  <2>1. processing' \in BOOLEAN /\ awaiting' \in BOOLEAN
        /\ status' \in [Turns -> {"none", "running", "done", "failed", "paused"}]
    BY <1>1, <1>5 DEF ShowSteering
  <2>2. runs < MaxRuns
    BY <1>5 DEF PromptOpen
  <2> QED
    BY <1>1, <1>5, <2>1, <2>2, LaunchSized
<1>6. CASE SubmitSteering
  <2>1. PromptOpen /\ runs < MaxRuns
    BY <1>6 DEF SubmitSteering, PromptOpen
  <2>2. ASSUME NEW h \in {harness, bare} PROVE /\ WithSteering(h) \in Session
          /\ WithSteering(h).steering <= runs + 1 /\ WithSteering(h).answers <= runs + 1
          /\ WithSteering(h).seen <= WithSteering(h).steering
    <3>1. h \in Session /\ h.steering <= runs /\ h.answers <= runs /\ h.seen <= h.steering
          /\ h.steering \in Nat /\ h.answers \in Nat /\ h.seen \in Nat
      BY <1>1, <1>2, <1>3
    <3> QED
      BY <1>1, <2>1, <3>1, SessionOps
  <2>3. CASE smart
    BY <1>5, <1>6, <2>1, <2>2, <2>3 DEF SubmitSteering
  <2>4. CASE ~smart
    BY <1>5, <1>6, <2>1, <2>2, <2>4 DEF SubmitSteering
  <2> QED
    BY <2>3, <2>4
<1>7. CASE AnswerSmartQuery
  <2>1. PromptOpen /\ runs < MaxRuns
    BY <1>7 DEF AnswerSmartQuery, PromptOpen
  <2>2. /\ WithSteering(bare) \in Session
        /\ WithSteering(bare).steering <= runs + 1 /\ WithSteering(bare).answers <= runs + 1
        /\ WithSteering(bare).seen <= WithSteering(bare).steering
    BY <1>1, <1>2, <1>3, <2>1, SessionOps
  <2> QED
    BY <1>5, <1>7, <2>1, <2>2 DEF AnswerSmartQuery
<1>8. CASE AnswerQuery
  <2>1. PromptOpen /\ runs < MaxRuns
    BY <1>8 DEF AnswerQuery, PromptOpen
  <2>2. /\ WithUserResponse(harness) \in Session
        /\ WithUserResponse(harness).steering <= runs + 1
        /\ WithUserResponse(harness).answers <= runs + 1
        /\ WithUserResponse(harness).seen <= WithUserResponse(harness).steering
    BY <1>1, <1>2, <2>1, SessionOps
  <2> QED
    BY <1>5, <1>8, <2>1, <2>2 DEF AnswerQuery
<1>9. CASE Interrupt
  <2>1. /\ cancels' = cancels \cup {runs} /\ worker' = Cancelled
        /\ harness' \in {harness, live} /\ interrupted' = TRUE
        /\ processing' = FALSE /\ awaiting' = FALSE
        /\ status' = [status EXCEPT ![turnId] = "paused"]
        /\ UNCHANGED <<smart, calm, turnId, live, runs, job, told>>
    BY <1>9 DEF Interrupt, Kept
  <2>2. Cancelled \in [Runs -> WorkerStates]
        /\ \A r \in Runs : r > runs => Cancelled[r] = "none"
    BY DEF Cancelled, Sized, TypeOK, WorkerStates
  <2>3. Small(harness)' /\ Small(live)' /\ \A r \in Runs : Small(job[r])'
    BY <2>1 DEF Sized, Small
  <2>4. TypeOK'
    BY <1>1, <2>1, <2>2 DEF Sized, TypeOK
  <2>5. cancels' \subseteq 0 .. runs'
    BY <1>1, <2>1 DEF Sized
  <2> QED
    BY <2>1, <2>2, <2>3, <2>4, <2>5 DEF Sized
<1> QED
  BY <1>4, <1>6, <1>7, <1>8, <1>9 DEF User

(* What a worker does.                                                     *)
LEMMA WorkSized ==
  ASSUME Sized, NEW r \in Runs, Work(r)
  PROVE  Sized'
<1> DEFINE s == job[r]
<1>1. /\ s \in Session /\ s.steering <= runs /\ s.answers <= runs /\ s.seen <= s.steering
      /\ s.steering \in Nat /\ s.answers \in Nat /\ s.seen \in Nat
  BY SessionFields DEF Sized, TypeOK, Small
<1> DEFINE q  == [s EXCEPT !.pending = "node"]
           p  == Processed(s)
           ps == [p EXCEPT !.pending = "smart"]
           w  == WithoutInterruptedQuery(p)
<1>2. /\ q \in Session /\ q.steering = s.steering /\ q.answers = s.answers /\ q.seen = s.seen
      /\ p \in Session /\ p.steering = s.steering /\ p.answers = s.answers
      /\ p.seen = s.steering
  BY <1>1, DriverOps
<1>3. /\ ps \in Session /\ ps.steering = s.steering /\ ps.answers = s.answers
      /\ ps.seen = s.steering
      /\ w \in Session /\ w.steering = s.steering /\ w.answers = s.answers
      /\ w.seen = s.steering /\ w.work = s.work
  <2> HIDE DEF p
  <2>1. p \in Session /\ p.seen <= p.steering
    BY <1>1, <1>2
  <2>2. /\ ps \in Session /\ ps.steering = p.steering /\ ps.answers = p.answers
        /\ ps.seen = p.seen
    BY <2>1, DriverOps
  <2>3. /\ w \in Session /\ w.steering = p.steering /\ w.answers = p.answers
        /\ w.seen = p.seen /\ w.work = p.work
    BY <2>1, DriverOps
  <2>4. p.work = s.work
    BY <1>1, DriverOps DEF p
  <2> HIDE DEF ps, w
  <2> QED
    BY <1>2, <2>2, <2>3, <2>4
<1>4. s.work < MaxWork => /\ Moved(s) \in Session /\ Moved(s).steering = s.steering
                          /\ Moved(s).answers = s.answers /\ Moved(s).seen = s.seen
  BY <1>1, DriverOps
<1>5. s.work < MaxWork => /\ Moved(w) \in Session /\ Moved(w).steering = s.steering
                          /\ Moved(w).answers = s.answers /\ Moved(w).seen = s.steering
  <2> HIDE DEF w
  <2>1. w.seen <= w.steering
    BY <1>1, <1>3
  <2> QED
    BY <1>1, <1>3, <2>1, DriverOps
<1>6. worker \in [Runs -> WorkerStates] /\ \A x \in Runs : x > runs => worker[x] = "none"
  BY DEF Sized, TypeOK
<1>7. live \in Session /\ Small(live) /\ runs \in Nat
  BY DEF Sized, TypeOK
<1> HIDE DEF q, p, ps, w, s
<1>8. ASSUME worker[r] # "none", Gone(r), UNCHANGED live, Return(s) \/ Fail \/ StandDown
      PROVE  Sized'
  <2>1. live' \in Session /\ Small(live)'
    BY <1>7, <1>8 DEF Gone, Small
  <2> QED
    BY <1>1, <1>8, <2>1, GoneSized
<1>9. ASSUME NEW a \in Session, a.steering = s.steering, a.answers = s.answers,
             a.seen <= a.steering, live' = a, worker[r] # "none", Gone(r), Return(a)
      PROVE  Sized'
  <2>1. live' \in Session /\ Small(live)'
    BY <1>1, <1>9 DEF Gone, Small
  <2> QED
    BY <1>1, <1>9, <2>1, GoneSized
<1>10. ASSUME NEW a \in Session, a.steering = s.steering, a.answers = s.answers,
              a.seen <= a.steering, Checkpoint(r, a)
       PROVE  Sized'
  <2>1. job' = [job EXCEPT ![r] = a] /\ live' = a /\ worker' = worker
        /\ UNCHANGED <<smart, calm, turnId, harness, interrupted, runs, cancels, screen, told>>
    BY <1>10 DEF Checkpoint
  <2> QED
    BY <1>1, <1>6, <1>10, <2>1, CheckpointSized
<1>11. CASE Start(r)
  <2>1. UNCHANGED <<app, runs, cancels, job, screen, told>>
        /\ worker' = [worker EXCEPT ![r] = "running"] /\ worker[r] = "ready"
    BY <1>11 DEF Start
  <2>2. worker' \in [Runs -> WorkerStates] /\ \A x \in Runs : x > runs => worker'[x] = "none"
    BY <1>6, <2>1 DEF WorkerStates
  <2> QED
    BY <2>1, <2>2 DEF Sized, TypeOK, Small, app, screen
<1>12. CASE AdviseProceed(r)
  <2>1. job' = [job EXCEPT ![r] = w] /\ live' = live /\ worker' = worker
        /\ UNCHANGED <<smart, calm, turnId, harness, interrupted, runs, cancels, screen, told>>
    BY <1>12 DEF AdviseProceed, app, screen, w, p, s
  <2>2. w \in Session /\ w.steering <= runs /\ w.answers <= runs /\ w.seen <= w.steering
    BY <1>1, <1>3
  <2>3. live' \in {live, w} /\ worker' \in [Runs -> WorkerStates]
        /\ \A x \in Runs : x > runs => worker'[x] = "none"
    BY <1>6, <2>1
  <2> QED
    BY <2>1, <2>2, <2>3, CheckpointSized
<1>13. CASE AdviseMove(r)
  <2>1. Checkpoint(r, Moved(w)) /\ s.work < MaxWork
    BY <1>13 DEF AdviseMove, w, p, s
  <2> QED
    BY <1>1, <1>5, <1>10, <2>1
<1>14. CASE AdviseAsk(r)
  <2>1. live' = ps /\ worker[r] # "none" /\ Gone(r) /\ Return(ps)
    BY <1>14 DEF AdviseAsk, ps, p, s
  <2> QED
    BY <1>1, <1>3, <1>9, <2>1
<1>15. CASE NodeDone(r)
  <2>1. Checkpoint(r, Moved(s)) /\ s.work < MaxWork
    BY <1>15 DEF NodeDone, s
  <2> QED
    BY <1>1, <1>4, <1>10, <2>1
<1>16. CASE NodeAsks(r)
  <2>1. live' = q /\ worker[r] # "none" /\ Gone(r) /\ Return(q)
    BY <1>16 DEF NodeAsks, q, s
  <2> QED
    BY <1>1, <1>2, <1>9, <2>1
<1>17. CASE NodeStops(r) \/ NodeRaises(r) \/ UnwindCancelled(r) \/ UnwindRaised(r)
  BY <1>8, <1>17 DEF NodeStops, NodeRaises, UnwindCancelled, UnwindRaised, s
<1>18. CASE UnwindReturned(r)
  <2>1. worker[r] # "none" /\ Gone(r)
    BY <1>18 DEF UnwindReturned
  <2>2. \/ UNCHANGED live /\ Return(s)
        \/ s.work < MaxWork /\ live' = Moved(s) /\ Return(Moved(s))
        \/ live' = q /\ Return(q)
    BY <1>18 DEF UnwindReturned, q, s
  <2>3. CASE UNCHANGED live /\ Return(s)
    BY <1>8, <2>1, <2>3
  <2>4. CASE live' = q /\ Return(q)
    BY <1>1, <1>2, <1>9, <2>1, <2>4
  <2>5. CASE s.work < MaxWork /\ live' = Moved(s) /\ Return(Moved(s))
    BY <1>1, <1>4, <1>9, <2>1, <2>5
  <2> QED
    BY <2>2, <2>3, <2>4, <2>5
<1>19. CASE UnwindDrivesOn(r)
  <2>1. /\ job' = [job EXCEPT ![r] = Moved(s)] /\ live' = Moved(s) /\ s.work < MaxWork
        /\ worker' = [worker EXCEPT ![r] = "running"] /\ worker[r] = "unwinding"
        /\ UNCHANGED <<smart, calm, turnId, harness, interrupted, runs, cancels, screen, told>>
    BY <1>19 DEF UnwindDrivesOn, s
  <2>2. worker' \in [Runs -> WorkerStates] /\ \A x \in Runs : x > runs => worker'[x] = "none"
    BY <1>6, <2>1 DEF WorkerStates
  <2> QED
    BY <1>1, <1>4, <2>1, <2>2, CheckpointSized
<1> QED
  BY <1>11, <1>12, <1>13, <1>14, <1>15, <1>16, <1>17, <1>18, <1>19 DEF Work

(* Types and sizes, for every step.                                        *)
LEMMA StepSized == Sized /\ [Next]_vars => Sized'
<1>1. ASSUME Sized, User PROVE Sized'
  BY <1>1, UserSized
<1>2. ASSUME Sized, NEW r \in Runs, Work(r) PROVE Sized'
  BY <1>2, WorkSized
<1>3. ASSUME Sized, UNCHANGED vars PROVE Sized'
  BY <1>3 DEF vars, app, pool, screen, Sized, TypeOK, Small
<1> QED
  BY <1>1, <1>2, <1>3 DEF Next

(* Every run of the application is type correct: no message, Esc, late     *)
(* worker or advisor takes a counter, a flag or a session out of its type. *)
THEOREM AppTypeCorrect == Spec => []TypeOK
<1>1. Sized => TypeOK
  BY DEF Sized
<1> QED
  BY <1>1, InitSized, StepSized, PTL DEF Spec
-----------------------------------------------------------------------------
(* The four situations.                                                    *)
Drives(r) == worker[r] \in {"ready", "running"}

(* The same turn, as far and with the same messages.                       *)
Same(a, b) ==
  a.turn = b.turn /\ a.work = b.work /\ a.steering = b.steering /\ a.answers = b.answers

Idle ==
  /\ ~processing /\ ~awaiting /\ ~interrupted
  /\ harness = NoSession
  /\ turnId # 0 => status[turnId] \in {"done", "failed"}
  /\ \A r \in Runs : worker[r] \in {"none", "gone"}

Driven ==
  /\ processing /\ ~awaiting /\ ~interrupted
  /\ turnId > 0 /\ status[turnId] = "running"
  /\ runs \in Runs /\ runs \notin cancels /\ Drives(runs)
  /\ Same(job[runs], live) /\ live.turn = turnId /\ Heard(live) = told
  /\ \A r \in Runs \ {runs} : worker[r] \in {"none", "gone"}

Waiting ==
  /\ processing /\ awaiting /\ ~interrupted
  /\ turnId > 0 /\ status[turnId] = "running"
  /\ runs \notin cancels
  /\ harness.pending # "no" /\ harness.turn = turnId /\ Heard(harness) = told
  /\ \A r \in Runs : worker[r] \in {"none", "gone"}

Stopped ==
  /\ ~processing /\ ~awaiting /\ interrupted
  /\ turnId > 0 /\ status[turnId] = "paused"
  /\ runs \in cancels
  /\ harness.turn = turnId /\ Heard(harness) = told
  /\ \A r \in Runs : /\ worker[r] \in {"none", "gone", "unwinding"}
                     /\ worker[r] = "unwinding" => r \in cancels

Situation ==
  /\ Idle \/ Driven \/ Waiting \/ Stopped
  /\ \A t \in Turns : t > turnId => status[t] = "none"

CalmInv == Sized /\ (calm => Situation)

USE BoundsAssumption DEF Runs, Turns

-----------------------------------------------------------------------------
LEMMA InitCalm == Init => CalmInv
<1> SUFFICES ASSUME Init PROVE Situation
  BY InitSized DEF CalmInv
<1>1. Idle
  BY DEF Init, Idle
<1> QED
  BY <1>1 DEF Init, Situation

(* Phase and GoesOnWith in the four situations, in this state and the next.*)
LEMMA Phases ==
  /\ calm /\ Idle => Phase = "idle"
  /\ calm /\ Driven => Phase = "running" /\ GoesOnWith = live
  /\ calm /\ Waiting => Phase = "waiting" /\ GoesOnWith = harness
  /\ calm /\ Stopped => Phase = "paused" /\ GoesOnWith = harness
BY DEF Idle, Driven, Waiting, Stopped, Phase, GoesOnWith

(* What Turn sees in each of the four situations.                          *)
LEMMA NextPhases ==
  /\ calm' /\ Idle' => Phase' = "idle"
  /\ calm' /\ Driven' => Phase' = "running" /\ GoesOnWith' = live'
  /\ calm' /\ Waiting' => Phase' = "waiting" /\ GoesOnWith' = harness'
  /\ calm' /\ Stopped' => Phase' = "paused" /\ GoesOnWith' = harness'
BY DEF Idle, Driven, Waiting, Stopped, Phase, GoesOnWith

(* The steps of Turn, by the session that is gone on with.                 *)
LEMMA TurnMoves ==
  ASSUME NEW a, a = GoesOnWith, NEW b, b = GoesOnWith'
  PROVE  /\ (Phase = "idle" /\ Phase' = "running" /\ Heard(b) = 1 /\ b.work = 0) => T!Next
         /\ (Phase = "running" /\ Phase' \in {"running", "waiting"}
             /\ Heard(b) = Heard(a) /\ b.work \in {a.work, a.work + 1}) => T!Next
         /\ (Phase \in {"waiting", "paused"} /\ Phase' = "running"
             /\ Heard(b) = Heard(a) + 1 /\ b.work = a.work) => T!Next
         /\ (Phase \in {"running", "waiting"} /\ Phase' = "paused"
             /\ Heard(b) = Heard(a) /\ b.work = a.work) => T!Next
         /\ (Phase = "running" /\ Phase' = "idle") => T!Next
         /\ (Phase = Phase' /\ Heard(b) = Heard(a) /\ b.work = a.work) => UNCHANGED T!vars
         /\ (Phase = "idle" /\ Phase' = "idle") => UNCHANGED T!vars
<1>1. HeardSoFar = (IF Phase = "idle" THEN 0 ELSE Heard(a))
      /\ HeardSoFar' = (IF Phase' = "idle" THEN 0 ELSE Heard(b))
  BY DEF HeardSoFar, Heard
<1>2. WorkedSoFar = (IF Phase = "idle" THEN 0 ELSE a.work)
      /\ WorkedSoFar' = (IF Phase' = "idle" THEN 0 ELSE b.work)
  BY DEF WorkedSoFar
<1>3. (Phase = "idle" /\ Phase' = "running" /\ Heard(b) = 1 /\ b.work = 0) => T!Next
  BY <1>1, <1>2 DEF T!Next, T!Open
<1>4. (Phase = "running" /\ Phase' \in {"running", "waiting"}
       /\ Heard(b) = Heard(a) /\ b.work \in {a.work, a.work + 1}) => T!Next
  BY <1>1, <1>2 DEF T!Next, T!Advance
<1>5. (Phase \in {"waiting", "paused"} /\ Phase' = "running"
       /\ Heard(b) = Heard(a) + 1 /\ b.work = a.work) => T!Next
  BY <1>1, <1>2 DEF T!Next, T!Message
<1>6. (Phase \in {"running", "waiting"} /\ Phase' = "paused"
       /\ Heard(b) = Heard(a) /\ b.work = a.work) => T!Next
  BY <1>1, <1>2 DEF T!Next, T!Pause
<1>7. (Phase = "running" /\ Phase' = "idle") => T!Next
  BY <1>1, <1>2 DEF T!Next, T!Close
<1>8. (Phase = Phase' /\ Heard(b) = Heard(a) /\ b.work = a.work) => UNCHANGED T!vars
  BY <1>1, <1>2 DEF T!vars
<1>9. (Phase = "idle" /\ Phase' = "idle") => UNCHANGED T!vars
  BY <1>1, <1>2 DEF T!vars
<1> QED
  BY <1>3, <1>4, <1>5, <1>6, <1>7, <1>8, <1>9

-----------------------------------------------------------------------------
(* Steps from each situation.                                              *)

(* A message to a calm application without a worker starts the only one.   *)
LEMMA LaunchDriven ==
  ASSUME Sized, calm, NEW s \in Session, Launch(s), runs < MaxRuns,
         \A r \in Runs : worker[r] \in {"none", "gone"},
         turnId' > 0, s.turn = turnId', Heard(s) = told',
         processing' = TRUE, awaiting' = FALSE, status'[turnId'] = "running"
  PROVE  Driven' /\ live' = s
<1>0. runs \in 0 .. MaxRuns /\ runs' = runs + 1
  BY DEF Sized, TypeOK, Launch
<1>1. runs \in Nat /\ runs' = runs + 1 /\ runs' \in Runs /\ runs' # runs
  BY <1>0
<1>2. live' = s /\ interrupted' = FALSE /\ cancels' = cancels
  BY DEF Launch
<1>3. runs' \notin cancels'
  BY <1>1, <1>2 DEF Sized
<1>4. worker'[runs'] = "ready"
  BY <1>1 DEF Launch, Cancelled
<1>5. \A r \in Runs \ {runs'} : worker'[r] \in {"none", "gone"}
  BY <1>1 DEF Launch, Cancelled
<1>6. job'[runs'] = s
  BY <1>1 DEF Launch, Sized, TypeOK
<1> QED
  BY <1>1, <1>2, <1>3, <1>4, <1>5, <1>6 DEF Driven, Drives, Same, Heard

(* A worker that is not there, or is gone, takes no step.                  *)
LEMMA OnlyWorkersWork ==
  ASSUME NEW r \in Runs, worker[r] \in {"none", "gone"}
  PROVE  ~Work(r)
BY DEF Work, Start, AdviseProceed, AdviseMove, AdviseAsk, NodeDone, NodeAsks, NodeStops,
       NodeRaises, UnwindCancelled, UnwindReturned, UnwindDrivesOn, UnwindRaised

(* From an idle application only a new turn begins.                        *)
LEMMA FromIdle ==
  ASSUME Sized, calm, Idle, Next
  PROVE  Driven' /\ calm' /\ Heard(live') = 1 /\ live'.work = 0
         /\ turnId' = turnId + 1 /\ status' = [status EXCEPT ![turnId + 1] = "running"]
<1>1. \A r \in Runs : ~Work(r)
  BY OnlyWorkersWork DEF Idle
<1>2. harness.pending = "no" /\ ~interrupted /\ ~processing
  BY NewSmall DEF Idle, NoSession, NewSession
<1>3. SubmitRequest
  BY <1>1, <1>2 DEF Next, User, SubmitSteering, Resumes, AnswerSmartQuery, AnswerQuery, Interrupt
<1> DEFINE s == NewSession(turnId + 1)
<1>0. turnId \in 0 .. MaxTurns /\ turnId < MaxTurns /\ turnId' = turnId + 1
  BY <1>3 DEF SubmitRequest, Sized, TypeOK
<1>4. turnId \in Nat /\ turnId + 1 \in Turns /\ turnId + 1 \in 0 .. MaxTurns
      /\ turnId' = turnId + 1
  BY <1>0
<1>5. s \in Session /\ s.turn = turnId' /\ s.turn # turnId /\ Heard(s) = 1 /\ s.work = 0
  BY <1>4, NewSmall DEF Heard
<1> HIDE DEF s
<1>6. Launch(s) /\ runs < MaxRuns /\ processing' = TRUE /\ awaiting' = FALSE
      /\ status' = [status EXCEPT ![turnId + 1] = "running"]
  BY <1>3 DEF SubmitRequest, PromptOpen, Idle, s
<1>7. told' = 1 /\ calm' = calm
  BY <1>5, <1>6 DEF Launch
<1>8. status'[turnId'] = "running" /\ turnId' > 0
  BY <1>4, <1>6 DEF Sized, TypeOK
<1>9. \A r \in Runs : worker[r] \in {"none", "gone"}
  BY DEF Idle
<1>10. Driven' /\ live' = s
  BY <1>5, <1>6, <1>7, <1>8, <1>9, LaunchDriven
<1> QED
  BY <1>4, <1>5, <1>6, <1>7, <1>10

(* The driver of the only worker returned session a.                       *)
LEMMA ReturnFromDriven ==
  ASSUME Sized, calm, Driven, Gone(runs), NEW a \in Session, Same(a, live), Return(a)
  PROVE  /\ calm' /\ turnId' = turnId
         /\ \A t \in Turns \ {turnId} : status'[t] = status[t]
         /\ Idle' \/ (Waiting' /\ Same(harness', live))
<1>1. /\ calm' = calm /\ turnId' = turnId /\ runs' = runs /\ cancels' = cancels
      /\ interrupted' = interrupted /\ told' = told
      /\ worker' = [worker EXCEPT ![runs] = "gone"]
  BY DEF Gone
<1>2. \A r \in Runs : worker'[r] \in {"none", "gone"}
  BY <1>1 DEF Driven, Sized, TypeOK
<1>3. turnId \in Turns /\ status \in [Turns -> {"none", "running", "done", "failed", "paused"}]
  BY DEF Driven, Sized, TypeOK
<1>4. \/ a.pending # "no" /\ Raise(a)
      \/ a.pending = "no" /\ End
  BY DEF Return, Driven
<1>5. CASE a.pending # "no" /\ Raise(a)
  <2>1. harness' = a /\ awaiting' = TRUE /\ processing' = processing /\ status' = status
    BY <1>5 DEF Raise
  <2>2. Waiting'
    BY <1>1, <1>2, <1>5, <2>1 DEF Waiting, Driven, Same, Heard
  <2> QED
    BY <1>1, <2>1, <2>2
<1>6. CASE End
  <2>1. /\ harness' = NoSession /\ processing' = FALSE /\ awaiting' = awaiting
        /\ status' = [status EXCEPT ![turnId] = "done"]
    BY <1>6 DEF End
  <2>2. status'[turnId] = "done" /\ \A t \in Turns \ {turnId} : status'[t] = status[t]
    BY <1>3, <2>1
  <2>3. Idle'
    BY <1>1, <1>2, <2>1, <2>2 DEF Idle, Driven
  <2> QED
    BY <1>1, <2>2, <2>3
<1> QED
  BY <1>4, <1>5, <1>6

(* The only worker goes on, past a boundary or not.                        *)
LEMMA GoesOnDriven ==
  ASSUME Sized, Driven, NEW a, Same(a, live') \/ (Same(a, live) /\ live' = live),
         live'.turn = live.turn, live'.steering = live.steering, live'.answers = live.answers,
         job' = [job EXCEPT ![runs] = a], worker' = worker,
         UNCHANGED <<smart, calm, turnId, harness, interrupted, runs, cancels, screen, told>>
  PROVE  Driven'
<1>1. job'[runs] = a
  BY DEF Sized, TypeOK, Driven
<1>2. /\ turnId' = turnId /\ runs' = runs /\ cancels' = cancels /\ told' = told
      /\ interrupted' = interrupted
      /\ processing' = processing /\ awaiting' = awaiting /\ status' = status
  BY DEF screen
<1>3. Same(job'[runs], live') /\ live'.turn = turnId /\ Heard(live') = told
  BY <1>1 DEF Driven, Same, Heard
<1> QED
  BY <1>2, <1>3 DEF Driven, Drives

(* The steps of a driver keep what the session has heard.                  *)
LEMMA DriverMoves ==
  ASSUME NEW s \in Session
  PROVE  /\ Processed(s) \in Session /\ Same(Processed(s), s)
         /\ Processed(s).seen <= Processed(s).steering
         /\ Moved(s).turn = s.turn /\ Moved(s).work = s.work + 1
         /\ Moved(s).steering = s.steering /\ Moved(s).answers = s.answers
<1>1. Processed(s) \in Session /\ Same(Processed(s), s) /\ Processed(s).seen = s.steering
  BY DEF Session, Processed, Same
<1>2. /\ Moved(s).turn = s.turn /\ Moved(s).work = s.work + 1
      /\ Moved(s).steering = s.steering /\ Moved(s).answers = s.answers
  BY DEF Session, Moved
<1>3. Processed(s).steering = s.steering /\ s.steering \in Nat
  BY <1>1, SessionFields DEF Same
<1> QED
  BY <1>1, <1>2, <1>3

(* A turn being driven goes on, asks, is stopped or ends.                  *)
LEMMA FromDriven ==
  ASSUME Sized, calm, Driven, Next
  PROVE  /\ calm' /\ turnId' = turnId
         /\ \A t \in Turns \ {turnId} : status'[t] = status[t]
         /\ \/ Driven' /\ Heard(live') = Heard(live) /\ live'.work \in {live.work, live.work + 1}
            \/ Waiting' /\ Same(harness', live)
            \/ Stopped' /\ Same(harness', live)
            \/ Idle'
<1> DEFINE s == job[runs]
           p == Processed(s)
           w == WithoutInterruptedQuery(p)
<1>1. /\ s \in Session /\ Same(s, live) /\ s.seen <= s.steering /\ runs \in Runs
      /\ turnId \in Turns
  BY DEF Driven, Sized, TypeOK, Small
<1>2. p \in Session /\ Same(p, s) /\ p.seen <= p.steering
  BY <1>1, DriverMoves
<1>3. w \in Session /\ Same(w, s) /\ w.seen <= w.steering
  <2> HIDE DEF p
  <2> QED
    BY <1>2, DriverOps DEF Same
<1> HIDE DEF s, p, w
<1>4. ASSUME NEW a \in Session, Same(a, s), a.seen <= a.steering
      PROVE  /\ a.work < MaxWork =>
                  /\ Moved(a).turn = live.turn /\ Moved(a).work = live.work + 1
                  /\ Moved(a).steering = live.steering /\ Moved(a).answers = live.answers
             /\ \A q \in {"node", "smart"} :
                  LET b == [a EXCEPT !.pending = q]
                  IN  b \in Session /\ Same(b, live) /\ b.pending = q
  <2>1. a.turn = live.turn /\ a.work = live.work /\ a.steering = live.steering
        /\ a.answers = live.answers
    BY <1>1, <1>4 DEF Same
  <2>2. a.work < MaxWork =>
          /\ Moved(a).turn = live.turn /\ Moved(a).work = live.work + 1
          /\ Moved(a).steering = live.steering /\ Moved(a).answers = live.answers
    BY <2>1, DriverMoves
  <2>3. ASSUME NEW q \in {"node", "smart"}
        PROVE  [a EXCEPT !.pending = q] \in Session /\ Same([a EXCEPT !.pending = q], live)
               /\ [a EXCEPT !.pending = q].pending = q
    BY <1>4, <2>1, DriverOps DEF Same
  <2> QED
    BY <2>2, <2>3
<1>5. CASE User
  <2>1. Interrupt
    BY <1>5 DEF User, SubmitRequest, SubmitSteering, AnswerSmartQuery, AnswerQuery,
                PromptOpen, Driven
  <2>2. /\ cancels' = cancels \cup {runs} /\ worker' = Cancelled /\ harness' = live
        /\ interrupted' = TRUE /\ processing' = FALSE /\ awaiting' = FALSE
        /\ status' = [status EXCEPT ![turnId] = "paused"]
        /\ UNCHANGED <<smart, calm, turnId, live, runs, job, told>>
    BY <2>1 DEF Interrupt, Kept, Driven
  <2>3. status'[turnId] = "paused" /\ \A t \in Turns \ {turnId} : status'[t] = status[t]
    BY <1>1, <2>2 DEF Sized, TypeOK
  <2>4. \A r \in Runs : /\ worker'[r] \in {"none", "gone", "unwinding"}
                        /\ worker'[r] = "unwinding" => r \in cancels'
    BY <2>2 DEF Cancelled, Driven, Drives
  <2>5. Stopped'
    BY <2>2, <2>3, <2>4 DEF Stopped, Driven
  <2> QED
    BY <2>2, <2>3, <2>5 DEF Same
<1>6. ASSUME Work(runs) PROVE
         /\ calm' /\ turnId' = turnId
         /\ \A t \in Turns \ {turnId} : status'[t] = status[t]
         /\ \/ Driven' /\ Heard(live') = Heard(live) /\ live'.work \in {live.work, live.work + 1}
            \/ Waiting' /\ Same(harness', live)
            \/ Idle'
  <2>1. worker[runs] # "unwinding"
    BY DEF Driven, Drives
  <2>2. CASE Start(runs)
    <3>1. /\ worker' = [worker EXCEPT ![runs] = "running"]
          /\ UNCHANGED <<smart, calm, turnId, harness, live, interrupted, runs, cancels, job,
                         processing, awaiting, status, told>>
      BY <2>2 DEF Start, app, screen
    <3>2. Drives(runs)' /\ \A r \in Runs \ {runs} : worker'[r] = worker[r]
      BY <1>1, <3>1 DEF Drives, Sized, TypeOK
    <3>3. Driven'
      BY <3>1, <3>2 DEF Driven
    <3> QED
      BY <3>1, <3>3
  <2>3. CASE AdviseProceed(runs)
    <3>1. /\ job' = [job EXCEPT ![runs] = w] /\ live' = live /\ worker' = worker
          /\ UNCHANGED <<smart, calm, turnId, harness, interrupted, runs, cancels, screen, told>>
      BY <2>3 DEF AdviseProceed, app, w, p, s
    <3>2. Same(w, live)
      BY <1>1, <1>3 DEF Same
    <3>3. Driven'
      BY <3>1, <3>2, GoesOnDriven
    <3> QED
      BY <3>1, <3>3 DEF screen
  <2>4. ASSUME NEW a, a \in {s, w}, a.work < MaxWork, Checkpoint(runs, Moved(a))
        PROVE  /\ Driven' /\ Heard(live') = Heard(live) /\ live'.work = live.work + 1
               /\ calm' /\ turnId' = turnId /\ status' = status
    <3>1. /\ job' = [job EXCEPT ![runs] = Moved(a)] /\ live' = Moved(a) /\ worker' = worker
          /\ UNCHANGED <<smart, calm, turnId, harness, interrupted, runs, cancels, screen, told>>
      BY <2>4 DEF Checkpoint
    <3>2. a \in Session /\ Same(a, s) /\ a.seen <= a.steering
      BY <1>1, <1>3, <2>4 DEF Same
    <3>3. /\ live'.turn = live.turn /\ live'.work = live.work + 1
          /\ live'.steering = live.steering /\ live'.answers = live.answers
      BY <1>4, <2>4, <3>1, <3>2
    <3>4. Driven'
      BY <3>1, <3>3, GoesOnDriven DEF Same
    <3> QED
      BY <3>1, <3>3, <3>4 DEF Heard, screen
  <2>5. CASE AdviseMove(runs)
    <3>1. Checkpoint(runs, Moved(w)) /\ w.work < MaxWork
      BY <1>2, <1>3, <2>5 DEF AdviseMove, Same, w, p, s
    <3> QED
      BY <2>4, <3>1
  <2>6. CASE NodeDone(runs)
    <3>1. Checkpoint(runs, Moved(s)) /\ s.work < MaxWork
      BY <2>6 DEF NodeDone, s
    <3> QED
      BY <2>4, <3>1
  <2>7. CASE AdviseAsk(runs)
    <3>1. Gone(runs) /\ Return([p EXCEPT !.pending = "smart"])
      BY <2>7 DEF AdviseAsk, p, s
    <3>2. [p EXCEPT !.pending = "smart"] \in Session /\ Same([p EXCEPT !.pending = "smart"], live)
      BY <1>2, <1>4
    <3> QED
      BY <3>1, <3>2, ReturnFromDriven
  <2>8. CASE NodeAsks(runs)
    <3>1. Gone(runs) /\ Return([s EXCEPT !.pending = "node"])
      BY <2>8 DEF NodeAsks, s
    <3>2. [s EXCEPT !.pending = "node"] \in Session /\ Same([s EXCEPT !.pending = "node"], live)
      BY <1>1, <1>4 DEF Same
    <3> QED
      BY <3>1, <3>2, ReturnFromDriven
  <2>9. CASE NodeStops(runs)
    <3>1. Gone(runs) /\ Return(s)
      BY <2>9 DEF NodeStops, s
    <3> QED
      BY <1>1, <3>1, ReturnFromDriven
  <2>10. CASE NodeRaises(runs)
    <3>1. /\ worker' = [worker EXCEPT ![runs] = "gone"] /\ UNCHANGED <<calm, turnId, interrupted>>
          /\ harness' = NoSession /\ processing' = FALSE /\ awaiting' = FALSE
          /\ status' = [status EXCEPT ![turnId] = "failed"]
      BY <2>10 DEF NodeRaises, Gone, Fail
    <3>2. status'[turnId] = "failed" /\ \A t \in Turns \ {turnId} : status'[t] = status[t]
      BY <1>1, <3>1 DEF Sized, TypeOK
    <3>3. \A r \in Runs : worker'[r] \in {"none", "gone"}
      BY <3>1 DEF Driven, Sized, TypeOK
    <3>4. Idle'
      BY <3>1, <3>2, <3>3 DEF Idle, Driven
    <3> QED
      BY <3>1, <3>2, <3>4
  <2> QED
    BY <1>6, <2>1, <2>2, <2>3, <2>5, <2>6, <2>7, <2>8, <2>9, <2>10
    DEF Work, UnwindCancelled, UnwindReturned, UnwindDrivesOn, UnwindRaised
<1>7. ASSUME NEW r \in Runs, Work(r) PROVE r = runs
  BY <1>7, OnlyWorkersWork DEF Driven
<1> QED
  BY <1>5, <1>6, <1>7 DEF Next

(* A message to a session that has been waiting, or paused, goes on with   *)
(* it: what is launched is a, which contains one message more.             *)
LEMMA MessageDriven ==
  ASSUME Sized, calm, turnId > 0, Heard(harness) = told, harness.turn = turnId,
         \A r \in Runs : worker[r] \in {"none", "gone"},
         NEW a \in Session, a.turn = harness.turn, a.work = harness.work,
         Heard(a) = Heard(harness) + 1, Launch(a), PromptOpen, turnId' = turnId,
         \/ ShowSteering
         \/ processing /\ status[turnId] = "running" /\ awaiting' = FALSE
            /\ UNCHANGED <<processing, status>>
  PROVE  /\ calm' /\ turnId' = turnId
         /\ \A t \in Turns \ {turnId} : status'[t] = status[t]
         /\ Driven' /\ Heard(live') = Heard(harness) + 1 /\ live'.work = harness.work
<1>1. turnId \in Turns /\ runs < MaxRuns
  BY DEF Sized, TypeOK, PromptOpen
<1>2. processing' = TRUE /\ awaiting' = FALSE /\ status'[turnId'] = "running"
      /\ \A t \in Turns \ {turnId} : status'[t] = status[t]
  BY <1>1 DEF ShowSteering, Sized, TypeOK
<1>3. told' = Heard(a) /\ calm' = calm
  BY DEF Launch
<1>4. Driven' /\ live' = a
  BY <1>1, <1>2, <1>3, LaunchDriven
<1> QED
  BY <1>2, <1>3, <1>4

(* A question is answered or left by Esc.                                  *)
LEMMA FromWaiting ==
  ASSUME Sized, calm, Waiting, Next
  PROVE  /\ calm' /\ turnId' = turnId
         /\ \A t \in Turns \ {turnId} : status'[t] = status[t]
         /\ \/ Driven' /\ Heard(live') = Heard(harness) + 1 /\ live'.work = harness.work
            \/ Stopped' /\ harness' = harness
<1>1. User
  BY OnlyWorkersWork DEF Next, Waiting
<1>2. /\ harness \in Session /\ harness.steering <= runs /\ harness.answers <= runs
      /\ harness.seen <= harness.steering /\ runs \in Nat /\ turnId \in Turns
  BY DEF Waiting, Sized, TypeOK, Small
<1>3. ~Resumes /\ harness.pending # "no"
  BY DEF Waiting, Resumes
<1>4. CASE AnswerSmartQuery
  <2> DEFINE b == WithoutPendingQuery(harness)
             a == WithSteering(b)
  <2>1. PromptOpen /\ Launch(a) /\ ShowSteering /\ turnId' = turnId /\ runs < MaxRuns
    BY <1>4 DEF AnswerSmartQuery, PromptOpen
  <2>2. /\ b \in Session /\ b.steering = harness.steering /\ b.answers = harness.answers
        /\ b.seen = harness.seen /\ b.turn = harness.turn /\ b.work = harness.work
    BY <1>2, Unparked
  <2> HIDE DEF b
  <2>3. /\ a \in Session /\ a.steering = b.steering + 1 /\ a.answers = b.answers
        /\ a.turn = b.turn /\ a.work = b.work
    BY <1>2, <2>1, <2>2, SessionOps
  <2> HIDE DEF a
  <2>4. Heard(a) = Heard(harness) + 1
    BY <1>2, <2>2, <2>3, SessionFields DEF Heard
  <2> QED
    BY <2>1, <2>2, <2>3, <2>4, MessageDriven DEF Waiting
<1>5. CASE AnswerQuery
  <2> DEFINE a == WithUserResponse(harness)
  <2>1. PromptOpen /\ Launch(a) /\ turnId' = turnId /\ awaiting' = FALSE /\ runs < MaxRuns
        /\ UNCHANGED <<processing, status>>
    BY <1>5 DEF AnswerQuery, PromptOpen
  <2>2. /\ a \in Session /\ a.steering = harness.steering /\ a.answers = harness.answers + 1
        /\ a.turn = harness.turn /\ a.work = harness.work
    BY <1>2, <2>1, SessionOps
  <2> HIDE DEF a
  <2>3. Heard(a) = Heard(harness) + 1
    BY <1>2, <2>2, SessionFields DEF Heard
  <2> QED
    BY <2>1, <2>2, <2>3, MessageDriven DEF Waiting
<1>6. CASE Interrupt
  <2>0. harness # NoSession
    BY <1>2, NewSmall DEF Waiting, NoSession
  <2>1. /\ cancels' = cancels \cup {runs} /\ worker' = Cancelled /\ harness' = harness
        /\ interrupted' = TRUE /\ processing' = FALSE /\ awaiting' = FALSE
        /\ status' = [status EXCEPT ![turnId] = "paused"]
        /\ UNCHANGED <<smart, calm, turnId, live, runs, job, told>>
    BY <1>6, <2>0 DEF Interrupt, Kept, Waiting
  <2>2. status'[turnId] = "paused" /\ \A t \in Turns \ {turnId} : status'[t] = status[t]
    BY <1>2, <2>1 DEF Sized, TypeOK
  <2>3. \A r \in Runs : worker'[r] \in {"none", "gone"}
    BY <2>1 DEF Cancelled, Waiting
  <2>4. Stopped'
    BY <2>1, <2>2, <2>3 DEF Stopped, Waiting
  <2> QED
    BY <2>1, <2>2, <2>4
<1>7. ~SubmitRequest /\ ~SubmitSteering
  BY <1>3 DEF SubmitRequest, SubmitSteering
<1> QED
  BY <1>1, <1>4, <1>5, <1>6, <1>7 DEF User

(* A turn that was stopped is steered, or stays as it is.                  *)
LEMMA FromStopped ==
  ASSUME Sized, calm, Stopped, Next
  PROVE  /\ calm' /\ turnId' = turnId
         /\ \A t \in Turns \ {turnId} : status'[t] = status[t]
         /\ \/ Driven' /\ Heard(live') = Heard(harness) + 1 /\ live'.work = harness.work
            \/ Stopped' /\ harness' = harness
<1>1. /\ harness \in Session /\ harness.steering <= runs /\ harness.answers <= runs
      /\ harness.seen <= harness.steering /\ runs \in Nat /\ turnId \in Turns
  BY DEF Stopped, Sized, TypeOK, Small
<1>2. Resumes
  BY <1>1, NewSmall DEF Stopped, Resumes, NoSession
<1>3. CASE User
  <2> DEFINE b == IF smart THEN harness ELSE WithoutPendingQuery(harness)
             a == WithSteering(b)
  <2>1. PromptOpen /\ Launch(a) /\ ShowSteering /\ turnId' = turnId /\ runs < MaxRuns
    BY <1>2, <1>3 DEF User, SubmitRequest, AnswerSmartQuery, AnswerQuery, Interrupt,
                      SubmitSteering, PromptOpen, Stopped
  <2>2. /\ b \in Session /\ b.steering = harness.steering /\ b.answers = harness.answers
        /\ b.seen = harness.seen /\ b.turn = harness.turn /\ b.work = harness.work
    BY <1>1, Unparked
  <2> HIDE DEF b
  <2>3. /\ a \in Session /\ a.steering = b.steering + 1 /\ a.answers = b.answers
        /\ a.turn = b.turn /\ a.work = b.work
    BY <1>1, <2>1, <2>2, SessionOps
  <2> HIDE DEF a
  <2>4. Heard(a) = Heard(harness) + 1
    BY <1>1, <2>2, <2>3, SessionFields DEF Heard
  <2>5. \A r \in Runs : worker[r] \in {"none", "gone"}
    BY <2>1 DEF PromptOpen, In, Stopped
  <2> QED
    BY <2>1, <2>2, <2>3, <2>4, <2>5, MessageDriven DEF Stopped
<1>4. ASSUME NEW r \in Runs, Work(r)
      PROVE  Gone(r) /\ UNCHANGED <<harness, screen>>
  <2>1. worker[r] = "unwinding" /\ r \in cancels
    BY <1>4, OnlyWorkersWork DEF Stopped
  <2>2. UnwindCancelled(r) \/ UnwindReturned(r)
    BY <1>4, <2>1 DEF Work, Start, AdviseProceed, AdviseMove, AdviseAsk, NodeDone, NodeAsks,
                      NodeStops, NodeRaises, UnwindDrivesOn, UnwindRaised
  <2>3. Gone(r) /\ StandDown
    BY <2>2 DEF UnwindCancelled, UnwindReturned, Return, Stopped
  <2> QED
    BY <2>3 DEF StandDown, Stopped
<1>5. ASSUME NEW r \in Runs, Gone(r), UNCHANGED <<harness, screen>>
      PROVE  /\ calm' /\ turnId' = turnId /\ status' = status
             /\ Stopped' /\ harness' = harness
  <2>1. /\ UNCHANGED <<calm, turnId, interrupted, runs, cancels, told, harness,
                       processing, awaiting, status>>
        /\ worker' = [worker EXCEPT ![r] = "gone"]
    BY <1>5 DEF Gone, screen
  <2>2. \A q \in Runs : /\ worker'[q] \in {"none", "gone", "unwinding"}
                        /\ worker'[q] = "unwinding" => q \in cancels'
    BY <2>1 DEF Stopped, Sized, TypeOK
  <2> QED
    BY <2>1, <2>2 DEF Stopped
<1> QED
  BY <1>3, <1>4, <1>5 DEF Next

-----------------------------------------------------------------------------
(* All of them together.                                                   *)

(* The assumption has no next value.                                       *)
LEMMA CalmStays == Next => calm' = calm
BY DEF Next, User, SubmitRequest, SubmitSteering, AnswerSmartQuery, AnswerQuery, Interrupt,
       Launch, Work, Start, AdviseProceed, AdviseMove, AdviseAsk, NodeDone, NodeAsks, NodeStops,
       NodeRaises, UnwindCancelled, UnwindReturned, UnwindDrivesOn, UnwindRaised, Gone,
       Checkpoint, app

(* What a step of a calm application comes to.                             *)
LEMMA CalmStep ==
  ASSUME Sized, calm, Situation, Next
  PROVE  /\ Situation' /\ calm'
         /\ T!Next \/ UNCHANGED T!vars
         /\ \A t \in Turns : status[t] \in {"done", "failed"} => status'[t] = status[t]
<1> DEFINE a == GoesOnWith
           b == GoesOnWith'
<1>0. turnId \in 0 .. MaxTurns
  BY DEF Sized, TypeOK
<1>7. /\ (Phase = "running" /\ Phase' \in {"running", "waiting"}
          /\ Heard(b) = Heard(a) /\ b.work \in {a.work, a.work + 1}) => T!Next
      /\ (Phase = "running" /\ Phase' = "paused"
          /\ Heard(b) = Heard(a) /\ b.work = a.work) => T!Next
      /\ (Phase = "running" /\ Phase' = "idle") => T!Next
  BY TurnMoves
<1>1. CASE Idle
  <2>1. /\ Driven' /\ calm' /\ Heard(live') = 1 /\ live'.work = 0
        /\ turnId' = turnId + 1 /\ status' = [status EXCEPT ![turnId + 1] = "running"]
    BY <1>1, FromIdle
  <2>2. /\ Phase = "idle" /\ Phase' = "running" /\ Heard(b) = 1 /\ b.work = 0
    BY <1>1, <2>1, Phases, NextPhases
  <2>3. T!Next
    BY <2>2, TurnMoves
  <2>4. \A t \in Turns : t # turnId + 1 => status'[t] = status[t]
    BY <2>1 DEF Sized, TypeOK
  <2>5. \A t \in Turns : t > turnId => status[t] = "none"
    BY DEF Situation
  <2>6. \A t \in Turns : t > turnId' => status'[t] = "none"
    BY <1>0, <2>1, <2>4, <2>5
  <2>7. \A t \in Turns : status[t] \in {"done", "failed"} => status'[t] = status[t]
    BY <1>0, <2>4, <2>5
  <2> QED
    BY <2>1, <2>3, <2>6, <2>7 DEF Situation
<1>2. ASSUME status[turnId] \in {"running", "paused"}, turnId > 0, turnId' = turnId,
             \A t \in Turns \ {turnId} : status'[t] = status[t]
      PROVE  /\ \A t \in Turns : t > turnId' => status'[t] = "none"
             /\ \A t \in Turns : status[t] \in {"done", "failed"} => status'[t] = status[t]
  <2>1. \A t \in Turns : t > turnId => status[t] = "none"
    BY DEF Situation
  <2> QED
    BY <1>0, <1>2, <2>1
<1>3. CASE Driven
  <2>1. /\ calm' /\ turnId' = turnId
        /\ \A t \in Turns \ {turnId} : status'[t] = status[t]
        /\ \/ Driven' /\ Heard(live') = Heard(live) /\ live'.work \in {live.work, live.work + 1}
           \/ Waiting' /\ Same(harness', live)
           \/ Stopped' /\ Same(harness', live)
           \/ Idle'
    BY <1>3, FromDriven
  <2>2. Phase = "running" /\ a = live
    BY <1>3, Phases
  <2>3. ASSUME Driven', Heard(live') = Heard(live), live'.work \in {live.work, live.work + 1}
        PROVE  T!Next
    <3>1. Phase' = "running" /\ b = live'
      BY <2>1, <2>3, NextPhases
    <3>2. Heard(b) = Heard(a) /\ b.work \in {a.work, a.work + 1}
      BY <2>2, <2>3, <3>1
    <3> HIDE DEF a, b
    <3> QED
      BY <1>7, <2>2, <3>1, <3>2
  <2>4. ASSUME Waiting', Same(harness', live) PROVE T!Next
    <3>1. Phase' = "waiting" /\ b = harness'
      BY <2>1, <2>4, NextPhases
    <3>2. Heard(b) = Heard(a) /\ b.work = a.work
      BY <2>2, <2>4, <3>1 DEF Same, Heard
    <3> HIDE DEF a, b
    <3> QED
      BY <1>7, <2>2, <3>1, <3>2
  <2>5. ASSUME Stopped', Same(harness', live) PROVE T!Next
    <3>1. Phase' = "paused" /\ b = harness'
      BY <2>1, <2>5, NextPhases
    <3>2. Heard(b) = Heard(a) /\ b.work = a.work
      BY <2>2, <2>5, <3>1 DEF Same, Heard
    <3> HIDE DEF a, b
    <3> QED
      BY <1>7, <2>2, <3>1, <3>2
  <2>6. ASSUME Idle' PROVE T!Next
    <3>1. Phase' = "idle"
      BY <2>1, <2>6, NextPhases
    <3> HIDE DEF a, b
    <3> QED
      BY <1>7, <2>2, <3>1
  <2>7. T!Next \/ UNCHANGED T!vars
    BY <2>1, <2>3, <2>4, <2>5, <2>6
  <2> QED
    BY <1>2, <1>3, <2>1, <2>7 DEF Situation, Driven
<1>4. ASSUME Phase \in {"waiting", "paused"}, a = harness, calm',
             \/ Driven' /\ Heard(live') = Heard(harness) + 1 /\ live'.work = harness.work
             \/ Stopped' /\ harness' = harness
      PROVE  T!Next \/ UNCHANGED T!vars
  <2>1. CASE Driven' /\ Heard(live') = Heard(harness) + 1 /\ live'.work = harness.work
    <3>1. Phase' = "running" /\ b = live'
      BY <1>4, <2>1, NextPhases
    <3> QED
      BY <1>4, <2>1, <3>1, TurnMoves
  <2>2. CASE Stopped' /\ harness' = harness
    <3>1. Phase' = "paused" /\ b = harness'
      BY <1>4, <2>2, NextPhases
    <3> QED
      BY <1>4, <2>2, <3>1, TurnMoves
  <2> QED
    BY <1>4, <2>1, <2>2
<1>5. CASE Waiting
  <2>1. /\ calm' /\ turnId' = turnId
        /\ \A t \in Turns \ {turnId} : status'[t] = status[t]
        /\ \/ Driven' /\ Heard(live') = Heard(harness) + 1 /\ live'.work = harness.work
           \/ Stopped' /\ harness' = harness
    BY <1>5, FromWaiting
  <2>2. T!Next \/ UNCHANGED T!vars
    BY <1>4, <1>5, <2>1, Phases
  <2> QED
    BY <1>2, <1>5, <2>1, <2>2 DEF Situation, Waiting
<1>6. CASE Stopped
  <2>1. /\ calm' /\ turnId' = turnId
        /\ \A t \in Turns \ {turnId} : status'[t] = status[t]
        /\ \/ Driven' /\ Heard(live') = Heard(harness) + 1 /\ live'.work = harness.work
           \/ Stopped' /\ harness' = harness
    BY <1>6, FromStopped
  <2>2. T!Next \/ UNCHANGED T!vars
    BY <1>4, <1>6, <2>1, Phases
  <2> QED
    BY <1>2, <1>6, <2>1, <2>2 DEF Situation, Stopped
<1> QED
  BY <1>1, <1>3, <1>5, <1>6 DEF Situation

(* The four situations, the simulation of Turn and the end of turns, for   *)
(* every step.                                                             *)
LEMMA StepCalm ==
  CalmInv /\ [Next]_vars =>
    /\ CalmInv'
    /\ [T!Next]_(T!vars)
    /\ [calm => \A t \in Turns :
                  status[t] \in {"done", "failed"} => status'[t] = status[t]]_vars
<1>1. ASSUME CalmInv, Next, calm
      PROVE  /\ CalmInv'
             /\ T!Next \/ UNCHANGED T!vars
             /\ \A t \in Turns : status[t] \in {"done", "failed"} => status'[t] = status[t]
  <2>1. Sized'
    BY <1>1, StepSized DEF CalmInv
  <2> QED
    BY <1>1, <2>1, CalmStep DEF CalmInv
<1>2. ASSUME CalmInv, Next, ~calm PROVE CalmInv' /\ UNCHANGED T!vars
  <2>1. Sized' /\ ~calm'
    BY <1>2, StepSized, CalmStays DEF CalmInv
  <2>2. Phase = "idle" /\ Phase' = "idle"
    BY <1>2, <2>1 DEF Phase
  <2> QED
    BY <2>1, <2>2, TurnMoves DEF CalmInv
<1>3. ASSUME CalmInv, UNCHANGED vars PROVE CalmInv' /\ UNCHANGED T!vars
  <2>1. Sized'
    BY <1>3, StepSized DEF CalmInv
  <2>2. UNCHANGED T!vars
    BY <1>3 DEF T!vars, HeardSoFar, WorkedSoFar, GoesOnWith, Phase, Heard, vars, app, pool, screen
  <2>3. calm => Situation'
    BY <1>3 DEF CalmInv, Situation, Idle, Driven, Waiting, Stopped, Drives, Same, Heard,
                vars, app, pool, screen
  <2> QED
    BY <1>3, <2>1, <2>2, <2>3 DEF CalmInv, vars, app
<1>4. CalmInv /\ [Next]_vars => CalmInv' /\ (T!Next \/ UNCHANGED T!vars)
  BY <1>1, <1>2, <1>3
<1>5. CalmInv /\ [Next]_vars =>
        UNCHANGED vars \/ (calm => \A t \in Turns :
                                     status[t] \in {"done", "failed"} => status'[t] = status[t])
  BY <1>1
<1> QED
  BY <1>4, <1>5

LEMMA AlwaysCalmInv == Spec => []CalmInv
BY InitCalm, StepCalm, PTL DEF Spec

-----------------------------------------------------------------------------
(* A question on the screen is one a message will answer: with calm        *)
(* workers, what is parked is the latest turn's, and nothing drives.       *)
THEOREM AppQuestionsAnswerable == Spec => []QuestionAnswerable
<1>1. CalmInv => QuestionAnswerable
  BY DEF CalmInv, Situation, Idle, Driven, Waiting, Stopped, QuestionAnswerable, Driving, In
<1> QED
  BY <1>1, AlwaysCalmInv, PTL

(* Esc, at whatever await it comes, leaves a turn to go on with.           *)
THEOREM AppPausedTurnsKept == Spec => []PausedTurnKept
<1>1. CalmInv => PausedTurnKept
  BY DEF CalmInv, Situation, Idle, Driven, Waiting, Stopped, PausedTurnKept, Paused
<1> QED
  BY <1>1, AlwaysCalmInv, PTL

(* No message is lost between the prompt, the workers and the parked       *)
(* session.                                                                *)
THEOREM AppMessagesKept == Spec => []MessagesKept
<1>1. ASSUME CalmInv, calm, turnId > 0, status[turnId] \in {"running", "paused"}
      PROVE  IF awaiting \/ Paused THEN Heard(harness) = told
                                   ELSE \E r \in Driving : Heard(job[r]) = told
  <2>1. Driven \/ Waiting \/ Stopped
    BY <1>1 DEF CalmInv, Situation, Idle
  <2>2. CASE Driven
    <3>1. runs \in Driving /\ Heard(job[runs]) = told
      BY <2>2 DEF Driven, Drives, Driving, In, Same, Heard
    <3> QED
      BY <2>2, <3>1 DEF Driven, Paused
  <2>3. CASE Waiting \/ Stopped
    BY <2>3 DEF Waiting, Stopped, Paused
  <2> QED
    BY <2>1, <2>2, <2>3
<1>2. CalmInv => MessagesKept
  BY <1>1 DEF MessagesKept
<1> QED
  BY <1>2, AlwaysCalmInv, PTL

(* At most one worker drives as long as the workers are calm: a cancelled  *)
(* one has ended before the next message, and none has raised.  Without    *)
(* that it is false: a worker that unwinds late overlaps with the next.    *)
THEOREM AppOneDriver == Spec => []OneDriver
<1>1. ASSUME CalmInv, calm PROVE Driving \subseteq {runs}
  BY <1>1 DEF CalmInv, Situation, Idle, Driven, Waiting, Stopped, Driving, In, Drives
<1>2. CalmInv => OneDriver
  <2> SUFFICES ASSUME CalmInv, calm PROVE Cardinality(Driving) <= 1
    BY DEF OneDriver
  <2>1. IsFiniteSet({runs}) /\ Cardinality({runs}) = 1
    BY FS_Singleton
  <2>2. IsFiniteSet(Driving) /\ Cardinality(Driving) <= Cardinality({runs})
    BY <1>1, <2>1, FS_Subset
  <2> QED
    BY <2>1, <2>2
<1> QED
  BY <1>2, AlwaysCalmInv, PTL

(* A turn that is done or failed stays so.                                 *)
THEOREM AppClosedStaysClosed == Spec => ClosedStaysClosed
BY AlwaysCalmInv, StepCalm, PTL DEF Spec, ClosedStaysClosed

(* The safety part of ImplementsTurn: the application starts as Turn does, *)
(* and each of its steps is one of Turn or leaves it alone.                *)
THEOREM AppStepsAreTurnSteps == Spec => T!Init /\ [][T!Next]_(T!vars)
<1>1. Init => T!Init
  BY DEF Init, T!Init, HeardSoFar, WorkedSoFar, Phase
<1> QED
  BY <1>1, AlwaysCalmInv, StepCalm, PTL DEF Spec

-----------------------------------------------------------------------------
(* A busy prompt has a worker, calm or not.                                *)

(* Esc has left the prompt open, so a worker that stands down leaves it so.*)
BusyInv ==
  /\ Sized
  /\ interrupted => ~processing
  /\ BusyHasWorker

(* The invariant of the busy prompt, for every step, calm or not.          *)
LEMMA StepBusy == BusyInv /\ [Next]_vars => BusyInv'
<1> SUFFICES ASSUME BusyInv, [Next]_vars
             PROVE  (interrupted' => ~processing') /\ BusyHasWorker'
  BY StepSized DEF BusyInv
<1>1. ASSUME NEW s, Launch(s), runs < MaxRuns
      PROVE  (interrupted' => ~processing') /\ BusyHasWorker'
  <2>0. runs \in 0 .. MaxRuns
    BY DEF BusyInv, Sized, TypeOK
  <2>1. runs + 1 \in Runs /\ interrupted' = FALSE /\ worker' = [Cancelled EXCEPT ![runs + 1] = "ready"]
    BY <1>1, <2>0 DEF Launch
  <2>2. worker'[runs + 1] = "ready"
    BY <2>1 DEF Cancelled
  <2> QED
    BY <2>1, <2>2 DEF BusyHasWorker, Driving, In
<1>2. ASSUME User PROVE (interrupted' => ~processing') /\ BusyHasWorker'
  <2>1. CASE Interrupt
    BY <2>1 DEF Interrupt, BusyHasWorker
  <2> QED
    BY <1>1, <1>2, <2>1 DEF User, SubmitRequest, SubmitSteering, AnswerSmartQuery, AnswerQuery,
                            PromptOpen
<1>3. ASSUME NEW r \in Runs, Work(r) PROVE (interrupted' => ~processing') /\ BusyHasWorker'
  <2>1. ASSUME Gone(r), NEW s, Return(s) \/ Fail \/ StandDown
        PROVE  (interrupted' => ~processing') /\ BusyHasWorker'
    BY <2>1 DEF BusyInv, Gone, Return, Raise, End, Fail, StandDown, screen, BusyHasWorker
  <2>2. ASSUME worker' = [worker EXCEPT ![r] = "running"] \/ worker' = worker,
               UNCHANGED <<interrupted, processing, awaiting>>
        PROVE  (interrupted' => ~processing') /\ BusyHasWorker'
    <3>1. \A q \in Runs : worker[q] \in {"ready", "running"} => worker'[q] \in {"ready", "running"}
      BY <2>2 DEF BusyInv, Sized, TypeOK
    <3>2. Driving # {} => Driving' # {}
      BY <3>1 DEF Driving, In
    <3> QED
      BY <2>2, <3>2 DEF BusyInv, BusyHasWorker
  <2>3. CASE Start(r) \/ UnwindDrivesOn(r)
    BY <2>2, <2>3 DEF Start, UnwindDrivesOn, app, screen
  <2>4. CASE AdviseProceed(r) \/ AdviseMove(r) \/ NodeDone(r)
    BY <2>2, <2>4 DEF AdviseProceed, AdviseMove, NodeDone, Checkpoint, app, screen
  <2>5. CASE AdviseAsk(r) \/ NodeAsks(r) \/ NodeStops(r) \/ NodeRaises(r)
    BY <2>1, <2>5 DEF AdviseAsk, NodeAsks, NodeStops, NodeRaises
  <2>6. CASE UnwindCancelled(r) \/ UnwindReturned(r) \/ UnwindRaised(r)
    BY <2>1, <2>6 DEF UnwindCancelled, UnwindReturned, UnwindRaised
  <2> QED
    BY <1>3, <2>3, <2>4, <2>5, <2>6 DEF Work
<1>4. CASE UNCHANGED vars
  BY <1>4 DEF BusyInv, BusyHasWorker, Driving, In, vars, app, pool, screen
<1> QED
  BY <1>2, <1>3, <1>4 DEF Next

(* Nobody is locked out by a worker that is gone, also when an exception   *)
(* or a late end comes out of one that was cancelled.                      *)
THEOREM AppBusyHasWorker == Spec => []BusyHasWorker
<1>1. Init => BusyInv
  BY InitSized DEF Init, BusyInv, BusyHasWorker
<1>2. BusyInv => BusyHasWorker
  BY DEF BusyInv
<1> QED
  BY <1>1, <1>2, StepBusy, PTL DEF Spec
=============================================================================
