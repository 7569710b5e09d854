-------------------------- MODULE SmartDriverProofs --------------------------
(***************************************************************************)
(* The advisor misses no message and its feedback is not lost, proved for  *)
(* every number of messages, interrupts, targets and lives of a packet.    *)
(* The session is copied between the two drivers, the checkpoint and the   *)
(* state that is kept between runs: each copy has to remember its advice,  *)
(* and those a run may start from have to have every message.              *)
(***************************************************************************)
EXTENDS SmartDriver, TLAPS

(* Each piece of advice is still there or was heard.                       *)
Remembers(s, h) == \A a \in s.advised : a \in h \/ \E p \in s.packets : p.advice = a

Sound(s, h) == s \in Session /\ s.seen <= s.notes /\ Remembers(s, h)

SteerInv ==
  /\ TypeOK
  /\ Sound(st, heard) /\ Sound(ch, heard) /\ Sound(ckpt, heard)
  /\ mode # "over" => st.notes = given
  /\ mode = "running" => ckpt.notes = given
  /\ inner => /\ mode = "running" /\ st.node = "implement_loop"
              /\ st.seen = given /\ ch.seen = given /\ ch.notes = given

USE BoundsAssumption

-----------------------------------------------------------------------------
(* Operations on a session.                                                *)

(* The same messages, feedback and advice.                                 *)
Alike(b, a) ==
  /\ b.notes = a.notes /\ b.seen = a.seen
  /\ b.packets = a.packets /\ b.advised = a.advised

(* Only the bookkeeping of notes and packets matters.                      *)
LEMMA AlikeSound ==
  \A a, b, h : Sound(a, h) /\ b \in Session /\ Alike(b, a) => Sound(b, h)
BY DEF Sound, Remembers, Alike

(* A packet that more nodes have heard.                                    *)
LEMMA HeardMore ==
  \A a, h, g : Sound(a, h) /\ h \subseteq g => Sound(a, g)
BY DEF Sound, Remembers

(* A new session has nothing to lose.                                      *)
LEMMA NewSessionSound ==
  \A h : NewSession \in Session /\ Sound(NewSession, h) /\ NewSession.notes = 0
BY DEF NewSession, Session, Sound, Remembers, OuterNodes

(* A question that is taken off.                                           *)
LEMMA WithoutPendingType ==
  \A s \in Session :
    /\ WithoutPendingQuery(s) \in Session /\ Alike(WithoutPendingQuery(s), s)
    /\ WithoutInterruptedQuery(s) \in Session /\ Alike(WithoutInterruptedQuery(s), s)
BY DEF WithoutPendingQuery, WithoutInterruptedQuery, Session, Alike

Nodes == OuterNodes \cup InnerNodes \cup {"user"}

(* A cursor that is moved.                                                 *)
LEMMA AtType ==
  \A s \in Session, node \in Nodes :
    /\ At(s, node) \in Session /\ Alike(At(s, node), s)
    /\ At(s, node).node = node /\ At(s, node).loop = s.loop
BY DEF At, Session, Alike, Nodes

(* A question that is raised.                                              *)
LEMMA PendingType ==
  \A s \in Session, q \in {"no", "node", "smart"} :
    [s EXCEPT !.pending = q] \in Session /\ Alike([s EXCEPT !.pending = q], s)
BY DEF Session, Alike

(* A message is noted.                                                     *)
LEMMA WithSteeringSound ==
  \A s, h : Sound(s, h) /\ s.notes < MaxNotes =>
    Sound(WithSteering(s), h) /\ WithSteering(s).notes = s.notes + 1
<1> SUFFICES ASSUME NEW s, NEW h, Sound(s, h), s.notes < MaxNotes
             PROVE  Sound(WithSteering(s), h) /\ WithSteering(s).notes = s.notes + 1
  OBVIOUS
<1> DEFINE t == WithSteering(s)
<1>1. s \in Session /\ s.seen <= s.notes /\ s.notes \in Nat /\ s.seen \in Nat
  BY DEF Sound, Session
<1>2. t \in Session /\ t.notes = s.notes + 1 /\ t.seen = s.seen
      /\ t.packets = s.packets /\ t.advised = s.advised
  BY <1>1 DEF WithSteering, Session
<1> HIDE DEF t
<1> QED
  BY <1>1, <1>2 DEF Sound, Remembers, t

(* A packet that a run of the node uses up was there when it ran.          *)
LEMMA ConsumingSound ==
  \A s, h, node : Sound(s, h) =>
    LET t == ConsumingFeedbackFor(s, node)
    IN  /\ Sound(t, h \cup Noted(s, node))
        /\ t.notes = s.notes /\ t.seen = s.seen
        /\ t.node = s.node /\ t.loop = s.loop
        /\ Noted(s, node) \subseteq 1 .. MaxNotes
<1> SUFFICES ASSUME NEW s, NEW h, NEW node, Sound(s, h)
             PROVE  /\ Sound(ConsumingFeedbackFor(s, node), h \cup Noted(s, node))
                    /\ ConsumingFeedbackFor(s, node).notes = s.notes
                    /\ ConsumingFeedbackFor(s, node).seen = s.seen
                    /\ ConsumingFeedbackFor(s, node).node = s.node
                    /\ ConsumingFeedbackFor(s, node).loop = s.loop
                    /\ Noted(s, node) \subseteq 1 .. MaxNotes
  OBVIOUS
<1> DEFINE t == ConsumingFeedbackFor(s, node)
           g == h \cup Noted(s, node)
<1>1. s \in Session /\ s.seen <= s.notes /\ s.packets \subseteq Packet
      /\ \A a \in s.advised : a \in h \/ \E p \in s.packets : p.advice = a
  BY DEF Sound, Remembers, Session
<1>2. \A p \in Packet : p.ttl > 1 => Older(p) \in Packet /\ Older(p).advice = p.advice
  BY DEF Packet, Older
<1>3. Aged(s.packets, node) \subseteq Packet
  BY <1>1, <1>2 DEF Aged
<1>4. /\ t \in Session /\ t.packets = Aged(s.packets, node)
      /\ t.advised = s.advised /\ t.notes = s.notes /\ t.seen = s.seen
      /\ t.node = s.node /\ t.loop = s.loop
  BY <1>1, <1>3 DEF ConsumingFeedbackFor, Session
<1>5. ASSUME NEW p \in s.packets
      PROVE  p.advice \in g \/ \E q \in t.packets : q.advice = p.advice
  <2>1. CASE ~For(p, node)
    BY <1>4, <2>1 DEF Aged
  <2>2. CASE For(p, node)
    BY <2>2 DEF Noted, FeedbackPacketsFor
  <2> QED
    BY <2>1, <2>2
<1>6. Remembers(t, g)
  BY <1>1, <1>4, <1>5 DEF Remembers
<1>7. Noted(s, node) \subseteq 1 .. MaxNotes
  BY <1>1 DEF Noted, FeedbackPacketsFor, Packet
<1> QED
  BY <1>1, <1>4, <1>6, <1>7 DEF Sound

(* The advisor's decision: every message is seen, and what it says is      *)
(* added to the feedback.                                                  *)
LEMMA AdviceSound ==
  \A s \in Advice : TypeOK /\ Sound(st, heard) =>
    Sound(s, heard) /\ s.notes = st.notes /\ s.seen = st.notes /\ s.node = st.node
<1> SUFFICES ASSUME NEW s \in Advice, TypeOK, Sound(st, heard)
             PROVE  Sound(s, heard) /\ s.notes = st.notes /\ s.seen = st.notes
                    /\ s.node = st.node
  OBVIOUS
<1> DEFINE t == Processed(st)
<1>1. st \in Session /\ st.notes \in Nat /\ Remembers(st, heard)
  BY DEF Sound, Session
<1>2. /\ t \in Session /\ t.notes = st.notes /\ t.seen = st.notes /\ t.node = st.node
      /\ t.packets = st.packets /\ t.advised = st.advised
  BY <1>1 DEF Processed, Session
<1>3. t.seen <= t.notes /\ Remembers(t, heard)
  BY <1>1, <1>2 DEF Remembers
<1> HIDE DEF t
<1>4. CASE s = t
  BY <1>2, <1>3, <1>4 DEF Sound
<1>5. CASE \E p \in {q \in Packet : q.advice = st.notes} : s = AddingFeedbackPackets(t, {p})
  <2>1. PICK p \in Packet : p.advice = st.notes /\ s = AddingFeedbackPackets(t, {p})
    BY <1>5
  <2>2. t.packets \subseteq Packet /\ t.advised \subseteq 1 .. MaxNotes
    BY <1>2 DEF Session
  <2>3. p.advice \in 1 .. MaxNotes
    BY DEF Packet
  <2>4. {q.advice : q \in {p}} = {p.advice}
    OBVIOUS
  <2>5. /\ s.packets = t.packets \cup {p} /\ s.advised = t.advised \cup {p.advice}
        /\ s.notes = t.notes /\ s.seen = t.seen /\ s.node = t.node
    BY <1>2, <2>1, <2>4 DEF AddingFeedbackPackets, Session
  <2>6. s \in Session
    BY <1>2, <2>1, <2>2, <2>3, <2>4 DEF AddingFeedbackPackets, Session
  <2>7. Remembers(s, heard)
    BY <1>3, <2>5 DEF Remembers
  <2> QED
    BY <1>2, <1>3, <2>5, <2>6, <2>7 DEF Sound
<1> QED
  BY <1>4, <1>5 DEF Advice, t

-----------------------------------------------------------------------------
(* Where a run goes on, and where it stops.                                *)

(* The state that is not a session.                                        *)
Others ==
  /\ interrupts \in 0 .. MaxInterrupts /\ given \in 0 .. MaxNotes
  /\ heard \subseteq 1 .. MaxNotes

(* The copy for the loop has the notes of the session.                     *)
LEMMA ForkType ==
  \A s \in Session : Fork(s) \in Session /\ Alike(Fork(s), s)
<1> SUFFICES ASSUME NEW s \in Session PROVE Fork(s) \in Session /\ Alike(Fork(s), s)
  OBVIOUS
<1>1. (IF s.loop = None THEN "task_selector" ELSE s.loop) \in Nodes
  BY DEF Session, Nodes, InnerNodes
<1> QED
  BY <1>1, AtType DEF Fork

(* A node is entered, with a session and a checkpoint that are sound.      *)
LEMMA EnterKeeps ==
  \A s : /\ Enter(s) /\ Others'
         /\ Sound(s, heard') /\ s.notes = given'
         /\ Sound(ckpt', heard') /\ ckpt'.notes = given'
         => SteerInv'
<1> SUFFICES ASSUME NEW s, Enter(s), Others', Sound(s, heard'), s.notes = given',
                    Sound(ckpt', heard'), ckpt'.notes = given'
             PROVE  SteerInv'
  OBVIOUS
<1>1. s \in Session /\ ckpt' \in Session
  BY DEF Sound
<1>2. mode' = "running" /\ st' = s
      /\ inner' = (s.node = "implement_loop" /\ s.seen = s.notes)
      /\ ch' = IF s.node = "implement_loop" /\ s.seen = s.notes THEN Fork(s) ELSE NewSession
  BY DEF Enter
<1>3. CASE s.node = "implement_loop" /\ s.seen = s.notes
  <2>1. inner' = TRUE /\ ch' = Fork(s)
    BY <1>2, <1>3
  <2>2. ch' \in Session /\ Sound(ch', heard') /\ ch'.notes = s.notes /\ ch'.seen = s.seen
    BY <1>1, <2>1, ForkType, AlikeSound DEF Alike
  <2> QED
    BY <1>1, <1>2, <1>3, <2>1, <2>2 DEF SteerInv, TypeOK, Modes, Others
<1>4. CASE ~(s.node = "implement_loop" /\ s.seen = s.notes)
  <2>1. inner' = FALSE /\ ch' = NewSession
    BY <1>2, <1>4
  <2>2. ch' \in Session /\ Sound(ch', heard')
    BY <2>1, NewSessionSound
  <2> QED
    BY <1>1, <1>2, <2>1, <2>2 DEF SteerInv, TypeOK, Modes, Others
<1> QED
  BY <1>3, <1>4

(* A run ends, with a session and a checkpoint that are sound.             *)
LEMMA LeaveKeeps ==
  \A m, s : /\ Leave(m, s) /\ Others' /\ m \in {"parked", "paused", "over"}
            /\ Sound(s, heard') /\ Sound(ckpt', heard')
            /\ m # "over" => s.notes = given'
            => SteerInv'
<1> SUFFICES ASSUME NEW m, NEW s, Leave(m, s), Others', m \in {"parked", "paused", "over"},
                    Sound(s, heard'), Sound(ckpt', heard'), m # "over" => s.notes = given'
             PROVE  SteerInv'
  OBVIOUS
<1>1. s \in Session /\ ckpt' \in Session
  BY DEF Sound
<1>2. mode' = m /\ st' = s /\ inner' = FALSE /\ ch' = NewSession
  BY DEF Leave
<1>3. ch' \in Session /\ Sound(ch', heard')
  BY <1>2, NewSessionSound
<1> QED
  BY <1>1, <1>2, <1>3 DEF SteerInv, TypeOK, Modes, Others

LEMMA InitSteers == Init => SteerInv
<1> SUFFICES ASSUME Init PROVE SteerInv
  OBVIOUS
<1>1. st = NewSession /\ ch = NewSession /\ ckpt = NewSession
  BY DEF Init
<1>2. /\ Sound(st, heard) /\ Sound(ch, heard) /\ Sound(ckpt, heard)
      /\ st.notes = 0 /\ ckpt.notes = 0
      /\ st \in Session /\ ch \in Session /\ ckpt \in Session
  BY <1>1, NewSessionSound
<1>3. mode = "running" /\ inner = FALSE /\ given = 0 /\ heard = {} /\ interrupts = 0
  BY DEF Init
<1>4. TypeOK
  <2>1. given \in 0 .. MaxNotes /\ interrupts \in 0 .. MaxInterrupts
    BY <1>3
  <2>2. mode \in Modes /\ inner \in BOOLEAN /\ heard \subseteq 1 .. MaxNotes
    BY <1>3 DEF Modes
  <2> QED
    BY <1>2, <2>1, <2>2 DEF TypeOK
<1> QED
  BY <1>2, <1>3, <1>4 DEF SteerInv

-----------------------------------------------------------------------------
(* The advisor.                                                            *)

(* A repair leads to a node of the turn's graph.                           *)
LEMMA ShallowestNode ==
  \A layer \in Layers : SHALLOWEST(layer) \in OuterNodes
BY DEF Layers, SHALLOWEST, OuterNodes

LEMMA AdviserSteers ==
  SteerInv /\ (AdviseProceed \/ AdviseAsk \/ AdviseRedirect \/ AdviseRepair) => SteerInv'
<1> SUFFICES ASSUME SteerInv,
                    AdviseProceed \/ AdviseAsk \/ AdviseRedirect \/ AdviseRepair
             PROVE  SteerInv'
  OBVIOUS
<1>0. /\ TypeOK /\ Sound(st, heard) /\ Sound(ckpt, heard) /\ Others
      /\ UNCHANGED <<interrupts, given, heard>>
      /\ mode = "running" /\ st.notes = given /\ ckpt.notes = given
  BY DEF SteerInv, TypeOK, Others, AdviseProceed, AdviseAsk, AdviseRedirect, AdviseRepair,
         Unadvised, Advising
<1>1. Others'
  BY <1>0 DEF Others
<1>2. \A s \in Advice :
        LET w == WithoutInterruptedQuery(s)
        IN  /\ w \in Session /\ Sound(w, heard) /\ w.notes = given
            /\ s \in Session /\ Sound(s, heard) /\ s.notes = given
  BY <1>0, AdviceSound, WithoutPendingType, AlikeSound DEF Alike, Sound
<1>3. \A s \in Advice, node \in OuterNodes :
        LET w == At(WithoutInterruptedQuery(s), node)
        IN  Sound(w, heard) /\ w.notes = given
  BY <1>2, AtType, AlikeSound DEF Alike, Nodes
<1>4. CASE AdviseProceed
  <2>1. PICK s \in Advice : Enter(WithoutInterruptedQuery(s)) /\ ckpt' = ckpt
    BY <1>4 DEF AdviseProceed
  <2> QED
    BY <1>0, <1>1, <1>2, <2>1, EnterKeeps
<1>5. CASE AdviseAsk
  <2>1. PICK s \in Advice : /\ Leave("parked", [s EXCEPT !.pending = "smart"])
                            /\ ckpt' = [s EXCEPT !.pending = "smart"]
    BY <1>5 DEF AdviseAsk
  <2>2. Sound(ckpt', heard) /\ ckpt'.notes = given
    BY <1>2, <2>1, PendingType, AlikeSound DEF Alike
  <2> QED
    BY <1>0, <1>1, <2>1, <2>2, LeaveKeeps
<1>6. CASE AdviseRedirect
  <2>1. PICK s \in Advice, target \in OuterNodes :
          Continue(At(WithoutInterruptedQuery(s), target))
    BY <1>6 DEF AdviseRedirect
  <2>2. /\ Enter(At(WithoutInterruptedQuery(s), target))
        /\ ckpt' = At(WithoutInterruptedQuery(s), target)
    BY <2>1 DEF Continue
  <2> QED
    BY <1>0, <1>1, <1>3, <2>2, EnterKeeps
<1>7. CASE AdviseRepair
  <2>1. PICK s \in Advice, layer \in Layers \cup {None} :
          Continue(IF layer = None
                THEN WithoutInterruptedQuery(s)
                ELSE At(WithoutInterruptedQuery(s), SHALLOWEST(layer)))
    BY <1>7 DEF AdviseRepair
  <2>2. CASE layer = None
    <3>1. Enter(WithoutInterruptedQuery(s)) /\ ckpt' = WithoutInterruptedQuery(s)
      BY <2>1, <2>2 DEF Continue
    <3> QED
      BY <1>0, <1>1, <1>2, <3>1, EnterKeeps
  <2>3. CASE layer \in Layers /\ layer # None
    <3>1. /\ Enter(At(WithoutInterruptedQuery(s), SHALLOWEST(layer)))
          /\ ckpt' = At(WithoutInterruptedQuery(s), SHALLOWEST(layer))
      BY <2>1, <2>3 DEF Continue
    <3> QED
      BY <1>0, <1>1, <1>3, <2>3, <3>1, EnterKeeps, ShallowestNode
  <2> QED
    BY <2>2, <2>3
<1> QED
  BY <1>4, <1>5, <1>6, <1>7

-----------------------------------------------------------------------------
(* The nodes.                                                              *)

(* A result whose session has every message and remembers its advice.      *)
GoodResult(r) ==
  /\ Sound(r.state, heard') /\ r.state.notes = given
  /\ r.verdict = "repair" => r.layer \in Layers

(* So does an edge, if not to the user or the end.                         *)
LEMMA RouteNode ==
  \A node, r : (r.verdict = "repair" => r.layer \in Layers) =>
    Route(node, r, "SUPERVISED") \in OuterNodes \cup {"user", Stop}
<1> SUFFICES ASSUME NEW node, NEW r, r.verdict = "repair" => r.layer \in Layers
             PROVE  Route(node, r, "SUPERVISED") \in OuterNodes \cup {"user", Stop}
  OBVIOUS
<1>1. FORWARD(node, r.branch) \in OuterNodes \cup {Stop}
  BY DEF FORWARD, OuterNodes
<1>2. r.verdict = "repair" => SHALLOWEST(r.layer) \in OuterNodes
  BY ShallowestNode
<1> QED
  BY <1>1, <1>2 DEF Route

(* The driver's step after a node, whatever the result.                    *)
LEMMA DriverStepSteers ==
  \A r : /\ SteerInv /\ mode = "running" /\ DriverStep(r) /\ GoodResult(r)
         /\ Others' /\ given' = given /\ heard \subseteq heard'
         => SteerInv'
<1> SUFFICES ASSUME NEW r, SteerInv, mode = "running", DriverStep(r), GoodResult(r),
                    Others', given' = given, heard \subseteq heard'
             PROVE  SteerInv'
  OBVIOUS
<1> DEFINE nxt == Route(st.node, r, "SUPERVISED")
           q   == [r.state EXCEPT !.pending = "node"]
           s   == At(r.state, nxt)
<1>0. /\ Sound(ckpt, heard') /\ ckpt.notes = given
      /\ Sound(r.state, heard') /\ r.state \in Session /\ r.state.notes = given
  BY HeardMore DEF SteerInv, GoodResult, Sound
<1>1. nxt \in OuterNodes \cup {"user", Stop}
  <2>1. r.verdict = "repair" => r.layer \in Layers
    BY DEF GoodResult
  <2> QED
    BY <2>1, RouteNode
<1>2. Sound(q, heard') /\ q.notes = given
  <2>1. q \in Session /\ Alike(q, r.state)
    BY <1>0, PendingType
  <2> HIDE DEF q
  <2> QED
    BY <1>0, <2>1, AlikeSound DEF Alike
<1>3. nxt # Stop => Sound(s, heard') /\ s.notes = given
  BY <1>0, <1>1, AtType, AlikeSound DEF Alike, Nodes
<1> HIDE DEF nxt, q, s
<1>4. \/ Leave("parked", q) /\ ckpt' = q
      \/ nxt = Stop /\ Return(r.state) /\ UNCHANGED ckpt
      \/ nxt = "user" /\ Return(s) /\ ckpt' = s
      \/ nxt # Stop /\ Continue(s)
  BY DEF DriverStep, nxt, q, s
<1>5. CASE Leave("parked", q) /\ ckpt' = q
  BY <1>2, <1>5, LeaveKeeps
<1>6. CASE nxt = Stop /\ Return(r.state) /\ UNCHANGED ckpt
  <2>1. PICK m \in {"over", "parked"} : Leave(m, r.state)
    BY <1>6 DEF Return
  <2> QED
    BY <1>0, <1>6, <2>1, LeaveKeeps
<1>7. CASE nxt = "user" /\ Return(s) /\ ckpt' = s
  <2>1. PICK m \in {"over", "parked"} : Leave(m, s)
    BY <1>7 DEF Return
  <2>2. nxt # Stop
    BY <1>7 DEF Stop
  <2> QED
    BY <1>3, <1>7, <2>1, <2>2, LeaveKeeps
<1>8. CASE nxt # Stop /\ Continue(s)
  BY <1>3, <1>8, EnterKeeps DEF Continue
<1> QED
  BY <1>4, <1>5, <1>6, <1>7, <1>8

LEMMA RootNodeSteers == SteerInv /\ RootNode => SteerInv'
<1> SUFFICES ASSUME SteerInv, RootNode PROVE SteerInv'
  OBVIOUS
<1> DEFINE t == ConsumingFeedbackFor(st, st.node)
<1>0. /\ TypeOK /\ Sound(st, heard) /\ st.notes = given
      /\ mode = "running"
      /\ heard' = heard \cup Noted(st, st.node) /\ UNCHANGED <<interrupts, given>>
  BY DEF SteerInv, RootNode
<1>1. PICK r \in Results(t, st.node) : DriverStep(r)
  BY DEF RootNode
<1>2. /\ Sound(t, heard') /\ t.notes = given /\ t \in Session
      /\ Noted(st, st.node) \subseteq 1 .. MaxNotes
  BY <1>0, ConsumingSound DEF Sound
<1>3. Others' /\ heard \subseteq heard'
  BY <1>0, <1>2 DEF Others, TypeOK
<1> HIDE DEF t
<1>4. [t EXCEPT !.plan = @ \/ st.node = "planner"] \in Session
      /\ Alike([t EXCEPT !.plan = @ \/ st.node = "planner"], t)
  BY <1>2 DEF Session, Alike
<1>5. Repairs(st.node) \subseteq Layers
  BY DEF Repairs, Layers
<1>6. /\ r.state \in {t, [t EXCEPT !.plan = @ \/ st.node = "planner"]}
      /\ r.verdict = "repair" => r.layer \in Layers
  BY <1>1, <1>5 DEF Results, Produced, Repair, Escalate, Ask
<1>7. GoodResult(r)
  BY <1>2, <1>4, <1>6, AlikeSound DEF GoodResult, Alike
<1> QED
  BY <1>0, <1>1, <1>3, <1>7, DriverStepSteers

LEMMA InnerNodeSteers == SteerInv /\ InnerNode => SteerInv'
<1> SUFFICES ASSUME SteerInv, InnerNode PROVE SteerInv'
  OBVIOUS
<1> DEFINE t     == ConsumingFeedbackFor(ch, ch.node)
           outer == ConsumingFeedbackFor(st, "implement_loop")
<1>0. /\ TypeOK /\ Sound(st, heard) /\ Sound(ch, heard) /\ Sound(ckpt, heard)
      /\ mode = "running" /\ inner /\ st.notes = given /\ ckpt.notes = given
      /\ st.node = "implement_loop" /\ st.seen = given /\ ch.seen = given /\ ch.notes = given
      /\ UNCHANGED <<interrupts, given>>
      /\ heard' = heard \cup Noted(ch, ch.node)
                        \cup IF inner' THEN {} ELSE Noted(st, "implement_loop")
  BY DEF SteerInv, InnerNode
<1>1. PICK r \in InnerResults(t, ch.node) :
        CASE InnerRoute(ch.node, r) = Escape -> DriverStep([r EXCEPT !.state = outer])
          [] InnerRoute(ch.node, r) = "user" -> DriverStep(Escalate(outer))
          [] InnerRoute(ch.node, r) = Stop   ->
               DriverStep(Produced(MergeFinished(st, r.state), "done"))
          [] OTHER -> /\ ch' = At(r.state, InnerRoute(ch.node, r))
                      /\ ckpt' = MergeCheckpoint(st, At(r.state, InnerRoute(ch.node, r)))
                      /\ UNCHANGED <<mode, st, inner>>
  BY DEF InnerNode
<1>1a. InnerRoute(ch.node, r) = Escape => DriverStep([r EXCEPT !.state = outer])
  <2> HIDE DEF t, outer
  <2> QED
    BY <1>1 DEF Escape, Stop
<1>1b. InnerRoute(ch.node, r) = "user" => DriverStep(Escalate(outer))
  <2> HIDE DEF t, outer
  <2> QED
    BY <1>1 DEF Escape, Stop
<1>2. /\ Sound(t, heard \cup Noted(ch, ch.node)) /\ t.notes = ch.notes /\ t.seen = ch.seen
      /\ Noted(ch, ch.node) \subseteq 1 .. MaxNotes
  <2>1. Sound(ch, heard)
    BY <1>0
  <2> QED
    BY <2>1, ConsumingSound
<1>3. /\ Sound(outer, heard \cup Noted(st, "implement_loop")) /\ outer.notes = st.notes
      /\ Noted(st, "implement_loop") \subseteq 1 .. MaxNotes
  <2>1. Sound(st, heard)
    BY <1>0
  <2> QED
    BY <2>1, ConsumingSound
<1>4. Others' /\ heard \subseteq heard' /\ heard \cup Noted(ch, ch.node) \subseteq heard'
      /\ (~inner' => heard \cup Noted(st, "implement_loop") \subseteq heard')
  BY <1>0, <1>2, <1>3 DEF Others, TypeOK
<1>5. Sound(t, heard') /\ Sound(st, heard') /\ Sound(ckpt, heard')
      /\ (~inner' => Sound(outer, heard'))
  BY <1>0, <1>2, <1>3, <1>4, HeardMore
<1> HIDE DEF t, outer
<1>6. /\ r.state = t
      /\ r \in [state : {t}, query : {None}, verdict : {"none", "repair", "escalate"},
                layer : {None, "plan", "implementation"}, branch : {None, "task", "done"}]
      /\ r.verdict = "repair" => r.layer \in {"plan", "implementation"}
  BY <1>1 DEF InnerResults, Produced, Repair, Escalate
<1>7. InnerRoute(ch.node, r) \in InnerNodes \cup {Escape, "user", Stop}
      /\ (InnerRoute(ch.node, r) = Escape => r.verdict = "repair" /\ r.layer = "plan")
  BY <1>6 DEF InnerRoute, InnerForward, InnerNodes, Escape, Stop
<1> DEFINE nxt == InnerRoute(ch.node, r)
<1>8. CASE nxt = Escape
  <2> DEFINE e == [r EXCEPT !.state = outer]
  <2>1. DriverStep(e)
    BY <1>1a, <1>8
  <2>2. e.state = outer /\ e.query = None /\ e.verdict = "repair" /\ e.layer = "plan"
    BY <1>6, <1>7, <1>8
  <2> HIDE DEF e
  <2>3. Route(st.node, e, "SUPERVISED") = "planner"
    BY <2>2 DEF Route, SHALLOWEST
  <2>4. Continue(At(outer, "planner"))
    BY <2>1, <2>2, <2>3 DEF DriverStep, Stop
  <2>5. outer \in Session /\ At(outer, "planner").node = "planner"
    BY <1>3, AtType DEF Sound, Nodes, OuterNodes
  <2>6. ~inner'
    BY <2>4, <2>5 DEF Continue, Enter
  <2>7. GoodResult(e)
    BY <1>0, <1>3, <1>5, <2>2, <2>6 DEF GoodResult, Layers
  <2> QED
    BY <1>0, <1>4, <2>1, <2>7, DriverStepSteers
<1>9. CASE nxt = "user"
  <2> DEFINE e == Escalate(outer)
  <2>1. DriverStep(e)
    BY <1>1b, <1>9
  <2>2. e.state = outer /\ e.query = None /\ e.verdict = "escalate"
    BY DEF Escalate
  <2> HIDE DEF e
  <2>3. Route(st.node, e, "SUPERVISED") = "user"
    BY <2>2 DEF Route
  <2>4. Return(At(outer, "user"))
    BY <2>1, <2>2, <2>3 DEF DriverStep, Stop
  <2>5. ~inner'
    BY <2>4 DEF Return, Leave
  <2>6. GoodResult(e)
    BY <1>0, <1>3, <1>5, <2>2, <2>5 DEF GoodResult
  <2> QED
    BY <1>0, <1>4, <2>1, <2>6, DriverStepSteers
<1>10. CASE nxt = Stop
  <2> DEFINE m == MergeFinished(st, r.state)
             e == Produced(m, "done")
  <2>1. DriverStep(e)
    BY <1>1, <1>10 DEF Escape, Stop
  <2>2. e.state = m /\ e.verdict = "none"
    BY DEF Produced
  <2>3. st \in Session /\ t \in Session /\ st.node \in Nodes
    BY <1>0, <1>2 DEF Sound, Session, Nodes
  <2>4. m \in Session /\ Alike(m, t)
    BY <1>6, <2>3 DEF MergeFinished, Merged, At, Session, Alike
  <2>5. Sound(m, heard') /\ m.notes = given
    BY <1>0, <1>2, <1>5, <2>4, AlikeSound DEF Alike
  <2> HIDE DEF e, m
  <2>6. GoodResult(e)
    BY <2>2, <2>5 DEF GoodResult
  <2> QED
    BY <1>0, <1>4, <2>1, <2>6, DriverStepSteers
<1>11. CASE nxt \in InnerNodes
  <2> DEFINE c == At(t, nxt)
             m == MergeCheckpoint(st, c)
  <2>1. ch' = c /\ ckpt' = m /\ UNCHANGED <<mode, st, inner>>
    BY <1>1, <1>6, <1>11 DEF InnerNodes, Escape, Stop
  <2>2. st \in Session /\ t \in Session /\ st.node \in Nodes /\ nxt \in Nodes
    BY <1>0, <1>2, <1>11 DEF Sound, Session, Nodes
  <2>3. c \in Session /\ Alike(c, t) /\ c.node = nxt
    BY <2>2, AtType
  <2> HIDE DEF c, nxt
  <2>4. m \in Session /\ Alike(m, c)
    BY <1>11, <2>2, <2>3 DEF MergeCheckpoint, Merged, At, Session, Alike
  <2> HIDE DEF m
  <2>5. /\ Sound(c, heard') /\ c.notes = given /\ c.seen = given
        /\ Sound(m, heard') /\ m.notes = given
    BY <1>0, <1>2, <1>5, <2>3, <2>4, AlikeSound DEF Alike
  <2>6. TypeOK'
    BY <1>0, <1>4, <2>1, <2>3, <2>4 DEF TypeOK, Others
  <2> QED
    BY <1>0, <1>5, <2>1, <2>5, <2>6 DEF SteerInv
<1> QED
  BY <1>7, <1>8, <1>9, <1>10, <1>11

-----------------------------------------------------------------------------
(* The user, and a node that raises.                                       *)

LEMMA UserSteers ==
  SteerInv /\ (NodeRaises \/ Interrupt \/ SubmitSteering \/ AnswerSmartQuery \/ AnswerQuery)
    => SteerInv'
<1> SUFFICES ASSUME SteerInv,
                    NodeRaises \/ Interrupt \/ SubmitSteering \/ AnswerSmartQuery \/ AnswerQuery
             PROVE  SteerInv'
  OBVIOUS
<1>0. TypeOK /\ Sound(st, heard) /\ Sound(ckpt, heard) /\ st \in Session /\ heard' = heard
  BY DEF SteerInv, TypeOK, NodeRaises, Interrupt, SubmitSteering, AnswerSmartQuery, AnswerQuery
<1>1. CASE NodeRaises
  <2>1. Others' /\ Leave("over", NewSession) /\ ckpt' = ckpt
    BY <1>0, <1>1 DEF NodeRaises, Others, TypeOK
  <2> QED
    BY <1>0, <2>1, LeaveKeeps, NewSessionSound
<1>2. CASE Interrupt
  <2>1. /\ mode \in {"running", "parked"} /\ ckpt' = ckpt /\ given' = given
        /\ Leave("paused", IF mode = "parked" THEN st ELSE ckpt)
    BY <1>2 DEF Interrupt
  <2>2. Others'
    BY <1>0, <1>2 DEF Interrupt, Others, TypeOK
  <2>3. st.notes = given /\ (mode = "running" => ckpt.notes = given)
    BY <2>1 DEF SteerInv
  <2>4. CASE mode = "parked"
    BY <1>0, <2>1, <2>2, <2>3, <2>4, LeaveKeeps
  <2>5. CASE mode = "running"
    BY <1>0, <2>1, <2>2, <2>3, <2>5, LeaveKeeps
  <2> QED
    BY <2>1, <2>4, <2>5
<1>3. CASE SubmitSteering
  <2>1. /\ st.notes = given /\ given < MaxNotes /\ given' = given + 1
        /\ Enter(WithSteering(st)) /\ ckpt' = WithSteering(st) /\ interrupts' = interrupts
    BY <1>3 DEF SubmitSteering, Told, Launch, SteerInv
  <2>2. Others'
    BY <1>0, <2>1 DEF Others, TypeOK
  <2>3. Sound(WithSteering(st), heard) /\ WithSteering(st).notes = given'
    BY <1>0, <2>1, WithSteeringSound
  <2> QED
    BY <1>0, <2>1, <2>2, <2>3, EnterKeeps
<1>4. CASE AnswerSmartQuery
  <2> DEFINE s == WithoutPendingQuery(st)
  <2>1. /\ st.notes = given /\ given < MaxNotes /\ given' = given + 1
        /\ Enter(WithSteering(s)) /\ ckpt' = WithSteering(s) /\ interrupts' = interrupts
    BY <1>4 DEF AnswerSmartQuery, Told, Launch, SteerInv
  <2>2. Others'
    BY <1>0, <2>1 DEF Others, TypeOK
  <2>3. Sound(s, heard) /\ s.notes = given
    BY <1>0, <2>1, WithoutPendingType, AlikeSound DEF Alike
  <2> HIDE DEF s
  <2>4. Sound(WithSteering(s), heard) /\ WithSteering(s).notes = given'
    BY <2>1, <2>3, WithSteeringSound
  <2> QED
    BY <1>0, <2>1, <2>2, <2>4, EnterKeeps
<1>5. CASE AnswerQuery
  <2> DEFINE s == WithoutPendingQuery(st)
  <2>1. st.notes = given /\ given' = given /\ Enter(s) /\ ckpt' = s /\ interrupts' = interrupts
    BY <1>5 DEF AnswerQuery, Launch, SteerInv
  <2>2. Others'
    BY <1>0, <2>1 DEF Others, TypeOK
  <2>3. Sound(s, heard) /\ s.notes = given
    BY <1>0, <2>1, WithoutPendingType, AlikeSound DEF Alike
  <2> HIDE DEF s
  <2> QED
    BY <1>0, <2>1, <2>2, <2>3, EnterKeeps
<1> QED
  BY <1>1, <1>2, <1>3, <1>4, <1>5

LEMMA StutterSteers == SteerInv /\ UNCHANGED vars => SteerInv'
BY DEF vars, SteerInv, TypeOK, Sound, Remembers

LEMMA SteerInvariant == Spec => []SteerInv
<1>1. SteerInv /\ [Next]_vars => SteerInv'
  BY AdviserSteers, RootNodeSteers, InnerNodeSteers, UserSteers, StutterSteers DEF Next
<1> QED
  BY <1>1, InitSteers, PTL DEF Spec

-----------------------------------------------------------------------------
(* Every copy of the session is one, wherever the graph has sent it.       *)
THEOREM SteerTypeCorrect == Spec => []TypeOK
<1>1. SteerInv => TypeOK
  BY DEF SteerInv
<1> QED
  BY <1>1, SteerInvariant, PTL

(* A node that works has an advisor behind it that had every message the   *)
(* user gave, in the root graph and in the loop.                           *)
THEOREM NotesAlwaysHeard == Spec => []NotesHeard
<1>1. SteerInv => NotesHeard
  <2> SUFFICES ASSUME SteerInv, mode = "running", ~Advising PROVE Here.seen = given
    BY DEF NotesHeard
  <2>1. st.seen \in Nat /\ st.notes \in Nat /\ st.seen <= st.notes /\ st.notes = given
    BY DEF SteerInv, Sound, Session
  <2>2. CASE inner
    BY <2>2 DEF SteerInv, Here
  <2>3. CASE ~inner
    BY <2>1, <2>3 DEF Advising, Here
  <2> QED
    BY <2>2, <2>3
<1> QED
  BY <1>1, SteerInvariant, PTL

(* The advisor's feedback is there until a node it is for has run.         *)
THEOREM FeedbackNeverLost == Spec => []FeedbackNotLost
<1>1. SteerInv => FeedbackNotLost
  BY DEF SteerInv, Sound, Remembers, FeedbackNotLost, Here
<1> QED
  BY <1>1, SteerInvariant, PTL
=============================================================================
