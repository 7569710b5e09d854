----------------------------- MODULE SmartDriver -----------------------------
(***************************************************************************)
(* The Smart Driver of one turn: what the user says while a turn runs is   *)
(* put to an advisor, whose decision moves the cursor, asks the user, or   *)
(* leaves feedback for the nodes named.  The notes, how many of them the   *)
(* advisor has had, and the feedback are fields of the session, so Esc,    *)
(* checkpoints and the subgraph's own copy of the session act on them too. *)
(*                                                                         *)
(* Nodes are reduced to the results they may have; the edges are those of  *)
(* HarnessGraph.  AppSession has the workers, Harness the nodes.           *)
(***************************************************************************)
EXTENDS HarnessGraph, FiniteSets

CONSTANTS
  Targets,      \* sets of nodes a packet may be for
  MaxTtl,       \* bound of the model: ttl_steps of a packet
  MaxNotes,     \* bound of the model: messages after the request
  MaxInterrupts \* bound of the model: how often Esc is pressed

ASSUME TargetsAssumption ==
  \A T \in Targets : T # {} /\ T \subseteq OuterNodes \cup InnerNodes \cup {"*"}
ASSUME BoundsAssumption == MaxTtl \in Nat \ {0} /\ MaxNotes \in Nat /\ MaxInterrupts \in Nat

VARIABLES
  mode,       \* running, parked on a question, paused by Esc, or over
  st,         \* the root driver's `state`; between runs, the state kept
  inner,      \* TRUE while implement_loop's own driver runs
  ch,         \* that driver's `state`
  ckpt,       \* app._live_state
  interrupts, \* how often Esc was pressed
  given,      \* history: messages the user gave
  heard       \* history: advice whose feedback was there when a target ran

vars == <<mode, st, inner, ch, ckpt, interrupts, given, heard>>

Modes  == {"running", "parked", "paused", "over"}
Layers == {"implementation", "plan", "understanding", "acceptance"}

(* A NodeFeedbackPacket.  advice is its source_steering_index: how many    *)
(* notes there were.                                                       *)
Packet == [to : Targets, ttl : 1 .. MaxTtl, advice : 1 .. MaxNotes]

(* notes counts steering_notes, seen is processed_steering_count, loop the *)
(* saved cursor of the subgraph, plan whether there is one.  advised is    *)
(* history: the advice this session was given feedback by.                 *)
Session ==
  [node : OuterNodes \cup InnerNodes \cup {"user"}, loop : {None} \cup InnerNodes,
   pending : {"no", "node", "smart"}, plan : BOOLEAN,
   notes : 0 .. MaxNotes, seen : 0 .. MaxNotes,
   packets : SUBSET Packet, advised : SUBSET (1 .. MaxNotes)]

(* submit: a new turn, at the router.                                      *)
NewSession ==
  [node |-> "router", loop |-> None, pending |-> "no", plan |-> FALSE,
   notes |-> 0, seen |-> 0, packets |-> {}, advised |-> {}]

Init ==
  /\ mode = "running"
  /\ st = NewSession
  /\ inner = FALSE
  /\ ch = NewSession
  /\ ckpt = NewSession
  /\ interrupts = 0
  /\ given = 0
  /\ heard = {}

Here == IF inner THEN ch ELSE st

-----------------------------------------------------------------------------
(* SessionState.                                                           *)

WithSteering(s) == [s EXCEPT !.notes = @ + 1]

WithoutPendingQuery(s) == [s EXCEPT !.pending = "no"]

(* _without_interrupted_query: the advisor's own question stays.           *)
WithoutInterruptedQuery(s) ==
  IF s.pending = "smart" THEN s ELSE WithoutPendingQuery(s)

For(p, node) == node \in p.to \/ "*" \in p.to

(* Whatever node ran, the packets grow older.                              *)
ConsumingFeedbackForMutant(s, node) ==
  [s EXCEPT !.packets = {[p EXCEPT !.ttl = @ - 1] : p \in {q \in @ : q.ttl > 1}}]

(* A packet is gone once it has been there for ttl_steps runs of nodes it  *)
(* is for.                                                                 *)
Older(p) == [p EXCEPT !.ttl = @ - 1]

Aged(packets, node) ==
  {p \in packets : ~For(p, node)} \cup {Older(p) : p \in {q \in packets : For(q, node) /\ q.ttl > 1}}

ConsumingFeedbackFor(s, node) == [s EXCEPT !.packets = Aged(@, node)]

(* The feedback a node of this name finds in the session, and is shown if  *)
(* it has a prompt (steering.py).                                          *)
FeedbackPacketsFor(s, node) == {p \in s.packets : For(p, node)}

(* adding_feedback_packets: the advisor keeps those with a target and a    *)
(* content, and no ttl below 1; the model has at most one per advice.      *)
AddingFeedbackPackets(s, ps) ==
  [s EXCEPT !.packets = @ \cup ps,
            !.advised = @ \cup {p.advice : p \in ps}]

Processed(s) == [s EXCEPT !.seen = s.notes]

At(s, node) == [s EXCEPT !.node = node]

-----------------------------------------------------------------------------
(* The subgraph and the run around it.                                     *)

(* CompiledGraph.run: the data is shared, the cursor is the saved one.     *)
Fork(s) == At(s, IF s.loop = None THEN "task_selector" ELSE s.loop)

(* merge: the child's data, the parent's cursor.                           *)
Merged(s, c) == At(c, s.node)

MergeFinished(s, c)   == [Merged(s, c) EXCEPT !.loop = None]
MergeCheckpoint(s, c) == [Merged(s, c) EXCEPT !.loop = c.node]

(* The loop top of the driver with the session s.                          *)
Enter(s) ==
  /\ mode' = "running"
  /\ st' = s
  /\ inner' = (s.node = "implement_loop" /\ s.seen = s.notes)
  /\ ch' = IF s.node = "implement_loop" /\ s.seen = s.notes THEN Fork(s) ELSE NewSession

Leave(m, s) ==
  /\ mode' = m
  /\ st' = s
  /\ inner' = FALSE
  /\ ch' = NewSession

(* run() returned: a query that is still pending keeps the turn open.      *)
Return(s) == Leave(IF s.pending = "no" THEN "over" ELSE "parked", s)

(* on_step, and the driver goes on.                                        *)
Continue(s) == Enter(s) /\ ckpt' = s

(* The message is not recorded as the live state.                          *)
LaunchMutant(s) == Enter(s) /\ UNCHANGED ckpt

(* submit or answer_query: the live state is set and the driver run.       *)
Launch(s) == Enter(s) /\ ckpt' = s

-----------------------------------------------------------------------------
(* The advisor, at the loop top.  A child never consults it: the root did  *)
(* before the child was forked.                                            *)
Advising == mode = "running" /\ ~inner /\ st.seen < st.notes

Unadvised == UNCHANGED <<interrupts, given, heard>>

(* advise() failed, or gave a decision and at most one packet.             *)
Advice ==
  {Processed(st)}
  \cup {AddingFeedbackPackets(Processed(st), {p}) :
          p \in {q \in Packet : q.advice = st.notes}}

(* answer_and_continue, continue_default, restart_current, a failure; and  *)
(* a redirect to nowhere, which changes nothing.  Nothing is checkpointed. *)
AdviseProceed ==
  /\ Advising
  /\ \E s \in Advice : Enter(WithoutInterruptedQuery(s))
  /\ UNCHANGED ckpt
  /\ Unadvised

(* answer_only, ask_user, rollback_request.                                *)
AdviseAsk ==
  /\ Advising
  /\ \E s \in Advice :
       LET q == [s EXCEPT !.pending = "smart"]
       IN  Leave("parked", q) /\ ckpt' = q
  /\ Unadvised

(* _redirect: the cursor goes to another node of the graph.                *)
AdviseRedirect ==
  /\ Advising
  /\ \E s \in Advice, target \in OuterNodes \ {st.node} :
       Continue(At(WithoutInterruptedQuery(s), target))
  /\ Unadvised

(* _bubble_repair, also for a redirect to a node inside the loop; without  *)
(* a layer the cursor stays, but the session is checkpointed.              *)
AdviseRepair ==
  /\ Advising
  /\ \E s \in Advice, layer \in Layers \cup {None} :
       Continue(IF layer = None
             THEN WithoutInterruptedQuery(s)
             ELSE At(WithoutInterruptedQuery(s), SHALLOWEST(layer)))
  /\ Unadvised

-----------------------------------------------------------------------------
(* The nodes.                                                              *)

(* A plan is required by these, and MissingInput is not an error the       *)
(* driver recovers from.                                                   *)
NeedsPlan(node) == node \in {"implement_loop", "global_validator"}

(* The verdicts of a root node.                                            *)
Repairs(node) ==
  CASE node = "understanding_gate" -> {"understanding"}
    [] node = "spec_confirm_gate"  -> {"acceptance"}
    [] node \in {"plan_gate", "plan_reviewer", "plan_confirm_gate"} -> {"plan"}
    [] node = "global_validator"   -> {"implementation", "plan"}
    [] OTHER -> {}

Branches(node) ==
  CASE node = "router"           -> {"engineering", "lightweight"}
    [] node = "global_validator" -> {"pass"}
    [] OTHER -> {None}

Asking == {"interviewer", "spec_confirm_gate", "plan_confirm_gate"}

Results(s, node) ==
  {Produced([s EXCEPT !.plan = @ \/ node = "planner"], b) : b \in Branches(node)}
  \cup {Repair(s, layer) : layer \in Repairs(node)}
  \cup {Escalate(s)}
  \cup (IF node \in Asking THEN {Ask(s, node)} ELSE {})

Noted(s, node) == {p.advice : p \in FeedbackPacketsFor(s, node)}

(* Driver.run after a node with result r: suspend, end, park or go on.     *)
DriverStep(r) ==
  LET nxt == Route(st.node, r, "SUPERVISED")
      q   == [r.state EXCEPT !.pending = "node"]
      s   == At(r.state, nxt)
  IN  IF r.query # None THEN Leave("parked", q) /\ ckpt' = q
      ELSE CASE nxt = Stop   -> Return(r.state) /\ UNCHANGED ckpt
             [] nxt = "user" -> Return(s) /\ ckpt' = s
             [] OTHER        -> Continue(s)

(* A node of the root graph runs.                                          *)
RootNode ==
  /\ mode = "running" /\ ~inner /\ ~Advising
  /\ NeedsPlan(st.node) => st.plan
  /\ heard' = heard \cup Noted(st, st.node)
  /\ \E r \in Results(ConsumingFeedbackFor(st, st.node), st.node) : DriverStep(r)
  /\ UNCHANGED <<interrupts, given>>

InnerResults(s, node) ==
  {Produced(s, b) : b \in IF node = "task_selector" THEN {"task", "done"}
                          ELSE IF node = "verifier" THEN {"done"} ELSE {None}}
  \cup (CASE node = "implementer" -> {Repair(s, "plan"), Escalate(s)}
          [] node = "verifier"    -> {Repair(s, "plan"), Repair(s, "implementation"),
                                      Escalate(s)}
          [] OTHER                -> {})

(* A node inside the loop.  A verdict the loop cannot place is bubbled     *)
(* without the child's session: what it consumed is there again.           *)
InnerNode ==
  /\ mode = "running" /\ inner
  /\ st.plan
  /\ \E r \in InnerResults(ConsumingFeedbackFor(ch, ch.node), ch.node) :
       LET nxt   == InnerRoute(ch.node, r)
           outer == ConsumingFeedbackFor(st, "implement_loop")
           c     == At(r.state, nxt)
       IN  CASE nxt = Escape -> DriverStep([r EXCEPT !.state = outer])
             [] nxt = "user" -> DriverStep(Escalate(outer))
             [] nxt = Stop   -> DriverStep(Produced(MergeFinished(st, r.state), "done"))
             [] OTHER        -> /\ ch' = c
                                /\ ckpt' = MergeCheckpoint(st, c)
                                /\ UNCHANGED <<mode, st, inner>>
  /\ heard' = heard \cup Noted(ch, ch.node)
                   \cup IF inner' THEN {} ELSE Noted(st, "implement_loop")
  /\ UNCHANGED <<interrupts, given>>

(* A required input is missing, or the node raises: TurnFailed.            *)
NodeRaises ==
  /\ mode = "running" /\ ~Advising
  /\ Leave("over", NewSession)
  /\ UNCHANGED <<ckpt, interrupts, given, heard>>

-----------------------------------------------------------------------------
(* The user.                                                               *)

(* What Esc keeps: the parked question, or the last checkpoint.            *)
Interrupt ==
  /\ mode \in {"running", "parked"}
  /\ interrupts < MaxInterrupts
  /\ interrupts' = interrupts + 1
  /\ Leave("paused", IF mode = "parked" THEN st ELSE ckpt)
  /\ UNCHANGED <<ckpt, given, heard>>

Told == given < MaxNotes /\ given' = given + 1

(* The message after Esc: a parked question is kept for the briefing.      *)
SubmitSteering ==
  /\ mode = "paused"
  /\ Told
  /\ Launch(WithSteering(st))
  /\ UNCHANGED <<interrupts, heard>>

(* The answer to the advisor's question is the next thing it is told.      *)
AnswerSmartQuery ==
  /\ mode = "parked" /\ st.pending = "smart"
  /\ Told
  /\ Launch(WithSteering(WithoutPendingQuery(st)))
  /\ UNCHANGED <<interrupts, heard>>

(* The answer to a node's question: the node runs again.                   *)
AnswerQuery ==
  /\ mode = "parked" /\ st.pending = "node"
  /\ Launch(WithoutPendingQuery(st))
  /\ UNCHANGED <<interrupts, given, heard>>

Next ==
  \/ AdviseProceed \/ AdviseAsk \/ AdviseRedirect \/ AdviseRepair
  \/ RootNode \/ InnerNode \/ NodeRaises
  \/ Interrupt \/ SubmitSteering \/ AnswerSmartQuery \/ AnswerQuery

Spec == Init /\ [][Next]_vars

-----------------------------------------------------------------------------

(* The variables have the types of the driver's and the packets' fields.   *)
TypeOK ==
  /\ mode \in Modes
  /\ st \in Session /\ ch \in Session /\ ckpt \in Session
  /\ inner \in BOOLEAN
  /\ interrupts \in 0 .. MaxInterrupts
  /\ given \in 0 .. MaxNotes
  /\ heard \subseteq 1 .. MaxNotes

(* When a node works, in the root graph or in the loop, the advisor has    *)
(* had every message the user gave: Esc, a checkpoint taken in the middle  *)
(* of the loop, a bubbled verdict and a parked question lose none and      *)
(* leave none over.                                                        *)
NotesHeard == mode = "running" /\ ~Advising => Here.seen = given

(* Feedback waits for the node it is for: of the advice a session was      *)
(* given, what is no longer among its packets was there when a node it is  *)
(* for ran, however the cursor was moved and whoever copied the session.   *)
FeedbackNotLost ==
  mode = "running" =>
    \A a \in Here.advised : a \in heard \/ \E p \in Here.packets : p.advice = a
=============================================================================
