--------------------------- MODULE ChatAgentProofs ---------------------------
(***************************************************************************)
(* What holds of the bash tool, and of the chat agent over it, for every   *)
(* number of calls, answers and turns.                                     *)
(*                                                                         *)
(* The bash tool comes first, step by step, for it has two callers: what   *)
(* its steps keep is used for a node that awaits it and for the agent that *)
(* polls it.  The transcript of the agent is then independent of it.       *)
(***************************************************************************)
EXTENDS ChatAgent, SequenceTheorems, FiniteSetTheorems, TLAPS

-----------------------------------------------------------------------------
(* The bash tool.                                                          *)

BashTyped ==
  /\ call \in [Shells -> Places]
  /\ why \in [Shells -> Reasons]
  /\ result \in [Shells -> Results]
  /\ stop \in [Shells -> BOOLEAN]
  /\ procs \in [Shells -> [Kinds -> States]]
  /\ pipe \in [Shells -> SUBSET Kinds]

(* What a call at c may have as its reason, and what its result means for  *)
(* the state l of its shell.                                               *)
Told(c, w, r, l) ==
  /\ c \in {"none", "waiting", "launching", "probing"} => w = "none"
  /\ c = "draining" => w \in {"timeout", "cancel"}
  /\ c = "dying" => w = "cancel"
  /\ c = "closing" => w # "none"
  /\ c = "reaping" => w \in {"eof", "timeout"}
  /\ c = "done" /\ r = "ok" => w = "none" \/ (w = "eof" /\ l = "ok")

BashInv ==
  /\ BashTyped
  /\ \A s \in Shells : Told(call[s], why[s], result[s], procs[s]["leader"])

(* The calls that have not begun.                                          *)
Fresh == {s \in Shells : call[s] = "none"}

LEMMA InitBash == BashInit => BashInv
BY DEF BashInit, BashInv, BashTyped, Told, NoProcs, Places, Reasons, Results, Kinds, States

(* A step that only changes the processes of a call that is not over.      *)
LEMMA ProcessesBash ==
  ASSUME BashInv, NEW s \in Shells, call[s] # "done",
         NEW ps \in [Kinds -> States], procs' = [procs EXCEPT ![s] = ps],
         pipe' \in [Shells -> SUBSET Kinds], UNCHANGED <<call, why, result, stop>>
  PROVE  BashInv' /\ Fresh' = Fresh
<1>1. BashTyped'
  BY DEF BashInv, BashTyped
<1>2. \A t \in Shells : t # s => procs'[t] = procs[t]
  BY DEF BashInv, BashTyped
<1>3. ASSUME NEW t \in Shells
      PROVE  Told(call'[t], why'[t], result'[t], procs'[t]["leader"])
  <2>1. Told(call[t], why[t], result[t], procs[t]["leader"])
    BY DEF BashInv
  <2>2. CASE t = s
    BY <2>1, <2>2 DEF Told
  <2>3. CASE t # s
    BY <1>2, <2>1, <2>3
  <2> QED
    BY <2>2, <2>3
<1> QED
  BY <1>1, <1>3 DEF BashInv, Fresh

(* The command cannot touch what the tool knows.                           *)
LEMMA CommandBash ==
  ASSUME BashInv, NEW s \in Shells, Command(s)
  PROVE  BashInv' /\ Fresh' = Fresh
<1>1. procs[s] \in [Kinds -> States] /\ pipe[s] \in SUBSET Kinds
  BY DEF BashInv, BashTyped
<1>2. ASSUME NEW k \in Kinds, NEW st \in States,
             procs' = [procs EXCEPT ![s][k] = st],
             pipe' \in [Shells -> SUBSET Kinds], UNCHANGED <<call, why, result, stop>>
      PROVE  BashInv' /\ Fresh' = Fresh
  <2> DEFINE ps == [procs[s] EXCEPT ![k] = st]
  <2>1. ps \in [Kinds -> States]
    BY <1>1
  <2>2. procs' = [procs EXCEPT ![s] = ps]
    BY <1>2
  <2> HIDE DEF ps
  <2> QED
    BY <1>2, <2>1, <2>2, ProcessesBash DEF Command
<1>3. CASE Fork(s)
  <2>1. PICK holds \in SUBSET {"child"} : pipe' = [pipe EXCEPT ![s] = @ \cup holds]
    BY <1>3 DEF Fork
  <2>2. pipe[s] \cup holds \in SUBSET Kinds
    BY <1>1 DEF Kinds
  <2>3. pipe' \in [Shells -> SUBSET Kinds]
    BY <2>1, <2>2 DEF BashInv, BashTyped
  <2> QED
    BY <1>2, <1>3, <2>3 DEF Fork, Kinds, States
<1>4. CASE Stray(s)
  <2>1. pipe' \in [Shells -> SUBSET Kinds]
    BY <1>4 DEF Stray, BashInv, BashTyped, Kinds
  <2> QED
    BY <1>2, <1>4, <2>1 DEF Stray, Kinds, States
<1>5. ASSUME NEW k \in Kinds, Redirect(s, k)
      PROVE  BashInv' /\ Fresh' = Fresh
  BY <1>5 DEF Redirect, BashInv, BashTyped, Fresh
<1>6. ASSUME NEW k \in Kinds, NEW code \in {"ok", "fail"}, Exit(s, k, code)
      PROVE  BashInv' /\ Fresh' = Fresh
  <2>1. pipe' \in [Shells -> SUBSET Kinds]
    BY <1>6 DEF Exit, BashInv, BashTyped, Kinds
  <2> QED
    BY <1>2, <1>6, <2>1 DEF Exit, States
<1> QED
  BY <1>3, <1>4, <1>5, <1>6 DEF Command, Kinds, Group

(* A step that moves a call that has begun.                                *)
LEMMA MovesBash ==
  ASSUME BashInv, NEW s \in Shells, call[s] # "none",
         NEW c \in Places \ {"none"}, call' = [call EXCEPT ![s] = c],
         NEW w \in Reasons, why' = [why EXCEPT ![s] = w],
         NEW r \in Results, result' = [result EXCEPT ![s] = r],
         stop' \in [Shells -> BOOLEAN], UNCHANGED <<procs, pipe>>,
         Told(c, w, r, procs[s]["leader"])
  PROVE  BashInv' /\ Fresh' = Fresh
<1>1. BashTyped'
  BY DEF BashInv, BashTyped
<1>2. \A t \in Shells : t # s => /\ call'[t] = call[t] /\ why'[t] = why[t]
                                 /\ result'[t] = result[t]
  BY DEF BashInv, BashTyped
<1>3. call'[s] = c /\ why'[s] = w /\ result'[s] = r
  BY DEF BashInv, BashTyped
<1>4. \A t \in Shells : Told(call'[t], why'[t], result'[t], procs'[t]["leader"])
  BY <1>2, <1>3 DEF BashInv
<1>5. Fresh' = Fresh
  BY <1>2, <1>3 DEF Fresh
<1> QED
  BY <1>1, <1>4, <1>5 DEF BashInv

(* A step that kills the group and drains its output.                      *)
LEMMA KillsBash ==
  ASSUME BashInv, NEW s \in Shells, call[s] = "waiting",
         NEW w \in {"timeout", "cancel"},
         call' = [call EXCEPT ![s] = "draining"], why' = [why EXCEPT ![s] = w],
         KillGroup(s), UNCHANGED <<result, stop>>
  PROVE  BashInv' /\ Fresh' = Fresh
<1> DEFINE ps == [k \in Kinds |-> IF k \in Alive(s, Group) THEN "killed" ELSE procs[s][k]]
<1>1. ps \in [Kinds -> States]
  BY DEF BashInv, BashTyped, States
<1>2. procs' = [procs EXCEPT ![s] = ps]
  BY DEF KillGroup, Killed
<1>3. pipe' \in [Shells -> SUBSET Kinds]
  BY DEF KillGroup, BashInv, BashTyped
<1> HIDE DEF ps
<1>4. BashTyped'
  BY <1>1, <1>2, <1>3 DEF BashInv, BashTyped, Places, Reasons
<1>5. \A t \in Shells : t # s => /\ call'[t] = call[t] /\ why'[t] = why[t]
                                 /\ procs'[t] = procs[t]
  BY <1>2 DEF BashInv, BashTyped
<1>6. call'[s] = "draining" /\ why'[s] = w
  BY DEF BashInv, BashTyped
<1>7. \A t \in Shells : Told(call'[t], why'[t], result'[t], procs'[t]["leader"])
  BY <1>5, <1>6 DEF BashInv, Told
<1>8. Fresh' = Fresh
  BY <1>5, <1>6 DEF Fresh
<1> QED
  BY <1>4, <1>7, <1>8 DEF BashInv

(* Each step of the tool leaves its call with a reason that fits.          *)
LEMMA ToolBash ==
  ASSUME BashInv, NEW s \in Shells, Tool(s)
  PROVE  BashInv' /\ Fresh' = Fresh
<1>1. /\ call[s] \in Places /\ why[s] \in Reasons /\ result[s] \in Results
      /\ stop \in [Shells -> BOOLEAN]
      /\ Told(call[s], why[s], result[s], procs[s]["leader"])
      /\ call = [call EXCEPT ![s] = call[s]]
      /\ why = [why EXCEPT ![s] = why[s]]
      /\ result = [result EXCEPT ![s] = result[s]]
  BY DEF BashInv, BashTyped
<1>2. CASE EndOfOutput(s)
  <2>1. Told("closing", "eof", result[s], procs[s]["leader"])
    BY DEF Told
  <2> QED
    BY <1>1, <1>2, <2>1, MovesBash DEF EndOfOutput, Places, Reasons
<1>3. CASE TimeOut(s) \/ Cancelled(s)
  BY <1>3, KillsBash DEF TimeOut, Cancelled
<1>4. CASE Drained(s)
  <2> DEFINE c == IF why[s] = "cancel" THEN "dying" ELSE "closing"
  <2>1. Told(c, why[s], result[s], procs[s]["leader"]) /\ c \in Places \ {"none"}
    BY <1>1, <1>4 DEF Told, Drained, Places
  <2>2. call' = [call EXCEPT ![s] = c]
    BY <1>4 DEF Drained
  <2> HIDE DEF c
  <2> QED
    BY <1>1, <1>4, <2>1, <2>2, MovesBash DEF Drained
<1>5. CASE Died(s)
  <2>1. Told("closing", why[s], result[s], procs[s]["leader"])
    BY <1>1, <1>5 DEF Told, Died
  <2> QED
    BY <1>1, <1>5, <2>1, MovesBash DEF Died, Places
<1>6. CASE Closed(s)
  <2>1. CASE why[s] \in {"cancel", "torn"}
    <3>1. Told("done", why[s], "raised", procs[s]["leader"])
      BY DEF Told
    <3> QED
      BY <1>1, <1>6, <2>1, <3>1, MovesBash DEF Closed, Places, Results
  <2>2. CASE why[s] \notin {"cancel", "torn"}
    <3>1. Told("reaping", why[s], result[s], procs[s]["leader"])
      BY <1>1, <1>6, <2>2 DEF Told, Closed, Reasons
    <3> QED
      BY <1>1, <1>6, <2>2, <3>1, MovesBash DEF Closed, Places
  <2> QED
    BY <2>1, <2>2
<1>7. CASE Reaped(s)
  <2>1. ExitCode(s) \in Results
    BY DEF ExitCode, Results
  <2>2. Told("done", why[s], ExitCode(s), procs[s]["leader"])
    BY <1>1, <1>7 DEF Told, Reaped, ExitCode
  <2> QED
    BY <1>1, <1>7, <2>1, <2>2, MovesBash DEF Reaped, Places
<1>8. CASE Launched(s)
  <2>1. Told("probing", why[s], result[s], procs[s]["leader"])
    BY <1>1, <1>8 DEF Told, Launched
  <2> QED
    BY <1>1, <1>8, <2>1, MovesBash DEF Launched, Places
<1>9. CASE Probed(s)
  <2>1. Told("done", why[s], "ok", procs[s]["leader"])
    BY <1>1, <1>9 DEF Told, Probed
  <2> QED
    BY <1>1, <1>9, <2>1, MovesBash DEF Probed, Places, Results
<1> QED
  BY <1>2, <1>3, <1>4, <1>5, <1>6, <1>7, <1>8, <1>9 DEF Tool

(* A CancelledError thrown into a call.                                    *)
LEMMA TornBash ==
  ASSUME BashInv, NEW s \in Shells, Torn(s), stop' \in [Shells -> BOOLEAN]
  PROVE  BashInv' /\ Fresh' = Fresh
<1>1. /\ call[s] \in Places /\ why[s] \in Reasons /\ result[s] \in Results
      /\ Told(call[s], why[s], result[s], procs[s]["leader"])
      /\ result = [result EXCEPT ![s] = result[s]]
      /\ UNCHANGED <<procs, pipe>>
  BY DEF BashInv, BashTyped, Torn
<1>2. CASE call[s] \in {"waiting", "draining", "dying"}
  <2>1. Told("closing", "torn", result[s], procs[s]["leader"])
    BY DEF Told
  <2> QED
    BY <1>1, <1>2, <2>1, MovesBash DEF Torn, Places, Reasons
<1>3. CASE call[s] \in {"reaping", "launching", "probing"}
  <2>1. Told("done", "torn", "raised", procs[s]["leader"])
    BY DEF Told
  <2> QED
    BY <1>1, <1>3, <2>1, MovesBash DEF Torn, Places, Reasons, Results
<1>4. CASE call[s] \notin {"waiting", "draining", "dying", "reaping", "launching", "probing"}
  <2>1. UNCHANGED <<call, why, result, procs, pipe>>
    BY <1>4 DEF Torn
  <2> QED
    BY <2>1 DEF BashInv, BashTyped, Fresh
<1> QED
  BY <1>2, <1>3, <1>4

(* A call that begins.                                                     *)
LEMMA SpawnBash ==
  ASSUME BashInv, NEW s \in Fresh, Spawn(s) \/ SpawnBackground(s)
  PROVE  BashInv' /\ Fresh' = Fresh \ {s}
<1> DEFINE c  == call'[s]
           ps == procs'[s]
<1>1. /\ s \in Shells /\ why[s] = "none" /\ procs[s] \in [Kinds -> States]
      /\ UNCHANGED <<why, result, stop>>
  BY DEF Fresh, BashInv, Told, BashTyped, Spawn, SpawnBackground
<1>2. pipe' \in [Shells -> SUBSET Kinds]
  BY DEF BashInv, BashTyped, Spawn, SpawnBackground, Kinds
<1>3. procs' \in [Shells -> [Kinds -> States]]
  <2>1. CASE Spawn(s)
    <3> DEFINE started == [procs[s] EXCEPT !["leader"] = "running"]
    <3>1. started \in [Kinds -> States]
      BY <1>1 DEF States
    <3>2. procs' = [procs EXCEPT ![s] = started]
      BY <2>1 DEF Spawn
    <3> HIDE DEF started
    <3> QED
      BY <3>1, <3>2 DEF BashInv, BashTyped
  <2>2. CASE SpawnBackground(s)
    <3> DEFINE started == [procs[s] EXCEPT !["leader"] = "running", !["child"] = "running"]
    <3>1. started \in [Kinds -> States]
      BY <1>1 DEF States
    <3>2. procs' = [procs EXCEPT ![s] = started]
      BY <1>1, <2>2 DEF SpawnBackground, BashInv, BashTyped
    <3> HIDE DEF started
    <3> QED
      BY <3>1, <3>2 DEF BashInv, BashTyped
  <2> QED
    BY <2>1, <2>2
<1>4. /\ call' \in [Shells -> Places] /\ call'[s] \in {"waiting", "launching"}
      /\ \A t \in Shells : t # s => call'[t] = call[t] /\ procs'[t] = procs[t]
  BY <1>1 DEF BashInv, BashTyped, Spawn, SpawnBackground, Places
<1>5. BashTyped'
  BY <1>1, <1>2, <1>3, <1>4 DEF BashInv, BashTyped
<1>6. \A t \in Shells : Told(call'[t], why'[t], result'[t], procs'[t]["leader"])
  BY <1>1, <1>4 DEF BashInv, Told
<1>7. Fresh' = Fresh \ {s}
  BY <1>1, <1>4 DEF Fresh
<1> QED
  BY <1>5, <1>6, <1>7 DEF BashInv

(* An exit code is reported only by a call that read to the end.           *)
LEMMA BashTruthful == BashInv => ExitIsTruthful
BY DEF BashInv, Told, ExitIsTruthful

(* For a node that awaits the command itself, and so for the gates of the  *)
(* implementer: an exit code of zero is the shell's own, whatever the      *)
(* command's processes, the timeout and Esc do to each other.              *)
THEOREM NodeExitAlwaysTruthful == NodeSpec => []ExitIsTruthful
<1>1. BashInv /\ [NodeNext]_bash => BashInv'
  <2> SUFFICES ASSUME BashInv, [NodeNext]_bash
               PROVE  BashInv'
    OBVIOUS
  <2>1. ASSUME NEW s \in Shells, NodeCalls(s)
        PROVE  BashInv'
    BY <2>1, SpawnBash DEF NodeCalls, Fresh
  <2>2. ASSUME NEW s \in Shells, NodeEsc(s)
        PROVE  BashInv'
    <3>1. stop' \in [Shells -> BOOLEAN]
      BY <2>2 DEF NodeEsc, BashInv, BashTyped
    <3> QED
      BY <2>2, <3>1, TornBash DEF NodeEsc
  <2>3. ASSUME NEW s \in Shells, Command(s) \/ Tool(s)
        PROVE  BashInv'
    BY <2>3, CommandBash, ToolBash
  <2>4. CASE UNCHANGED bash
    BY <2>4 DEF bash, BashInv, BashTyped
  <2> QED
    BY <2>1, <2>2, <2>3, <2>4 DEF NodeNext
<1> QED
  BY <1>1, InitBash, BashTruthful, PTL DEF NodeSpec

-----------------------------------------------------------------------------
(* The agent: types.                                                       *)

Message ==
  [role : {"user", "assistant", "tool"}, calls : 0 .. MaxCalls, turn : 1 .. MaxTurns]

(* Calls among these that need a shell.                                    *)
Needing(calls) == {i \in DOMAIN calls : calls[i] \in {"bash", "background"}}

(* Inside a round a call is due, every call polled is one of the tool's,   *)
(* and there are shells enough for the calls that are left.                *)
TalkInv ==
  /\ turn \in 0 .. MaxTurns
  /\ at \in AgentPlaces
  /\ cancel \in BOOLEAN
  /\ round \in 0 .. MaxIterations
  /\ todo \in Seq(Calls) /\ Len(todo) <= MaxCalls
  /\ open \in Shells \cup {NoShell}
  /\ history \in Seq(Message)
  /\ cut \subseteq 1 .. turn
  /\ at # "idle" => turn >= 1
  /\ todo # <<>> <=> at \in {"call", "tool", "bash", "join"}
  /\ at \in {"bash", "join"} => open \in Shells
  /\ at = "call" => Cardinality(Needing(todo)) <= Cardinality(Fresh)
  /\ at \in {"tool", "bash"} => Cardinality(Needing(Tail(todo))) <= Cardinality(Fresh)

ChatInv == BashInv /\ TalkInv

(* The shells that are left can be counted.                                *)
LEMMA FreshFinite ==
  /\ IsFiniteSet(Fresh) /\ Cardinality(Fresh) \in Nat
  /\ \A s \in Fresh : Cardinality(Fresh \ {s}) = Cardinality(Fresh) - 1
<1>1. IsFiniteSet(Fresh)
  BY FS_Subset, ShellsAssumption DEF Fresh
<1> QED
  BY <1>1, FS_CardinalityType, FS_RemoveElement

(* So can the calls that need one.                                         *)
LEMMA NeedingFinite ==
  ASSUME NEW calls \in Seq(Calls)
  PROVE  IsFiniteSet(Needing(calls)) /\ Cardinality(Needing(calls)) \in Nat
<1>1. DOMAIN calls = 1 .. Len(calls) /\ Len(calls) \in Nat
  BY LenProperties
<1>2. IsFiniteSet(1 .. Len(calls))
  BY <1>1, FS_Interval
<1>3. Needing(calls) \in SUBSET (1 .. Len(calls))
  BY <1>1 DEF Needing
<1> QED
  BY <1>2, <1>3, FS_Subset, FS_CardinalityType

(* A call that has been made needs no shell any more.                      *)
LEMMA NeedingTail ==
  ASSUME NEW calls \in Seq(Calls), calls # <<>>
  PROVE  /\ Cardinality(Needing(Tail(calls))) \in Nat
         /\ Cardinality(Needing(calls)) \in Nat
         /\ Cardinality(Needing(Tail(calls))) <= Cardinality(Needing(calls))
         /\ Head(calls) \in {"bash", "background"} =>
              Cardinality(Needing(Tail(calls))) + 1 <= Cardinality(Needing(calls))
<1> DEFINE all   == Needing(calls)
           rest  == Needing(Tail(calls))
           later == [i \in rest |-> i + 1]
<1>1. /\ Tail(calls) \in Seq(Calls) /\ Len(Tail(calls)) = Len(calls) - 1
      /\ \A i \in 1 .. Len(Tail(calls)) : Tail(calls)[i] = calls[i + 1]
      /\ Len(calls) \in Nat /\ Len(calls) >= 1 /\ Head(calls) = calls[1]
  BY HeadTailProperties, EmptySeq
<1>2. /\ IsFiniteSet(all) /\ Cardinality(all) \in Nat
      /\ IsFiniteSet(rest) /\ Cardinality(rest) \in Nat
  BY <1>1, NeedingFinite
<1>3. DOMAIN calls = 1 .. Len(calls) /\ DOMAIN Tail(calls) = 1 .. Len(calls) - 1
  BY <1>1, LenProperties
<1>4. later \in Injection(rest, all \ {1})
  <2>1. \A i \in rest : i + 1 \in all \ {1}
    BY <1>1, <1>3 DEF Needing
  <2>2. \A i, j \in rest : i + 1 = j + 1 => i = j
    BY <1>3 DEF Needing
  <2>3. later \in [rest -> all \ {1}]
    BY <2>1
  <2>4. \A i, j \in rest : later[i] = later[j] => i = j
    BY <2>2
  <2> HIDE DEF later, rest, all
  <2> QED
    BY <2>3, <2>4 DEF Injection, IsInjective
<1>5. /\ IsFiniteSet(all \ {1})
      /\ Cardinality(all \ {1}) = IF 1 \in all THEN Cardinality(all) - 1 ELSE Cardinality(all)
  BY <1>2, FS_RemoveElement
<1>6. Cardinality(rest) <= Cardinality(all \ {1})
  <2> HIDE DEF later, rest, all
  <2> QED
    BY <1>4, <1>5, FS_Injection
<1>7. Head(calls) \in {"bash", "background"} => 1 \in all
  BY <1>1, <1>3 DEF Needing
<1> HIDE DEF later, rest, all
<1>8. /\ Cardinality(rest) \in Nat /\ Cardinality(all) \in Nat
      /\ Cardinality(rest) <= Cardinality(all)
      /\ Head(calls) \in {"bash", "background"} => Cardinality(rest) + 1 <= Cardinality(all)
  BY <1>2, <1>5, <1>6, <1>7
<1> QED
  BY <1>8 DEF rest, all

(* A message at the end of the history.                                    *)
LEMMA AppendHistory ==
  ASSUME NEW h \in Seq(Message), NEW m \in Message
  PROVE  /\ Append(h, m) \in Seq(Message)
         /\ Len(h) \in Nat /\ Len(Append(h, m)) = Len(h) + 1
         /\ DOMAIN h = 1 .. Len(h) /\ DOMAIN Append(h, m) = 1 .. Len(h) + 1
         /\ Append(h, m)[Len(h) + 1] = m
         /\ \A i \in 1 .. Len(h) : Append(h, m)[i] = h[i]
OBVIOUS

(* The three kinds of messages.                                            *)
LEMMA MessageTypes ==
  ASSUME NEW t \in 1 .. MaxTurns
  PROVE  /\ User(t) \in Message /\ ToolResult(t) \in Message
         /\ \A n \in 0 .. MaxCalls : Assistant(t, n) \in Message
BY LimitsAssumption DEF User, ToolResult, Assistant, Message

(* The sequences that BoundedSeq lists.                                    *)
LEMMA AnswerTypes ==
  ASSUME NEW calls
  PROVE  calls \in BoundedSeq(Calls, MaxCalls) <=>
           calls \in Seq(Calls) /\ Len(calls) \in 0 .. MaxCalls
<1>1. MaxCalls \in Nat
  BY LimitsAssumption
<1>2. calls \in BoundedSeq(Calls, MaxCalls) <=>
        \E m \in 0 .. MaxCalls : calls \in [1 .. m -> Calls]
  BY DEF BoundedSeq, SeqOf
<1>3. ASSUME NEW m \in 0 .. MaxCalls, calls \in [1 .. m -> Calls]
      PROVE  calls \in Seq(Calls) /\ Len(calls) = m
  <2>1. m \in Nat
    BY <1>1
  <2> QED
    BY <1>3, <2>1, SeqDef, LenProperties
<1>4. ASSUME calls \in Seq(Calls), Len(calls) \in 0 .. MaxCalls
      PROVE  calls \in [1 .. Len(calls) -> Calls]
  BY <1>4, LenProperties
<1> QED
  BY <1>2, <1>3, <1>4

(* The end of a turn.                                                      *)
LEMMA TurnOverTalk ==
  ASSUME TalkInv, at # "idle", TurnOver
  PROVE  TalkInv'
<1>1. <<>> \in Seq(Calls) /\ Len(<<>>) = 0
  BY EmptySeq
<1>2. cut' \subseteq 1 .. turn
  BY DEF TalkInv, TurnOver
<1>3. /\ at' = "idle" /\ todo' = <<>> /\ open' = NoShell /\ cancel' = FALSE /\ round' = 0
      /\ turn' = turn /\ history' = history
  BY DEF TurnOver
<1>4. /\ turn' \in 0 .. MaxTurns /\ history' \in Seq(Message)
      /\ round' \in 0 .. MaxIterations /\ 0 <= MaxCalls
  BY <1>3, LimitsAssumption DEF TalkInv
<1>5. todo' \in Seq(Calls) /\ Len(todo') <= MaxCalls /\ ~ todo' # <<>>
  BY <1>1, <1>3, <1>4
<1> QED
  BY <1>2, <1>3, <1>4, <1>5 DEF TalkInv, AgentPlaces

(* A call that has its result.                                             *)
LEMMA ResultTalk ==
  ASSUME TalkInv, at \in {"call", "tool", "bash"}, Result, UNCHANGED Fresh
  PROVE  TalkInv'
<1>1. todo \in Seq(Calls) /\ todo # <<>> /\ turn \in 1 .. MaxTurns
  BY DEF TalkInv
<1>2. /\ Tail(todo) \in Seq(Calls) /\ Len(Tail(todo)) = Len(todo) - 1
      /\ Len(todo) \in Nat /\ Len(todo) >= 1
  BY <1>1, HeadTailProperties, EmptySeq
<1>3. Tail(todo) # <<>> <=> Len(todo) # 1
  BY <1>2, EmptySeq
<1>4. Cardinality(Needing(Tail(todo))) <= Cardinality(Fresh)
  BY <1>1, NeedingTail, FreshFinite DEF TalkInv
<1>5. history' \in Seq(Message)
  BY <1>1, AppendHistory, MessageTypes DEF TalkInv, Result
<1>6. Cardinality(Needing(todo')) <= Cardinality(Fresh')
  BY <1>4 DEF Result
<1>7. todo' # <<>> <=> at' = "call"
  BY <1>3 DEF Result
<1>8. at' \in {"call", "ask"}
  BY DEF Result
<1>9. todo' \in Seq(Calls) /\ Len(todo') <= MaxCalls
  BY <1>2, LimitsAssumption DEF TalkInv, Result
<1>10. /\ UNCHANGED <<turn, cancel, round, cut>> /\ open' = NoShell
  BY DEF Result
<1> QED
  BY <1>5, <1>6, <1>7, <1>8, <1>9, <1>10 DEF TalkInv, AgentPlaces

(* A step of the bash calls, seen from the agent.                          *)
LEMMA ApartTalk ==
  ASSUME TalkInv, UNCHANGED Fresh, cancel' \in BOOLEAN,
         UNCHANGED <<turn, at, round, todo, open, history, cut>>
  PROVE  TalkInv'
BY DEF TalkInv

LEMMA InitChat == Init => ChatInv
<1> SUFFICES ASSUME Init
             PROVE  TalkInv
  BY InitBash DEF Init, ChatInv
<1>1. <<>> \in Seq(Calls) /\ <<>> \in Seq(Message) /\ Len(<<>>) = 0
  BY EmptySeq
<1>2. /\ turn \in 0 .. MaxTurns /\ round \in 0 .. MaxIterations /\ cut \subseteq 1 .. turn
      /\ at = "idle" /\ cancel = FALSE /\ open = NoShell
  BY LimitsAssumption DEF Init
<1>3. /\ todo \in Seq(Calls) /\ Len(todo) <= MaxCalls /\ ~ todo # <<>>
      /\ history \in Seq(Message)
  BY <1>1, LimitsAssumption DEF Init
<1> QED
  BY <1>2, <1>3 DEF TalkInv, AgentPlaces

(* The types, and shells enough, for every step.                           *)
LEMMA StepChat == ChatInv /\ [Next]_vars => ChatInv'
<1> SUFFICES ASSUME ChatInv, [Next]_vars
             PROVE  ChatInv'
  OBVIOUS
<1> USE DEF ChatInv
<1>1. ASSUME UNCHANGED bash
      PROVE  BashInv' /\ UNCHANGED Fresh
  BY <1>1 DEF bash, BashInv, BashTyped, Fresh
<1>2. CASE Prompt
  <2>1. turn' \in 1 .. MaxTurns /\ turn' = turn + 1
    BY <1>2, LimitsAssumption DEF Prompt, TalkInv
  <2>2. history' \in Seq(Message)
    BY <1>2, <2>1, AppendHistory, MessageTypes DEF Prompt, TalkInv
  <2>3. cut' \subseteq 1 .. turn'
    BY <1>2, <2>1 DEF Prompt, TalkInv
  <2>4. TalkInv'
    BY <1>2, <2>1, <2>2, <2>3 DEF Prompt, TalkInv, AgentPlaces
  <2> QED
    BY <1>1, <1>2, <2>4 DEF Prompt
<1>3. CASE Ask
  <2>1. CASE cancel \/ round = MaxIterations
    BY <1>1, <1>3, <2>1, TurnOverTalk DEF Ask
  <2>2. CASE ~ (cancel \/ round = MaxIterations)
    <3>1. round' \in 0 .. MaxIterations
      BY <1>3, <2>2, LimitsAssumption DEF Ask, TalkInv
    <3>2. TalkInv'
      BY <1>3, <2>2, <3>1 DEF Ask, TalkInv, AgentPlaces
    <3> QED
      BY <1>1, <1>3, <3>2 DEF Ask
  <2> QED
    BY <2>1, <2>2
<1>4. CASE StreamFails
  BY <1>1, <1>4, TurnOverTalk DEF StreamFails
<1>5. ASSUME NEW calls \in BoundedSeq(Calls, MaxCalls), Answer(calls)
      PROVE  ChatInv'
  <2>1. calls \in Seq(Calls) /\ Len(calls) \in 0 .. MaxCalls
    BY AnswerTypes
  <2>2. turn \in 1 .. MaxTurns
    BY <1>5 DEF Answer, TalkInv
  <2>3. Append(history, Assistant(turn, Len(calls))) \in Seq(Message)
    BY <2>1, <2>2, AppendHistory, MessageTypes DEF TalkInv
  <2>4. UNCHANGED bash /\ UNCHANGED Fresh /\ BashInv'
    BY <1>1, <1>5 DEF Answer
  <2>5. CASE calls = <<>>
    <3>1. /\ at' = "idle" /\ cancel' = FALSE /\ round' = 0
          /\ history' = Append(history, Assistant(turn, Len(calls)))
          /\ UNCHANGED <<turn, todo, open, cut>>
      BY <1>5, <2>5 DEF Answer
    <3>2. round' \in 0 .. MaxIterations /\ ~ todo # <<>>
      BY <1>5, <3>1, LimitsAssumption DEF Answer, TalkInv
    <3>3. TalkInv'
      BY <2>3, <3>1, <3>2 DEF TalkInv, AgentPlaces
    <3> QED
      BY <2>4, <3>3
  <2>6. CASE calls # <<>>
    <3>1. Cardinality(Needing(todo')) <= Cardinality(Fresh')
      BY <1>5, <2>4, <2>6 DEF Answer, Needing, Fresh
    <3>2. /\ at' = "call" /\ todo' = calls
          /\ history' = Append(history, Assistant(turn, Len(calls)))
          /\ UNCHANGED <<turn, cancel, round, open, cut>>
      BY <1>5, <2>6 DEF Answer
    <3>3. todo' \in Seq(Calls) /\ Len(todo') <= MaxCalls /\ todo' # <<>>
      BY <2>1, <2>6, <3>2
    <3>4. TalkInv'
      BY <2>2, <2>3, <3>1, <3>2, <3>3 DEF TalkInv, AgentPlaces
    <3> QED
      BY <2>4, <3>4
  <2> QED
    BY <2>5, <2>6
<1>6. CASE CallFails
  BY <1>1, <1>6, ResultTalk DEF CallFails
<1>7. CASE CallTool
  <2>1. CASE cancel
    BY <1>1, <1>7, <2>1, TurnOverTalk DEF CallTool
  <2>2. CASE ~ cancel
    <3>1. Cardinality(Needing(Tail(todo))) <= Cardinality(Fresh)
      BY <1>7, NeedingTail, FreshFinite DEF CallTool, TalkInv
    <3>2. TalkInv'
      BY <1>1, <1>7, <2>2, <3>1 DEF CallTool, TalkInv, AgentPlaces
    <3> QED
      BY <1>1, <1>7, <3>2 DEF CallTool
  <2> QED
    BY <2>1, <2>2
<1>8. CASE CallBash
  <2>1. CASE cancel
    BY <1>1, <1>8, <2>1, TurnOverTalk DEF CallBash
  <2>2. CASE ~ cancel
    <3> DEFINE s == CHOOSE t \in Shells : call[t] = "none"
    <3>1. /\ todo \in Seq(Calls) /\ todo # <<>> /\ at = "call"
          /\ Cardinality(Needing(todo)) <= Cardinality(Fresh)
          /\ Head(todo) \in {"bash", "background"}
      BY <1>8 DEF CallBash, TalkInv
    <3>2. /\ Cardinality(Needing(Tail(todo))) + 1 <= Cardinality(Fresh)
          /\ Cardinality(Needing(Tail(todo))) \in Nat
      BY <3>1, NeedingTail, FreshFinite
    <3>3. s \in Fresh
      <4>1. Fresh # {}
        BY <3>2, FS_EmptySet
      <4> QED
        BY <4>1 DEF Fresh
    <3>4. (Spawn(s) \/ SpawnBackground(s)) /\ open' = s /\ at' = "bash"
      BY <1>8, <2>2 DEF CallBash
    <3> HIDE DEF s
    <3>5. BashInv' /\ Fresh' = Fresh \ {s}
      BY <3>3, <3>4, SpawnBash
    <3>6. Cardinality(Needing(Tail(todo))) <= Cardinality(Fresh')
      BY <3>2, <3>3, <3>5, FreshFinite
    <3>7. s \in Shells
      BY <3>3 DEF Fresh
    <3>8. TalkInv'
      BY <1>8, <2>2, <3>1, <3>4, <3>6, <3>7 DEF CallBash, TalkInv, AgentPlaces
    <3> QED
      BY <3>5, <3>8
  <2> QED
    BY <2>1, <2>2
<1>9. CASE ToolReturns
  BY <1>1, <1>9, ResultTalk DEF ToolReturns
<1>10. CASE BashReturns
  BY <1>1, <1>10, ResultTalk, TurnOverTalk DEF BashReturns
<1>11. CASE PollCancel
  <2>1. CASE at = "bash"
    <3>1. open \in Shells /\ stop' \in [Shells -> BOOLEAN]
      BY <1>11, <2>1 DEF PollCancel, TalkInv, BashInv, BashTyped
    <3>2. BashInv' /\ Fresh' = Fresh
      BY <1>11, <2>1, <3>1, TornBash DEF PollCancel
    <3>3. TalkInv'
      BY <1>11, <2>1, <3>1 DEF PollCancel, TalkInv, AgentPlaces
    <3> QED
      BY <3>2, <3>3
  <2>2. CASE at # "bash"
    BY <1>1, <1>11, <2>2, TurnOverTalk DEF PollCancel
  <2> QED
    BY <2>1, <2>2
<1>12. CASE Join
  BY <1>1, <1>12, TurnOverTalk DEF Join
<1>13. ASSUME StopCalls, UNCHANGED <<call, why, result, procs, pipe>>
       PROVE  BashInv' /\ Fresh' = Fresh
  <2>1. stop' \in [Shells -> BOOLEAN]
    BY <1>13 DEF StopCalls, BashInv, BashTyped
  <2> QED
    BY <1>13, <2>1 DEF BashInv, BashTyped, Fresh
<1>14. CASE CancelEvent
  BY <1>13, <1>14, ApartTalk DEF CancelEvent
<1>15. CASE Esc
  BY <1>13, <1>15, TurnOverTalk DEF Esc, Awaiting
<1>16. ASSUME NEW s \in Shells, Outside(Command(s)) \/ Outside(Tool(s))
       PROVE  ChatInv'
  <2>1. UNCHANGED talk /\ (Command(s) \/ Tool(s))
    BY <1>16 DEF Outside
  <2>2. BashInv' /\ Fresh' = Fresh
    BY <2>1, CommandBash, ToolBash
  <2> QED
    BY <2>1, <2>2, ApartTalk DEF talk, TalkInv
<1>17. CASE UNCHANGED vars
  BY <1>1, <1>17, ApartTalk DEF vars, talk, TalkInv
<1> QED
  BY <1>2, <1>3, <1>4, <1>5, <1>6, <1>7, <1>8, <1>9, <1>10, <1>11, <1>12, <1>14, <1>15,
     <1>16, <1>17 DEF Next, Agent

(* The types, for every number of calls, answers and turns.                *)
THEOREM ChatTypeCorrect == Spec => []TypeOK
<1>1. ChatInv => TypeOK
  <2> SUFFICES ASSUME ChatInv
               PROVE  TypeOK
    OBVIOUS
  <2>1. todo \in BoundedSeq(Calls, MaxCalls)
    BY AnswerTypes, LenProperties, LimitsAssumption DEF ChatInv, TalkInv
  <2>2. \A i \in DOMAIN history : history[i] \in Message
    BY ElementOfSeq, LenProperties DEF ChatInv, TalkInv
  <2> QED
    BY <2>1, <2>2 DEF ChatInv, TalkInv, BashInv, BashTyped, TypeOK, Message
<1> QED
  BY <1>1, InitChat, StepChat, PTL DEF Spec

(* For the chat agent: an exit code of zero is the shell's own also when   *)
(* the call is polled from outside, cancelled, torn or left behind by Esc. *)
THEOREM AgentExitAlwaysTruthful == Spec => []ExitIsTruthful
BY InitChat, StepChat, BashTruthful, PTL DEF Spec, ChatInv

-----------------------------------------------------------------------------
(* The transcript.                                                         *)

(* The three states of the round that the assistant message at i of the    *)
(* history h began: every call has its result; the round is the one under  *)
(* way, td is due and the results so far are the last messages; the turn   *)
(* ended inside it, and had nothing more to say.                           *)
Answered(h, i) ==
  \A j \in 1 .. h[i].calls : i + j \in DOMAIN h /\ h[i + j].role = "tool"

UnderWay(h, i, td, t) ==
  /\ td # <<>>
  /\ h[i].turn = t
  /\ Len(h) + Len(td) = i + h[i].calls
  /\ \A j \in DOMAIN h : j > i => h[j].role = "tool"

LeftOpen(h, i, c) ==
  /\ h[i].turn \in c
  /\ \A j \in DOMAIN h : j > i /\ h[j].turn = h[i].turn => h[j].role = "tool"

Rounds(h, td, t, c) ==
  \A i \in DOMAIN h :
    /\ h[i].turn <= t
    /\ h[i].role = "assistant" => Answered(h, i) \/ UnderWay(h, i, td, t) \/ LeftOpen(h, i, c)

TranscriptInv ==
  /\ turn \in cut => at = "idle"
  /\ Rounds(history, todo, turn, cut)

LEMMA InitTranscript == Init => TranscriptInv
BY EmptySeq DEF Init, TranscriptInv, Rounds

(* A message that begins something, when no round is under way.            *)
LEMMA BeginRounds ==
  ASSUME NEW h \in Seq(Message), NEW t \in Nat, NEW u \in Nat, t <= u,
         NEW c \in SUBSET Nat, u \notin c, Rounds(h, <<>>, t, c),
         NEW m \in Message, m.turn = u, NEW td \in Seq(Calls), m.calls = Len(td)
  PROVE  Rounds(Append(h, m), td, u, c)
<1> DEFINE g == Append(h, m)
           n == Len(h)
<1>1. /\ n \in Nat /\ Len(g) = n + 1 /\ g[n + 1] = m
      /\ DOMAIN h = 1 .. n /\ DOMAIN g = 1 .. n + 1
      /\ \A i \in 1 .. n : g[i] = h[i]
  BY AppendHistory
<1>2. \A i \in 1 .. n : h[i].turn \in Nat /\ h[i].calls \in Nat
  <2>1. \A i \in 1 .. n : h[i] \in Message
    BY <1>1, ElementOfSeq
  <2> QED
    BY <2>1, LimitsAssumption DEF Message
<1> HIDE DEF g, n
<1>3. ASSUME NEW i \in 1 .. n
      PROVE  /\ g[i].turn <= u
             /\ g[i].role = "assistant" => Answered(g, i) \/ LeftOpen(g, i, c)
  <2>0. h[i].turn <= t
    BY <1>1 DEF Rounds
  <2>1. g[i] = h[i] /\ h[i].turn <= u
    BY <1>1, <1>2, <2>0
  <2>2. h[i].role = "assistant" => Answered(h, i) \/ LeftOpen(h, i, c)
    BY <1>1 DEF Rounds, UnderWay
  <2>3. Answered(h, i) => Answered(g, i)
    BY <1>1, <2>1, <1>2 DEF Answered
  <2>4. LeftOpen(h, i, c) => LeftOpen(g, i, c)
    BY <1>1, <2>1 DEF LeftOpen
  <2> QED
    BY <2>1, <2>2, <2>3, <2>4
<1>4. /\ g[n + 1].turn <= u
      /\ Answered(g, n + 1) \/ UnderWay(g, n + 1, td, u)
  <2>1. CASE td = <<>>
    <3>1. m.calls = 0
      BY <2>1, EmptySeq
    <3>2. Answered(g, n + 1)
      BY <1>1, <3>1 DEF Answered
    <3> QED
      BY <1>1, <3>2
  <2>2. CASE td # <<>>
    <3>1. UnderWay(g, n + 1, td, u)
      BY <1>1, <2>2, LenProperties DEF UnderWay
    <3> QED
      BY <1>1, <3>1
  <2> QED
    BY <2>1, <2>2
<1>5. Rounds(g, td, u, c)
  BY <1>1, <1>3, <1>4 DEF Rounds
<1> QED
  BY <1>5 DEF g

(* The result of the call that is due.                                     *)
LEMMA ResultRounds ==
  ASSUME NEW h \in Seq(Message), NEW t \in Nat, NEW c \in SUBSET Nat, t \notin c,
         NEW td \in Seq(Calls), td # <<>>, Rounds(h, td, t, c),
         NEW m \in Message, m.turn = t, m.role = "tool"
  PROVE  Rounds(Append(h, m), Tail(td), t, c)
<1> DEFINE g == Append(h, m)
           n == Len(h)
<1>1. /\ n \in Nat /\ Len(g) = n + 1 /\ g[n + 1] = m
      /\ DOMAIN h = 1 .. n /\ DOMAIN g = 1 .. n + 1
      /\ \A i \in 1 .. n : g[i] = h[i]
  BY AppendHistory
<1>2. \A i \in 1 .. n : h[i].turn \in Nat /\ h[i].calls \in Nat
  <2>1. \A i \in 1 .. n : h[i] \in Message
    BY <1>1, ElementOfSeq
  <2> QED
    BY <2>1, LimitsAssumption DEF Message
<1> HIDE DEF g, n
<1>3. /\ Tail(td) \in Seq(Calls) /\ Len(Tail(td)) = Len(td) - 1
      /\ Len(td) \in Nat /\ Len(td) >= 1
  BY HeadTailProperties, EmptySeq
<1>4. Tail(td) # <<>> <=> Len(td) # 1
  <2>1. Len(Tail(td)) = 0 <=> Tail(td) = <<>>
    BY <1>3, EmptySeq
  <2> QED
    BY <1>3, <2>1
<1>5. ASSUME NEW i \in 1 .. n
      PROVE  /\ g[i].turn <= t
             /\ g[i].role = "assistant" =>
                  Answered(g, i) \/ UnderWay(g, i, Tail(td), t) \/ LeftOpen(g, i, c)
  <2>1. g[i] = h[i] /\ h[i].turn <= t
    BY <1>1, <1>2 DEF Rounds
  <2>2. h[i].role = "assistant" =>
          Answered(h, i) \/ UnderWay(h, i, td, t) \/ LeftOpen(h, i, c)
    BY <1>1 DEF Rounds
  <2>3. Answered(h, i) => Answered(g, i)
    BY <1>1, <2>1, <1>2 DEF Answered
  <2>4. LeftOpen(h, i, c) => LeftOpen(g, i, c)
    BY <1>1, <2>1 DEF LeftOpen
  <2>5. ASSUME UnderWay(h, i, td, t)
        PROVE  Answered(g, i) \/ UnderWay(g, i, Tail(td), t)
    <3>1. n + Len(td) = i + h[i].calls
      BY <2>5 DEF UnderWay, n
    <3>2. \A j \in 1 .. n + 1 : j > i => g[j].role = "tool"
      <4>1. \A j \in 1 .. n : j > i => h[j].role = "tool"
        BY <1>1, <2>5 DEF UnderWay
      <4>2. \A j \in 1 .. n + 1 : j \in 1 .. n \/ j = n + 1
        BY <1>1
      <4> QED
        BY <1>1, <4>1, <4>2
    <3>3. CASE Len(td) = 1
      BY <1>1, <1>2, <2>1, <3>1, <3>2, <3>3 DEF Answered
    <3>4. CASE Len(td) # 1
      <4>1. Len(g) + Len(Tail(td)) = i + g[i].calls
        BY <1>1, <1>2, <1>3, <2>1, <3>1
      <4>2. g[i].turn = t
        BY <2>1, <2>5 DEF UnderWay
      <4> QED
        BY <1>1, <1>3, <1>4, <3>2, <3>4, <4>1, <4>2 DEF UnderWay
    <3> QED
      BY <3>3, <3>4
  <2> QED
    BY <2>1, <2>2, <2>3, <2>4, <2>5
<1>6. g[n + 1].turn <= t /\ g[n + 1].role # "assistant"
  BY <1>1
<1>7. Rounds(g, Tail(td), t, c)
  BY <1>1, <1>5, <1>6 DEF Rounds
<1> QED
  BY <1>7 DEF g

(* The end of the turn leaves the round that is under way open for good.   *)
LEMMA CutRounds ==
  ASSUME NEW h, NEW t, NEW c, NEW td, td # <<>>, Rounds(h, td, t, c)
  PROVE  Rounds(h, <<>>, t, c \cup {t})
BY DEF Rounds, UnderWay, LeftOpen

(* The end of a turn, for the transcript.                                  *)
LEMMA TurnOverTranscript ==
  ASSUME TranscriptInv, TurnOver
  PROVE  TranscriptInv'
BY CutRounds DEF TranscriptInv, TurnOver

(* A result, for the transcript.                                           *)
LEMMA ResultTranscript ==
  ASSUME TalkInv, TranscriptInv, at \in {"call", "tool", "bash"}, Result
  PROVE  TranscriptInv'
<1>1. /\ turn \in 1 .. MaxTurns /\ turn \in Nat /\ cut \in SUBSET Nat /\ turn \notin cut
      /\ todo \in Seq(Calls) /\ todo # <<>> /\ history \in Seq(Message)
  BY LimitsAssumption DEF TalkInv, TranscriptInv
<1>2. ToolResult(turn) \in Message
  BY <1>1, MessageTypes
<1>3. ToolResult(turn).turn = turn /\ ToolResult(turn).role = "tool"
  BY DEF ToolResult
<1>4. Rounds(Append(history, ToolResult(turn)), Tail(todo), turn, cut)
  BY <1>1, <1>2, <1>3, ResultRounds DEF TranscriptInv
<1> QED
  BY <1>1, <1>4 DEF Result, TranscriptInv

(* The rounds of the history, for every step.                              *)
LEMMA StepTranscript == ChatInv /\ TranscriptInv /\ [Next]_vars => TranscriptInv'
<1> SUFFICES ASSUME TalkInv, TranscriptInv, [Next]_vars
             PROVE  TranscriptInv'
  BY DEF ChatInv
<1>0. turn \in Nat /\ cut \in SUBSET Nat /\ cut \subseteq 1 .. turn /\ history \in Seq(Message)
  BY LimitsAssumption DEF TalkInv
<1>1. <<>> \in Seq(Calls) /\ Len(<<>>) = 0
  BY EmptySeq
<1>2. CASE Prompt
  <2>1. /\ turn' = turn + 1 /\ turn' \in 1 .. MaxTurns /\ turn' \notin cut /\ todo = <<>>
        /\ history' = Append(history, User(turn')) /\ UNCHANGED <<todo, cut>>
    BY <1>0, <1>2, LimitsAssumption DEF Prompt, TalkInv
  <2>2. User(turn') \in Message
    BY <2>1, MessageTypes
  <2>3. User(turn').turn = turn' /\ User(turn').calls = 0
    BY DEF User
  <2>4. /\ Rounds(history, <<>>, turn, cut) /\ turn <= turn + 1 /\ turn + 1 \in Nat
        /\ turn + 1 \notin cut
    BY <1>0, <2>1 DEF TranscriptInv
  <2>5. Rounds(Append(history, User(turn + 1)), <<>>, turn + 1, cut)
    BY <1>0, <1>1, <2>1, <2>2, <2>3, <2>4, BeginRounds
  <2>6. Rounds(history', <<>>, turn', cut)
    BY <2>1, <2>5
  <2> QED
    BY <2>1, <2>6 DEF TranscriptInv
<1>3. CASE Ask
  BY <1>3, TurnOverTranscript DEF Ask, TranscriptInv
<1>4. CASE StreamFails
  BY <1>4, TurnOverTranscript DEF StreamFails
<1>5. ASSUME NEW calls \in BoundedSeq(Calls, MaxCalls), Answer(calls)
      PROVE  TranscriptInv'
  <2>1. calls \in Seq(Calls) /\ Len(calls) \in 0 .. MaxCalls
    BY AnswerTypes
  <2>2. turn \in 1 .. MaxTurns /\ turn \notin cut /\ todo = <<>>
    BY <1>5 DEF Answer, TalkInv, TranscriptInv
  <2>3. Assistant(turn, Len(calls)) \in Message
    BY <2>1, <2>2, MessageTypes
  <2>4. Assistant(turn, Len(calls)).turn = turn /\ Assistant(turn, Len(calls)).calls = Len(calls)
    BY DEF Assistant
  <2>5. Rounds(Append(history, Assistant(turn, Len(calls))), calls, turn, cut)
    BY <1>0, <2>1, <2>2, <2>3, <2>4, BeginRounds DEF TranscriptInv
  <2>6. /\ history' = Append(history, Assistant(turn, Len(calls))) /\ todo' = calls
        /\ UNCHANGED <<turn, cut>>
    BY <1>5, <2>2 DEF Answer
  <2> QED
    BY <2>2, <2>5, <2>6 DEF TranscriptInv
<1>6. CASE CallFails
  BY <1>6, ResultTranscript DEF CallFails
<1>7. CASE CallTool
  BY <1>7, TurnOverTranscript DEF CallTool, TranscriptInv
<1>8. CASE CallBash
  BY <1>8, TurnOverTranscript DEF CallBash, TranscriptInv
<1>9. CASE ToolReturns
  BY <1>9, ResultTranscript DEF ToolReturns
<1>10. CASE BashReturns
  BY <1>10, ResultTranscript, TurnOverTranscript DEF BashReturns
<1>11. CASE PollCancel
  <2>1. TurnOver \/ (at' = "join" /\ UNCHANGED <<turn, todo, history, cut>>)
    BY <1>11 DEF PollCancel
  <2>2. CASE at' = "join" /\ UNCHANGED <<turn, todo, history, cut>>
    BY <1>11, <2>2 DEF PollCancel, TranscriptInv
  <2> QED
    BY <2>1, <2>2, TurnOverTranscript
<1>12. CASE Join
  BY <1>12, TurnOverTranscript DEF Join
<1>13. CASE CancelEvent
  BY <1>13 DEF CancelEvent, TranscriptInv
<1>14. CASE Esc
  BY <1>14, TurnOverTranscript DEF Esc
<1>15. ASSUME NEW s \in Shells, Outside(Command(s)) \/ Outside(Tool(s))
       PROVE  TranscriptInv'
  BY <1>15 DEF Outside, talk, TranscriptInv
<1>16. CASE UNCHANGED vars
  BY <1>16 DEF vars, talk, TranscriptInv
<1> QED
  BY <1>2, <1>3, <1>4, <1>5, <1>6, <1>7, <1>8, <1>9, <1>10, <1>11, <1>12, <1>13, <1>14,
     <1>15, <1>16 DEF Next, Agent

(* Whatever the tools, the streams and Esc did in this turn and before it, *)
(* a request of the agent carries a result for every call, except for the  *)
(* last round of a turn that was cancelled inside it.                      *)
THEOREM RequestAlwaysWellFormed == Spec => []RequestWellFormed
<1>1. ChatInv /\ TranscriptInv => RequestWellFormed
  <2> SUFFICES ASSUME TalkInv, TranscriptInv, at = "stream"
               PROVE  RequestWellFormed
    BY DEF ChatInv, RequestWellFormed
  <2>1. todo = <<>>
    BY DEF TalkInv
  <2> QED
    BY <2>1 DEF TranscriptInv, Rounds, Answered, UnderWay, LeftOpen, RequestWellFormed
<1> QED
  BY <1>1, InitChat, StepChat, InitTranscript, StepTranscript, PTL DEF Spec

=============================================================================
