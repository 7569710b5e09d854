--------------------------- MODULE ToolLoopProofs ---------------------------
(***************************************************************************)
(* What holds of a node's transcript, of its end and of the read cache for *)
(* every number of files, rounds, calls, receivers and node runs, and for  *)
(* every size of the cache.                                                *)
(*                                                                         *)
(* The transcript, the cache and what a swallowed Esc leaves of a node do  *)
(* not depend on each other: each has an invariant of its own over the     *)
(* types.                                                                  *)
(***************************************************************************)
EXTENDS ToolLoop, SequenceTheorems, FiniteSetTheorems, TLAPS

(* What outlives a node.                                                   *)
Files ==
  /\ disk \in [Paths -> [body : Body, mtime : Body]]
  /\ fine \in BOOLEAN
  /\ cache \in Seq(FileState) /\ Len(cache) <= CacheCap
  /\ threads \subseteq Threads

(* What is the node's own.  The limit of its rolls depends on its role and *)
(* is an invariant by itself.                                              *)
Node ==
  /\ run \in 0 .. MaxRuns
  /\ role \in Roles \cup {"idle"}
  /\ at \in Places
  /\ cancel \in BOOLEAN
  /\ round \in 0 .. MaxRounds
  /\ rolls \in Nat
  /\ hops \in 0 .. Receivers
  /\ excerpts \in [Paths -> Body \cup {NoBody, StubBody}]
  /\ messages \in Seq(Message)
  /\ todo \in Seq(Call)
  /\ todo # <<>> <=> at \in {"call", "read", "bash"}
  /\ role # "idle" <=> at # "none"
  /\ role # "idle" => run >= 1

Typed == Files /\ Node

-----------------------------------------------------------------------------
(* Files.                                                                  *)

(* The natural numbers are well-founded.                                   *)
LEMMA LeastOf ==
  ASSUME NEW T \in SUBSET Nat, T # {}
  PROVE  \E m \in T : \A y \in T : y >= m
<1>1. SUFFICES ASSUME NEW R, IsWellFoundedOn(R, Nat),
                      \A a, b \in Nat : a < b => <<a, b>> \in R
               PROVE  \E m \in T : \A y \in T : y >= m
  <2>1. \A a, b \in Nat : a < b => <<a, b>> \in OpToRel(<, Nat)
    BY Zenon DEF OpToRel
  <2> QED
    BY <2>1, NatLessThanWellFounded, Zenon
<1>2. PICK m \in T : \A y \in T : ~ (<<y, m>> \in R)
  <2>1. T \subseteq Nat
    OBVIOUS
  <2>2. IsWellFoundedOn(R, Nat)
    BY <1>1
  <2> QED
    BY <2>1, <2>2, WFMin, Zenon
<1>3. ASSUME NEW y \in T
      PROVE  y >= m
  <2>1. y \in Nat /\ m \in Nat
    OBVIOUS
  <2>2. ~ (y < m)
    BY <1>1, <1>2, <2>1, Zenon
  <2> QED
    BY <2>1, <2>2
<1> QED
  BY <1>2, <1>3

(* A bounded set of numbers that is not empty has a largest member.        *)
LEMMA LargestOf ==
  ASSUME NEW n \in Nat, NEW S \in SUBSET (0 .. n), S # {}
  PROVE  Max(S) \in S /\ \A y \in S : Max(S) >= y
<1> DEFINE Gaps == {n - x : x \in S}
<1>1. Gaps \subseteq Nat /\ Gaps # {}
  <2>1. \A x \in S : n - x \in Nat
    OBVIOUS
  <2>2. PICK x \in S : TRUE
    OBVIOUS
  <2>3. n - x \in Gaps
    OBVIOUS
  <2> QED
    BY <2>1, <2>3
<1>2. PICK m \in Gaps : \A y \in Gaps : y >= m
  <2> HIDE DEF Gaps
  <2> QED
    BY <1>1, LeastOf
<1>3. \A y \in Gaps : y >= m
  BY <1>2
<1>4. PICK x \in S : m = n - x
  BY <1>2
<1>5. \A y \in S : x >= y
  <2> TAKE y \in S
  <2>1. n - y \in Gaps
    OBVIOUS
  <2>2. n - y >= n - x
    BY <1>3, <1>4, <2>1
  <2>3. n \in Int /\ x \in Int /\ y \in Int
    OBVIOUS
  <2> HIDE DEF Gaps
  <2> QED
    BY <2>2, <2>3
<1> QED
  BY <1>5 DEF Max

(* A changed file has a body newer than all there were, and its mtime too  *)
(* when the clock separates any two changes.                               *)
LEMMA ChangeFacts ==
  ASSUME Typed, NEW p \in Paths, Change(p)
  PROVE  /\ disk' \in [Paths -> [body : Body, mtime : Body]]
         /\ \A q \in Paths : disk'[q].body >= disk[q].body
         /\ fine => \A q \in Paths : \/ disk'[q] = disk[q]
                                     \/ /\ disk'[q].mtime = disk'[q].body
                                        /\ disk'[q].body > disk[q].body
<1> DEFINE bodies == {disk[q].body : q \in Paths}
           body   == Max(bodies) + 1
<1>1. disk \in [Paths -> [body : Body, mtime : Body]] /\ fine \in BOOLEAN
  BY DEF Typed, Files
<1>2. bodies \in SUBSET (0 .. MaxWrites) /\ bodies # {}
  BY <1>1 DEF Body
<1>3. PICK top \in bodies : top = Max(bodies) /\ \A b \in bodies : top >= b
  <2>1. Max(bodies) \in bodies /\ \A b \in bodies : Max(bodies) >= b
    <3> HIDE DEF bodies
    <3> QED
      BY <1>2, LargestOf, LimitsAssumption
  <2> QED
    BY <2>1, Zenon
<1>4. body \in Nat /\ \A q \in Paths : body > disk[q].body
  <2>1. \A q \in Paths : disk[q].body \in bodies
    OBVIOUS
  <2>2. \A q \in Paths : disk[q].body \in Nat /\ top >= disk[q].body
    BY <1>1, <1>3, <2>1 DEF Body
  <2>3. top \in Nat
    BY <1>1, <1>3 DEF Body
  <2>4. body = top + 1
    BY <1>3
  <2> HIDE DEF body
  <2> QED
    BY <2>2, <2>3, <2>4
<1>5. body <= MaxWrites
  BY DEF Change
<1>6. PICK mtime \in {body} \cup (IF fine THEN {} ELSE {disk[p].mtime}) :
        disk' = [disk EXCEPT ![p] = [body |-> body, mtime |-> mtime]]
  BY DEF Change
<1> HIDE DEF body
<1>7. mtime \in Body /\ body \in Body
  BY <1>1, <1>4, <1>5, <1>6, LimitsAssumption DEF Body
<1>8. \A q \in Paths : disk[q].body \in Int
  BY <1>1 DEF Body
<1>9. disk' \in [Paths -> [body : Body, mtime : Body]]
  BY <1>1, <1>6, <1>7
<1>10. \A q \in Paths : disk'[q].body >= disk[q].body
  BY <1>1, <1>4, <1>6, <1>8
<1>11. ASSUME fine
       PROVE  \A q \in Paths : \/ disk'[q] = disk[q]
                               \/ /\ disk'[q].mtime = disk'[q].body
                                  /\ disk'[q].body > disk[q].body
  <2>1. mtime = body
    BY <1>6, <1>11
  <2> QED
    BY <1>1, <1>4, <1>6, <2>1
<1> QED
  BY <1>9, <1>10, <1>11

-----------------------------------------------------------------------------
(* The pieces of the steps.                                                *)

(* A node that is gone has left nothing behind.                            *)
LEMMA VanishNode ==
  ASSUME Typed, Vanish, cancel' \in BOOLEAN
  PROVE  Node'
<1>1. NoExcerpts \in [Paths -> Body \cup {NoBody, StubBody}]
  BY DEF NoExcerpts
<1>2. <<>> \in Seq(Message) /\ <<>> \in Seq(Call)
  BY EmptySeq
<1> QED
  BY <1>1, <1>2, LimitsAssumption DEF Typed, Node, Vanish, Places

(* The end of a call: the next one is due, or the round is over.           *)
LEMMA ProceedFacts ==
  ASSUME NEW msgs, NEW calls, Proceed(msgs, calls)
  PROVE  /\ todo' = calls
         /\ \/ calls # <<>> /\ at' = "call" /\ messages' = msgs
            \/ /\ calls = <<>>
               /\ at' = "ask"
               /\ messages' \in {msgs, Append(msgs, UserMessage)}
BY DEF Proceed

(* The three kinds of message and any sequence of calls are of the types.  *)
LEMMA MessageTypes ==
  /\ \A n \in Nat : Assistant(n) \in Message
  /\ ToolMessage \in Message
  /\ UserMessage \in Message
BY DEF Assistant, ToolMessage, UserMessage, Message

(* A message at the end of the transcript.                                 *)
LEMMA AppendType ==
  ASSUME NEW msgs \in Seq(Message), NEW m \in Message
  PROVE  /\ Append(msgs, m) \in Seq(Message)
         /\ Len(Append(msgs, m)) = Len(msgs) + 1
         /\ Append(msgs, m)[Len(msgs) + 1] = m
         /\ \A i \in 1 .. Len(msgs) : Append(msgs, m)[i] = msgs[i]
OBVIOUS

(* The calls of an answer.                                                 *)
LEMMA AskedTypes == \A calls \in Asked : calls \in Seq(Call)
<1>1. ASSUME NEW n \in 0 .. MaxCalls, NEW calls \in [1 .. n -> Calls]
      PROVE  calls \in Seq(Call)
  <2>1. Calls \subseteq Call
    BY DEF Calls, Call, Tools, ToolNames
  <2>2. calls \in [1 .. n -> Call] /\ n \in Nat
    BY <2>1, LimitsAssumption
  <2> QED
    BY <2>2, SeqDef
<1> QED
  BY <1>1 DEF Asked

(* A call that is due is a call.                                           *)
LEMMA DueCall ==
  ASSUME Typed, at = "call"
  PROVE  todo # <<>> /\ Head(todo).path \in Paths /\ Head(todo).range \in Ranges
<1>1. todo # <<>> /\ todo \in Seq(Call)
  BY DEF Typed, Node
<1>2. Head(todo) \in Call
  BY <1>1, HeadTailProperties
<1> QED
  BY <1>1, <1>2 DEF Call

(* The result of a call keeps the types of the node.                       *)
LEMMA ResultNode ==
  ASSUME Typed, Result, todo # <<>>,
         UNCHANGED <<run, role, cancel, round, rolls, hops>>,
         excerpts' \in [Paths -> Body \cup {NoBody, StubBody}]
  PROVE  Node'
<1>1. Append(messages, ToolMessage) \in Seq(Message)
  BY AppendType, MessageTypes DEF Typed, Node
<1>2. Append(Append(messages, ToolMessage), UserMessage) \in Seq(Message)
  BY <1>1, AppendType, MessageTypes
<1>3. Tail(todo) \in Seq(Call)
  BY HeadTailProperties DEF Typed, Node
<1>4. todo' = Tail(todo) /\ messages' \in Seq(Message)
  BY <1>1, <1>2, ProceedFacts DEF Result
<1>5. at' \in {"call", "ask"} /\ (todo' # <<>> <=> at' = "call")
  BY ProceedFacts DEF Result
<1> QED
  BY <1>3, <1>4, <1>5 DEF Typed, Node, Places

(* What an excerpt may be.                                                 *)
LEMMA RecordedType ==
  ASSUME Typed, NEW p \in Paths, NEW body \in Body \cup {NoBody, StubBody}
  PROVE  Recorded(p, body) \in [Paths -> Body \cup {NoBody, StubBody}]
BY DEF Typed, Node, Recorded

(* A read that comes back keeps the types of the node.                     *)
LEMMA ReadReturnsNode ==
  ASSUME Typed, NEW t, t.path \in Paths, NEW body \in Body \cup {StubBody},
         ReadReturns(t, body)
  PROVE  Node'
<1>1. CASE t.run = run /\ at \in {"read", "hopped"}
  <2>1. excerpts' \in [Paths -> Body \cup {NoBody, StubBody}]
    BY <1>1, RecordedType DEF ReadReturns
  <2>2. UNCHANGED <<run, role, cancel, round, rolls, hops>>
    BY <1>1 DEF ReadReturns
  <2>3. CASE at = "read"
    <3>1. todo # <<>>
      BY <2>3 DEF Typed, Node
    <3>2. Result
      BY <1>1, <2>3 DEF ReadReturns
    <3> QED
      BY <2>1, <2>2, <3>1, <3>2, ResultNode
  <2>4. CASE at = "hopped"
    <3>1. at' = "hop" /\ UNCHANGED <<messages, todo>>
      BY <1>1, <2>4 DEF ReadReturns
    <3> QED
      BY <2>1, <2>2, <2>4, <3>1 DEF Typed, Node, Places
  <2> QED
    BY <1>1, <2>3, <2>4
<1>2. CASE ~ (t.run = run /\ at \in {"read", "hopped"})
  BY <1>2 DEF ReadReturns, Typed, Node, loop, text
<1> QED
  BY <1>1, <1>2

(* The end of the rounds keeps the types of the node.                      *)
LEMMA StopNode ==
  ASSUME Typed, NEW n \in 0 .. MaxRounds, NEW msgs \in Seq(Message),
         at = "ask", Stop(n, msgs)
  PROVE  Node'
<1>1. CASE AfterRounds = "none"
  BY <1>1, VanishNode DEF Stop, Leave, Typed, Node
<1>2. CASE AfterRounds # "none"
  <2>1. AfterRounds \in {"hop", "roll"}
    BY <1>2 DEF AfterRounds
  <2> QED
    BY <1>2, <2>1 DEF Stop, Typed, Node, Places
<1> QED
  BY <1>1, <1>2

(* The cache holds the new entry and entries it held, never more than the  *)
(* cap.                                                                    *)
LEMMA CachedFacts ==
  ASSUME Files, NEW e \in FileState
  PROVE  /\ Cached(e) \in Seq(FileState)
         /\ Len(Cached(e)) <= CacheCap
         /\ \A i \in DOMAIN Cached(e) :
              \/ Cached(e)[i] = e
              \/ \E j \in DOMAIN cache : Cached(e)[i] = cache[j]
<1>0. /\ cache \in Seq(FileState) /\ Len(cache) \in Nat /\ DOMAIN cache = 1 .. Len(cache)
      /\ Len(cache) <= CacheCap /\ CacheCap \in Nat /\ CacheCap >= 1
  BY LenProperties, LimitsAssumption DEF Files
<1>1. CASE Entries(e.path) # {}
  <2> DEFINE new == [i \in DOMAIN cache |-> IF i \in Entries(e.path) THEN e ELSE cache[i]]
  <2>1. \A i \in DOMAIN cache : cache[i] \in FileState
    BY <1>0, ElementOfSeq
  <2>2. new \in [1 .. Len(cache) -> FileState]
    BY <1>0, <2>1
  <2>3. new \in Seq(FileState)
    BY <1>0, <2>2, SeqDef
  <2>4. Len(new) = Len(cache)
    BY <1>0, <2>3, LenProperties
  <2>5. Cached(e) = new
    BY <1>1 DEF Cached
  <2> QED
    BY <1>0, <2>3, <2>4, <2>5 DEF Files
<1>2. CASE Entries(e.path) = {}
  <2> DEFINE kept == IF Len(cache) >= CacheCap THEN Tail(cache) ELSE cache
  <2>1. /\ kept \in Seq(FileState)
        /\ Len(kept) < CacheCap
        /\ \A i \in 1 .. Len(kept) : \E j \in DOMAIN cache : kept[i] = cache[j]
    <3>1. CASE Len(cache) >= CacheCap
      <4>1. cache # <<>>
        BY <1>0, <3>1, EmptySeq
      <4>2. /\ Tail(cache) \in Seq(FileState)
            /\ Len(Tail(cache)) = Len(cache) - 1
            /\ \A i \in 1 .. Len(Tail(cache)) : Tail(cache)[i] = cache[i + 1]
        BY <1>0, <4>1, HeadTailProperties
      <4>3. kept = Tail(cache)
        BY <3>1
      <4>4. \A i \in 1 .. Len(Tail(cache)) : i + 1 \in DOMAIN cache
        BY <1>0, <4>2
      <4> HIDE DEF kept
      <4> QED
        BY <1>0, <4>2, <4>3, <4>4
    <3>2. CASE ~ (Len(cache) >= CacheCap)
      <4>1. kept = cache
        BY <3>2, Zenon
      <4>2. \A i \in 1 .. Len(cache) : i \in DOMAIN cache
        BY <1>0
      <4> HIDE DEF kept
      <4> QED
        BY <1>0, <3>2, <4>1, <4>2
    <3> HIDE DEF kept
    <3> QED
      BY <3>1, <3>2
  <2>2. Cached(e) = Append(kept, e)
    BY <1>2 DEF Cached
  <2> HIDE DEF kept
  <2>3. /\ Append(kept, e) \in Seq(FileState)
        /\ Len(Append(kept, e)) = Len(kept) + 1
        /\ DOMAIN Append(kept, e) = 1 .. Len(kept) + 1
        /\ Append(kept, e)[Len(kept) + 1] = e
        /\ \A i \in 1 .. Len(kept) : Append(kept, e)[i] = kept[i]
    BY <2>1
  <2>4. Len(kept) \in Nat
    BY <2>1, LenProperties
  <2>5. ASSUME NEW i \in 1 .. Len(kept) + 1
        PROVE  i = Len(kept) + 1 \/ i \in 1 .. Len(kept)
    BY <2>4
  <2>6. Len(kept) + 1 <= CacheCap
    BY <2>1, <2>4, LimitsAssumption
  <2> QED
    BY <2>1, <2>2, <2>3, <2>5, <2>6
<1> QED
  BY <1>1, <1>2

-----------------------------------------------------------------------------
(* Type correctness.                                                       *)

(* A thread that a node starts is one of its run.                          *)
LEMMA NewThreadType ==
  ASSUME Typed, at # "none", NEW p \in Paths, NEW r \in Ranges
  PROVE  NewThread(p, r) \in Threads
BY LimitsAssumption DEF Typed, Node, NewThread, Threads

LEMMA InitTyped == Init => Typed
<1> SUFFICES ASSUME Init
             PROVE  Typed
  OBVIOUS
<1>1. Files
  BY EmptySeq, LimitsAssumption, FineAssumption DEF Init, Files, Body
<1>2. NoExcerpts \in [Paths -> Body \cup {NoBody, StubBody}]
  BY DEF NoExcerpts
<1>4. <<>> \in Seq(Message) /\ <<>> \in Seq(Call)
  BY EmptySeq
<1>5. 0 \in 0 .. MaxRuns /\ 0 \in 0 .. MaxRounds /\ 0 \in 0 .. Receivers
  BY LimitsAssumption
<1>6. Node
  BY <1>2, <1>4, <1>5 DEF Init, Node, Places
<1> QED
  BY <1>1, <1>6 DEF Typed

(* A thread's stat or open keeps the types.                                *)
LEMMA ThreadTyped ==
  ASSUME Typed, NEW t \in threads, Stat(t) \/ Open(t)
  PROVE  Typed'
<1>1. t \in Threads /\ disk[t.path] \in [body : Body, mtime : Body]
  BY DEF Typed, Files, Threads
<1>2. t.path \in Paths /\ t.range \in Ranges
  BY <1>1 DEF Threads
<1>3. CASE Stat(t)
  <2>1. [t EXCEPT !.mtime = disk[t.path].mtime] \in Threads
    BY <1>1 DEF Threads
  <2>2. Files'
    BY <1>3, <2>1 DEF Typed, Files, Stat
  <2>3. ReadReturns(t, StubBody) => Node'
    BY <1>2, ReadReturnsNode
  <2>4. UNCHANGED <<loop, text>> => Node'
    BY DEF Typed, Node, loop, text
  <2> QED
    BY <1>3, <2>2, <2>3, <2>4 DEF Typed, Stat
<1>4. CASE Open(t)
  <2> DEFINE e == [path |-> t.path, range |-> t.range,
                   body |-> disk[t.path].body, mtime |-> t.mtime]
  <2>1. e \in FileState
    BY <1>1, <1>2, <1>4 DEF FileState, Open, Threads
  <2>2. cache' = Cached(e)
    BY <1>4 DEF Open
  <2>3. Cached(e) \in Seq(FileState) /\ Len(Cached(e)) <= CacheCap
    <3> HIDE DEF e
    <3> QED
      BY <2>1, CachedFacts DEF Typed
  <2>4. Files'
    BY <1>4, <2>2, <2>3 DEF Typed, Files, Open
  <2>5. Node'
    BY <1>1, <1>2, <1>4, ReadReturnsNode DEF Open
  <2> QED
    BY <2>4, <2>5 DEF Typed
<1> QED
  BY <1>3, <1>4

(* The node's own steps that only end it.                                  *)
LEMMA LeaveTyped ==
  ASSUME Typed, Leave, UNCHANGED <<disk, fine, cache, threads>>
  PROVE  Typed'
BY VanishNode DEF Leave, Typed, Files, Node

(* A call that is answered at once.                                        *)
LEMMA AnsweredTyped ==
  ASSUME Typed, Result, todo # <<>>, Files',
         UNCHANGED <<run, role, cancel, round, rolls, hops, excerpts>>
  PROVE  Typed'
BY ResultNode DEF Typed, Node

(* The types, for every step.                                              *)
LEMMA StepTyped ==
  ASSUME Typed, [Next]_vars
  PROVE  Typed'
<1>1. ASSUME NEW r \in Roles, Start(r)
      PROVE  Typed'
  <2>1. at = "none" /\ r # "idle"
    BY <1>1, RolesAssumption DEF Typed, Node, Start
  <2>2. run' \in 0 .. MaxRuns /\ run' >= 1
    BY <1>1, LimitsAssumption DEF Typed, Node, Start
  <2>3. Files'
    BY <1>1 DEF Typed, Files, Start
  <2> QED
    BY <1>1, <2>1, <2>2, <2>3 DEF Typed, Node, Start, Places, text
<1>2. ASSUME NEW calls \in Asked, AskModel(calls)
      PROVE  Typed'
  <2> DEFINE msgs == Append(messages, Assistant(Len(calls)))
  <2>1. calls \in Seq(Call) /\ Len(calls) \in Nat
    BY AskedTypes
  <2>2. msgs \in Seq(Message)
    BY <2>1, AppendType, MessageTypes DEF Typed, Node
  <2>3. Files'
    BY <1>2 DEF Typed, Files, AskModel
  <2>4. round + 1 \in 0 .. MaxRounds
    BY <1>2, LimitsAssumption DEF Typed, Node, AskModel
  <2>5. CASE calls = <<>>
    <3>1. Stop(round + 1, msgs)
      BY <1>2, <2>5 DEF AskModel
    <3> HIDE DEF msgs
    <3> QED
      BY <1>2, <2>2, <2>3, <2>4, <3>1, StopNode DEF Typed, AskModel
  <2>6. CASE calls # <<>>
    <3>1. messages' = msgs
      BY <1>2, <2>6 DEF AskModel
    <3> HIDE DEF msgs
    <3> QED
      BY <1>2, <2>1, <2>2, <2>3, <2>4, <2>6, <3>1 DEF Typed, Node, AskModel, Places
  <2> QED
    BY <2>5, <2>6
<1>3. CASE RoundsSpent
  <2>1. Files'
    BY <1>3 DEF Typed, Files, RoundsSpent
  <2> QED
    BY <1>3, <2>1, StopNode DEF Typed, Node, RoundsSpent
<1>4. CASE StreamFails \/ StopCancelled \/ ToolCancelled \/ CallDecides \/ RollEnds
  BY <1>4, LeaveTyped DEF StreamFails, StopCancelled, ToolCancelled, CallDecides, RollEnds
<1>5. CASE CallWrite
  <2>1. Head(todo).path \in Paths /\ todo # <<>>
    BY <1>5, DueCall DEF CallWrite, Due
  <2>2. disk' \in [Paths -> [body : Body, mtime : Body]]
    BY <1>5, <2>1, ChangeFacts DEF CallWrite, Typed, Files
  <2>3. Files'
    BY <1>5, <2>2 DEF CallWrite, Typed, Files
  <2> QED
    BY <1>5, <2>1, <2>3, AnsweredTyped DEF CallWrite
<1>6. CASE CallFails \/ CallRejected \/ BashReturns
  <2>1. todo # <<>> /\ Files'
    BY <1>6 DEF CallFails, CallRejected, BashReturns, Due, Typed, Node, Files
  <2> QED
    BY <1>6, <2>1, AnsweredTyped DEF CallFails, CallRejected, BashReturns
<1>7. CASE CallBash
  BY <1>7 DEF CallBash, Due, Typed, Node, Files, Places, text
<1>8. CASE CallRead
  <2>1. todo # <<>> /\ at = "call"
    BY <1>8 DEF CallRead, Due
  <2>3. NewThread(Head(todo).path, Head(todo).range) \in Threads
    BY <2>1, DueCall, NewThreadType
  <2>4. Files'
    BY <1>8, <2>3 DEF CallRead, Typed, Files
  <2> QED
    BY <1>8, <2>1, <2>4 DEF CallRead, Typed, Node, Places, text
<1>9. ASSUME NEW p \in Paths, NEW r \in Ranges, HopRead(p, r)
      PROVE  Typed'
  <2>1. NewThread(p, r) \in Threads
    BY <1>9, NewThreadType DEF HopRead
  <2>2. Files'
    BY <1>9, <2>1 DEF HopRead, Typed, Files
  <2>3. hops + 1 \in 0 .. Receivers
    BY <1>9, LimitsAssumption DEF HopRead, Typed, Node
  <2> QED
    BY <1>9, <2>2, <2>3 DEF HopRead, Typed, Node, Places
<1>10. CASE HopsOver
  BY <1>10 DEF HopsOver, Typed, Node, Files, Places, text
<1>11. ASSUME NEW t \in threads, Stat(t) \/ Open(t)
       PROVE  Typed'
  BY <1>11, ThreadTyped
<1>12. CASE RollRejected
  <2>1. Files'
    BY <1>12 DEF RollRejected, Typed, Files
  <2> QED
    BY <1>12, <2>1 DEF RollRejected, Typed, Node, text
<1>13. CASE Esc
  <2>1. Files' /\ cancel' \in BOOLEAN
    BY <1>13 DEF Esc, Typed, Files
  <2>2. CASE Vanish
    BY <2>1, <2>2, VanishNode DEF Typed
  <2>3. CASE UNCHANGED <<run, role, at, round, rolls, text>>
    BY <2>1, <2>3 DEF Typed, Node, text
  <2> QED
    BY <1>13, <2>2, <2>3 DEF Esc
<1>14. ASSUME NEW p \in Paths, OutsideWrite(p)
       PROVE  Typed'
  <2>1. disk' \in [Paths -> [body : Body, mtime : Body]]
    BY <1>14, ChangeFacts DEF OutsideWrite
  <2> QED
    BY <1>14, <2>1 DEF OutsideWrite, Typed, Files, Node, loop, text
<1>15. CASE UNCHANGED vars
  BY <1>15 DEF vars, Typed, Files, Node, loop, text
<1> QED
  BY <1>1, <1>2, <1>3, <1>4, <1>5, <1>6, <1>7, <1>8, <1>9, <1>10, <1>11, <1>12, <1>13,
     <1>14, <1>15 DEF Next, Step

(* The invariant of the types, with the places where a call is pending.    *)
THEOREM TypedInvariant == Spec => []Typed
BY InitTyped, StepTyped, PTL DEF Spec

(* A node rolls at most as often as its role allows: Attempts times, and   *)
(* the decider so often for each of its Attempts decisions.                *)
Rolling == rolls < MaxRolls

(* Every role has a roll, and the limit of an idle node is the least.      *)
LEMMA MaxRollsFacts == MaxRolls \in Nat /\ MaxRolls >= 1 /\ MaxRolls >= Attempts
<1>1. Attempts \in Nat /\ Attempts >= 1
  BY LimitsAssumption
<1>2. Attempts * Attempts \in Nat /\ Attempts <= Attempts * Attempts
  BY <1>1
<1> QED
  BY <1>1, <1>2 DEF MaxRolls

LEMMA InitRolling == Init => Rolling
BY MaxRollsFacts DEF Init, Rolling

(* The limit, for every step: only a roll that is rejected comes nearer.   *)
LEMMA RollingStep ==
  ASSUME Typed, Rolling, [Next]_vars
  PROVE  Rolling'
<1>1. CASE UNCHANGED <<role, rolls>>
  BY <1>1 DEF Rolling, MaxRolls
<1>2. CASE Vanish
  <2>1. MaxRolls' = Attempts /\ rolls' = 0
    BY <1>2 DEF Vanish, MaxRolls
  <2> QED
    BY <2>1, LimitsAssumption DEF Rolling
<1>3. ASSUME NEW r \in Roles, Start(r)
      PROVE  Rolling'
  <2>1. rolls < Attempts /\ rolls' = rolls /\ rolls \in Nat
    BY <1>3 DEF Start, Rolling, MaxRolls, Typed, Node
  <2>2. MaxRolls' \in {Attempts, Attempts * Attempts}
    BY DEF MaxRolls
  <2>3. Attempts \in Nat /\ Attempts >= 1
    BY LimitsAssumption
  <2>4. Attempts * Attempts \in Nat /\ Attempts <= Attempts * Attempts
    BY <2>3
  <2> QED
    BY <2>1, <2>2, <2>3, <2>4 DEF Rolling
<1>4. CASE RollRejected
  <2>1. MaxRolls' = MaxRolls
    BY <1>4 DEF RollRejected, MaxRolls
  <2> QED
    BY <1>4, <2>1 DEF RollRejected, Rolling
<1>5. ASSUME NEW n, NEW msgs, Stop(n, msgs)
      PROVE  Rolling'
  BY <1>1, <1>2, <1>5 DEF Stop, Leave
<1>6. ASSUME NEW calls \in Asked, AskModel(calls)
      PROVE  Rolling'
  BY <1>1, <1>5, <1>6 DEF AskModel
<1>7. CASE RoundsSpent
  BY <1>5, <1>7 DEF RoundsSpent
<1>8. CASE StreamFails \/ StopCancelled \/ ToolCancelled \/ CallDecides \/ RollEnds
  BY <1>2, <1>8 DEF StreamFails, StopCancelled, ToolCancelled, CallDecides, RollEnds, Leave
<1>9. ASSUME NEW t \in threads, Stat(t) \/ Open(t)
      PROVE  Rolling'
  BY <1>1, <1>9 DEF Stat, Open, ReadReturns, loop
<1>10. CASE CallWrite \/ CallFails \/ CallRejected \/ CallBash \/ BashReturns \/ CallRead
            \/ HopsOver
  BY <1>1, <1>10 DEF CallWrite, CallFails, CallRejected, CallBash, BashReturns, CallRead, HopsOver
<1>11. ASSUME NEW p \in Paths, NEW r \in Ranges, HopRead(p, r)
       PROVE  Rolling'
  BY <1>1, <1>11 DEF HopRead
<1>12. CASE Esc
  BY <1>1, <1>2, <1>12 DEF Esc
<1>13. ASSUME NEW p \in Paths, OutsideWrite(p)
       PROVE  Rolling'
  BY <1>1, <1>13 DEF OutsideWrite, loop
<1>14. CASE UNCHANGED vars
  BY <1>1, <1>14 DEF vars, loop
<1> QED
  BY <1>3, <1>4, <1>6, <1>7, <1>8, <1>9, <1>10, <1>11, <1>12, <1>13, <1>14 DEF Next, Step

(* The variables hold values of the types of the code: the cache never has *)
(* more entries than its cap, no node begins more rounds, rolls more often *)
(* or reads more receivers than its role's limits allow, and a call is     *)
(* pending exactly where the node is inside a round.                       *)
THEOREM ToolTypeCorrect == Spec => []TypeOK
<1>1. Typed /\ Rolling => TypeOK
  <2> SUFFICES ASSUME Typed, Rolling
               PROVE  TypeOK
    OBVIOUS
  <2>1. rolls \in 0 .. MaxRolls - 1
    BY MaxRollsFacts DEF Typed, Node, Rolling
  <2> QED
    BY <2>1 DEF Typed, Files, Node, TypeOK
<1>2. Typed /\ Rolling /\ [Next]_vars => Rolling'
  BY RollingStep
<1> QED
  BY <1>1, <1>2, InitRolling, TypedInvariant, PTL DEF Spec

-----------------------------------------------------------------------------
(* The read cache.                                                         *)

(* With a clock that separates any two changes a file's mtime is its       *)
(* version.  What a thread has seen of it, and what the cache holds, is    *)
(* then never newer than the file, and a body never older than the mtime   *)
(* it was cached with, for the stat comes before the open.                 *)
Versioned ==
  fine =>
    /\ \A p \in Paths : disk[p].mtime = disk[p].body
    /\ \A i \in DOMAIN cache : /\ cache[i].mtime <= cache[i].body
                              /\ cache[i].body <= disk[cache[i].path].body
    /\ \A t \in threads : t.mtime <= disk[t.path].mtime

(* What the members of cache and threads are.                              *)
LEMMA FileTypes ==
  ASSUME Files
  PROVE  /\ \A i \in DOMAIN cache : cache[i] \in FileState
         /\ \A t \in threads : t \in Threads
         /\ \A q \in Paths : disk[q].body \in Int /\ disk[q].mtime \in Int
<1>1. DOMAIN cache = 1 .. Len(cache) /\ cache \in Seq(FileState)
  BY LenProperties DEF Files
<1>2. \A i \in DOMAIN cache : cache[i] \in FileState
  BY <1>1, ElementOfSeq
<1> QED
  BY <1>2 DEF Files, Body

(* Files only get newer.                                                   *)
LEMMA ChangeVersioned ==
  ASSUME Typed, Versioned, NEW p \in Paths, Change(p), UNCHANGED <<fine, cache, threads>>
  PROVE  Versioned'
<1> SUFFICES ASSUME fine
             PROVE  /\ \A q \in Paths : disk'[q].mtime = disk'[q].body
                    /\ \A i \in DOMAIN cache : /\ cache[i].mtime <= cache[i].body
                                              /\ cache[i].body <= disk'[cache[i].path].body
                    /\ \A t \in threads : t.mtime <= disk'[t.path].mtime
  BY DEF Versioned
<1>1. \A q \in Paths : disk'[q].mtime = disk'[q].body
  BY ChangeFacts DEF Versioned
<1>2. \A q \in Paths : /\ disk'[q].body >= disk[q].body
                       /\ disk'[q].mtime >= disk[q].mtime
                       /\ disk'[q].body \in Int /\ disk'[q].mtime \in Int
                       /\ disk[q].body \in Int /\ disk[q].mtime \in Int
  <2>1. \A q \in Paths : disk'[q].body >= disk[q].body /\ disk'[q].body \in Int
    BY ChangeFacts DEF Body
  <2> QED
    BY <1>1, <2>1, FileTypes DEF Typed, Versioned
<1>3. \A i \in DOMAIN cache : cache[i].path \in Paths /\ cache[i].body \in Int
  BY FileTypes DEF Typed, FileState, Body
<1>4. \A t \in threads : t.path \in Paths /\ t.mtime \in Int
  BY FileTypes DEF Typed, Threads, Body, NoBody
<1> QED
  BY <1>1, <1>2, <1>3, <1>4 DEF Versioned

(* A new thread has seen nothing.                                          *)
LEMMA NewThreadVersioned ==
  ASSUME Typed, Versioned, NEW p \in Paths, NEW r,
         threads' = threads \cup {NewThread(p, r)}, UNCHANGED <<disk, fine, cache>>
  PROVE  Versioned'
<1>1. NewThread(p, r).mtime <= disk[p].mtime /\ NewThread(p, r).path = p
  BY DEF Typed, Files, NewThread, NoBody, Body
<1> QED
  BY <1>1 DEF Versioned

(* A thread between its stat and its read, while the file changes.         *)
LEMMA ThreadVersioned ==
  ASSUME Typed, Versioned, NEW t \in threads, Stat(t) \/ Open(t)
  PROVE  Versioned'
<1>1. t \in Threads /\ t.path \in Paths /\ t.range \in Ranges
  BY FileTypes DEF Typed, Threads
<1>2. disk[t.path] \in [body : Body, mtime : Body]
  BY <1>1 DEF Typed, Files
<1>3. CASE Stat(t)
  <2> DEFINE u == [t EXCEPT !.mtime = disk[t.path].mtime]
  <2>1. u.mtime = disk[u.path].mtime /\ u.path = t.path
    BY <1>1 DEF Threads
  <2>2. threads' \subseteq threads \cup {u}
    BY <1>3 DEF Stat
  <2>3. u.mtime <= disk[u.path].mtime
    BY <1>1, <1>2, <2>1 DEF Body
  <2> HIDE DEF u
  <2> QED
    BY <1>3, <2>2, <2>3 DEF Versioned, Stat
<1>4. CASE Open(t)
  <2> DEFINE e == [path |-> t.path, range |-> t.range,
                   body |-> disk[t.path].body, mtime |-> t.mtime]
  <2>1. e \in FileState /\ e.path = t.path /\ e.body = disk[t.path].body
    BY <1>1, <1>2, <1>4 DEF FileState, Open, Threads
  <2>2. cache' = Cached(e)
    BY <1>4 DEF Open
  <2>3. fine => e.mtime <= e.body
    BY <1>1 DEF Versioned
  <2>4. fine => e.body <= disk[e.path].body
    BY <1>2, <2>1 DEF Body
  <2>5. UNCHANGED <<disk, fine>> /\ threads' \subseteq threads
    BY <1>4 DEF Open
  <2> HIDE DEF e
  <2>6. \A i \in DOMAIN cache' : \/ cache'[i] = e
                                 \/ \E j \in DOMAIN cache : cache'[i] = cache[j]
    BY <2>1, <2>2, CachedFacts DEF Typed
  <2>7. fine => \A i \in DOMAIN cache' : /\ cache'[i].mtime <= cache'[i].body
                                        /\ cache'[i].body <= disk[cache'[i].path].body
    BY <2>3, <2>4, <2>6 DEF Versioned
  <2> QED
    BY <2>5, <2>7 DEF Versioned
<1> QED
  BY <1>3, <1>4

(* A "file unchanged" stub is true, whichever node asks, whichever thread  *)
(* of a cancelled node cached the file, and whatever changed it between    *)
(* the stat and the open of a read, for any number of files and writes.    *)
THEOREM StubAlwaysTrue == Spec => []StubIsTrue
<1>1. Init => Versioned
  BY DEF Init, Versioned
<1>2. Typed /\ Versioned /\ [Next]_vars => Versioned'
  <2> SUFFICES ASSUME Typed, Versioned, [Next]_vars
               PROVE  Versioned'
    OBVIOUS
  <2>1. CASE UNCHANGED <<disk, fine, cache, threads>>
    BY <2>1 DEF Versioned
  <2>2. ASSUME NEW p \in Paths, Change(p), UNCHANGED <<fine, cache, threads>>
        PROVE  Versioned'
    BY <2>2, ChangeVersioned
  <2>3. ASSUME NEW p \in Paths, OutsideWrite(p)
        PROVE  Versioned'
    BY <2>2, <2>3 DEF OutsideWrite
  <2>4. CASE CallWrite
    <3>1. Head(todo).path \in Paths
      BY <2>4, DueCall DEF CallWrite, Due
    <3> QED
      BY <2>1, <2>2, <2>4, <3>1 DEF CallWrite
  <2>5. CASE CallRead
    <3>1. Head(todo).path \in Paths
      BY <2>5, DueCall DEF CallRead, Due
    <3> QED
      BY <2>5, <3>1, NewThreadVersioned DEF CallRead
  <2>6. ASSUME NEW p \in Paths, NEW r \in Ranges, HopRead(p, r)
        PROVE  Versioned'
    BY <2>6, NewThreadVersioned DEF HopRead
  <2>7. ASSUME NEW t \in threads, Stat(t) \/ Open(t)
        PROVE  Versioned'
    BY <2>7, ThreadVersioned
  <2>8. CASE UNCHANGED vars
    BY <2>1, <2>8 DEF vars
  <2>9. ASSUME NEW calls \in Asked, AskModel(calls)
        PROVE  Versioned'
    BY <2>1, <2>9 DEF AskModel
  <2>10. ASSUME NEW r \in Roles, Start(r)
         PROVE  Versioned'
    BY <2>1, <2>10 DEF Start
  <2> QED
    BY <2>1, <2>3, <2>4, <2>5, <2>6, <2>7, <2>8, <2>9, <2>10
    DEF Next, Step, RoundsSpent, StreamFails, StopCancelled, ToolCancelled, CallFails,
        CallDecides, CallRejected, CallBash, BashReturns, HopsOver, RollEnds, RollRejected, Esc
<1>3. Typed /\ Versioned => StubIsTrue
  <2> SUFFICES ASSUME Typed, Versioned, fine, NEW i \in DOMAIN cache,
                      cache[i].mtime = disk[cache[i].path].mtime
               PROVE  cache[i].body = disk[cache[i].path].body
    BY DEF StubIsTrue
  <2>1. cache[i].path \in Paths /\ cache[i].body \in Int /\ cache[i].mtime \in Int
    BY FileTypes DEF Typed, FileState, Body
  <2> QED
    BY <2>1, FileTypes DEF Typed, Versioned
<1> QED
  BY <1>1, <1>2, <1>3, TypedInvariant, PTL DEF Spec

-----------------------------------------------------------------------------
(* The transcript.                                                         *)

(* The calls of message i are answered by the messages after it, and by    *)
(* them only.                                                              *)
Answered(msgs, i) ==
  /\ i + msgs[i].calls <= Len(msgs)
  /\ \A j \in i + 1 .. i + msgs[i].calls : msgs[j].role = "tool"
  /\ i + msgs[i].calls + 1 <= Len(msgs) => msgs[i + msgs[i].calls + 1].role # "tool"

(* The last n calls of message i have no answer yet, and nothing but       *)
(* answers follows it.                                                     *)
Awaiting(msgs, i, n) ==
  /\ i + msgs[i].calls = Len(msgs) + n
  /\ \A j \in i + 1 .. Len(msgs) : msgs[j].role = "tool"

(* A transcript with n calls of its last round due.                        *)
Transcript(msgs, n) ==
  /\ \A i \in 1 .. Len(msgs) : msgs[i].role = "assistant" =>
       Answered(msgs, i) \/ (n > 0 /\ Awaiting(msgs, i, n))
  /\ n > 0 => \E i \in 1 .. Len(msgs) : msgs[i].role = "assistant" /\ Awaiting(msgs, i, n)
  /\ \A i \in 1 .. Len(msgs) : msgs[i].role = "tool" =>
       i > 1 /\ msgs[i - 1].role \in {"assistant", "tool"}

TranscriptInv == Transcript(messages, Len(todo))

(* The calls of a message are counted.                                     *)
LEMMA CallsType ==
  ASSUME NEW msgs \in Seq(Message)
  PROVE  \A i \in 1 .. Len(msgs) : msgs[i].calls \in Nat
<1>1. \A i \in 1 .. Len(msgs) : msgs[i] \in Message
  BY ElementOfSeq
<1> QED
  BY <1>1 DEF Message

(* What was answered stays so, unless the next message is one answer too   *)
(* many.                                                                   *)
LEMMA AnsweredLasts ==
  ASSUME NEW msgs \in Seq(Message), NEW m \in Message, NEW i \in 1 .. Len(msgs),
         Answered(msgs, i),
         m.role # "tool" \/ i + msgs[i].calls < Len(msgs)
  PROVE  Answered(Append(msgs, m), i)
<1> DEFINE ms == Append(msgs, m)
           c  == msgs[i].calls
<1>1. /\ Len(msgs) \in Nat /\ Len(ms) = Len(msgs) + 1 /\ ms[Len(msgs) + 1] = m
      /\ \A j \in 1 .. Len(msgs) : ms[j] = msgs[j]
  BY AppendType
<1>2. c \in Nat /\ ms[i].calls = c
  BY <1>1, CallsType
<1>3. i + c <= Len(msgs) /\ \A j \in i + 1 .. i + c : msgs[j].role = "tool"
  BY DEF Answered
<1>4. i + c + 1 <= Len(msgs) => msgs[i + c + 1].role # "tool"
  BY DEF Answered
<1>5. m.role # "tool" \/ i + c < Len(msgs)
  OBVIOUS
<1> HIDE DEF ms, c
<1>6. \A j \in i + 1 .. i + c : ms[j].role = "tool"
  <2>1. \A j \in i + 1 .. i + c : j \in 1 .. Len(msgs)
    BY <1>1, <1>2, <1>3
  <2> QED
    BY <1>1, <1>3, <2>1
<1>7. i + c + 1 <= Len(ms) => ms[i + c + 1].role # "tool"
  <2>1. CASE i + c = Len(msgs)
    <3>1. m.role # "tool"
      BY <1>1, <1>5, <2>1
    <3>2. i + c + 1 = Len(msgs) + 1
      BY <2>1
    <3>3. ms[i + c + 1] = m
      BY <1>1, <3>2
    <3> QED
      BY <3>1, <3>3
  <2>2. CASE i + c < Len(msgs)
    <3>1. i + c + 1 \in 1 .. Len(msgs)
      BY <1>1, <1>2, <2>2
    <3> QED
      BY <1>1, <1>4, <3>1
  <2> QED
    BY <1>1, <1>2, <1>3, <2>1, <2>2
<1> QED
  BY <1>1, <1>2, <1>3, <1>6, <1>7 DEF Answered, ms

(* A new round begins after a complete one.                                *)
LEMMA AskedTranscript ==
  ASSUME NEW msgs \in Seq(Message), NEW n \in Nat, Transcript(msgs, 0)
  PROVE  Transcript(Append(msgs, Assistant(n)), n)
<1> DEFINE m == Append(msgs, Assistant(n))
<1>1. /\ Len(msgs) \in Nat /\ m \in Seq(Message) /\ Len(m) = Len(msgs) + 1
      /\ m[Len(msgs) + 1] = Assistant(n) /\ \A i \in 1 .. Len(msgs) : m[i] = msgs[i]
  BY AppendType, MessageTypes
<1>2. \A i \in 1 .. Len(msgs) : msgs[i].calls \in Nat
  BY CallsType
<1>3. Assistant(n).role = "assistant" /\ Assistant(n).calls = n
  BY DEF Assistant
<1> HIDE DEF m
<1>4. ASSUME NEW i \in 1 .. Len(msgs), msgs[i].role = "assistant"
      PROVE  Answered(m, i)
  <2>1. Answered(msgs, i)
    BY <1>4 DEF Transcript
  <2> QED
    BY <1>3, <2>1, AnsweredLasts, MessageTypes DEF m
<1>5. Awaiting(m, Len(msgs) + 1, n)
  BY <1>1, <1>3 DEF Awaiting
<1>6. n = 0 => Answered(m, Len(msgs) + 1)
  BY <1>1, <1>3 DEF Answered
<1>7. ASSUME NEW i \in 1 .. Len(m), m[i].role = "tool"
      PROVE  i > 1 /\ m[i - 1].role \in {"assistant", "tool"}
  <2>1. i \in 1 .. Len(msgs) /\ msgs[i].role = "tool"
    BY <1>1, <1>3, <1>7
  <2>2. i > 1 /\ msgs[i - 1].role \in {"assistant", "tool"}
    BY <2>1 DEF Transcript
  <2> QED
    BY <1>1, <2>1, <2>2
<1>8. Transcript(m, n)
  <2>1. ASSUME NEW i \in 1 .. Len(m), m[i].role = "assistant"
        PROVE  Answered(m, i) \/ (n > 0 /\ Awaiting(m, i, n))
    <3>1. CASE i \in 1 .. Len(msgs)
      BY <1>1, <1>4, <2>1, <3>1
    <3>2. CASE i = Len(msgs) + 1
      BY <1>5, <1>6, <3>2
    <3> QED
      BY <1>1, <3>1, <3>2
  <2>2. Len(msgs) + 1 \in 1 .. Len(m)
    BY <1>1
  <2> QED
    BY <1>1, <1>3, <1>5, <1>7, <2>1, <2>2 DEF Transcript
<1> QED
  BY <1>8 DEF m

(* A nudge does not come between a call and its answer.                    *)
LEMMA NudgedTranscript ==
  ASSUME NEW msgs \in Seq(Message), Transcript(msgs, 0)
  PROVE  Transcript(Append(msgs, UserMessage), 0)
<1> DEFINE m == Append(msgs, UserMessage)
<1>1. /\ Len(msgs) \in Nat /\ m \in Seq(Message) /\ Len(m) = Len(msgs) + 1
      /\ m[Len(msgs) + 1] = UserMessage /\ \A i \in 1 .. Len(msgs) : m[i] = msgs[i]
  BY AppendType, MessageTypes
<1>2. \A i \in 1 .. Len(msgs) : msgs[i].calls \in Nat
  BY CallsType
<1>3. UserMessage.role = "user"
  BY DEF UserMessage
<1> HIDE DEF m
<1>4. ASSUME NEW i \in 1 .. Len(m), m[i].role = "assistant"
      PROVE  Answered(m, i)
  <2>1. i \in 1 .. Len(msgs) /\ msgs[i].role = "assistant"
    BY <1>1, <1>3, <1>4
  <2>2. Answered(msgs, i)
    BY <2>1 DEF Transcript
  <2> QED
    BY <1>3, <2>1, <2>2, AnsweredLasts, MessageTypes DEF m
<1>5. ASSUME NEW i \in 1 .. Len(m), m[i].role = "tool"
      PROVE  i > 1 /\ m[i - 1].role \in {"assistant", "tool"}
  <2>1. i \in 1 .. Len(msgs) /\ msgs[i].role = "tool"
    BY <1>1, <1>3, <1>5
  <2>2. i > 1 /\ msgs[i - 1].role \in {"assistant", "tool"}
    BY <2>1 DEF Transcript
  <2> QED
    BY <1>1, <2>1, <2>2
<1>6. Transcript(m, 0)
  BY <1>4, <1>5 DEF Transcript
<1> QED
  BY <1>6 DEF m

(* An answer is one of the calls that are due.                             *)
LEMMA AnsweredTranscript ==
  ASSUME NEW msgs \in Seq(Message), NEW n \in Nat \ {0}, Transcript(msgs, n)
  PROVE  Transcript(Append(msgs, ToolMessage), n - 1)
<1> DEFINE m == Append(msgs, ToolMessage)
<1>1. /\ Len(msgs) \in Nat /\ m \in Seq(Message) /\ Len(m) = Len(msgs) + 1
      /\ m[Len(msgs) + 1] = ToolMessage /\ \A i \in 1 .. Len(msgs) : m[i] = msgs[i]
  BY AppendType, MessageTypes
<1>2. \A i \in 1 .. Len(msgs) : msgs[i].calls \in Nat
  BY CallsType
<1>3. ToolMessage.role = "tool"
  BY DEF ToolMessage
<1> HIDE DEF m
<1>4. PICK k \in 1 .. Len(msgs) : msgs[k].role = "assistant" /\ Awaiting(msgs, k, n)
  BY DEF Transcript
<1>5. ASSUME NEW i \in 1 .. Len(msgs), Awaiting(msgs, i, n)
      PROVE  Awaiting(m, i, n - 1)
  BY <1>1, <1>2, <1>3, <1>5 DEF Awaiting
<1>6. ASSUME NEW i \in 1 .. Len(msgs), msgs[i].role = "assistant", Answered(msgs, i)
      PROVE  Answered(m, i)
  <2>1. i <= k
    BY <1>4, <1>6 DEF Awaiting
  <2>2. i # k
    BY <1>2, <1>4, <1>6 DEF Awaiting, Answered
  <2>3. k \notin i + 1 .. i + msgs[i].calls
    BY <1>4, <1>6 DEF Answered
  <2>4. i + msgs[i].calls < Len(msgs)
    BY <1>1, <1>2, <2>1, <2>2, <2>3
  <2> QED
    BY <1>6, <2>4, AnsweredLasts, MessageTypes DEF m
<1>7. ASSUME NEW i \in 1 .. Len(msgs), n - 1 = 0, Awaiting(m, i, 0)
      PROVE  Answered(m, i)
  BY <1>1, <1>2, <1>7 DEF Awaiting, Answered
<1>8. ASSUME NEW i \in 1 .. Len(m), m[i].role = "assistant"
      PROVE  Answered(m, i) \/ (n - 1 > 0 /\ Awaiting(m, i, n - 1))
  <2>1. i \in 1 .. Len(msgs) /\ msgs[i].role = "assistant"
    BY <1>1, <1>3, <1>8
  <2>2. Answered(msgs, i) \/ Awaiting(msgs, i, n)
    BY <2>1 DEF Transcript
  <2> QED
    BY <1>5, <1>6, <1>7, <2>1, <2>2
<1>9. ASSUME NEW i \in 1 .. Len(m), m[i].role = "tool"
      PROVE  i > 1 /\ m[i - 1].role \in {"assistant", "tool"}
  <2>1. CASE i \in 1 .. Len(msgs)
    <3>1. i > 1 /\ msgs[i - 1].role \in {"assistant", "tool"}
      BY <1>1, <1>9, <2>1 DEF Transcript
    <3> QED
      BY <1>1, <2>1, <3>1
  <2>2. CASE i = Len(msgs) + 1
    <3>1. msgs[Len(msgs)].role \in {"assistant", "tool"}
      <4>1. CASE k = Len(msgs)
        BY <1>4, <4>1
      <4>2. CASE k < Len(msgs)
        BY <1>1, <1>4, <4>2 DEF Awaiting
      <4> QED
        BY <1>1, <4>1, <4>2
    <3> QED
      BY <1>1, <2>2, <3>1
  <2> QED
    BY <1>1, <2>1, <2>2
<1>10. k \in 1 .. Len(m) /\ m[k].role = "assistant" /\ Awaiting(m, k, n - 1)
  BY <1>1, <1>4, <1>5
<1>11. Transcript(m, n - 1)
  BY <1>8, <1>9, <1>10 DEF Transcript
<1> QED
  BY <1>11 DEF m

(* The result of a call, and the nudge after a round.                      *)
LEMMA ProceedTranscript ==
  ASSUME NEW msgs \in Seq(Message), NEW calls \in Seq(Call), Proceed(msgs, calls),
         Transcript(msgs, Len(calls))
  PROVE  TranscriptInv'
<1>1. CASE calls # <<>> /\ messages' = msgs
  BY <1>1, ProceedFacts DEF TranscriptInv
<1>2. CASE calls = <<>> /\ messages' \in {msgs, Append(msgs, UserMessage)}
  <2>1. Len(calls) = 0
    BY <1>2
  <2>2. Transcript(messages', 0)
    BY <1>2, <2>1, NudgedTranscript
  <2>3. todo' = calls
    BY ProceedFacts
  <2> QED
    BY <2>1, <2>2, <2>3 DEF TranscriptInv
<1> QED
  BY <1>1, <1>2, ProceedFacts

(* A result, for the transcript.                                           *)
LEMMA ResultTranscript ==
  ASSUME Typed, TranscriptInv, todo # <<>>, Result
  PROVE  TranscriptInv'
<1> DEFINE msgs == Append(messages, ToolMessage)
<1>1. messages \in Seq(Message) /\ todo \in Seq(Call)
  BY DEF Typed, Node
<1>2. Tail(todo) \in Seq(Call) /\ Len(Tail(todo)) = Len(todo) - 1
  BY <1>1, HeadTailProperties
<1>3. Len(todo) \in Nat \ {0}
  BY <1>1, EmptySeq
<1>4. msgs \in Seq(Message)
  BY <1>1, AppendType, MessageTypes
<1>5. Transcript(msgs, Len(todo) - 1)
  BY <1>1, <1>3, AnsweredTranscript DEF TranscriptInv
<1>6. Proceed(msgs, Tail(todo))
  BY DEF Result
<1> HIDE DEF msgs
<1> QED
  BY <1>2, <1>4, <1>5, <1>6, ProceedTranscript

(* A node that ends leaves no transcript.                                  *)
LEMMA VanishTranscript ==
  ASSUME Vanish
  PROVE  TranscriptInv'
<1>1. messages' = <<>> /\ todo' = <<>>
  BY DEF Vanish
<1>2. Len(<<>>) = 0
  BY EmptySeq
<1>3. Transcript(<<>>, 0)
  BY <1>2 DEF Transcript
<1> QED
  BY <1>1, <1>2, <1>3 DEF TranscriptInv

(* A transcript with nothing due is what the provider insists on.          *)
LEMMA TranscriptWellFormed ==
  ASSUME NEW msgs \in Seq(Message), Transcript(msgs, 0)
  PROVE  WellFormed(msgs)
<1>1. DOMAIN msgs = 1 .. Len(msgs) /\ Len(msgs) \in Nat
  BY LenProperties
<1>2. ASSUME NEW i \in 1 .. Len(msgs), msgs[i].role = "assistant"
      PROVE  Cardinality({j \in DOMAIN msgs : /\ j > i
                            /\ \A k \in i + 1 .. j : msgs[k].role = "tool"})
               = msgs[i].calls
  <2> DEFINE c == msgs[i].calls
             answers == {j \in DOMAIN msgs : /\ j > i
                                            /\ \A k \in i + 1 .. j : msgs[k].role = "tool"}
  <2>1. c \in Nat
    BY CallsType
  <2>2. /\ i + c <= Len(msgs)
        /\ \A j \in i + 1 .. i + c : msgs[j].role = "tool"
        /\ i + c + 1 <= Len(msgs) => msgs[i + c + 1].role # "tool"
    BY <1>2 DEF Transcript, Answered
  <2> HIDE DEF c
  <2>3. ASSUME NEW j \in answers
        PROVE  j \in i + 1 .. i + c
    <3>1. j \in 1 .. Len(msgs) /\ j > i /\ \A k \in i + 1 .. j : msgs[k].role = "tool"
      BY <1>1, <2>3
    <3>2. ASSUME j > i + c
          PROVE  FALSE
      <4>1. i + c + 1 \in i + 1 .. j /\ i + c + 1 <= Len(msgs)
        BY <1>1, <2>1, <3>1, <3>2
      <4> QED
        BY <2>2, <3>1, <4>1
    <3> QED
      BY <2>1, <3>1, <3>2
  <2>4. ASSUME NEW j \in i + 1 .. i + c
        PROVE  j \in answers
    <3>1. j \in 1 .. Len(msgs) /\ j > i
      BY <1>1, <2>1, <2>2
    <3>2. \A k \in i + 1 .. j : k \in i + 1 .. i + c
      BY <2>1
    <3> QED
      BY <1>1, <2>2, <3>1, <3>2
  <2>5. answers = i + 1 .. i + c
    <3> HIDE DEF answers
    <3> QED
      BY <2>3, <2>4
  <2>6. Cardinality(i + 1 .. i + c) = c
    BY <2>1, FS_Interval
  <2> QED
    BY <2>5, <2>6 DEF c
<1>3. \A i \in 1 .. Len(msgs) : msgs[i].role = "tool" =>
        i > 1 /\ msgs[i - 1].role \in {"assistant", "tool"}
  BY DEF Transcript
<1> QED
  BY <1>1, <1>2, <1>3 DEF WellFormed

(* The transcript, for every step.                                         *)
LEMMA TranscriptStep ==
  ASSUME Typed, TranscriptInv, [Next]_vars
  PROVE  TranscriptInv'
<1>1. CASE UNCHANGED <<messages, todo>>
  BY <1>1 DEF TranscriptInv
<1>2. CASE Vanish
  BY <1>2, VanishTranscript
<1>3. ASSUME at = "ask"
      PROVE  Transcript(messages, 0) /\ todo = <<>> /\ messages \in Seq(Message)
  <2>1. todo = <<>> /\ Len(<<>>) = 0
    BY <1>3, EmptySeq DEF Typed, Node
  <2> QED
    BY <2>1 DEF TranscriptInv, Typed, Node
<1>4. ASSUME NEW calls \in Asked, AskModel(calls)
      PROVE  TranscriptInv'
  <2> DEFINE msgs == Append(messages, Assistant(Len(calls)))
  <2>1. calls \in Seq(Call) /\ Len(calls) \in Nat
    BY AskedTypes
  <2>2. Transcript(msgs, Len(calls))
    BY <1>3, <1>4, <2>1, AskedTranscript DEF AskModel
  <2>3. CASE calls # <<>>
    BY <1>4, <2>2, <2>3 DEF AskModel, TranscriptInv
  <2>4. CASE calls = <<>>
    <3>1. Vanish \/ (messages' = msgs /\ todo' = todo)
      BY <1>4, <2>4 DEF AskModel, Stop, Leave
    <3>2. todo = calls
      BY <1>3, <1>4, <2>4 DEF AskModel
    <3> QED
      BY <1>2, <2>2, <3>1, <3>2 DEF TranscriptInv
  <2> QED
    BY <2>3, <2>4
<1>5. CASE RoundsSpent
  BY <1>1, <1>2, <1>5 DEF RoundsSpent, Stop, Leave
<1>6. CASE StreamFails \/ StopCancelled \/ ToolCancelled \/ CallDecides \/ RollEnds
  BY <1>2, <1>6 DEF StreamFails, StopCancelled, ToolCancelled, CallDecides, RollEnds, Leave
<1>7. CASE CallWrite \/ CallFails \/ CallRejected \/ BashReturns
  <2>1. Result
    BY <1>7 DEF CallWrite, CallFails, CallRejected, BashReturns
  <2>2. todo # <<>>
    BY <1>7 DEF CallWrite, CallFails, CallRejected, BashReturns, Due, Typed, Node
  <2> QED
    BY <2>1, <2>2, ResultTranscript
<1>8. ASSUME NEW t, NEW body, ReadReturns(t, body)
      PROVE  TranscriptInv'
  <2>1. CASE UNCHANGED <<messages, todo>>
    BY <1>1, <2>1
  <2>2. CASE at = "read" /\ Result
    <3>1. todo # <<>>
      BY <2>2 DEF Typed, Node
    <3> QED
      BY <2>2, <3>1, ResultTranscript
  <2> QED
    BY <1>8, <2>1, <2>2 DEF ReadReturns, text
<1>9. ASSUME NEW t \in threads, Stat(t) \/ Open(t)
      PROVE  TranscriptInv'
  BY <1>1, <1>8, <1>9 DEF Stat, Open, text
<1>10. ASSUME NEW p \in Paths, OutsideWrite(p)
       PROVE  TranscriptInv'
  BY <1>1, <1>10 DEF OutsideWrite, text
<1>11. ASSUME NEW p \in Paths, NEW r \in Ranges, HopRead(p, r)
       PROVE  TranscriptInv'
  BY <1>1, <1>11 DEF HopRead
<1>12. ASSUME NEW r \in Roles, Start(r)
       PROVE  TranscriptInv'
  BY <1>1, <1>12 DEF Start, text
<1>13. CASE CallBash \/ CallRead \/ HopsOver \/ RollRejected
  BY <1>1, <1>13 DEF CallBash, CallRead, HopsOver, RollRejected, text
<1>14. CASE Esc
  BY <1>1, <1>2, <1>14 DEF Esc, text
<1>15. CASE UNCHANGED vars
  BY <1>1, <1>15 DEF vars, text
<1> QED
  BY <1>4, <1>5, <1>6, <1>7, <1>9, <1>10, <1>11, <1>12, <1>13, <1>14, <1>15 DEF Next, Step

(* Whatever failed, was nudged, rejected or cut short, each request of a   *)
(* node answers each call of each earlier round once: for any number of    *)
(* rounds, and of calls in a round.                                        *)
THEOREM RequestAlwaysWellFormed == Spec => []RequestWellFormed
<1>1. Init => TranscriptInv
  <2> SUFFICES ASSUME Init
               PROVE  TranscriptInv
    OBVIOUS
  <2>1. messages = <<>> /\ todo = <<>> /\ Len(<<>>) = 0
    BY EmptySeq DEF Init
  <2> QED
    BY <2>1 DEF TranscriptInv, Transcript
<1>2. Typed /\ TranscriptInv /\ [Next]_vars => TranscriptInv'
  BY TranscriptStep
<1>3. Typed /\ TranscriptInv => RequestWellFormed
  <2> SUFFICES ASSUME Typed, TranscriptInv, at \in {"ask", "hop", "roll"}
               PROVE  WellFormed(messages)
    BY DEF RequestWellFormed
  <2>1. todo = <<>> /\ Len(<<>>) = 0 /\ messages \in Seq(Message)
    BY EmptySeq DEF Typed, Node
  <2>2. Transcript(messages, 0)
    BY <2>1 DEF TranscriptInv
  <2> QED
    BY <2>1, <2>2, TranscriptWellFormed
<1> QED
  BY <1>1, <1>2, <1>3, TypedInvariant, PTL DEF Spec

-----------------------------------------------------------------------------
(* Esc.                                                                    *)

BashRoles == {"verifier", "implementer"}

(* Only some roles have bash, and only bash swallows the CancelledError.   *)
(* What is left of such a node opens no request for a structured output,   *)
(* unless it is a verifier whose rounds were spent.                        *)
BashOnly ==
  /\ \A i \in 1 .. Len(todo) : todo[i].tool = "bash" => role \in BashRoles
  /\ at = "bash" => role \in BashRoles

Survivor ==
  cancel /\ role # "idle" =>
    /\ role \in BashRoles
    /\ at \notin {"hop", "hopped"}
    /\ at = "roll" => role = "verifier" /\ round = MaxRounds

EscInv == BashOnly /\ Survivor

(* The calls of a round are of the role's tools.                           *)
LEMMA AskedTools ==
  ASSUME NEW calls \in Asked, NEW i \in 1 .. Len(calls), calls[i].tool = "bash"
  PROVE  role \in BashRoles
<1>1. PICK n \in 0 .. MaxCalls : calls \in [1 .. n -> Calls]
  BY DEF Asked
<1>2. n \in Nat /\ calls \in Seq(Calls)
  BY <1>1, LimitsAssumption, SeqDef
<1>3. calls[i] \in Calls
  BY <1>2, ElementOfSeq
<1>4. "bash" \in Tools
  BY <1>3 DEF Calls
<1> QED
  BY <1>4 DEF Tools, BashRoles

(* The end of a node.                                                      *)
LEMMA VanishEsc ==
  ASSUME Vanish
  PROVE  EscInv'
<1>1. todo' = <<>> /\ Len(<<>>) = 0
  BY EmptySeq DEF Vanish
<1> QED
  BY <1>1 DEF EscInv, BashOnly, Survivor, Vanish

(* The rest of a round is of the same role's tools.                        *)
LEMMA ResultEsc ==
  ASSUME Typed, EscInv, Result, todo # <<>>, UNCHANGED <<role, cancel>>
  PROVE  EscInv'
<1>1. todo' = Tail(todo) /\ at' \in {"call", "ask"}
  BY ProceedFacts DEF Result
<1>2. todo \in Seq(Call)
  BY DEF Typed, Node
<1>3. /\ Len(Tail(todo)) = Len(todo) - 1 /\ Len(todo) \in Nat
      /\ \A i \in 1 .. Len(Tail(todo)) : Tail(todo)[i] = todo[i + 1]
  BY <1>2, HeadTailProperties
<1>4. \A i \in 1 .. Len(Tail(todo)) : Tail(todo)[i].tool = "bash" => role \in BashRoles
  <2>1. \A i \in 1 .. Len(Tail(todo)) : i + 1 \in 1 .. Len(todo)
    BY <1>3
  <2> QED
    BY <1>3, <2>1 DEF EscInv, BashOnly
<1>5. BashOnly'
  BY <1>1, <1>4 DEF BashOnly
<1>6. Survivor'
  BY <1>1 DEF EscInv, Survivor
<1> QED
  BY <1>5, <1>6 DEF EscInv

(* What is left of a node after Esc, for every step.                       *)
LEMMA EscStep ==
  ASSUME Typed, EscInv, [Next]_vars
  PROVE  EscInv'
<1>1. CASE UNCHANGED <<role, at, cancel, round, todo>>
  BY <1>1 DEF EscInv, BashOnly, Survivor
<1>2. ASSUME UNCHANGED <<role, todo>>, at' # "bash", ~cancel'
      PROVE  EscInv'
  BY <1>2 DEF EscInv, BashOnly, Survivor
<1>3. ASSUME NEW r \in Roles, Start(r)
      PROVE  EscInv'
  <2>1. at = "none" /\ todo = <<>> /\ Len(<<>>) = 0
    BY <1>3, EmptySeq DEF Start, Typed, Node
  <2> QED
    BY <1>3, <2>1 DEF Start, text, EscInv, BashOnly, Survivor
<1>4. ASSUME NEW calls \in Asked, AskModel(calls)
      PROVE  EscInv'
  <2>1. ~cancel
    BY <1>4 DEF AskModel
  <2>2. CASE calls # <<>>
    <3>1. at' = "call" /\ todo' = calls /\ UNCHANGED <<role, cancel>>
      BY <1>4, <2>2 DEF AskModel
    <3>2. \A i \in 1 .. Len(calls) : calls[i].tool = "bash" => role \in BashRoles
      BY AskedTools
    <3> QED
      BY <2>1, <3>1, <3>2 DEF EscInv, BashOnly, Survivor
  <2>3. CASE calls = <<>>
    <3>1. \/ Vanish
          \/ at' = AfterRounds /\ UNCHANGED <<role, cancel, todo>>
      BY <1>4, <2>3 DEF AskModel, Stop, Leave
    <3>2. AfterRounds # "bash"
      BY DEF AfterRounds
    <3> QED
      BY <1>2, <2>1, <3>1, <3>2, VanishEsc
  <2> QED
    BY <2>2, <2>3
<1>5. CASE RoundsSpent
  <2>1. CASE Vanish
    BY <2>1, VanishEsc
  <2>2. CASE at' = AfterRounds /\ UNCHANGED <<role, cancel, todo>> /\ round' = MaxRounds
    <3>1. role \in BashRoles => AfterRounds # "hop" /\ (AfterRounds = "roll" => role = "verifier")
      BY DEF AfterRounds, BashRoles
    <3>2. AfterRounds \notin {"bash", "hopped"}
      BY DEF AfterRounds
    <3>3. BashOnly'
      BY <2>2, <3>2 DEF EscInv, BashOnly
    <3>4. Survivor'
      BY <2>2, <3>1, <3>2 DEF EscInv, Survivor
    <3> QED
      BY <3>3, <3>4 DEF EscInv
  <2> QED
    BY <1>5, <2>1, <2>2 DEF RoundsSpent, Stop, Leave
<1>6. CASE StreamFails \/ StopCancelled \/ ToolCancelled \/ CallDecides \/ RollEnds
  BY <1>6, VanishEsc DEF StreamFails, StopCancelled, ToolCancelled, CallDecides, RollEnds, Leave
<1>7. CASE CallWrite \/ CallFails \/ CallRejected \/ BashReturns
  <2>1. Result /\ UNCHANGED <<role, cancel>>
    BY <1>7 DEF CallWrite, CallFails, CallRejected, BashReturns
  <2>2. todo # <<>>
    BY <1>7 DEF CallWrite, CallFails, CallRejected, BashReturns, Due, Typed, Node
  <2> QED
    BY <2>1, <2>2, ResultEsc
<1>8. CASE CallBash
  <2>1. todo # <<>> /\ Head(todo).tool = "bash" /\ todo \in Seq(Call)
    BY <1>8 DEF CallBash, Due, Typed, Node
  <2>2. 1 \in 1 .. Len(todo) /\ Head(todo) = todo[1]
    BY <2>1
  <2>3. role \in BashRoles
    BY <2>1, <2>2 DEF EscInv, BashOnly
  <2> QED
    BY <1>8, <2>3 DEF CallBash, text, EscInv, BashOnly, Survivor
<1>9. CASE CallRead
  BY <1>2, <1>9 DEF CallRead, text
<1>10. ASSUME NEW p \in Paths, NEW r \in Ranges, HopRead(p, r)
       PROVE  EscInv'
  BY <1>2, <1>10 DEF HopRead
<1>11. CASE HopsOver
  <2>1. role # "idle"
    BY <1>11 DEF HopsOver, Typed, Node
  <2>2. ~cancel
    BY <1>11, <2>1 DEF HopsOver, EscInv, Survivor
  <2> QED
    BY <1>2, <1>11, <2>2 DEF HopsOver, text
<1>12. ASSUME NEW t, NEW body, ReadReturns(t, body)
       PROVE  EscInv'
  <2>1. CASE UNCHANGED <<loop, text>>
    BY <1>1, <2>1 DEF loop, text
  <2>2. CASE at = "read" /\ Result /\ UNCHANGED <<role, cancel>>
    <3>1. todo # <<>>
      BY <2>2 DEF Typed, Node
    <3> QED
      BY <2>2, <3>1, ResultEsc
  <2>3. CASE at = "hopped" /\ at' = "hop" /\ UNCHANGED <<role, cancel, todo>>
    <3>1. role # "idle"
      BY <2>3 DEF Typed, Node
    <3>2. ~cancel
      BY <2>3, <3>1 DEF EscInv, Survivor
    <3> QED
      BY <1>2, <2>3, <3>2
  <2> QED
    BY <1>12, <2>1, <2>2, <2>3 DEF ReadReturns
<1>13. ASSUME NEW t \in threads, Stat(t) \/ Open(t)
       PROVE  EscInv'
  BY <1>1, <1>12, <1>13 DEF Stat, Open, loop, text
<1>14. CASE RollRejected
  BY <1>1, <1>14 DEF RollRejected, text
<1>15. CASE Esc
  <2>1. CASE Vanish
    BY <2>1, VanishEsc
  <2>2. CASE at = "bash" /\ UNCHANGED <<role, at, todo>>
    BY <2>2 DEF EscInv, BashOnly, Survivor
  <2> QED
    BY <1>15, <2>1, <2>2 DEF Esc, text
<1>16. ASSUME NEW p \in Paths, OutsideWrite(p)
       PROVE  EscInv'
  BY <1>1, <1>16 DEF OutsideWrite, loop, text
<1>17. CASE UNCHANGED vars
  BY <1>1, <1>17 DEF vars, loop, text
<1> QED
  BY <1>3, <1>4, <1>5, <1>6, <1>7, <1>8, <1>9, <1>10, <1>11, <1>13, <1>14, <1>15, <1>16,
     <1>17 DEF Next, Step

(* Whatever a cancelled node's pending await turns into, it awaits no      *)
(* other tool, begins no round and changes no file, and it opens a request *)
(* for a structured output only as a verifier whose bash swallowed Esc in  *)
(* the last round: for any numbers of rounds and calls.                    *)
THEOREM NothingEverAfterEsc == Spec => NothingAfterEsc
<1> DEFINE Quiet == /\ at' \in {"read", "bash", "hopped"} => at' = at
                    /\ round' <= round
                    /\ OpensRequest => role = "verifier" /\ round = MaxRounds
                    /\ disk' # disk => UNCHANGED <<loop, text>>
<1>1. ASSUME Typed, EscInv, Next, cancel, cancel'
      PROVE  Quiet
  <2>0. round \in Nat
    BY <1>1, LimitsAssumption DEF Typed, Node
  <2>1. CASE Vanish /\ UNCHANGED disk
    BY <2>0, <2>1 DEF Vanish, OpensRequest
  <2>2. ASSUME Result, UNCHANGED <<disk, round>>
        PROVE  Quiet
    BY <2>0, <2>2, ProceedFacts DEF Result, OpensRequest
  <2>3. ASSUME NEW t, NEW body, ReadReturns(t, body), UNCHANGED disk
        PROVE  Quiet
    <3>1. CASE UNCHANGED <<loop, text>>
      BY <2>0, <2>3, <3>1 DEF loop, OpensRequest
    <3>2. CASE ~ UNCHANGED <<loop, text>>
      <4>1. round' = round /\ (Result \/ at' = "hop")
        BY <2>3, <3>2 DEF ReadReturns
      <4> QED
        BY <2>0, <2>2, <2>3, <4>1 DEF OpensRequest
    <3> QED
      BY <3>1, <3>2
  <2>4. ASSUME NEW t \in threads, Stat(t) \/ Open(t)
        PROVE  Quiet
    BY <2>0, <2>3, <2>4 DEF Stat, Open, loop, OpensRequest
  <2>5. CASE RoundsSpent
    <3>1. CASE Vanish
      BY <2>1, <2>5, <3>1 DEF RoundsSpent
    <3>2. CASE ~Vanish
      <4>1. at' = AfterRounds /\ UNCHANGED <<round, disk>> /\ round = MaxRounds
        BY <2>5, <3>2 DEF RoundsSpent, Stop, Leave
      <4>2. role \in BashRoles
        BY <1>1, <2>5 DEF RoundsSpent, Typed, Node, EscInv, Survivor
      <4>3. AfterRounds \in {"roll", "none"} /\ (AfterRounds = "roll" => role = "verifier")
        BY <4>2 DEF AfterRounds, BashRoles
      <4> QED
        BY <2>0, <4>1, <4>3 DEF OpensRequest
    <3> QED
      BY <3>1, <3>2
  <2>6. CASE StreamFails \/ StopCancelled \/ ToolCancelled \/ CallDecides \/ RollEnds
    BY <2>1, <2>6 DEF StreamFails, StopCancelled, ToolCancelled, CallDecides, RollEnds, Leave
  <2>7. CASE CallFails \/ CallRejected \/ BashReturns
    BY <2>2, <2>7 DEF CallFails, CallRejected, BashReturns
  <2>8. ASSUME NEW p \in Paths, OutsideWrite(p)
        PROVE  Quiet
    BY <2>0, <2>8 DEF OutsideWrite, loop, OpensRequest
  <2>9. CASE RollRejected
    <3>1. role = "verifier" /\ round = MaxRounds
      BY <1>1, <2>9 DEF RollRejected, Typed, Node, EscInv, Survivor
    <3> QED
      BY <2>0, <2>9, <3>1 DEF RollRejected
  <2>10. CASE Esc \/ \E r \in Roles : Start(r)
    BY <1>1, <2>10 DEF Esc, Start
  <2>11. CASE \/ \E calls \in Asked : AskModel(calls)
              \/ \E p \in Paths, r \in Ranges : HopRead(p, r)
              \/ CallWrite \/ CallBash \/ CallRead
    BY <1>1, <2>11 DEF AskModel, HopRead, CallWrite, CallBash, CallRead
  <2>12. CASE HopsOver
    BY <1>1, <2>12 DEF HopsOver, Typed, Node, EscInv, Survivor
  <2> HIDE DEF Quiet
  <2> QED
    BY <1>1, <2>4, <2>5, <2>6, <2>7, <2>8, <2>9, <2>10, <2>11, <2>12
    DEF Next, Step
<1>2. Typed /\ EscInv /\ [Next]_vars => [cancel /\ cancel' => Quiet]_vars
  BY <1>1
<1>3. Init => EscInv
  <2> SUFFICES ASSUME Init
               PROVE  EscInv
    OBVIOUS
  <2>1. todo = <<>> /\ Len(<<>>) = 0
    BY EmptySeq DEF Init
  <2> QED
    BY <2>1 DEF Init, EscInv, BashOnly, Survivor
<1>4. Typed /\ EscInv /\ [Next]_vars => EscInv'
  BY EscStep
<1> QED
  BY <1>2, <1>3, <1>4, TypedInvariant, PTL DEF Spec, NothingAfterEsc

=============================================================================
