---------------------------- MODULE StreamProofs ----------------------------
(***************************************************************************)
(* From the provider to the screen: what a caller of LLMClient.stream can  *)
(* rely on, and what a turn's block shows of the events it leads to.       *)
(***************************************************************************)
EXTENDS LLMStream, ChatView, SequenceTheorems, FiniteSetTheorems, TLAPS

-----------------------------------------------------------------------------
(***************************************************************************)
(* LLMStream, for every number of retries, calls and pieces and every      *)
(* budget: a caller hears one attempt, in time, and the calls whole.  What *)
(* makes it so is that the parser of an attempt, while it reads, holds     *)
(* exactly what the provider has sent, in a form that depends on how the   *)
(* provider names its calls.                                               *)
(***************************************************************************)

(* The client's own fields.                                                *)
ClientOK ==
  /\ phase \in Reading \cup Ends
  /\ attempt \in 0 .. MaxRetries
  /\ clock \in 0 .. MaxClock /\ idle \in 0 .. IdleTimeout
  /\ deadline \in Nat
  /\ heardAt \in -1 .. MaxClock
  /\ style \in Styles

(* Everything heard is from this attempt: it is the reason for Final.      *)
Ours == \A i \in DOMAIN heard : heard[i].attempt = attempt

(* The budget is the one the call began with.                              *)
InBudget == deadline = CallTimeout /\ heardAt < CallTimeout

(* The key of the c-th call of a round.                                    *)
KeyOf(c) == IF style = "nameless" THEN -1 - c ELSE c

(* What a call consists of when m pieces of it were sent.                  *)
Whole(c, m) == [i \in 1 .. m |-> c]

(* The parser has the calls in order, each with its pieces, and knows the  *)
(* call that a piece without a name belongs to.                            *)
Parsed ==
  LET n == Len(sent.pieces)
  IN  /\ Len(parser.order) = n /\ \A c \in 1 .. n : parser.order[c] = KeyOf(c)
      /\ DOMAIN parser.args = {KeyOf(c) : c \in 1 .. n}
      /\ \A c \in 1 .. n : parser.args[KeyOf(c)] = Whole(c, sent.pieces[c])
      /\ style = "shared" => /\ DOMAIN parser.key = {0} \cap (0 .. n - 1)
                             /\ n > 0 => parser.key[0] = n
      /\ style # "shared" => /\ DOMAIN parser.key = 1 .. n
                             /\ \A c \in 1 .. n : parser.key[c] = KeyOf(c)

(* Text, then the calls, then the rest.                                    *)
Told ==
  LET n == Len(sent.pieces)
  IN  IF ~sent.finished
      THEN \A i \in DOMAIN heard : heard[i].kind = "text"
      ELSE \E k \in Nat :
             /\ k + n < Len(heard)
             /\ \A i \in 1 .. k : heard[i].kind = "text"
             /\ \A c \in 1 .. n : /\ heard[k + c].kind = "call"
                                  /\ heard[k + c].args = Whole(c, sent.pieces[c])
             /\ \A i \in k + n + 1 .. Len(heard) : heard[i].kind \in {"finish", "usage"}

SentOK ==
  /\ sent \in Sent
  /\ parser.order \in Seq(Int)
  /\ heard \in Seq(Events)

StreamInv ==
  /\ ClientOK /\ SentOK /\ Ours /\ InBudget
  /\ phase # "timeout" => Parsed /\ Told

-----------------------------------------------------------------------------
(* Sequences.                                                              *)

(* Whole arguments of m pieces are m pieces.                               *)
LEMMA WholeIsSeq ==
  \A m \in Nat, c \in Nat : Whole(c, m) \in Seq(Int) /\ Len(Whole(c, m)) = m
BY IsASeq DEF Whole

(* Each of them is one of a call that a round may have.                    *)
LEMMA WholeIsPieces == \A m \in Nat, c \in Ids : Whole(c, m) \in Seq(Ids)
BY IsASeq DEF Whole

(* The next piece of a call makes its arguments whole up to there.         *)
LEMMA WholeGrows ==
  \A m \in Nat, c \in Nat : Append(Whole(c, m), c) = Whole(c, m + 1)
<1> SUFFICES ASSUME NEW m \in Nat, NEW c \in Nat
             PROVE  Append(Whole(c, m), c) = Whole(c, m + 1)
  OBVIOUS
<1>1. Whole(c, m) \in Seq(Int) /\ Len(Whole(c, m)) = m /\ c \in Int
  BY WholeIsSeq
<1>2. Whole(c, m + 1) \in Seq(Int) /\ Len(Whole(c, m + 1)) = m + 1
  BY WholeIsSeq
<1>3. /\ Append(Whole(c, m), c) \in Seq(Int) /\ Len(Append(Whole(c, m), c)) = m + 1
      /\ \A i \in 1 .. m : Append(Whole(c, m), c)[i] = Whole(c, m)[i]
      /\ Append(Whole(c, m), c)[m + 1] = c
  BY <1>1, AppendProperties
<1>4. \A i \in 1 .. m + 1 : Append(Whole(c, m), c)[i] = Whole(c, m + 1)[i]
  BY <1>3 DEF Whole
<1> QED
  BY <1>2, <1>3, <1>4, SeqEqual

(* The first piece.                                                        *)
LEMMA WholeOfOne == \A c \in Nat : Whole(c, 1) = <<c>>
BY DEF Whole

(* A frame that hands over one event.                                      *)
LEMMA OneEvent ==
  \A e \in Events : <<e>> \in Seq(Events) /\ Len(<<e>>) = 1 /\ <<e>>[1] = e
OBVIOUS

(* An event belongs to the attempt that made it.                           *)
LEMMA EventFields ==
  \A k, w : /\ Event(k, w).kind = k /\ Event(k, w).args = w
            /\ Event(k, w).attempt = attempt
BY DEF Event

(* Two calls never share a key of the parser, in no style.                 *)
LEMMA KeysDiffer ==
  \A c, d \in Nat : KeyOf(c) \in Int /\ (KeyOf(c) = KeyOf(d) => c = d)
BY DEF KeyOf

-----------------------------------------------------------------------------
LEMMA InitStreams == StreamInit => StreamInv
<1> SUFFICES ASSUME StreamInit PROVE StreamInv
  OBVIOUS
<1>1. ClientOK
  BY TimesAssumption DEF StreamInit, ClientOK, Reading
<1>2. SentOK /\ Ours /\ InBudget
  BY TimesAssumption DEF StreamInit, SentOK, Sent, Ours, InBudget, NothingSent, NewParser
<1>3. Len(sent.pieces) = 0 /\ sent.finished = FALSE
  BY DEF StreamInit, NothingSent
<1>4. Parsed
  BY <1>3 DEF StreamInit, Parsed, NewParser
<1>5. Told
  BY <1>3 DEF StreamInit, Told
<1> QED
  BY <1>1, <1>2, <1>4, <1>5 DEF StreamInv

(* Nothing heard, sent or parsed: the phase, the clock or the idle time    *)
(* may change.                                                             *)
Quiet == UNCHANGED <<attempt, deadline, parser, heard, heardAt, style, sent>>

(* A step in which nothing is heard.                                       *)
LEMMA QuietStreams == StreamInv /\ Quiet /\ ClientOK' /\ phase # "timeout" => StreamInv'
<1> SUFFICES ASSUME StreamInv, Quiet, ClientOK', phase # "timeout" PROVE StreamInv'
  OBVIOUS
<1> USE DEF StreamInv, Quiet
<1>1. SentOK' /\ Ours' /\ InBudget'
  BY DEF SentOK, Sent, Ours, InBudget
<1>2. Parsed'
  BY DEF Parsed, KeyOf
<1>3. Told'
  BY DEF Told
<1> QED
  BY <1>1, <1>2, <1>3

LEMMA QuietSteps ==
  StreamInv /\ (Connected \/ HttpError \/ Tick \/ Comment \/ Closed \/ Cancel) => StreamInv'
<1> SUFFICES ASSUME StreamInv, Connected \/ HttpError \/ Tick \/ Comment \/ Closed \/ Cancel
             PROVE  StreamInv'
  OBVIOUS
<1>1. ClientOK
  BY DEF StreamInv
<1>2. Quiet /\ phase # "timeout"
  BY DEF Connected, HttpError, Tick, Comment, Closed, Cancel, Over, Quiet, Reading, Receiving
<1>3. clock' \in 0 .. MaxClock /\ idle' \in 0 .. IdleTimeout
  BY <1>1, TimesAssumption
  DEF ClientOK, Connected, HttpError, Tick, Comment, Closed, Cancel, Over
<1>4. phase' \in Reading \cup Ends
  BY <1>1 DEF ClientOK, Connected, HttpError, Tick, Comment, Closed, Cancel, Over, Reading, Ends
<1>5. ClientOK'
  BY <1>1, <1>2, <1>3, <1>4 DEF ClientOK, Quiet
<1> QED
  BY <1>2, <1>5, QuietStreams

(* A connection that breaks: the attempt that is made next has heard       *)
(* nothing, for its predecessor would have been the last one otherwise.    *)
LEMMA FailureStreams == StreamInv /\ TransportFails => StreamInv'
<1> SUFFICES ASSUME StreamInv, TransportFails PROVE StreamInv'
  OBVIOUS
<1>0. ClientOK /\ SentOK /\ Ours /\ InBudget
  BY DEF StreamInv
<1>1. CASE Final
  <2>1. Quiet /\ phase # "timeout" /\ phase' = "transport" /\ UNCHANGED <<clock, idle>>
    BY <1>1 DEF TransportFails, Over, Quiet, Reading
  <2>2. ClientOK'
    BY <1>0, <2>1 DEF ClientOK, Quiet, Ends
  <2> QED
    BY <2>1, <2>2, QuietStreams
<1>2. CASE ~Final
  <2>1. /\ phase' = "connect" /\ attempt' = attempt + 1 /\ idle' = 0
        /\ parser' = NewParser /\ sent' = NothingSent
        /\ UNCHANGED <<deadline, heard, heardAt, clock, style>>
    BY <1>2 DEF TransportFails, Retry
  <2>2. attempt < MaxRetries /\ DOMAIN heard = {}
    <3>1. ~(attempt >= MaxRetries) /\ \A i \in DOMAIN heard : heard[i].attempt # attempt
      BY <1>2 DEF Final
    <3>2. attempt < MaxRetries
      BY <1>0, <3>1, TimesAssumption DEF ClientOK
    <3>3. \A i \in DOMAIN heard : FALSE
      BY <1>0, <3>1 DEF Ours
    <3> QED
      BY <3>2, <3>3
  <2>3. ClientOK'
    BY <1>0, <2>1, <2>2, TimesAssumption DEF ClientOK, Reading
  <2>4. Len(sent'.pieces) = 0 /\ sent'.finished = FALSE /\ sent'.pieces = << >>
    BY <2>1 DEF NothingSent
  <2>5. SentOK' /\ Ours' /\ InBudget'
    <3>0. parser'.order \in Seq(Int) /\ heard' \in Seq(Events)
      BY <1>0, <2>1 DEF NewParser, SentOK
    <3>a. sent' \in Sent
      BY <2>1, <2>4, TimesAssumption DEF NothingSent, Sent
    <3>1. SentOK'
      BY <3>0, <3>a DEF SentOK
    <3>2. Ours'
      BY <2>1, <2>2 DEF Ours
    <3> QED
      BY <1>0, <2>1, <3>1, <3>2 DEF InBudget
  <2>6. Parsed'
    BY <2>1, <2>4 DEF Parsed, NewParser
  <2>7. Told'
    BY <2>1, <2>2, <2>4 DEF Told
  <2> QED
    BY <2>3, <2>5, <2>6, <2>7 DEF StreamInv
<1> QED
  BY <1>1, <1>2

-----------------------------------------------------------------------------
(* Frames.                                                                 *)

(* What a frame does: the budget is spent, or the events are handed over.  *)
Spent == phase' = "timeout" /\ UNCHANGED <<attempt, idle, deadline, parser, heard, heardAt>>

Heard(p, events) ==
  /\ clock < deadline /\ idle' = 0
  /\ parser' = p /\ heard' = heard \o events
  /\ heardAt' \in {heardAt, clock}
  /\ UNCHANGED <<phase, attempt, deadline>>

(* A frame is the end of the budget, or hands its events over in time.     *)
LEMMA FrameOutcomes ==
  \A p, events : StreamInv /\ Frame(p, events) =>
    /\ phase = "read" /\ UNCHANGED <<clock, style>>
    /\ Spent \/ Heard(p, events)
    /\ ClientOK' /\ InBudget'
<1> SUFFICES ASSUME NEW p, NEW events, StreamInv, Frame(p, events)
             PROVE  /\ phase = "read" /\ UNCHANGED <<clock, style>>
                    /\ Spent \/ Heard(p, events)
                    /\ ClientOK' /\ InBudget'
  OBVIOUS
<1>0. ClientOK /\ InBudget
  BY DEF StreamInv
<1>1. phase = "read" /\ UNCHANGED <<clock, style>>
  BY DEF Frame, Receiving
<1>2. Spent \/ Heard(p, events)
  <2>1. CASE clock >= deadline
    BY <2>1 DEF Frame, Over, Spent
  <2>2. CASE clock < deadline
    BY <1>0, <2>2 DEF Frame, Heard, ClientOK
  <2> QED
    BY <1>0, <2>1, <2>2 DEF ClientOK
<1>3. CASE Spent
  BY <1>0, <1>1, <1>3 DEF Spent, ClientOK, InBudget, Ends
<1>4. CASE Heard(p, events)
  <2>1. heardAt' \in -1 .. MaxClock /\ heardAt' < CallTimeout /\ idle' \in 0 .. IdleTimeout
    BY <1>0, <1>4, TimesAssumption DEF Heard, ClientOK, InBudget
  <2> QED
    BY <1>0, <1>1, <1>4, <2>1 DEF Heard, ClientOK, InBudget
<1> QED
  BY <1>1, <1>2, <1>3, <1>4

(* Once the budget is spent, only the types matter.                        *)
LEMMA SpentStreams ==
  StreamInv /\ Spent /\ ClientOK' /\ InBudget'
    /\ sent' \in Sent => StreamInv'
BY DEF StreamInv, Spent, SentOK, Ours

(* What is heard in an attempt comes from it.                              *)
LEMMA HeardOurs ==
  \A p, events :
    StreamInv /\ Heard(p, events) /\ events \in Seq(Events)
      /\ (\A i \in DOMAIN events : events[i].attempt = attempt)
    => /\ heard' \in Seq(Events) /\ Ours'
       /\ Len(heard') = Len(heard) + Len(events)
       /\ \A i \in 1 .. Len(heard) : heard'[i] = heard[i]
       /\ \A i \in 1 .. Len(events) : heard'[Len(heard) + i] = events[i]
<1> SUFFICES ASSUME NEW p, NEW events, StreamInv, Heard(p, events), events \in Seq(Events),
                    \A i \in DOMAIN events : events[i].attempt = attempt
             PROVE  /\ heard' \in Seq(Events) /\ Ours'
                    /\ Len(heard') = Len(heard) + Len(events)
                    /\ \A i \in 1 .. Len(heard) : heard'[i] = heard[i]
                    /\ \A i \in 1 .. Len(events) : heard'[Len(heard) + i] = events[i]
  OBVIOUS
<1>1. heard \in Seq(Events) /\ Ours /\ heard' = heard \o events /\ attempt' = attempt
  BY DEF StreamInv, SentOK, Heard
<1>2. /\ heard' \in Seq(Events)
      /\ Len(heard') = Len(heard) + Len(events)
      /\ \A i \in 1 .. Len(heard) : heard'[i] = heard[i]
      /\ \A i \in 1 .. Len(events) : heard'[Len(heard) + i] = events[i]
  BY <1>1, ConcatProperties
<1>3. ASSUME NEW i \in 1 .. Len(heard) + Len(events) PROVE heard'[i].attempt = attempt
  <2>1. CASE i <= Len(heard)
    BY <1>1, <1>2, <2>1 DEF Ours
  <2>2. CASE i > Len(heard)
    <3>1. PICK j \in 1 .. Len(events) : i = Len(heard) + j
      BY <1>1, <2>2
    <3> QED
      BY <1>2, <3>1
  <2> QED
    BY <1>1, <2>1, <2>2
<1>4. Ours'
  BY <1>1, <1>2, <1>3 DEF Ours
<1> QED
  BY <1>2, <1>4

(* A frame without an event of a kind told apart, while the calls are not  *)
(* handed over yet; and the count of tokens, when they are.                *)
LEMMA PlainFrames == StreamInv /\ (EmptyFrame \/ Text \/ Usage) => StreamInv'
<1> SUFFICES ASSUME StreamInv, EmptyFrame \/ Text \/ Usage PROVE StreamInv'
  OBVIOUS
<1>0. ClientOK /\ SentOK /\ sent' = sent /\ (phase # "timeout" => Parsed /\ Told)
  BY DEF StreamInv, EmptyFrame, Text, Usage
<1>1. PICK events \in {<< >>, <<Event("text", << >>)>>, <<Event("usage", << >>)>>} :
        /\ Frame(parser, events)
        /\ events = <<Event("text", << >>)>> => ~sent.finished
        /\ events = <<Event("usage", << >>)>> => sent.finished
  BY DEF EmptyFrame, Text, Usage, Event
<1>2. /\ phase = "read" /\ UNCHANGED <<clock, style>>
      /\ Spent \/ Heard(parser, events)
      /\ ClientOK' /\ InBudget'
  BY <1>1, FrameOutcomes
<1>3. CASE Spent
  BY <1>0, <1>2, <1>3, SpentStreams DEF SentOK, Sent
<1>4. CASE Heard(parser, events)
  <2>1. Event("text", << >>) \in Events /\ Event("usage", << >>) \in Events
    BY <1>0 DEF Event, Events, ClientOK
  <2>2. events \in Seq(Events)
    <3>1. << >> \in Seq(Events)
      OBVIOUS
    <3>2. <<Event("text", << >>)>> \in Seq(Events) /\ <<Event("usage", << >>)>> \in Seq(Events)
      BY <2>1, OneEvent
    <3> QED
      BY <3>1, <3>2
  <2>3. \A i \in DOMAIN events : events[i].attempt = attempt
    BY DEF Event
  <2>4. /\ heard' \in Seq(Events) /\ Ours'
        /\ Len(heard') = Len(heard) + Len(events)
        /\ \A i \in 1 .. Len(heard) : heard'[i] = heard[i]
        /\ \A i \in 1 .. Len(events) : heard'[Len(heard) + i] = events[i]
    BY <1>4, <2>2, <2>3, HeardOurs
  <2>5. parser' = parser /\ SentOK'
    BY <1>0, <1>4, <2>4 DEF Heard, SentOK
  <2>6. Parsed'
    BY <1>0, <1>2, <2>5 DEF Parsed, KeyOf
  <2>7. Told'
    <3>1. CASE events = << >>
      <4>1. heard' = heard
        BY <1>0, <1>4, <3>1 DEF Heard, SentOK
      <4> QED
        BY <1>0, <1>2, <4>1 DEF Told
    <3>2. CASE events = <<Event("text", << >>)>>
      <4>1. ~sent.finished
        BY <1>1, <3>2
      <4>2. Len(events) = 1 /\ events[1].kind = "text"
        BY <3>2 DEF Event
      <4>3. \A i \in 1 .. Len(heard) : heard[i].kind = "text"
        BY <1>0, <1>2, <4>1 DEF Told, SentOK, Sent
      <4>4. Len(heard) \in Nat /\ DOMAIN heard' = 1 .. Len(heard) + 1
        BY <1>0, <2>4, <4>2 DEF SentOK, Sent
      <4>5. \A i \in 1 .. Len(heard) + 1 : i \in 1 .. Len(heard) \/ i = Len(heard) + 1
        BY <4>4
      <4>6. heard'[Len(heard) + 1].kind = "text"
        BY <2>4, <4>2
      <4>7. \A i \in DOMAIN heard' : heard'[i].kind = "text"
        BY <2>4, <4>3, <4>4, <4>5, <4>6
      <4> QED
        BY <1>0, <4>1, <4>7 DEF Told
    <3>3. CASE events = <<Event("usage", << >>)>>
      <4> DEFINE n == Len(sent.pieces)
      <4>1. sent.finished
        BY <1>1, <3>3
      <4>2. Len(events) = 1 /\ events[1].kind = "usage"
        BY <3>3 DEF Event
      <4>3. PICK k \in Nat :
              /\ k + n < Len(heard)
              /\ \A i \in 1 .. k : heard[i].kind = "text"
              /\ \A c \in 1 .. n : /\ heard[k + c].kind = "call"
                                   /\ heard[k + c].args = Whole(c, sent.pieces[c])
              /\ \A i \in k + n + 1 .. Len(heard) : heard[i].kind \in {"finish", "usage"}
        BY <1>0, <1>2, <4>1 DEF Told
      <4>4. n \in Nat /\ Len(heard) \in Nat /\ Len(heard') = Len(heard) + 1
            /\ heard'[Len(heard) + 1].kind = "usage"
        BY <1>0, <2>4, <4>2 DEF SentOK, Sent
      <4>5. k + n < Len(heard')
        BY <4>3, <4>4
      <4>6. \A i \in 1 .. k : heard'[i].kind = "text"
        BY <2>4, <4>3, <4>4
      <4>7. \A c \in 1 .. n : /\ heard'[k + c].kind = "call"
                             /\ heard'[k + c].args = Whole(c, sent.pieces[c])
        <5> SUFFICES ASSUME NEW c \in 1 .. n
                     PROVE  heard'[k + c] = heard[k + c]
          BY <4>3
        <5>1. k + c \in 1 .. Len(heard)
          BY <4>3, <4>4
        <5> QED
          BY <2>4, <5>1
      <4>8. \A i \in k + n + 1 .. Len(heard') : heard'[i].kind \in {"finish", "usage"}
        BY <2>4, <4>3, <4>4
      <4> HIDE DEF n
      <4> QED
        BY <1>0, <4>1, <4>5, <4>6, <4>7, <4>8 DEF Told, n
    <3> QED
      BY <3>1, <3>2, <3>3
  <2> QED
    BY <1>2, <2>4, <2>5, <2>6, <2>7 DEF StreamInv
<1> QED
  BY <1>2, <1>3, <1>4

(* The reason to finish hands over what the parser has, which is what was  *)
(* sent.                                                                   *)
LEMMA FinishStreams == StreamInv /\ FinishReason => StreamInv'
<1> SUFFICES ASSUME StreamInv, FinishReason PROVE StreamInv'
  OBVIOUS
<1> DEFINE n == Len(sent.pieces)
           events == Finishing
<1>0. ClientOK /\ SentOK /\ (phase # "timeout" => Parsed /\ Told)
  BY DEF StreamInv
<1>1. ~sent.finished /\ Frame(parser, events) /\ sent' = [sent EXCEPT !.finished = TRUE]
  BY DEF FinishReason
<1>2. /\ phase = "read" /\ UNCHANGED <<clock, style>>
      /\ Spent \/ Heard(parser, events)
      /\ ClientOK' /\ InBudget'
  BY <1>1, FrameOutcomes
<1>3. sent' \in Sent
  BY <1>0, <1>1 DEF SentOK, Sent
<1>4. CASE Spent
  BY <1>2, <1>3, <1>4, SpentStreams
<1>5. CASE Heard(parser, events)
  <2> DEFINE calls == [i \in 1 .. n |-> Event("call", Whole(i, sent.pieces[i]))]
             last == <<Event("finish", << >>)>>
  <2>1. n \in Nat /\ \A i \in 1 .. n : sent.pieces[i] \in Nat
    BY <1>0 DEF SentOK, Sent
  <2>2. DOMAIN parser.order = 1 .. n
        /\ \A i \in 1 .. n : parser.args[parser.order[i]] = Whole(i, sent.pieces[i])
    BY <1>0, <1>2 DEF SentOK, Sent, Parsed
  <2>3. events = calls \o last
    BY <2>2 DEF Finishing
  <2>4. \A i \in 1 .. n : Event("call", Whole(i, sent.pieces[i])) \in Events
    <3>1. \A i \in 1 .. n : Whole(i, sent.pieces[i]) \in Seq(Ids)
      <4> SUFFICES ASSUME NEW i \in 1 .. n PROVE Whole(i, sent.pieces[i]) \in Seq(Ids)
        OBVIOUS
      <4>1. i \in Ids /\ sent.pieces[i] \in Nat
        BY <1>0, <2>1, TimesAssumption DEF SentOK, Sent, Ids
      <4> QED
        BY <4>1, WholeIsPieces
    <3>2. \A w \in Seq(Ids) : Event("call", w) \in Events
      BY <1>0 DEF Event, Events, ClientOK
    <3> QED
      BY <3>1, <3>2
  <2>5. calls \in Seq(Events) /\ Len(calls) = n
    BY <2>1, <2>4, IsASeq
  <2>x. \A i \in 1 .. n : calls[i] = Event("call", Whole(i, sent.pieces[i]))
    OBVIOUS
  <2>6. Event("finish", << >>) \in Events
    BY <1>0 DEF Event, Events, ClientOK
  <2>7. last \in Seq(Events) /\ Len(last) = 1 /\ last[1] = Event("finish", << >>)
    BY <2>6
  <2> HIDE DEF last, calls
  <2>8. /\ events \in Seq(Events) /\ Len(events) = n + 1
        /\ \A i \in 1 .. n : events[i] = calls[i]
        /\ events[n + 1] = last[1]
    <3>1. /\ calls \o last \in Seq(Events) /\ Len(calls \o last) = Len(calls) + Len(last)
          /\ \A i \in 1 .. Len(calls) : (calls \o last)[i] = calls[i]
          /\ \A i \in 1 .. Len(last) : (calls \o last)[Len(calls) + i] = last[i]
      BY <2>5, <2>7, ConcatProperties
    <3>2. 1 \in 1 .. Len(last)
      BY <2>7
    <3> HIDE DEF events, n
    <3> QED
      BY <2>3, <2>5, <2>7, <3>1, <3>2
  <2>9. \A i \in 1 .. n : /\ events[i].kind = "call" /\ events[i].attempt = attempt
                         /\ events[i].args = Whole(i, sent.pieces[i])
    <3> SUFFICES ASSUME NEW i \in 1 .. n
                 PROVE  /\ events[i].kind = "call" /\ events[i].attempt = attempt
                        /\ events[i].args = Whole(i, sent.pieces[i])
      OBVIOUS
    <3>1. events[i] = Event("call", Whole(i, sent.pieces[i]))
      BY <2>x, <2>8
    <3> HIDE DEF events
    <3> QED
      BY <3>1, EventFields
  <2>10. events[n + 1].kind = "finish" /\ events[n + 1].attempt = attempt
    BY <2>7, <2>8 DEF Event
  <2> HIDE DEF events
  <2>11. \A i \in DOMAIN events : events[i].attempt = attempt
    BY <2>1, <2>8, <2>9, <2>10
  <2>12. /\ heard' \in Seq(Events) /\ Ours'
         /\ Len(heard') = Len(heard) + Len(events)
         /\ \A i \in 1 .. Len(heard) : heard'[i] = heard[i]
         /\ \A i \in 1 .. Len(events) : heard'[Len(heard) + i] = events[i]
    <3>1. events \in Seq(Events)
      BY <2>8
    <3> HIDE DEF n
    <3> QED
      BY <1>5, <2>11, <3>1, HeardOurs
  <2>13. sent'.pieces = sent.pieces /\ sent'.finished /\ parser' = parser
    BY <1>0, <1>1, <1>5 DEF SentOK, Sent, Heard
  <2>14. SentOK'
    BY <1>0, <1>3, <2>12, <2>13 DEF SentOK
  <2>15. Parsed'
    BY <1>0, <1>2, <2>13 DEF Parsed, KeyOf
  <2>16. Told'
    <3> DEFINE k == Len(heard)
    <3>1. k \in Nat /\ k + n < Len(heard')
      BY <1>0, <2>1, <2>8, <2>12 DEF SentOK, Sent
    <3>2. \A i \in 1 .. k : heard'[i].kind = "text"
      <4>1. \A i \in DOMAIN heard : heard[i].kind = "text"
        BY <1>0, <1>1, <1>2 DEF Told
      <4>2. DOMAIN heard = 1 .. k
        BY <1>0 DEF SentOK
      <4> QED
        BY <2>12, <4>1, <4>2
    <3>3. \A c \in 1 .. n : /\ heard'[k + c].kind = "call"
                           /\ heard'[k + c].args = Whole(c, sent.pieces[c])
      <4> SUFFICES ASSUME NEW c \in 1 .. n PROVE heard'[k + c] = events[c]
        BY <2>9
      <4>1. c \in 1 .. Len(events)
        BY <2>1, <2>8
      <4> QED
        BY <2>12, <4>1
    <3>4. \A i \in k + n + 1 .. Len(heard') : heard'[i].kind \in {"finish", "usage"}
      <4> SUFFICES ASSUME NEW i \in k + n + 1 .. Len(heard')
                   PROVE  heard'[i].kind = "finish"
        OBVIOUS
      <4>0. Len(heard') = k + n + 1
        BY <2>1, <2>8, <2>12, <3>1
      <4>1. i = k + (n + 1) /\ n + 1 \in 1 .. Len(events)
        BY <2>1, <2>8, <3>1, <4>0
      <4> QED
        BY <2>10, <2>12, <4>1
    <3> HIDE DEF k
    <3> QED
      BY <2>13, <3>1, <3>2, <3>3, <3>4 DEF Told
  <2> QED
    BY <1>2, <2>12, <2>14, <2>15, <2>16 DEF StreamInv
<1> QED
  BY <1>2, <1>4, <1>5

(* The pieces after one more of call c.                                    *)
LEMMA SendingGrows ==
  ASSUME SentOK, NEW c \in 1 .. Len(sent.pieces) + 1
  PROVE  LET n == Len(sent.pieces)
             m == IF c = n + 1 THEN 1 ELSE sent.pieces[c] + 1
         IN  /\ Sending(c) \in Seq(Nat \ {0})
             /\ Len(Sending(c)) = IF c = n + 1 THEN n + 1 ELSE n
             /\ Sending(c)[c] = m
             /\ \A d \in 1 .. n : d # c => Sending(c)[d] = sent.pieces[d]
<1> DEFINE n == Len(sent.pieces)
<1>1. sent.pieces \in Seq(Nat \ {0}) /\ n \in Nat
  BY DEF SentOK, Sent
<1>2. CASE c = n + 1
  <2>1. Sending(c) = Append(sent.pieces, 1)
    BY <1>2 DEF Sending
  <2> QED
    <3>1. /\ Append(sent.pieces, 1) \in Seq(Nat \ {0})
          /\ Len(Append(sent.pieces, 1)) = n + 1
          /\ \A i \in 1 .. n : Append(sent.pieces, 1)[i] = sent.pieces[i]
          /\ Append(sent.pieces, 1)[n + 1] = 1
      BY <1>1, AppendProperties
    <3> QED
      BY <1>2, <2>1, <3>1
<1>3. CASE c # n + 1
  <2>1. Sending(c) = [sent.pieces EXCEPT ![c] = sent.pieces[c] + 1] /\ c \in 1 .. n
    BY <1>1, <1>3 DEF Sending
  <2>2. sent.pieces[c] + 1 \in Nat \ {0}
    BY <1>1, <2>1
  <2> QED
    BY <1>1, <1>3, <2>1, <2>2, ExceptSeq
<1> QED
  BY <1>2, <1>3

(* However the provider names its calls, a piece gets the key of the call  *)
(* it belongs to, and the parser takes it for a new call when it is one.   *)
LEMMA PiecesAreKnown ==
  ASSUME SentOK, Parsed, style \in Styles,
         NEW c \in 1 .. Len(sent.pieces) + 1, NEW id \in {NoId, c},
         style = "shared" => c >= Len(sent.pieces),
         c = Len(sent.pieces) + 1 => (id = NoId) = (style = "nameless"),
         c # Len(sent.pieces) + 1 /\ id = c => style = "shared"
  PROVE  /\ Key(id, IF style = "shared" THEN 0 ELSE c) = KeyOf(c)
         /\ KeyOf(c) \notin DOMAIN parser.args <=> c = Len(sent.pieces) + 1
<1> DEFINE n == Len(sent.pieces)
           index == IF style = "shared" THEN 0 ELSE c
<1>1. n \in Nat /\ c \in Nat \ {0}
  BY DEF SentOK, Sent
<1>2. Key(id, index) = KeyOf(c)
  <2>1. CASE id # NoId
    BY <1>1, <2>1 DEF Key, KeyOf, NoId
  <2>2. CASE id = NoId /\ style = "shared"
    <3>1. c = n /\ n > 0
      BY <1>1, <2>2
    <3>2. 0 \in DOMAIN parser.key /\ parser.key[0] = n
      BY <1>1, <2>2, <3>1 DEF Parsed
    <3> QED
      BY <2>2, <3>1, <3>2 DEF Key, KeyOf
  <2>3. CASE id = NoId /\ style # "shared" /\ c # n + 1
    <3>1. c \in DOMAIN parser.key /\ parser.key[c] = KeyOf(c)
      BY <1>1, <2>3 DEF Parsed
    <3> QED
      BY <2>3, <3>1 DEF Key
  <2>4. CASE id = NoId /\ style # "shared" /\ c = n + 1
    <3>1. c \notin DOMAIN parser.key /\ style = "nameless"
      BY <1>1, <2>4 DEF Parsed
    <3> QED
      BY <2>4, <3>1 DEF Key, KeyOf
  <2> QED
    BY <2>1, <2>2, <2>3, <2>4
<1>3. KeyOf(c) \notin DOMAIN parser.args <=> c = n + 1
  <2>1. DOMAIN parser.args = {KeyOf(d) : d \in 1 .. n}
    BY DEF Parsed
  <2>2. \A d \in 1 .. n : d \in Nat
    BY <1>1
  <2>3. KeyOf(c) \in DOMAIN parser.args <=> c \in 1 .. n
    BY <1>1, <2>1, <2>2, KeysDiffer
  <2> QED
    BY <1>1, <2>3
<1> QED
  BY <1>2, <1>3

(* A piece of a call that has begun or of the next one keeps the parser    *)
(* and what was sent alike.                                                *)
LEMMA PieceParsed ==
  ASSUME SentOK, Parsed, style' = style,
         NEW c \in 1 .. Len(sent.pieces) + 1, NEW id,
         Key(id, IF style = "shared" THEN 0 ELSE c) = KeyOf(c),
         KeyOf(c) \notin DOMAIN parser.args <=> c = Len(sent.pieces) + 1,
         style = "shared" => c >= Len(sent.pieces),
         parser' = Collected(id, IF style = "shared" THEN 0 ELSE c, c),
         sent'.pieces = Sending(c)
  PROVE  Parsed' /\ parser'.order \in Seq(Int)
<1> DEFINE n == Len(sent.pieces)
           k == KeyOf(c)
           index == IF style = "shared" THEN 0 ELSE c
<1>1. n \in Nat /\ c \in Nat \ {0} /\ k \in Int
  <2>1. n \in Nat
    BY DEF SentOK, Sent
  <2>2. c \in Nat \ {0}
    BY <2>1
  <2> QED
    BY <2>1, <2>2, KeysDiffer
<1>2. /\ parser'.args = [j \in DOMAIN parser.args \cup {k} |->
                           IF j # k THEN parser.args[j]
                           ELSE IF c = n + 1 THEN <<c>> ELSE Append(parser.args[k], c)]
      /\ parser'.order = IF c = n + 1 THEN Append(parser.order, k) ELSE parser.order
      /\ parser'.key = [i \in DOMAIN parser.key \cup {index} |->
                           IF i = index THEN k ELSE parser.key[i]]
  BY DEF Collected
<1>3. /\ sent'.pieces \in Seq(Nat \ {0})
      /\ Len(sent'.pieces) = IF c = n + 1 THEN n + 1 ELSE n
      /\ sent'.pieces[c] = IF c = n + 1 THEN 1 ELSE sent.pieces[c] + 1
      /\ \A d \in 1 .. n : d # c => sent'.pieces[d] = sent.pieces[d]
  BY SendingGrows
<1> DEFINE m == Len(sent'.pieces)
<1>4. m \in Nat /\ n <= m /\ c \in 1 .. m /\ \A d \in 1 .. m : d # c => d \in 1 .. n
  BY <1>1, <1>3
<1>5. \A d \in 1 .. m : d \in Nat /\ (d # c => KeyOf(d) # k)
  BY <1>1, <1>4, KeysDiffer
<1>6. parser'.order \in Seq(Int) /\ Len(parser'.order) = m
      /\ \A d \in 1 .. m : parser'.order[d] = KeyOf(d)
  <2>1. /\ parser.order \in Seq(Int) /\ Len(parser.order) = n
        /\ \A d \in 1 .. n : parser.order[d] = KeyOf(d)
    BY DEF SentOK, Sent, Parsed
  <2>2. CASE c = n + 1
    <3> HIDE DEF k
    <3>1. parser'.order = Append(parser.order, k) /\ m = n + 1
      BY <1>2, <1>3, <2>2
    <3>2. /\ parser'.order \in Seq(Int) /\ Len(parser'.order) = n + 1
          /\ \A d \in 1 .. n : parser'.order[d] = parser.order[d]
          /\ parser'.order[n + 1] = k
      <4>1. k \in Int /\ parser.order \in Seq(Int)
        BY <1>1, <2>1 DEF k
      <4>2. /\ Append(parser.order, k) \in Seq(Int)
            /\ Len(Append(parser.order, k)) = Len(parser.order) + 1
            /\ \A d \in 1 .. Len(parser.order) : Append(parser.order, k)[d] = parser.order[d]
            /\ Append(parser.order, k)[Len(parser.order) + 1] = k
        BY <4>1, AppendProperties
      <4> HIDE DEF n
      <4> QED
        BY <2>1, <3>1, <4>2
    <3> QED
      BY <1>4, <2>1, <2>2, <3>1, <3>2 DEF k
  <2>3. CASE c # n + 1
    BY <1>2, <1>3, <2>1, <2>3
  <2> QED
    BY <2>2, <2>3
<1>7. DOMAIN parser'.args = {KeyOf(d) : d \in 1 .. m}
  <2>1. DOMAIN parser.args = {KeyOf(d) : d \in 1 .. n}
    BY DEF Parsed
  <2>2. DOMAIN parser'.args = {KeyOf(d) : d \in 1 .. n} \cup {KeyOf(c)}
    BY <1>2, <2>1
  <2>3. 1 .. m = (1 .. n) \cup {c}
    BY <1>1, <1>3, <1>4
  <2> QED
    BY <2>2, <2>3
<1>8. \A d \in 1 .. m : parser'.args[KeyOf(d)] = Whole(d, sent'.pieces[d])
  <2> SUFFICES ASSUME NEW d \in 1 .. m
               PROVE  parser'.args[KeyOf(d)] = Whole(d, sent'.pieces[d])
    OBVIOUS
  <2>1. CASE d # c
    <3>1. d \in 1 .. n /\ KeyOf(d) # k
      BY <1>4, <1>5, <2>1
    <3>2. KeyOf(d) \in DOMAIN parser.args /\ parser.args[KeyOf(d)] = Whole(d, sent.pieces[d])
      BY <3>1 DEF Parsed
    <3> QED
      BY <1>2, <1>3, <2>1, <3>1, <3>2
  <2>2. CASE d = c /\ c = n + 1
    <3>1. parser'.args[k] = <<c>>
      BY <1>2, <2>2
    <3> QED
      BY <1>1, <1>3, <2>2, <3>1, WholeOfOne
  <2>3. CASE d = c /\ c # n + 1
    <3>1. c \in 1 .. n /\ sent.pieces[c] \in Nat
      BY <1>1, <2>3 DEF SentOK, Sent
    <3>2. parser.args[k] = Whole(c, sent.pieces[c])
      BY <3>1 DEF Parsed
    <3>3. parser'.args[k] = Append(Whole(c, sent.pieces[c]), c)
      BY <1>2, <2>3, <3>2
    <3> QED
      BY <1>1, <1>3, <2>3, <3>1, <3>3, WholeGrows
  <2> QED
    BY <2>1, <2>2, <2>3
<1>9. style = "shared" => /\ DOMAIN parser'.key = {0} \cap (0 .. m - 1)
                          /\ m > 0 => parser'.key[0] = m
  <2> SUFFICES ASSUME style = "shared"
               PROVE  DOMAIN parser'.key = {0} \cap (0 .. m - 1) /\ parser'.key[0] = m
    OBVIOUS
  <2>1. DOMAIN parser.key \subseteq {0} /\ c = m /\ m > 0
    BY <1>1, <1>3, <1>4 DEF Parsed
  <2>2. DOMAIN parser'.key = {0} /\ parser'.key[0] = k
    BY <1>2, <2>1
  <2>3. {0} \cap (0 .. m - 1) = {0}
    BY <1>4, <2>1
  <2> QED
    BY <2>1, <2>2, <2>3 DEF KeyOf
<1>10. style # "shared" => /\ DOMAIN parser'.key = 1 .. m
                           /\ \A d \in 1 .. m : parser'.key[d] = KeyOf(d)
  <2> SUFFICES ASSUME style # "shared"
               PROVE  /\ DOMAIN parser'.key = 1 .. m
                      /\ \A d \in 1 .. m : parser'.key[d] = KeyOf(d)
    OBVIOUS
  <2>1. DOMAIN parser.key = 1 .. n /\ \A d \in 1 .. n : parser.key[d] = KeyOf(d)
    BY DEF Parsed
  <2>2. 1 .. m = (1 .. n) \cup {c}
    BY <1>1, <1>3, <1>4
  <2> QED
    BY <1>2, <2>1, <2>2
<1>11. \A d : KeyOf(d)' = KeyOf(d)
  BY DEF KeyOf
<1> QED
  BY <1>6, <1>7, <1>8, <1>9, <1>10, <1>11 DEF Parsed, KeyOf

LEMMA PieceStreams == \A c \in Ids : StreamInv /\ Piece(c) => StreamInv'
<1> SUFFICES ASSUME NEW c \in Ids, StreamInv, Piece(c) PROVE StreamInv'
  OBVIOUS
<1> DEFINE n == Len(sent.pieces)
           index == IF style = "shared" THEN 0 ELSE c
<1>0. ClientOK /\ SentOK /\ Ours /\ (phase # "timeout" => Parsed /\ Told)
  BY DEF StreamInv
<1>1. /\ ~sent.finished /\ c \in 1 .. n + 1
      /\ style = "shared" => c >= n
      /\ sent' = [sent EXCEPT !.pieces = Sending(c)]
  BY DEF Piece
<1>2. PICK id \in {NoId, c} :
        /\ c = n + 1 => (id = NoId) = (style = "nameless")
        /\ c # n + 1 /\ id = c => style = "shared"
        /\ Frame(Collected(id, index, c), << >>)
  BY DEF Piece
<1>3. /\ phase = "read" /\ UNCHANGED <<clock, style>>
      /\ Spent \/ Heard(Collected(id, index, c), << >>)
      /\ ClientOK' /\ InBudget'
  BY <1>2, FrameOutcomes
<1>4. sent'.pieces = Sending(c) /\ sent'.finished = sent.finished /\ sent' \in Sent
  <2>1. Sending(c) \in Seq(Nat \ {0})
    BY <1>0, <1>1, SendingGrows
  <2>2. sent'.pieces = Sending(c) /\ sent'.finished = sent.finished
    BY <1>0, <1>1 DEF SentOK, Sent
  <2>3. Len(Sending(c)) <= MaxCalls
    <3>1. n \in Nat /\ n <= MaxCalls
      BY <1>0 DEF SentOK, Sent
    <3>2. Len(Sending(c)) = IF c = n + 1 THEN c ELSE n
      BY <1>0, <1>1, SendingGrows
    <3>3. c <= MaxCalls
      BY TimesAssumption DEF Ids
    <3> QED
      BY <3>1, <3>2, <3>3
  <2>4. sent' \in Sent
    BY <1>0, <1>1, <2>1, <2>2, <2>3 DEF SentOK, Sent
  <2> QED
    BY <2>2, <2>4
<1>5. CASE Spent
  BY <1>3, <1>4, <1>5, SpentStreams
<1>6. CASE Heard(Collected(id, index, c), << >>)
  <2>1. heard' = heard /\ attempt' = attempt /\ parser' = Collected(id, index, c)
    BY <1>0, <1>6 DEF Heard, SentOK
  <2>2. Parsed /\ Told /\ style \in Styles
    BY <1>0, <1>3 DEF ClientOK
  <2>3. /\ Key(id, index) = KeyOf(c)
        /\ KeyOf(c) \notin DOMAIN parser.args <=> c = n + 1
    BY <1>0, <1>1, <1>2, <2>2, PiecesAreKnown
  <2>4. Parsed' /\ parser'.order \in Seq(Int)
    BY <1>0, <1>1, <1>3, <1>4, <2>1, <2>2, <2>3, PieceParsed
  <2>5. SentOK' /\ Ours'
    BY <1>0, <1>4, <2>1, <2>4 DEF SentOK, Ours
  <2>6. Told'
    BY <1>1, <1>4, <2>1, <2>2 DEF Told
  <2> QED
    BY <1>3, <2>4, <2>5, <2>6 DEF StreamInv
<1> QED
  BY <1>3, <1>5, <1>6

LEMMA StutterStreams == StreamInv /\ UNCHANGED stream => StreamInv'
<1> SUFFICES ASSUME StreamInv, UNCHANGED stream PROVE StreamInv'
  OBVIOUS
<1> USE DEF stream, client, StreamInv
<1>1. ClientOK' /\ SentOK' /\ Ours' /\ InBudget'
  BY DEF ClientOK, SentOK, Ours, InBudget
<1>2. phase' # "timeout" => Parsed' /\ Told'
  BY DEF Parsed, Told, KeyOf
<1> QED
  BY <1>1, <1>2

LEMMA StreamInvariant == StreamSpec => []StreamInv
<1>1. StreamInv /\ [StreamNext]_stream => StreamInv'
  BY QuietSteps, FailureStreams, PlainFrames, FinishStreams, PieceStreams, StutterStreams
  DEF StreamNext
<1> QED
  BY <1>1, InitStreams, PTL DEF StreamSpec

-----------------------------------------------------------------------------
(* What the parser holds of what was sent has its types, for a round has   *)
(* no more than MaxCalls calls.                                            *)
LEMMA ParsedIsTyped == SentOK /\ Parsed /\ style \in Styles => ParserTyped
<1> DEFINE n == Len(sent.pieces)
<1> SUFFICES ASSUME SentOK, Parsed, style \in Styles PROVE ParserTyped
  OBVIOUS
<1>1. n \in Nat /\ n <= MaxCalls /\ \A c \in 1 .. n : sent.pieces[c] \in Nat /\ c \in Ids
  BY TimesAssumption DEF SentOK, Sent, Ids
<1>2. \A c \in 1 .. n : KeyOf(c) \in Keys
  BY <1>1, TimesAssumption DEF KeyOf, Keys, Ids
<1>3. /\ parser.order \in Seq(Int) /\ DOMAIN parser.order = 1 .. n
      /\ \A c \in 1 .. n : parser.order[c] = KeyOf(c)
  BY <1>1 DEF SentOK, Parsed
<1>4. DOMAIN parser.args = {KeyOf(c) : c \in 1 .. n}
      /\ \A c \in 1 .. n : parser.args[KeyOf(c)] = Whole(c, sent.pieces[c])
  BY DEF Parsed
<1>5. parser.order \in Seq(Keys)
  <2>1. parser.order = [c \in 1 .. n |-> parser.order[c]]
    BY <1>3
  <2>2. \A c \in 1 .. n : parser.order[c] \in Keys
    BY <1>2, <1>3
  <2> HIDE DEF n
  <2> QED
    BY <1>1, <2>1, <2>2, IsASeq
<1>6. DOMAIN parser.args = {parser.order[i] : i \in DOMAIN parser.order}
  BY <1>3, <1>4
<1>7. \A k \in DOMAIN parser.args : parser.args[k] \in Seq(Ids)
  <2> SUFFICES ASSUME NEW c \in 1 .. n PROVE parser.args[KeyOf(c)] \in Seq(Ids)
    BY <1>4
  <2> QED
    BY <1>1, <1>4, WholeIsPieces
<1>8. /\ DOMAIN parser.key \subseteq 0 .. MaxCalls
      /\ \A i \in DOMAIN parser.key : parser.key[i] \in DOMAIN parser.args
  <2>1. CASE style = "shared"
    <3>1. DOMAIN parser.key = {0} \cap (0 .. n - 1) /\ (n > 0 => parser.key[0] = n)
      BY <2>1 DEF Parsed
    <3>2. n > 0 => n \in DOMAIN parser.args
      BY <1>1, <1>4, <2>1 DEF KeyOf
    <3> QED
      BY <1>1, <3>1, <3>2, TimesAssumption
  <2>2. CASE style # "shared"
    BY <1>1, <1>4, <2>2, TimesAssumption DEF Parsed
  <2> QED
    BY <2>1, <2>2
<1> QED
  BY <1>5, <1>6, <1>7, <1>8 DEF ParserTyped

(* Nothing is parsed once the budget is spent.                             *)
LEMMA SpentKeepsParser == StreamInv /\ StreamNext /\ phase' = "timeout" => UNCHANGED parser
<1> SUFFICES ASSUME StreamInv, StreamNext, phase' = "timeout" PROVE parser' = parser
  OBVIOUS
<1>1. \A p, events : Frame(p, events) => parser' = parser
  <2> SUFFICES ASSUME NEW p, NEW events, Frame(p, events) PROVE parser' = parser
    OBVIOUS
  <2>1. phase = "read" /\ (Spent \/ Heard(p, events))
    BY FrameOutcomes
  <2> QED
    BY <2>1 DEF Spent, Heard
<1>2. CASE EmptyFrame \/ Text \/ FinishReason \/ Usage
  BY <1>1, <1>2 DEF EmptyFrame, Text, FinishReason, Usage
<1>3. ASSUME NEW c, Piece(c) PROVE parser' = parser
  BY <1>1, <1>3 DEF Piece
<1>4. CASE TransportFails
  BY <1>4 DEF TransportFails, Over, Retry
<1>5. CASE Connected \/ HttpError \/ Tick \/ Comment \/ Closed \/ Cancel
  BY <1>5 DEF Connected, HttpError, Tick, Comment, Closed, Cancel, Over
<1> QED
  BY <1>2, <1>3, <1>4, <1>5 DEF StreamNext

(* The fields of the client and of the parser have their types, and so do  *)
(* the events handed over: there are never more attempts than the retries  *)
(* allow, and the parser's order, its arguments and its keys are of the    *)
(* same calls, in every style.  A parser that is fed gets its types from   *)
(* Parsed; one whose budget is spent keeps those it has.                   *)
THEOREM StreamTypeCorrect == StreamSpec => []StreamTypeOK
<1>1. StreamInv /\ phase # "timeout" => ParserTyped
  BY ParsedIsTyped DEF StreamInv, ClientOK
<1>2. StreamInit => ParserTyped
  BY <1>1, InitStreams DEF StreamInit
<1>3. StreamInv /\ StreamInv' /\ ParserTyped /\ [StreamNext]_stream => ParserTyped'
  <2> SUFFICES ASSUME StreamInv, StreamInv', ParserTyped, [StreamNext]_stream
               PROVE  ParserTyped'
    OBVIOUS
  <2>1. CASE phase' # "timeout"
    <3>1. SentOK' /\ Parsed' /\ (style \in Styles)'
      BY <2>1 DEF StreamInv, ClientOK
    <3>2. (SentOK /\ Parsed /\ style \in Styles => ParserTyped)'
      BY ParsedIsTyped, PTL
    <3> QED
      BY <3>1, <3>2
  <2>2. CASE phase' = "timeout"
    <3>1. parser' = parser
      BY <2>2, SpentKeepsParser DEF stream, client
    <3> QED
      BY <3>1 DEF ParserTyped
  <2> QED
    BY <2>1, <2>2
<1>4. StreamInv /\ ParserTyped => StreamTypeOK
  BY DEF StreamInv, ClientOK, SentOK, StreamTypeOK
<1> QED
  BY <1>2, <1>3, <1>4, StreamInvariant, PTL DEF StreamSpec

(* What the caller hears comes from one attempt, however often the         *)
(* connection breaks (client.py:28-30).                                    *)
THEOREM AlwaysHeardFromOneAttempt == StreamSpec => []HeardFromOneAttempt
<1>1. StreamInv => HeardFromOneAttempt
  BY DEF StreamInv, Ours, HeardFromOneAttempt
<1> QED
  BY <1>1, StreamInvariant, PTL

(* Nothing is handed over when the budget is spent, whatever the retries   *)
(* and the waits were (client.py:32-40).                                   *)
THEOREM NeverAfterBudget == StreamSpec => []NothingAfterBudget
<1>1. StreamInv => NothingAfterBudget
  BY DEF StreamInv, InBudget, NothingAfterBudget
<1> QED
  BY <1>1, StreamInvariant, PTL

(* The calls handed over are those that were sent in the attempt, whole    *)
(* and in order, for each way to name them (_OpenAIChatParser).            *)
THEOREM CallsAlwaysWhole == StreamSpec => []CallsArriveWhole
<1>1. StreamInv => CallsArriveWhole
  <2> DEFINE n == Len(sent.pieces)
  <2> SUFFICES ASSUME StreamInv, sent.finished, phase # "timeout"
               PROVE  \E k \in 0 .. Len(heard) - n :
                        /\ \A i \in DOMAIN heard : heard[i].kind = "call" <=> i \in k + 1 .. k + n
                        /\ \A c \in 1 .. n : heard[k + c].args = [i \in 1 .. sent.pieces[c] |-> c]
    BY DEF CallsArriveWhole
  <2>1. Told /\ n \in Nat /\ Len(heard) \in Nat /\ DOMAIN heard = 1 .. Len(heard)
    BY DEF StreamInv, SentOK, Sent
  <2>2. PICK k \in Nat :
          /\ k + n < Len(heard)
          /\ \A i \in 1 .. k : heard[i].kind = "text"
          /\ \A c \in 1 .. n : /\ heard[k + c].kind = "call"
                               /\ heard[k + c].args = Whole(c, sent.pieces[c])
          /\ \A i \in k + n + 1 .. Len(heard) : heard[i].kind \in {"finish", "usage"}
    BY <2>1 DEF Told
  <2> HIDE DEF n
  <2>3. k \in 0 .. Len(heard) - n
    BY <2>1, <2>2
  <2>4. ASSUME NEW i \in DOMAIN heard
        PROVE  heard[i].kind = "call" <=> i \in k + 1 .. k + n
    <3>1. CASE i \in 1 .. k
      BY <2>1, <2>2, <3>1
    <3>2. CASE i \in k + n + 1 .. Len(heard)
      BY <2>1, <2>2, <3>2
    <3>3. CASE i \in k + 1 .. k + n
      <4>1. PICK c \in 1 .. n : i = k + c
        BY <2>1, <2>2, <3>3
      <4> QED
        BY <2>2, <3>3, <4>1
    <3> QED
      BY <2>1, <2>2, <3>1, <3>2, <3>3
  <2>5. \A c \in 1 .. n : heard[k + c].args = [i \in 1 .. sent.pieces[c] |-> c]
    BY <2>2 DEF Whole
  <2> QED
    BY <2>3, <2>4, <2>5
<1> QED
  BY <1>1, StreamInvariant, PTL

-----------------------------------------------------------------------------
(***************************************************************************)
(* ChatView, for every set of nodes and tool calls and however many steps  *)
(* a frame shows: between two frames the log shows the last turn, and its  *)
(* questions can be answered as long as an answer is awaited.  A block is  *)
(* compared with its turn only while the turn runs or has a new status, so *)
(* what makes it so is that nothing can change once it is not looked at.   *)
(***************************************************************************)

(* A change of the segments leaves every question where it is.             *)
KeepsQuestions(s, t) ==
  \A i \in DOMAIN s : IsQuery(s[i]) => i \in DOMAIN t /\ t[i] = s[i]

Changes(s, t) == t \in Seq(Segments) /\ KeepsQuestions(s, t)

(* What drives a turn, and what the screen is told of it.                  *)
WorkInv ==
  /\ worker \in {"driving", "parked"} <=> processing
  /\ processing <=> LastStatus = "running"
  /\ worker = "unwinding" => LastStatus = "paused"
  /\ worker = "parked" <=> awaiting
  /\ awaiting => Segs # <<>> /\ IsQuery(Last(Segs))

(* The block shows the segments as they are, and the conclusion.           *)
Shows(b) ==
  /\ b.status = LastStatus
  /\ [i \in DOMAIN b.items |-> b.items[i].seg] = Segs
  /\ b.ending = ConclusionText

HasPicker(b) == \E i \in DOMAIN b.items : IsPicker(b.items[i])

(* A picker of the block has the question of its place.                    *)
InPlace(b) ==
  \A i \in DOMAIN b.items : IsPicker(b.items[i]) =>
    i \in DOMAIN Segs /\ Segs[i] = b.items[i].seg /\ IsQuery(Segs[i])

(* Between frames.                                                         *)
Fresh(b) ==
  /\ b.status = LastStatus
  /\ LastStatus # "paused" => Shows(b)
  /\ HasPicker(b) <=> awaiting
  /\ awaiting => IsPicker(Last(b.items))

(* The block of the last turn, when there is one.  One that is not looked  *)
(* at again has no picker, and shows all there will be.                    *)
BlockInv ==
  /\ Len(blocks) <= Turn
  /\ scheduled = 0 => Len(blocks) = Turn
  /\ Len(blocks) = Turn /\ Turn > 0 =>
       LET b == blocks[Turn]
       IN  /\ InPlace(b)
           /\ b.status # "running" => ~ HasPicker(b)
           /\ b.status \in {"done", "failed"} => Shows(b)
           /\ scheduled = 0 => Fresh(b)

ViewInv == TypeOK /\ WorkInv /\ BlockInv

-----------------------------------------------------------------------------
(* Segments.                                                               *)

(* Each kind of segment the reducer makes is a Segment.                    *)
LEMMA SegmentTypes ==
  /\ \A n \in Nodes \cup Graphs : LabelSegment(n) \in Segments
  /\ \A c \in CallIds : ToolCallView(c) \in Segments
  /\ \A k \in Nat : QuerySegment(k) \in Segments
  /\ \A k \in Streams : Stream(k) \in Segments
  /\ AnswerSegment \in Segments /\ CardSegment \in Segments
BY DEF LabelSegment, ToolCallView, QuerySegment, Stream, AnswerSegment, CardSegment, Segments

(* So is a header or a tool call with another status, and a header with    *)
(* one retry more.                                                         *)
LEMMA SegmentUpdates ==
  ASSUME NEW x \in Segments
  PROVE  /\ \A st \in {"running", "done", "failed", "parked", "interrupted"} :
              IsLabel(x) => [x EXCEPT !.st = st] \in Segments
         /\ \A st \in {"running", "done", "failed"} :
              IsTool(x) => [x EXCEPT !.st = st] \in Segments
         /\ IsLabel(x) => [x EXCEPT !.retry = @ + 1] \in Segments
<1>1. CASE x \in [kind : {"label"}, node : Nodes \cup Graphs, retry : Nat,
                  st : {"running", "done", "failed", "parked", "interrupted"}]
  BY <1>1 DEF Segments, IsLabel, IsTool
<1>2. CASE x \in [kind : {"tool"}, id : CallIds, st : {"running", "done", "failed"}]
  BY <1>2 DEF Segments, IsLabel, IsTool
<1>3. CASE x \in [kind : {"query"}, no : Nat]
  BY <1>3 DEF Segments, IsLabel, IsTool
<1>4. CASE x \in [kind : Streams \cup {"answer", "card"}]
  BY <1>4, StreamsAssumption DEF Segments, IsLabel, IsTool
<1> QED
  BY <1>1, <1>2, <1>3, <1>4 DEF Segments

(* A change of segments place by place, of no question.                    *)
LEMMA ChangesInPlace ==
  ASSUME NEW s \in Seq(Segments), NEW t, DOMAIN t = DOMAIN s,
         t = [i \in DOMAIN s |-> t[i]],
         \A i \in DOMAIN s : t[i] \in Segments /\ (IsQuery(s[i]) => t[i] = s[i])
  PROVE  Changes(s, t)
<1>1. DOMAIN s = 1 .. Len(s) /\ Len(s) \in Nat
  BY LenProperties
<1>2. t \in [1 .. Len(s) -> Segments]
  BY <1>1
<1>3. t \in Seq(Segments)
  BY <1>1, <1>2, SeqDef
<1> QED
  BY <1>3 DEF Changes, KeepsQuestions

(* A segment appended is the last one.                                     *)
LEMMA ChangesAppend ==
  ASSUME NEW s, NEW g, Changes(s, g), NEW x \in Segments
  PROVE  Changes(s, Append(g, x)) /\ Last(Append(g, x)) = x /\ Append(g, x) # <<>>
<1>1. /\ g \in Seq(Segments) /\ Len(g) \in Nat /\ DOMAIN g = 1 .. Len(g)
  BY LenProperties DEF Changes
<1>2. /\ Append(g, x) \in Seq(Segments) /\ Len(Append(g, x)) = Len(g) + 1
      /\ DOMAIN Append(g, x) = 1 .. Len(g) + 1
      /\ Append(g, x)[Len(g) + 1] = x
      /\ \A i \in 1 .. Len(g) : Append(g, x)[i] = g[i]
  BY <1>1
<1> QED
  BY <1>1, <1>2, EmptySeq DEF Changes, KeepsQuestions, Last

(* Cards appended change no question.                                      *)
LEMMA ChangesConcat ==
  ASSUME NEW s, NEW g, Changes(s, g), NEW n \in Nat
  PROVE  Changes(s, g \o [i \in 1 .. n |-> CardSegment])
<1> DEFINE cards == [i \in 1 .. n |-> CardSegment]
<1>1. /\ g \in Seq(Segments) /\ Len(g) \in Nat /\ DOMAIN g = 1 .. Len(g)
  BY LenProperties DEF Changes
<1>2. cards \in [1 .. n -> Segments]
  BY SegmentTypes
<1>3. cards \in Seq(Segments)
  BY <1>2, SeqDef
<1> HIDE DEF cards
<1>4. /\ g \o cards \in Seq(Segments) /\ Len(g \o cards) = Len(g) + Len(cards)
      /\ \A i \in 1 .. Len(g) : (g \o cards)[i] = g[i] /\ i \in DOMAIN (g \o cards)
  BY <1>1, <1>3
<1>5. Changes(s, g \o cards)
  BY <1>1, <1>4 DEF Changes, KeepsQuestions
<1> QED
  BY <1>5 DEF cards

LEMMA ChangesNothing ==
  ASSUME NEW s \in Seq(Segments)
  PROVE  Changes(s, s)
BY DEF Changes, KeepsQuestions

LEMMA ChangesTwice ==
  ASSUME NEW s, NEW g, NEW t, Changes(s, g), Changes(g, t)
  PROVE  Changes(s, t)
BY DEF Changes, KeepsQuestions

(* The reducer touches no question that is there.                          *)
LEMMA StreamedChanges ==
  ASSUME NEW s \in Seq(Segments), NEW x \in Segments
  PROVE  Changes(s, Streamed(s, x))
BY ChangesAppend, ChangesNothing DEF Streamed

LEMMA EnteredChanges ==
  ASSUME NEW s \in Seq(Segments), NEW n \in Nodes \cup Graphs
  PROVE  Changes(s, NodeEntered(s, n))
<1>1. CASE s # <<>> /\ IsLabel(Last(s)) /\ Last(s).node = n
  <2> DEFINE last == Len(s)
             x == [s[last] EXCEPT !.retry = @ + 1]
             t == [s EXCEPT ![last] = x]
  <2>1. /\ last \in DOMAIN s /\ s[last] \in Segments /\ IsLabel(s[last])
        /\ \A i \in DOMAIN s : s[i] \in Segments
    BY <1>1, LenProperties, ElementOfSeq, EmptySeq DEF Last
  <2>2. x \in Segments /\ ~ IsQuery(s[last])
    BY <2>1, SegmentUpdates DEF IsLabel, IsQuery
  <2>3. NodeEntered(s, n) = t
    BY <1>1 DEF NodeEntered
  <2> HIDE DEF x, last
  <2>4. /\ DOMAIN t = DOMAIN s /\ t = [i \in DOMAIN s |-> t[i]]
        /\ \A i \in DOMAIN s : t[i] = IF i = last THEN x ELSE s[i]
    BY <2>1
  <2> HIDE DEF t
  <2>5. Changes(s, t)
    BY <2>1, <2>2, <2>4, ChangesInPlace
  <2> QED
    BY <2>3, <2>5
<1>2. CASE ~ (s # <<>> /\ IsLabel(Last(s)) /\ Last(s).node = n)
  BY <1>2, ChangesAppend, ChangesNothing, SegmentTypes DEF NodeEntered
<1> QED
  BY <1>1, <1>2

LEMMA FinishedChanges ==
  ASSUME NEW s \in Seq(Segments), NEW ns,
         NEW st \in {"running", "done", "failed", "parked", "interrupted"}
  PROVE  Changes(s, NodesFinished(s, ns, st))
<1> DEFINE t == NodesFinished(s, ns, st)
<1>1. \A i \in DOMAIN s : s[i] \in Segments
  BY LenProperties, ElementOfSeq
<1>2. DOMAIN t = DOMAIN s /\ t = [i \in DOMAIN s |-> t[i]]
  BY DEF NodesFinished
<1>3. ASSUME NEW i \in DOMAIN s
      PROVE  t[i] = s[i] \/ (IsLabel(s[i]) /\ t[i] = [s[i] EXCEPT !.st = st])
  BY DEF NodesFinished, Latest, Places
<1> HIDE DEF t
<1>4. ASSUME NEW i \in DOMAIN s
      PROVE  t[i] \in Segments /\ (IsQuery(s[i]) => t[i] = s[i])
  <2>1. IsLabel(s[i]) => [s[i] EXCEPT !.st = st] \in Segments
    BY <1>1, SegmentUpdates
  <2>2. ~ (IsLabel(s[i]) /\ IsQuery(s[i]))
    BY DEF IsLabel, IsQuery
  <2> QED
    BY <1>1, <1>3, <2>1, <2>2
<1>5. Changes(s, t)
  BY <1>2, <1>4, ChangesInPlace
<1> QED
  BY <1>5 DEF t

LEMMA InterruptedChanges ==
  ASSUME NEW s \in Seq(Segments)
  PROVE  Changes(s, Interrupted(s))
<1> DEFINE t == Interrupted(s)
<1>1. \A i \in DOMAIN s : s[i] \in Segments
  BY LenProperties, ElementOfSeq
<1>2. DOMAIN t = DOMAIN s /\ t = [i \in DOMAIN s |-> t[i]]
  BY DEF Interrupted
<1>3. ASSUME NEW i \in DOMAIN s
      PROVE  t[i] = s[i] \/ (IsLabel(s[i]) /\ t[i] = [s[i] EXCEPT !.st = "interrupted"])
  BY DEF Interrupted, Latest, Places
<1> HIDE DEF t
<1>4. ASSUME NEW i \in DOMAIN s
      PROVE  t[i] \in Segments /\ (IsQuery(s[i]) => t[i] = s[i])
  <2>1. IsLabel(s[i]) => [s[i] EXCEPT !.st = "interrupted"] \in Segments
    BY <1>1, SegmentUpdates
  <2>2. ~ (IsLabel(s[i]) /\ IsQuery(s[i]))
    BY DEF IsLabel, IsQuery
  <2> QED
    BY <1>1, <1>3, <2>1, <2>2
<1>5. Changes(s, t)
  BY <1>2, <1>4, ChangesInPlace
<1> QED
  BY <1>5 DEF t

LEMMA ToolChanges ==
  ASSUME NEW s \in Seq(Segments), NEW c, NEW st \in {"running", "done", "failed"}
  PROVE  Changes(s, ToolCallEnded(s, c, st))
<1> DEFINE t == ToolCallEnded(s, c, st)
<1>1. \A i \in DOMAIN s : s[i] \in Segments
  BY LenProperties, ElementOfSeq
<1>2. DOMAIN t = DOMAIN s /\ t = [i \in DOMAIN s |-> t[i]]
  BY DEF ToolCallEnded
<1>3. ASSUME NEW i \in DOMAIN s
      PROVE  t[i] = s[i] \/ (IsTool(s[i]) /\ t[i] = [s[i] EXCEPT !.st = st])
  BY DEF ToolCallEnded, Places
<1> HIDE DEF t
<1>4. ASSUME NEW i \in DOMAIN s
      PROVE  t[i] \in Segments /\ (IsQuery(s[i]) => t[i] = s[i])
  <2>1. IsTool(s[i]) => [s[i] EXCEPT !.st = st] \in Segments
    BY <1>1, SegmentUpdates
  <2>2. ~ (IsTool(s[i]) /\ IsQuery(s[i]))
    BY DEF IsTool, IsQuery
  <2> QED
    BY <1>1, <1>3, <2>1, <2>2
<1>5. Changes(s, t)
  BY <1>2, <1>4, ChangesInPlace
<1> QED
  BY <1>5 DEF t

(* A question raised has a number.                                         *)
LEMMA QueryType ==
  ASSUME NEW s \in Seq(Segments)
  PROVE  Query(s) \in Segments /\ IsQuery(Query(s))
<1> DEFINE queries == Places(s, IsQuery)
<1>1. queries \in SUBSET (1 .. Len(s)) /\ Len(s) \in Nat
  BY LenProperties DEF Places
<1>2. Query(s) = QuerySegment(Cardinality(queries) + 1)
  BY DEF Query
<1> HIDE DEF queries
<1>3. IsFiniteSet(1 .. Len(s))
  BY <1>1, FS_Interval
<1>4. Cardinality(queries) \in Nat
  BY <1>1, <1>3, FS_Subset, FS_CardinalityType
<1> QED
  BY <1>2, <1>4, SegmentTypes DEF QuerySegment, IsQuery

-----------------------------------------------------------------------------
(* The log.                                                                *)

(* A widget that is made is of one of seven kinds; it is a picker when it  *)
(* shows a question and an answer is awaited.                              *)
LEMMA WidgetTypes ==
  ASSUME NEW x \in Segments
  PROVE  /\ WidgetKind(x) \in {"picker", "static", "label", "tool", "text", "thinking", "card"}
         /\ Widget(x) \in Widgets /\ Widget(x).seg = x /\ Widget(x).widget = WidgetKind(x)
         /\ WidgetKind(x) = "picker" <=> IsQuery(x) /\ awaiting
<1>1. x.kind \in {"label", "tool", "query", "text", "thinking", "answer", "card"}
  BY StreamsAssumption DEF Segments
<1>2. CASE IsQuery(x) /\ awaiting
  <2>1. WidgetKind(x) = "picker"
    BY <1>2 DEF WidgetKind, Interactive
  <2> QED
    BY <1>2, <2>1 DEF Widget, Widgets
<1>3. CASE ~ (IsQuery(x) /\ awaiting) /\ x.kind \in {"query", "answer"}
  <2>1. WidgetKind(x) = "static"
    BY <1>3 DEF WidgetKind, Interactive
  <2> QED
    BY <1>3, <2>1 DEF Widget, Widgets
<1>4. CASE ~ (IsQuery(x) /\ awaiting) /\ x.kind \notin {"query", "answer"}
  <2>1. WidgetKind(x) = x.kind
    BY <1>4 DEF WidgetKind, Interactive
  <2>2. x.kind \in {"label", "tool", "text", "thinking", "card"} /\ ~ IsQuery(x)
    BY <1>1, <1>4 DEF IsQuery
  <2>3. Widget(x) = [widget |-> x.kind, seg |-> x]
    BY <2>1 DEF Widget
  <2> HIDE <1>4
  <2>4. Widget(x) \in Widgets
    BY <2>2, <2>3 DEF Widgets
  <2> QED
    BY <2>1, <2>2, <2>3, <2>4
<1> QED
  BY <1>2, <1>3, <1>4

(* After a pass over the segments the widgets are theirs, one for one, and *)
(* the pickers those of the questions, if an answer is awaited.  It needs  *)
(* that the pickers there were have the question of their place.           *)
LEMMA DiffShows ==
  ASSUME NEW items \in Seq(Widgets), NEW segs \in Seq(Segments),
         \A i \in DOMAIN items :
           IsPicker(items[i]) => i \in DOMAIN segs /\ segs[i] = items[i].seg
  PROVE  /\ Diff(items, segs) \in Seq(Widgets)
         /\ DOMAIN Diff(items, segs) = DOMAIN segs
         /\ \A i \in DOMAIN segs :
              /\ Diff(items, segs)[i].seg = segs[i]
              /\ IsPicker(Diff(items, segs)[i]) <=> IsQuery(segs[i]) /\ awaiting
<1> DEFINE d == Diff(items, segs)
<1>1. DOMAIN segs = 1 .. Len(segs) /\ Len(segs) \in Nat
  BY LenProperties
<1>2. DOMAIN d = DOMAIN segs
  BY DEF Diff
<1>3. ASSUME NEW i \in DOMAIN segs
      PROVE  /\ d[i] \in Widgets /\ d[i].seg = segs[i]
             /\ IsPicker(d[i]) <=> IsQuery(segs[i]) /\ awaiting
  <2>1. segs[i] \in Segments
    BY <1>1, ElementOfSeq
  <2>2. CASE ~ (i \in DOMAIN items /\ Reusable(items[i], segs[i]))
    <3>1. d[i] = Widget(segs[i])
      BY <2>2 DEF Diff
    <3> HIDE DEF d
    <3> QED
      BY <2>1, <3>1, WidgetTypes DEF IsPicker
  <2>3. CASE i \in DOMAIN items /\ Reusable(items[i], segs[i])
    <3>1. d[i] = Reused(items[i], segs[i])
      BY <2>3 DEF Diff
    <3> HIDE DEF d
    <3>2. items[i] \in Widgets /\ items[i].widget = WidgetKind(segs[i])
      BY <2>3, LenProperties, ElementOfSeq DEF Reusable
    <3>3. CASE items[i].widget = "picker"
      <4>1. d[i] = items[i] /\ segs[i] = items[i].seg
        BY <2>3, <3>1, <3>3 DEF Reused, IsPicker
      <4> QED
        BY <2>1, <3>2, <3>3, <4>1, WidgetTypes DEF IsPicker
    <3>4. CASE items[i].widget # "picker"
      <4>1. d[i] = [items[i] EXCEPT !.seg = segs[i]]
        BY <3>1, <3>4 DEF Reused
      <4>2. /\ d[i] \in Widgets /\ d[i].seg = segs[i]
            /\ d[i].widget = items[i].widget
        BY <2>1, <3>2, <4>1 DEF Widgets
      <4> QED
        BY <2>1, <3>2, <3>4, <4>2, WidgetTypes DEF IsPicker
    <3> QED
      BY <3>3, <3>4
  <2> QED
    BY <2>2, <2>3
<1>4. d = [i \in DOMAIN segs |-> d[i]]
  BY DEF Diff
<1> HIDE DEF d
<1>5. d \in [1 .. Len(segs) -> Widgets]
  BY <1>1, <1>2, <1>3, <1>4
<1>6. d \in Seq(Widgets)
  BY <1>1, <1>5, SeqDef
<1>7. /\ d \in Seq(Widgets) /\ DOMAIN d = DOMAIN segs
      /\ \A i \in DOMAIN segs : /\ d[i].seg = segs[i]
                                /\ IsPicker(d[i]) <=> IsQuery(segs[i]) /\ awaiting
  BY <1>2, <1>3, <1>6
<1> QED
  BY <1>7 DEF d

(* What TypeOK says of the turns and of the blocks, place by place.        *)
LEMMA ViewTypes ==
  ASSUME TypeOK
  PROVE  /\ Turn \in Nat /\ DOMAIN turns = 1 .. Turn
         /\ \A i \in 1 .. Turn :
              /\ turns[i] \in Turns
              /\ turns[i].status \in Statuses /\ turns[i].segs \in Seq(Segments)
         /\ Len(blocks) \in Nat /\ DOMAIN blocks = 1 .. Len(blocks)
         /\ \A i \in 1 .. Len(blocks) :
              /\ blocks[i] \in Blocks
              /\ blocks[i].status \in Statuses /\ blocks[i].items \in Seq(Widgets)
<1>1. turns \in Seq(Turns) /\ blocks \in Seq(Blocks)
  BY DEF TypeOK
<1>2. /\ Turn \in Nat /\ DOMAIN turns = 1 .. Turn
      /\ Len(blocks) \in Nat /\ DOMAIN blocks = 1 .. Len(blocks)
  BY <1>1, LenProperties DEF Turn
<1>3. \A i \in 1 .. Turn : turns[i] \in Turns
  BY <1>1, <1>2, ElementOfSeq DEF Turn
<1>4. \A i \in 1 .. Len(blocks) : blocks[i] \in Blocks
  BY <1>1, <1>2, ElementOfSeq
<1> QED
  BY <1>2, <1>3, <1>4 DEF Turns, Blocks

(* A block that is made or refreshed.                                      *)
LEMMA BlockType ==
  ASSUME TypeOK, NEW turn \in Turns, NEW items \in Seq(Widgets),
         \A i \in DOMAIN items :
           IsPicker(items[i]) => i \in DOMAIN turn.segs /\ turn.segs[i] = items[i].seg
  PROVE  TurnBlock(items, turn) \in Blocks
<1>1. turn.segs \in Seq(Segments) /\ turn.status \in Statuses
  BY DEF Turns
<1>2. Diff(items, turn.segs) \in Seq(Widgets)
  BY <1>1, DiffShows
<1>3. ActiveLabel(turn) \subseteq Nat
  BY <1>1, LenProperties DEF ActiveLabel, Latest, Places
<1>4. ConclusionText \in Conclusions
  BY DEF TypeOK, ConclusionText, Conclusions
<1> QED
  BY <1>1, <1>2, <1>3, <1>4 DEF TurnBlock, Blocks

(* A block made or refreshed shows the turn as it is. A question that is   *)
(* awaited is the last segment, so that its picker is the last widget.     *)
LEMMA BlockFresh ==
  ASSUME TypeOK, WorkInv, Turn > 0, NEW items \in Seq(Widgets),
         \A i \in DOMAIN items :
           IsPicker(items[i]) => i \in DOMAIN Segs /\ Segs[i] = items[i].seg
  PROVE  LET b == TurnBlock(items, turns[Turn])
         IN  Fresh(b) /\ InPlace(b) /\ Shows(b)
<1> DEFINE d == Diff(items, Segs)
           b == TurnBlock(items, turns[Turn])
<1>1. /\ turns[Turn] \in Turns /\ Segs \in Seq(Segments) /\ LastStatus = turns[Turn].status
  BY ViewTypes DEF LastStatus, Segs
<1>2. b.status = LastStatus /\ b.items = d /\ b.ending = ConclusionText
  BY <1>1 DEF TurnBlock, Segs
<1>3. /\ d \in Seq(Widgets) /\ DOMAIN d = DOMAIN Segs
      /\ \A i \in DOMAIN Segs : /\ d[i].seg = Segs[i]
                                /\ IsPicker(d[i]) <=> IsQuery(Segs[i]) /\ awaiting
  BY <1>1, DiffShows
<1>4. Segs = [i \in DOMAIN Segs |-> Segs[i]] /\ DOMAIN Segs = 1 .. Len(Segs) /\ Len(Segs) \in Nat
  BY <1>1, LenProperties
<1> HIDE DEF d, b
<1>5. [i \in DOMAIN d |-> d[i].seg] = Segs
  BY <1>3, <1>4
<1>6. ASSUME awaiting
      PROVE  IsPicker(Last(d)) /\ HasPicker(b)
  <2>1. Segs # <<>> /\ IsQuery(Segs[Len(Segs)])
    BY <1>6 DEF WorkInv, Last
  <2>2. Len(Segs) \in DOMAIN Segs /\ Len(d) = Len(Segs)
    BY <1>1, <1>3, <1>4, <2>1, EmptySeq, LenProperties
  <2>3. IsPicker(d[Len(Segs)])
    BY <1>3, <1>6, <2>1, <2>2
  <2> QED
    BY <1>2, <1>3, <2>2, <2>3 DEF Last, HasPicker
<1>7. HasPicker(b) => awaiting
  BY <1>2, <1>3 DEF HasPicker
<1>8. Shows(b) /\ InPlace(b)
  BY <1>2, <1>3, <1>5 DEF Shows, InPlace
<1>9. Fresh(b) /\ Shows(b) /\ InPlace(b)
  BY <1>2, <1>6, <1>7, <1>8 DEF Fresh
<1> QED
  BY <1>9 DEF b

(* One frame: new blocks are mounted, or the last is refreshed, or it is   *)
(* not looked at, and then nothing has changed since.                      *)
LEMMA FlushView == ViewInv /\ Flush => ViewInv'
<1> SUFFICES ASSUME TypeOK, WorkInv, BlockInv, Flush
             PROVE  ViewInv'
  BY DEF ViewInv
<1> DEFINE n == Turn
           m == Len(blocks)
<1>1. UNCHANGED <<state, driver>> /\ scheduled' = 0 /\ blocks' = Synced(blocks, turns)
  BY DEF Flush
<1>2. /\ n \in Nat /\ m \in Nat /\ m <= n /\ scheduled' \in 0 .. MaxLag
      /\ turns \in Seq(Turns) /\ blocks \in Seq(Blocks)
  BY <1>1, ViewTypes, ViewBounds DEF BlockInv, TypeOK
<1>3. WorkInv'
  BY <1>1 DEF state, driver, WorkInv, LastStatus, Turn, Segs
<1>4. ASSUME blocks' \in Seq(Blocks)
      PROVE  TypeOK'
  BY <1>1, <1>2, <1>4 DEF TypeOK, state, driver
<1>5. /\ Turn' = Turn /\ Segs' = Segs /\ LastStatus' = LastStatus /\ awaiting' = awaiting
      /\ ConclusionText' = ConclusionText
  BY <1>1 DEF state, Turn, Segs, LastStatus, ConclusionText
<1>9. ASSUME NEW b, Fresh(b), InPlace(b), b.status \in {"done", "failed"} => Shows(b),
             n > 0, Len(blocks') = n, blocks'[n] = b
      PROVE  BlockInv'
  <2>1. b.status # "running" => ~ HasPicker(b)
    BY <1>9 DEF Fresh, WorkInv
  <2>2. /\ Shows(b)' <=> Shows(b)
        /\ InPlace(b)' <=> InPlace(b)
        /\ HasPicker(b)' <=> HasPicker(b)
    BY <1>5 DEF Shows, InPlace, HasPicker
  <2>3. Fresh(b)'
    BY <1>5, <1>9, <2>2 DEF Fresh
  <2>4. blocks'[Turn'] = b /\ Len(blocks') = Turn'
    BY <1>5, <1>9
  <2> QED
    BY <1>2, <1>5, <1>9, <2>1, <2>2, <2>3, <2>4 DEF BlockInv
<1>6. CASE n > m
  <2> DEFINE more == [i \in 1 .. n - m |-> TurnBlock(<<>>, turns[m + i])]
  <2>1. blocks' = blocks \o more
    BY <1>1, <1>6 DEF Synced, Turn
  <2>2. <<>> \in Seq(Widgets) /\ \A i \in DOMAIN <<>> : FALSE
    BY EmptySeq
  <2>3. \A i \in 1 .. n - m : TurnBlock(<<>>, turns[m + i]) \in Blocks
    <3> TAKE i \in 1 .. n - m
    <3>1. turns[m + i] \in Turns
      BY <1>2, <1>6, ViewTypes
    <3> QED
      BY <2>2, <3>1, BlockType
  <2>4. n - m \in Nat /\ n - m \in 1 .. n - m /\ m + (n - m) = n
    BY <1>2, <1>6
  <2>5. more \in Seq(Blocks) /\ Len(more) = n - m /\ more[n - m] = TurnBlock(<<>>, turns[n])
    <3> DEFINE k == n - m
               B(i) == TurnBlock(<<>>, turns[m + i])
    <3>1. k \in Nat /\ k \in 1 .. k /\ B(k) = TurnBlock(<<>>, turns[n])
      BY <2>4
    <3>2. more = [i \in 1 .. k |-> B(i)] /\ \A i \in 1 .. k : B(i) \in Blocks
      BY <2>3
    <3> HIDE DEF k, B, more
    <3>3. more \in [1 .. k -> Blocks] /\ more[k] = B(k)
      BY <3>1, <3>2
    <3>4. more \in Seq(Blocks) /\ DOMAIN more = 1 .. k
      BY <3>1, <3>3, SeqDef
    <3>5. Len(more) = k
      BY <3>1, <3>4, LenProperties
    <3> QED
      BY <3>1, <3>3, <3>4, <3>5 DEF k
  <2> HIDE DEF more
  <2> DEFINE b == TurnBlock(<<>>, turns[n])
  <2>6. blocks' \in Seq(Blocks) /\ Len(blocks') = n /\ blocks'[n] = b
    BY <1>2, <1>6, <2>1, <2>4, <2>5
  <2>7. n > 0 /\ \A i \in DOMAIN <<>> : IsPicker(<<>>[i]) =>
          i \in DOMAIN Segs /\ Segs[i] = <<>>[i].seg
    BY <1>2, <1>6
  <2>8. Fresh(b) /\ InPlace(b) /\ Shows(b)
    BY <2>2, <2>7, BlockFresh
  <2> HIDE DEF b
  <2> QED
    BY <1>3, <1>4, <1>9, <2>6, <2>7, <2>8 DEF ViewInv
<1>7. CASE n = m /\ n > 0 /\ (blocks[n].status # turns[n].status \/ turns[n].status = "running")
  <2> DEFINE b == TurnBlock(blocks[n].items, turns[n])
  <2>1. blocks' = [blocks EXCEPT ![n] = b]
    BY <1>1, <1>7 DEF Synced, Turn
  <2>2. /\ blocks[n].items \in Seq(Widgets) /\ turns[n] \in Turns /\ turns[n].segs = Segs
        /\ \A i \in DOMAIN blocks[n].items : IsPicker(blocks[n].items[i]) =>
             i \in DOMAIN Segs /\ Segs[i] = blocks[n].items[i].seg
    BY <1>2, <1>7, ViewTypes DEF BlockInv, InPlace, Segs
  <2>3. b \in Blocks
    BY <2>2, BlockType
  <2>4. Fresh(b) /\ InPlace(b) /\ Shows(b)
    BY <1>7, <2>2, BlockFresh
  <2> HIDE DEF b
  <2>5. blocks' \in Seq(Blocks) /\ Len(blocks') = n /\ blocks'[n] = b
    BY <1>2, <1>7, <2>1, <2>3, ExceptSeq
  <2> QED
    BY <1>3, <1>4, <1>7, <1>9, <2>4, <2>5 DEF ViewInv
<1>8. CASE n = m /\ ~ (n > 0 /\ (blocks[n].status # turns[n].status \/ turns[n].status = "running"))
  <2>1. blocks' = blocks
    BY <1>1, <1>8 DEF Synced, Turn
  <2>2. TypeOK' /\ WorkInv'
    BY <1>2, <1>3, <1>4, <2>1
  <2>3. CASE n = 0
    <3>1. Len(blocks') = Turn' /\ Turn' = 0
      BY <1>5, <1>8, <2>1, <2>3
    <3> QED
      BY <2>2, <3>1 DEF BlockInv, ViewInv
  <2>4. CASE n > 0
    <3> DEFINE b == blocks[n]
    <3>1. LastStatus = turns[n].status /\ n \in 1 .. Turn /\ n \in 1 .. Len(blocks)
      BY <1>2, <1>8, <2>4 DEF LastStatus
    <3>2. b.status = LastStatus /\ b.status # "running"
      BY <1>8, <2>4, <3>1
    <3>3. b.status \in Statuses
      BY <3>1, ViewTypes
    <3>4. /\ InPlace(b) /\ ~ HasPicker(b)
          /\ b.status \in {"done", "failed"} => Shows(b)
      BY <1>8, <2>4, <3>2 DEF BlockInv
    <3>5. Len(blocks') = n /\ blocks'[n] = b
      BY <1>8, <2>1
    <3> HIDE DEF b
    <3>6. ~ awaiting
      BY <3>2 DEF WorkInv
    <3>7. LastStatus # "paused" => Shows(b)
      BY <3>2, <3>3, <3>4 DEF Statuses
    <3>8. Fresh(b)
      BY <3>2, <3>4, <3>6, <3>7 DEF Fresh
    <3> QED
      BY <1>9, <2>2, <2>4, <3>4, <3>5, <3>8 DEF ViewInv
  <2> QED
    BY <1>2, <2>3, <2>4
<1> QED
  BY <1>2, <1>6, <1>7, <1>8

-----------------------------------------------------------------------------
(* The steps of the user and of the worker.                                *)

(* What every step has in common that changes the segments of the turn: it *)
(* runs or is paused, so that its block shows neither "done" nor "failed".  *)
LEMMA DispatchView ==
  ASSUME TypeOK, BlockInv, Turn > 0, LastStatus \in {"running", "paused"},
         NEW g, Changes(Segs, g), NEW st \in Statuses, Dispatch(g, st)
  PROVE  /\ turns' \in Seq(Turns) /\ Turn' = Turn /\ Segs' = g /\ LastStatus' = st
         /\ blocks' = blocks /\ scheduled' \in 0 .. MaxLag
         /\ BlockInv'
<1> DEFINE n == Turn
           turn == [status |-> st, segs |-> g]
<1>1. /\ n \in Nat /\ n \in 1 .. n /\ DOMAIN turns = 1 .. n
      /\ Len(blocks) \in Nat /\ Len(blocks) <= n
  BY ViewTypes DEF BlockInv
<1>2. turn \in Turns /\ turn.status = st /\ turn.segs = g
  BY DEF Changes, Turns
<1>3. /\ turns' = [turns EXCEPT ![n] = turn] /\ blocks' = blocks
      /\ scheduled' = scheduled + 1 /\ scheduled < MaxLag
  BY DEF Dispatch, Schedule
<1>4. scheduled \in Nat /\ scheduled' \in 0 .. MaxLag /\ scheduled' # 0
  BY <1>3, ViewBounds DEF TypeOK
<1> HIDE DEF turn
<1>5. turns' \in Seq(Turns) /\ Len(turns') = n /\ turns'[n] = turn
  BY <1>1, <1>2, <1>3, ExceptSeq DEF TypeOK, Turn
<1>6. Turn' = Turn /\ Segs' = g /\ LastStatus' = st
  BY <1>1, <1>2, <1>5 DEF Turn, Segs, LastStatus
<1>7. ASSUME NEW b, blocks[n] = b, Len(blocks) = n
      PROVE  BlockInv'
  <2>1. /\ InPlace(b)
        /\ b.status # "running" => ~ HasPicker(b)
        /\ b.status \in {"done", "failed"} => Shows(b)
    BY <1>7 DEF BlockInv
  <2>2. blocks'[Turn'] = b /\ Len(blocks') = Turn'
    BY <1>3, <1>6, <1>7
  <2>3. b.status \notin {"done", "failed"}
    BY <2>1 DEF Shows
  <2>4. ASSUME NEW i \in DOMAIN b.items, IsPicker(b.items[i])
        PROVE  i \in DOMAIN g /\ g[i] = b.items[i].seg /\ IsQuery(g[i])
    <3>1. i \in DOMAIN Segs /\ Segs[i] = b.items[i].seg /\ IsQuery(Segs[i])
      BY <2>1, <2>4 DEF InPlace
    <3> QED
      BY <3>1 DEF Changes, KeepsQuestions
  <2>6. InPlace(b)'
    BY <1>6, <2>4 DEF InPlace, IsQuery, IsPicker
  <2>5. HasPicker(b)' <=> HasPicker(b)
    BY DEF HasPicker
  <2> QED
    BY <1>4, <2>1, <2>2, <2>3, <2>5, <2>6 DEF BlockInv
<1>8. ASSUME Len(blocks) # n
      PROVE  BlockInv'
  <2>1. Len(blocks') <= Turn' /\ Len(blocks') # Turn' /\ scheduled' # 0
    BY <1>1, <1>3, <1>4, <1>6, <1>8
  <2> QED
    BY <2>1 DEF BlockInv
<1> QED
  BY <1>3, <1>4, <1>5, <1>6, <1>7, <1>8

(* What TypeOK says of the rest; a turn that runs or is paused exists.     *)
LEMMA WorkTypes ==
  ASSUME TypeOK, WorkInv
  PROVE  /\ {processing, awaiting} \subseteq BOOLEAN /\ worker \in WorkerStates
         /\ conclusion \in Conclusions /\ stack \in Seq(Nodes \cup Graphs)
         /\ call \in CallIds \cup {None} /\ LastStatus \in Statuses
         /\ LastStatus \in {"running", "paused"} => Turn > 0 /\ Segs \in Seq(Segments)
<1>1. /\ Turn \in Nat
      /\ \A i \in 1 .. Turn : turns[i].status \in Statuses /\ turns[i].segs \in Seq(Segments)
  BY ViewTypes
<1>2. Turn # 0 => Turn \in 1 .. Turn /\ Turn > 0
  BY <1>1
<1>3. LastStatus \in Statuses
  BY <1>1, <1>2 DEF LastStatus, Statuses
<1>4. LastStatus \in {"running", "paused"} => Turn # 0
  BY DEF LastStatus
<1> QED
  BY <1>1, <1>2, <1>3, <1>4 DEF TypeOK, Segs

(* An event of a node.                                                     *)
LEMMA EmitView ==
  ASSUME ViewInv, worker = "driving", NEW g, Changes(Segs, g), Emit(g),
         stack' \in Seq(Nodes \cup Graphs), call' \in CallIds \cup {None}
  PROVE  ViewInv'
<1>1. LastStatus = "running" /\ ~ awaiting /\ LastStatus \in Statuses /\ Turn > 0
  BY WorkTypes DEF ViewInv, WorkInv
<1>2. Dispatch(g, LastStatus) /\ UNCHANGED <<processing, awaiting, conclusion, worker>>
  BY DEF Emit
<1>3. /\ turns' \in Seq(Turns) /\ Turn' = Turn /\ Segs' = g /\ LastStatus' = LastStatus
      /\ blocks' = blocks /\ scheduled' \in 0 .. MaxLag
      /\ BlockInv'
  BY <1>1, <1>2, DispatchView DEF ViewInv
<1>4. TypeOK'
  BY <1>2, <1>3 DEF ViewInv, TypeOK
<1>5. WorkInv'
  BY <1>1, <1>2, <1>3 DEF ViewInv, WorkInv
<1> QED
  BY <1>3, <1>4, <1>5 DEF ViewInv

LEMMA InitView == Init => ViewInv
<1> SUFFICES ASSUME Init
             PROVE  ViewInv
  OBVIOUS
<1>1. Turn = 0 /\ Len(blocks) = 0 /\ LastStatus = "done"
  BY EmptySeq DEF Init, Turn, LastStatus
<1>2. TypeOK
  <2>1. turns \in Seq(Turns) /\ blocks \in Seq(Blocks) /\ stack \in Seq(Nodes \cup Graphs)
    BY EmptySeq DEF Init
  <2>2. conclusion \in Conclusions /\ scheduled \in 0 .. MaxLag /\ worker \in WorkerStates
    BY ViewBounds DEF Init, Conclusions, WorkerStates
  <2> QED
    BY <2>1, <2>2 DEF Init, TypeOK
<1>3. WorkInv
  BY <1>1 DEF Init, WorkInv
<1>4. BlockInv
  BY <1>1 DEF BlockInv
<1> QED
  BY <1>2, <1>3, <1>4 DEF ViewInv

LEMMA UserView == ViewInv /\ User => ViewInv'
<1> SUFFICES ASSUME ViewInv, TypeOK, WorkInv, BlockInv, User
             PROVE  ViewInv'
  BY DEF ViewInv
<1>1. /\ {processing, awaiting} \subseteq BOOLEAN /\ worker \in WorkerStates
      /\ conclusion \in Conclusions /\ stack \in Seq(Nodes \cup Graphs)
      /\ call \in CallIds \cup {None} /\ LastStatus \in Statuses
  BY WorkTypes
<1>2. LastStatus \in {"running", "paused"} => Turn > 0 /\ Segs \in Seq(Segments)
  BY WorkTypes
<1>3. CASE Submit
  <2> DEFINE turn == [status |-> "running", segs |-> <<>>]
  <2>1. /\ turns' = Append(turns, turn) /\ processing' = TRUE /\ conclusion' = None
        /\ blocks' = blocks /\ scheduled' = scheduled + 1 /\ scheduled < MaxLag
        /\ worker' = "driving" /\ UNCHANGED <<awaiting, stack, call>>
    BY <1>3 DEF Submit, Schedule
  <2>2. ~ awaiting
    BY <1>3 DEF Submit, WorkInv
  <2>3. turn \in Turns /\ turn.status = "running" /\ turns \in Seq(Turns) /\ Turn \in Nat
    BY EmptySeq, ViewTypes DEF Turns, Statuses, TypeOK
  <2> HIDE DEF turn
  <2>4. turns' \in Seq(Turns) /\ Turn' = Turn + 1 /\ turns'[Turn + 1] = turn
    BY <2>1, <2>3 DEF Turn
  <2>5. LastStatus' = "running"
    BY <2>3, <2>4 DEF LastStatus
  <2>6. scheduled' \in 0 .. MaxLag /\ scheduled' # 0
    BY <2>1, ViewBounds DEF TypeOK
  <2>7. TypeOK'
    BY <1>1, <2>1, <2>4, <2>6 DEF TypeOK, WorkerStates, Conclusions
  <2>8. WorkInv'
    BY <2>1, <2>2, <2>5 DEF WorkInv
  <2>9. Len(blocks') <= Turn' /\ Len(blocks') # Turn'
    <3>1. Len(blocks) \in Nat /\ Len(blocks) <= Turn
      BY ViewTypes DEF BlockInv
    <3> QED
      BY <2>1, <2>3, <2>4, <3>1
  <2> QED
    BY <2>6, <2>7, <2>8, <2>9 DEF ViewInv, BlockInv
<1>4. CASE Answer
  <2>1. LastStatus = "running" /\ Changes(Segs, Append(Segs, AnswerSegment))
    BY <1>2, <1>4, ChangesAppend, ChangesNothing, SegmentTypes DEF Answer, WorkInv
  <2>2. /\ turns' \in Seq(Turns) /\ LastStatus' = LastStatus
        /\ blocks' = blocks /\ scheduled' \in 0 .. MaxLag /\ BlockInv'
    BY <1>1, <1>2, <1>4, <2>1, DispatchView DEF Answer
  <2>3. TypeOK'
    BY <1>1, <1>4, <2>2 DEF Answer, TypeOK, WorkerStates
  <2>4. WorkInv'
    BY <1>4, <2>1, <2>2 DEF Answer, WorkInv
  <2> QED
    BY <2>2, <2>3, <2>4 DEF ViewInv
<1>5. CASE Steer
  <2>1. LastStatus = "paused" /\ Changes(Segs, Append(Segs, AnswerSegment))
    BY <1>2, <1>5, ChangesAppend, ChangesNothing, SegmentTypes DEF Steer
  <2>2. /\ turns' \in Seq(Turns) /\ LastStatus' = "running"
        /\ blocks' = blocks /\ scheduled' \in 0 .. MaxLag /\ BlockInv'
    BY <1>1, <1>2, <1>5, <2>1, DispatchView DEF Steer, Statuses
  <2>3. TypeOK'
    BY <1>1, <1>5, <2>2 DEF Steer, TypeOK, WorkerStates
  <2>4. WorkInv'
    BY <1>5, <2>2 DEF Steer, WorkInv
  <2> QED
    BY <2>2, <2>3, <2>4 DEF ViewInv
<1>6. CASE Interrupt
  <2>1. LastStatus = "running" /\ Changes(Segs, Interrupted(Segs))
    BY <1>2, <1>6, InterruptedChanges DEF Interrupt, WorkInv
  <2>2. /\ turns' \in Seq(Turns) /\ LastStatus' = "paused"
        /\ blocks' = blocks /\ scheduled' \in 0 .. MaxLag /\ BlockInv'
    BY <1>1, <1>2, <1>6, <2>1, DispatchView DEF Interrupt, Statuses
  <2>3. TypeOK'
    BY <1>1, <1>6, <2>2 DEF Interrupt, TypeOK, WorkerStates
  <2>4. WorkInv'
    BY <1>6, <2>2 DEF Interrupt, WorkInv
  <2> QED
    BY <2>2, <2>3, <2>4 DEF ViewInv
<1> QED
  BY <1>3, <1>4, <1>5, <1>6 DEF User

LEMMA NodeView ==
  ASSUME ViewInv,
         \/ \E n \in Nodes \cup Graphs : EnterNode(n)
         \/ \E k \in Streams : StreamText(k)
         \/ Capture
         \/ \E c \in CallIds : StartTool(c)
         \/ \E st \in {"done", "failed"} : EndTool(st)
         \/ \E st \in {"done", "failed"}, cards \in 0 .. 1 : EndNode(st, cards)
  PROVE  ViewInv'
<1>1. /\ stack \in Seq(Nodes \cup Graphs) /\ call \in CallIds \cup {None}
      /\ LastStatus \in {"running", "paused"} => Segs \in Seq(Segments)
  BY WorkTypes DEF ViewInv
<1>2. worker = "driving"
  BY DEF EnterNode, StreamText, Capture, StartTool, EndTool, EndNode, InNode, Busy
<1>3. Segs \in Seq(Segments)
  BY <1>1, <1>2 DEF ViewInv, WorkInv
<1>4. ASSUME NEW n \in Nodes \cup Graphs, EnterNode(n)
      PROVE  ViewInv'
  <2>1. Emit(NodeEntered(Segs, n)) /\ stack' = Append(stack, n) /\ call' = call
    BY <1>4 DEF EnterNode
  <2>2. Changes(Segs, NodeEntered(Segs, n)) /\ stack' \in Seq(Nodes \cup Graphs)
    BY <1>1, <1>3, <2>1, EnteredChanges
  <2> QED
    BY <1>1, <1>2, <2>1, <2>2, EmitView
<1>5. ASSUME NEW k \in Streams, StreamText(k)
      PROVE  ViewInv'
  <2>1. Emit(Streamed(Segs, Stream(k))) /\ UNCHANGED <<stack, call>>
    BY <1>5 DEF StreamText
  <2>2. Changes(Segs, Streamed(Segs, Stream(k)))
    BY <1>3, SegmentTypes, StreamedChanges
  <2> QED
    BY <1>1, <1>2, <2>1, <2>2, EmitView
<1>6. CASE Capture
  <2>1. Emit(Append(Segs, CardSegment)) /\ UNCHANGED <<stack, call>>
    BY <1>6 DEF Capture
  <2>2. Changes(Segs, Append(Segs, CardSegment))
    BY <1>3, SegmentTypes, ChangesNothing, ChangesAppend
  <2> QED
    BY <1>1, <1>2, <2>1, <2>2, EmitView
<1>7. ASSUME NEW c \in CallIds, StartTool(c)
      PROVE  ViewInv'
  <2>1. Emit(Append(Segs, ToolCallView(c))) /\ call' = c /\ stack' = stack
    BY <1>7 DEF StartTool
  <2>2. Changes(Segs, Append(Segs, ToolCallView(c)))
    BY <1>3, SegmentTypes, ChangesNothing, ChangesAppend
  <2> QED
    BY <1>1, <1>2, <2>1, <2>2, EmitView
<1>8. ASSUME NEW st \in {"done", "failed"}, EndTool(st)
      PROVE  ViewInv'
  <2>1. Emit(ToolCallEnded(Segs, call, st)) /\ call' = None /\ stack' = stack
    BY <1>8 DEF EndTool
  <2>2. Changes(Segs, ToolCallEnded(Segs, call, st))
    BY <1>3, ToolChanges
  <2> QED
    BY <1>1, <1>2, <2>1, <2>2, EmitView
<1>9. ASSUME NEW st \in {"done", "failed"}, NEW cards \in 0 .. 1, EndNode(st, cards)
      PROVE  ViewInv'
  <2> DEFINE ended == NodeFinished(Segs, Last(stack), st)
  <2>1. /\ Emit(ended \o [i \in 1 .. cards |-> CardSegment])
        /\ stack' = Front(stack) /\ call' = call /\ stack # <<>>
    BY <1>9 DEF EndNode
  <2>2. Changes(Segs, ended)
    BY <1>3, FinishedChanges DEF NodeFinished
  <2> HIDE DEF ended
  <2>3. Changes(Segs, ended \o [i \in 1 .. cards |-> CardSegment])
    BY <2>2, ChangesConcat
  <2>4. Front(stack) \in Seq(Nodes \cup Graphs)
    <3>1. Len(stack) \in Nat /\ Len(stack) > 0
      BY <1>1, <2>1, EmptySeq, LenProperties
    <3> QED
      BY <1>1, <3>1 DEF Front
  <2> QED
    BY <1>1, <1>2, <2>1, <2>3, <2>4, EmitView
<1> QED
  BY <1>4, <1>5, <1>6, <1>7, <1>8, <1>9

LEMMA DriveView ==
  ASSUME ViewInv,
         \/ \E cards \in 0 .. 1 : Ask(cards)
         \/ \E cards \in 0 .. 2 : Finish(cards)
         \/ Crash
         \/ \E swallowed \in BOOLEAN : Unwind(swallowed)
  PROVE  ViewInv'
<1>1. /\ {processing, awaiting} \subseteq BOOLEAN /\ worker \in WorkerStates
      /\ conclusion \in Conclusions /\ stack \in Seq(Nodes \cup Graphs)
      /\ call \in CallIds \cup {None} /\ LastStatus \in Statuses
  BY WorkTypes DEF ViewInv
<1>2. LastStatus \in {"running", "paused"} => Turn > 0 /\ Segs \in Seq(Segments)
  BY WorkTypes DEF ViewInv
<1>3. <<>> \in Seq(Nodes \cup Graphs)
  BY EmptySeq
<1>4. worker = "driving" => LastStatus = "running" /\ processing /\ ~ awaiting
  BY DEF ViewInv, WorkInv
<1>5. worker = "unwinding" => LastStatus = "paused" /\ ~ processing /\ ~ awaiting
  BY DEF ViewInv, WorkInv
<1>6. ASSUME NEW cards \in 0 .. 1, Ask(cards)
      PROVE  ViewInv'
  <2> DEFINE parked == NodesFinished(Segs, ToSet(stack), "parked")
             shown  == parked \o [i \in 1 .. cards |-> CardSegment]
             asked  == Append(shown, Query(Segs))
  <2>1. /\ worker = "driving" /\ Dispatch(asked, LastStatus)
        /\ conclusion' = "suspended" /\ awaiting' = TRUE /\ worker' = "parked"
        /\ stack' = <<>> /\ UNCHANGED <<processing, call>>
    BY <1>6 DEF Ask, InNode, Busy
  <2>2. Changes(Segs, parked)
    BY <1>2, <1>4, <2>1, FinishedChanges
  <2> HIDE DEF parked
  <2>3. Changes(Segs, shown)
    BY <2>2, ChangesConcat
  <2> HIDE DEF shown
  <2>4. Changes(Segs, asked) /\ asked # <<>> /\ IsQuery(Last(asked))
    BY <1>2, <1>4, <2>1, <2>3, QueryType, ChangesAppend
  <2> HIDE DEF asked
  <2>5. /\ turns' \in Seq(Turns) /\ Segs' = asked /\ LastStatus' = LastStatus
        /\ blocks' = blocks /\ scheduled' \in 0 .. MaxLag /\ BlockInv'
    BY <1>1, <1>2, <1>4, <2>1, <2>4, DispatchView DEF ViewInv
  <2>6. TypeOK'
    BY <1>1, <1>3, <2>1, <2>5 DEF ViewInv, TypeOK, WorkerStates, Conclusions
  <2>7. WorkInv'
    BY <1>4, <2>1, <2>4, <2>5 DEF WorkInv, IsQuery
  <2> QED
    BY <2>5, <2>6, <2>7 DEF ViewInv
<1>7. ASSUME NEW cards \in 0 .. 2, Finish(cards)
      PROVE  ViewInv'
  <2> DEFINE shown == Segs \o [i \in 1 .. cards |-> CardSegment]
  <2>1. /\ worker = "driving" /\ Dispatch(shown, "done")
        /\ processing' = FALSE /\ conclusion' = "concluded" /\ worker' = "none"
        /\ UNCHANGED <<awaiting, stack, call>>
    BY <1>7 DEF Finish, Busy
  <2>2. Changes(Segs, shown)
    BY <1>2, <1>4, <2>1, ChangesNothing, ChangesConcat
  <2> HIDE DEF shown
  <2>3. /\ turns' \in Seq(Turns) /\ LastStatus' = "done"
        /\ blocks' = blocks /\ scheduled' \in 0 .. MaxLag /\ BlockInv'
    BY <1>2, <1>4, <2>1, <2>2, DispatchView DEF ViewInv, Statuses
  <2>4. TypeOK'
    BY <1>1, <2>1, <2>3 DEF ViewInv, TypeOK, WorkerStates, Conclusions
  <2>5. WorkInv'
    BY <1>4, <2>1, <2>3 DEF WorkInv
  <2> QED
    BY <2>3, <2>4, <2>5 DEF ViewInv
<1>8. CASE Crash
  <2>1. /\ worker = "driving" /\ Dispatch(Segs, "failed")
        /\ processing' = FALSE /\ awaiting' = FALSE /\ conclusion' = "error"
        /\ worker' = "none" /\ stack' = <<>> /\ call' = None
    BY <1>8 DEF Crash
  <2>2. Changes(Segs, Segs)
    BY <1>2, <1>4, <2>1, ChangesNothing
  <2>3. /\ turns' \in Seq(Turns) /\ LastStatus' = "failed"
        /\ blocks' = blocks /\ scheduled' \in 0 .. MaxLag /\ BlockInv'
    BY <1>2, <1>4, <2>1, <2>2, DispatchView DEF ViewInv, Statuses
  <2>4. TypeOK'
    BY <1>1, <1>3, <2>1, <2>3 DEF ViewInv, TypeOK, WorkerStates, Conclusions
  <2>5. WorkInv'
    BY <2>1, <2>3 DEF WorkInv
  <2> QED
    BY <2>3, <2>4, <2>5 DEF ViewInv
<1>9. ASSUME NEW swallowed \in BOOLEAN, Unwind(swallowed)
      PROVE  ViewInv'
  <2> DEFINE ended == ToolCallEnded(Segs, call, "done")
             late  == NodesFinished(ended, ToSet(stack), "done")
             left  == IF swallowed THEN late ELSE Segs
  <2>1. /\ worker = "unwinding" /\ Dispatch(left, LastStatus)
        /\ conclusion' = "interrupted" /\ worker' = "none"
        /\ stack' = <<>> /\ call' = None /\ UNCHANGED <<processing, awaiting>>
    BY <1>9 DEF Unwind
  <2>2. Segs \in Seq(Segments)
    BY <1>2, <1>5, <2>1
  <2>3. Changes(Segs, ended)
    BY <2>2, ToolChanges
  <2> HIDE DEF ended
  <2>4. Changes(ended, late)
    BY <2>3, FinishedChanges DEF Changes
  <2> HIDE DEF late
  <2>5. Changes(Segs, left)
    BY <2>2, <2>3, <2>4, ChangesNothing, ChangesTwice
  <2> HIDE DEF left
  <2>6. /\ turns' \in Seq(Turns) /\ LastStatus' = LastStatus
        /\ blocks' = blocks /\ scheduled' \in 0 .. MaxLag /\ BlockInv'
    BY <1>1, <1>2, <1>5, <2>1, <2>5, DispatchView DEF ViewInv
  <2>7. TypeOK'
    BY <1>1, <1>3, <2>1, <2>6 DEF ViewInv, TypeOK, WorkerStates, Conclusions
  <2>8. WorkInv'
    BY <1>5, <2>1, <2>6 DEF WorkInv
  <2> QED
    BY <2>6, <2>7, <2>8 DEF ViewInv
<1> QED
  BY <1>6, <1>7, <1>8, <1>9

LEMMA NextView == ViewInv /\ [Next]_vars => ViewInv'
<1> SUFFICES ASSUME ViewInv, [Next]_vars
             PROVE  ViewInv'
  OBVIOUS
<1>1. CASE UNCHANGED vars
  BY <1>1 DEF vars, state, view, driver, ViewInv, TypeOK, WorkInv, BlockInv, Fresh,
              InPlace, HasPicker, Shows, Turn, Segs, LastStatus, ConclusionText
<1> QED
  BY <1>1, UserView, NodeView, DriveView, FlushView DEF Next, Worker

(* The three parts of ViewInv hold together, at any time.                  *)
LEMMA ViewStays == Spec => []ViewInv
<1>1. Init => ViewInv
  BY InitView
<1>2. ViewInv /\ [Next]_vars => ViewInv'
  BY NextView
<1> QED
  BY <1>1, <1>2, PTL DEF Spec

-----------------------------------------------------------------------------
(* Theorems.                                                               *)

(* The variables hold values of their types.                               *)
THEOREM ViewTypeCorrect == Spec => []TypeOK
<1>1. ViewInv => TypeOK
  BY DEF ViewInv
<1> QED
  BY <1>1, ViewStays, PTL

(* What a pass of ChatLog leaves out, blocks that are not the last one and *)
(* turns that ended and were shown, never shows something that is gone.    *)
THEOREM LogAlwaysShowsTurn == Spec => []SettledLogShowsTurn
<1>1. ViewInv => SettledLogShowsTurn
  <2> SUFFICES ASSUME ViewInv, scheduled = 0, Turn > 0
               PROVE  /\ Len(blocks) = Turn
                      /\ LastStatus # "paused" =>
                           /\ LastBlock.status = LastStatus
                           /\ [i \in DOMAIN LastBlock.items |-> LastBlock.items[i].seg] = Segs
                           /\ LastBlock.ending = ConclusionText
    BY DEF SettledLogShowsTurn, ViewInv, BlockInv
  <2>1. Len(blocks) = Turn /\ Fresh(LastBlock)
    BY DEF ViewInv, BlockInv, LastBlock
  <2> QED
    BY <2>1 DEF Fresh, Shows
<1> QED
  BY <1>1, ViewStays, PTL

(* The last block has pickers exactly while an answer is awaited, and the  *)
(* newest question is one of them, whatever the widgets that are kept.     *)
THEOREM QuestionAlwaysLive == Spec => []OpenQuestionIsLive
<1>1. ViewInv => OpenQuestionIsLive
  <2> SUFFICES ASSUME ViewInv, scheduled = 0, Turn > 0
               PROVE  /\ Places(LastBlock.items, IsPicker) # {} <=> awaiting
                      /\ awaiting => IsPicker(Last(LastBlock.items))
    BY DEF OpenQuestionIsLive
  <2>1. Fresh(LastBlock)
    BY DEF ViewInv, BlockInv, LastBlock
  <2>2. Places(LastBlock.items, IsPicker) # {} <=> HasPicker(LastBlock)
    BY DEF Places, HasPicker
  <2> QED
    BY <2>1, <2>2 DEF Fresh
<1> QED
  BY <1>1, ViewStays, PTL
=============================================================================
