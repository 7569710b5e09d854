------------------------------ MODULE LLMStream ------------------------------
(***************************************************************************)
(* One call of LLMClient.stream, which every node and the chat agent make  *)
(* for a round: connect, read the server-sent events, parse them and hand  *)
(* the events to the caller as they come; a connection that breaks or      *)
(* stalls is tried again as long as nothing was handed over, within one    *)
(* budget of time for all attempts.                                        *)
(*                                                                         *)
(* The provider is the environment.  Providers differ in how they name the *)
(* tool calls they stream piece by piece: see Styles.  ToolLoop has what a *)
(* node does with the calls of a round.                                    *)
(***************************************************************************)
EXTENDS Integers, Sequences, FiniteSets, SequencesExt

CONSTANTS
  MaxRetries,  \* client.DEFAULT_MAX_RETRIES
  CallTimeout, \* client.DEFAULT_CALL_TIMEOUT, in ticks
  IdleTimeout, \* the read timeout: ticks between two chunks
  MaxCalls,    \* bound of the model: tool calls of a round
  MaxPieces,   \* bound of the model: pieces they are sent in
  MaxClock     \* bound of the model: when the clock stops

ASSUME TimesAssumption ==
  /\ MaxRetries \in Nat /\ CallTimeout \in Nat /\ IdleTimeout \in Nat \ {0}
  /\ MaxCalls \in Nat /\ MaxPieces \in Nat /\ MaxClock \in Nat

VARIABLES
  phase,     \* connecting, reading, or how the call ended
  attempt,   \* attempts before this one
  clock,     \* ticks since the call began
  idle,      \* ticks since the last chunk
  deadline,  \* when the budget is spent
  parser,    \* the parser of this attempt
  heard,     \* the events handed over, with their attempts
  heardAt,   \* history: when the last of them was (-1: never)
  style,     \* how the provider names tool calls
  sent       \* what the provider has sent in this attempt

client == <<phase, attempt, idle, deadline, parser, heard, heardAt>>
stream == <<client, clock, style, sent>>

Reading == {"connect", "read"}
Ends    == {"done", "timeout", "transport", "http", "cancelled"}

(* own: the first piece of a call has its id, and each call an index; later*)
(* pieces have the index only, and calls may overlap.  shared: all have    *)
(* index 0, one call follows the other, and later pieces have the id too,  *)
(* or not.  nameless: only indexes.                                        *)
Styles == {"own", "shared", "nameless"}

NoId == 0
Ids  == 1 .. MaxCalls

(* args: what a call's arguments consist of, by its key.  order: the keys  *)
(* as they came.  key: _index_to_key.  A key is an id or, below zero, an   *)
(* index.                                                                  *)
NewParser == [args |-> << >>, order |-> << >>, key |-> << >>]

(* pieces: how many pieces of each call were sent.  finished: the reason   *)
(* to finish was.                                                          *)
NothingSent == [pieces |-> << >>, finished |-> FALSE]

StreamInit ==
  /\ phase = "connect"
  /\ attempt = 0
  /\ clock = 0
  /\ idle = 0
  /\ deadline = CallTimeout
  /\ parser = NewParser
  /\ heard = << >>
  /\ heardAt = -1
  /\ style \in Styles
  /\ sent = NothingSent

-----------------------------------------------------------------------------
(* The parser.                                                             *)

(* Calls are told apart by their index alone.                              *)
KeyMutant(id, index) == -1 - index

(* The key of the call a piece belongs to.                                 *)
Key(id, index) ==
  CASE id # NoId                 -> id
    [] id = NoId /\ index \in DOMAIN parser.key -> parser.key[index]
    [] OTHER                     -> -1 - index

(* parse_chunk of a piece of a call: nothing is handed over yet.           *)
Collected(id, index, piece) ==
  LET k   == Key(id, index)
      new == k \notin DOMAIN parser.args
  IN  [args  |-> [j \in DOMAIN parser.args \cup {k} |->
                    IF j # k THEN parser.args[j]
                    ELSE IF new THEN <<piece>> ELSE Append(parser.args[k], piece)],
       order |-> IF new THEN Append(parser.order, k) ELSE parser.order,
       key   |-> [i \in DOMAIN parser.key \cup {index} |->
                    IF i = index THEN k ELSE parser.key[i]]]

Event(kind, args) == [kind |-> kind, args |-> args, attempt |-> attempt]

(* parse_chunk of a reason to finish: the calls, then the reason.          *)
Finishing ==
  [i \in DOMAIN parser.order |-> Event("call", parser.args[parser.order[i]])]
    \o <<Event("finish", << >>)>>

-----------------------------------------------------------------------------
(* The client.                                                             *)

Over(end) ==
  /\ phase' = end
  /\ UNCHANGED <<attempt, idle, deadline, parser, heard, heardAt>>

(* The budget of a call is that of its last attempt.                       *)
RetryMutant ==
  /\ phase' = "connect"
  /\ attempt' = attempt + 1
  /\ idle' = 0
  /\ parser' = NewParser
  /\ deadline' = clock + CallTimeout
  /\ UNCHANGED <<heard, heardAt>>

(* The next attempt: a fresh parser, the same budget.                      *)
Retry ==
  /\ phase' = "connect"
  /\ attempt' = attempt + 1
  /\ idle' = 0
  /\ parser' = NewParser
  /\ UNCHANGED <<deadline, heard, heardAt>>

(* Any attempt but the last is retried.                                    *)
FinalMutant == attempt >= MaxRetries

(* `yielded or attempt >= self._max_retries`                               *)
Final == attempt >= MaxRetries \/ \E i \in DOMAIN heard : heard[i].attempt = attempt

(* httpx.TransportError: no connection, a connection lost, or no chunk for *)
(* the time allowed.                                                       *)
TransportFails ==
  /\ phase \in Reading
  /\ IF Final THEN Over("transport") /\ UNCHANGED sent
              ELSE Retry /\ sent' = NothingSent
  /\ UNCHANGED <<clock, style>>

Connected ==
  /\ phase = "connect"
  /\ phase' = "read"
  /\ idle' = 0
  /\ UNCHANGED <<attempt, deadline, parser, heard, heardAt, clock, style, sent>>

(* An error status is an answer, and not tried again.                      *)
HttpError ==
  /\ phase = "connect"
  /\ Over("http")
  /\ UNCHANGED <<clock, style, sent>>

Tick ==
  /\ phase \in Reading
  /\ idle < IdleTimeout
  /\ clock < MaxClock
  /\ clock' = clock + 1
  /\ idle' = idle + 1
  /\ UNCHANGED <<phase, attempt, deadline, parser, heard, heardAt, style, sent>>

Receiving == phase = "read" /\ idle < IdleTimeout

(* A line without `data: `, such as a comment that keeps the connection    *)
(* alive: SseFraming drops it, and nobody looks at the clock.              *)
Comment ==
  /\ Receiving
  /\ idle' = 0
  /\ UNCHANGED <<phase, attempt, deadline, parser, heard, heardAt, clock, style, sent>>

(* A frame, which the parser turns into p and events.                      *)
Frame(p, events) ==
  /\ Receiving
  /\ IF clock >= deadline
     THEN Over("timeout")
     ELSE /\ idle' = 0
          /\ parser' = p
          /\ heard' = heard \o events
          /\ heardAt' = IF events = << >> THEN heardAt ELSE clock
          /\ UNCHANGED <<phase, attempt, deadline>>
  /\ UNCHANGED <<clock, style>>

(* No JSON, or a delta with nothing in it.                                 *)
EmptyFrame == Frame(parser, << >>) /\ UNCHANGED sent

(* At most two pieces of it: a bound of the model.                         *)
Text ==
  /\ ~sent.finished
  /\ Len(heard) < 2
  /\ Frame(parser, <<Event("text", << >>)>>)
  /\ UNCHANGED sent

(* At most MaxPieces pieces in all: a bound of the model.                  *)
Bounded == FoldSeq(+, 0, sent.pieces) < MaxPieces

(* The pieces sent, one of call c among them.                              *)
Sending(c) ==
  IF c = Len(sent.pieces) + 1 THEN Append(sent.pieces, 1)
                              ELSE [sent.pieces EXCEPT ![c] = @ + 1]

(* The provider sends a piece of call c, named in its style.               *)
Piece(c) ==
  LET begun == Len(sent.pieces)
      first == c = begun + 1
      index == IF style = "shared" THEN 0 ELSE c
  IN  /\ ~sent.finished
      /\ Bounded
      /\ c \in 1 .. begun + 1
      /\ style = "shared" => c >= begun
      /\ \E id \in {NoId, c} :
           /\ first => (id = NoId) = (style = "nameless")
           /\ ~first /\ id = c => style = "shared"
           /\ Frame(Collected(id, index, c), << >>)
      /\ sent' = [sent EXCEPT !.pieces = Sending(c)]

FinishReason ==
  /\ ~sent.finished
  /\ Frame(parser, Finishing)
  /\ sent' = [sent EXCEPT !.finished = TRUE]

(* The chunk with the token counts.                                        *)
Usage ==
  /\ sent.finished
  /\ ~\E i \in DOMAIN heard : heard[i].kind = "usage"
  /\ Frame(parser, <<Event("usage", << >>)>>)
  /\ UNCHANGED sent

(* The response ends.                                                      *)
Closed ==
  /\ Receiving
  /\ Over("done")
  /\ UNCHANGED <<clock, style, sent>>

(* The caller stops reading: Esc.                                          *)
Cancel ==
  /\ phase \in Reading
  /\ Over("cancelled")
  /\ UNCHANGED <<clock, style, sent>>

StreamNext ==
  \/ Connected \/ HttpError \/ TransportFails \/ Tick \/ Comment
  \/ EmptyFrame \/ Text \/ FinishReason \/ Usage \/ Closed \/ Cancel
  \/ \E c \in Ids : Piece(c)

StreamSpec == StreamInit /\ [][StreamNext]_stream

-----------------------------------------------------------------------------

(* An event, a key of the parser, and what a provider has sent.            *)
Events == [kind    : {"text", "call", "finish", "usage"},
           args    : Seq(Ids),
           attempt : 0 .. MaxRetries]
Keys   == (-1 - MaxCalls .. MaxCalls) \ {0}
Sent   == {s \in [pieces : Seq(Nat \ {0}), finished : BOOLEAN] : Len(s.pieces) <= MaxCalls}

(* The parser's maps and its order are of the same calls.                  *)
ParserTyped ==
  /\ parser.order \in Seq(Keys)
  /\ DOMAIN parser.args = {parser.order[i] : i \in DOMAIN parser.order}
  /\ \A k \in DOMAIN parser.args : parser.args[k] \in Seq(Ids)
  /\ DOMAIN parser.key \subseteq 0 .. MaxCalls
  /\ \A i \in DOMAIN parser.key : parser.key[i] \in DOMAIN parser.args

(* The variables have the types of the client's and the parser's fields.   *)
StreamTypeOK ==
  /\ phase \in Reading \cup Ends
  /\ attempt \in 0 .. MaxRetries
  /\ clock \in 0 .. MaxClock /\ idle \in 0 .. IdleTimeout
  /\ deadline \in Nat
  /\ heardAt \in -1 .. MaxClock
  /\ style \in Styles
  /\ heard \in Seq(Events)
  /\ sent \in Sent
  /\ ParserTyped

(* What the caller hears comes from one attempt: a round is never put      *)
(* together from what two answers of the model began ("cannot be safely    *)
(* restarted", client.py:28-30), although pieces of calls that were sent   *)
(* before the connection broke do not count as heard.                      *)
HeardFromOneAttempt ==
  \A i, j \in DOMAIN heard : heard[i].attempt = heard[j].attempt

(* The calls handed over are those the provider sent in that attempt, each *)
(* with all its pieces, in order, and no other's, however the provider     *)
(* names them and whatever an attempt before it had sent                   *)
(* (_OpenAIChatParser).                                                    *)
CallsArriveWhole ==
  LET n == Len(sent.pieces)
  IN  sent.finished /\ phase # "timeout" =>
        \E k \in 0 .. Len(heard) - n :
          /\ \A i \in DOMAIN heard : heard[i].kind = "call" <=> i \in k + 1 .. k + n
          /\ \A c \in 1 .. n : heard[k + c].args = [i \in 1 .. sent.pieces[c] |-> c]

(* Retries do not stretch the budget of a call: nothing is handed over     *)
(* when it is spent (client.py:32-40).                                     *)
NothingAfterBudget == heardAt < CallTimeout
=============================================================================
