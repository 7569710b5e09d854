--------------------------------- MODULE Turn ---------------------------------
(***************************************************************************)
(* What the application promises of a turn, whatever workers, events and   *)
(* checkpoints it takes: one conversation at a time, which runs, waits for *)
(* an answer or is paused by Esc; which keeps every message it was given   *)
(* and the work that was checkpointed; and which only its own end closes.  *)
(***************************************************************************)
EXTENDS Naturals

VARIABLES
  phase,   \* "idle", "running", "waiting" (for an answer) or "paused" (by Esc)
  heard,   \* messages of this turn that the session to go on with contains
  work     \* node boundaries that session is past

vars == <<phase, heard, work>>

TypeOK ==
  /\ phase \in {"idle", "running", "waiting", "paused"}
  /\ heard \in Nat
  /\ work \in Nat

Init == phase = "idle" /\ heard = 0 /\ work = 0

(* A message on an idle prompt opens a turn.                               *)
Open ==
  /\ phase = "idle"
  /\ phase' = "running"
  /\ heard' = 1
  /\ work' = 0

(* A node boundary is passed; the turn runs on, or asks something.         *)
Advance ==
  /\ phase = "running"
  /\ phase' \in {"running", "waiting"}
  /\ work' \in {work, work + 1}
  /\ UNCHANGED heard

(* A message to a waiting or a paused turn goes on where it stopped.       *)
Message ==
  /\ phase \in {"waiting", "paused"}
  /\ phase' = "running"
  /\ heard' = heard + 1
  /\ UNCHANGED work

(* Esc keeps what there is.                                                *)
Pause ==
  /\ phase \in {"running", "waiting"}
  /\ phase' = "paused"
  /\ UNCHANGED <<heard, work>>

(* The run came to its end, or failed.                                     *)
Close ==
  /\ phase = "running"
  /\ phase' = "idle"
  /\ heard' = 0
  /\ work' = 0

Next == Open \/ Advance \/ Message \/ Pause \/ Close

(* A turn that runs asks or ends.  Answers are nobody's promise.           *)
Spec == Init /\ [][Next]_vars /\ WF_vars(Close \/ (Advance /\ phase' = "waiting"))
=============================================================================
