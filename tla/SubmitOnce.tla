----------------------------- MODULE SubmitOnce -----------------------------
(***************************************************************************)
(* What the Browser Runner promises of every delivery task: its prompt is  *)
(* sent to the consumer web product at most once, by the one device that   *)
(* was committed to send it before it was sent, however devices, portal    *)
(* users and the settlement interleave and whatever crashes or is delayed. *)
(* An overseas run promises the same of every paid call and the slot of    *)
(* the worker that makes it.                                               *)
(*                                                                         *)
(* ExtensionRunner and OverseasRuns implement this specification.          *)
(***************************************************************************)
EXTENDS Integers

CONSTANTS
  Tasks,
  Senders,  \* whoever may be committed to send a prompt
  Nobody

VARIABLES
  sender,   \* sender[t]: who is committed to send the prompt of t, or Nobody
  sends,    \* sends[t][s]: how many times s sent it
  outcome   \* outcome[t]: "open", or how the task ended

vars == <<sender, sends, outcome>>

Init ==
  /\ sender = [t \in Tasks |-> Nobody]
  /\ sends = [t \in Tasks |-> [s \in Senders |-> 0]]
  /\ outcome = [t \in Tasks |-> "open"]

\* The commitment is made once, while the task is open, and never moves.
Commit(t, s) ==
  /\ outcome[t] = "open"
  /\ sender[t] = Nobody
  /\ sender' = [sender EXCEPT ![t] = s]
  /\ UNCHANGED <<sends, outcome>>

\* The web page is not under anyone's control: a prompt handed to it may be
\* sent after the task has been closed.
Send(t) ==
  /\ sender[t] # Nobody
  /\ \A s \in Senders : sends[t][s] = 0
  /\ sends' = [sends EXCEPT ![t][sender[t]] = 1]
  /\ UNCHANGED <<sender, outcome>>

\* What may become of an open task: a committed task is never cancelled.
Ends(t) ==
  {"succeeded", "failed"} \cup (IF sender[t] = Nobody THEN {"cancelled"} ELSE {})

\* One transaction may close many tasks.
Close ==
  /\ outcome' \in [Tasks -> {"open", "succeeded", "failed", "cancelled"}]
  /\ \A t \in Tasks : outcome'[t] # outcome[t] =>
       outcome[t] = "open" /\ outcome'[t] \in Ends(t)
  /\ UNCHANGED <<sender, sends>>

Next ==
  \/ \E t \in Tasks : Send(t) \/ \E s \in Senders : Commit(t, s)
  \/ Close

Spec == Init /\ [][Next]_vars
=============================================================================
