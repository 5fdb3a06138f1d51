----------------------------- MODULE CallPromise -----------------------------
(***************************************************************************)
(* What a session promises about the end of a call, whichever pipeline     *)
(* runs it: CallLifecycle (transcriber, LLM, synthesizer) and S2S (one     *)
(* realtime model) both implement this specification.                      *)
(*                                                                         *)
(* A call talks until something decides to hang up; at most one task of    *)
(* the whole call becomes the owner of the hangup, and the call never goes *)
(* back: a decided hangup is not undone, an ended call says nothing more   *)
(* and is closed for good.                                                 *)
(***************************************************************************)
CONSTANTS Tasks,   \* tasks of the session that may carry out a hangup
          Nobody   \* no task: not a member of Tasks

VARIABLES stage,   \* talking, hanging, ended or over
          owner    \* the task that carries out the hangup

promise == <<stage, owner>>

Init == stage = "talking" /\ owner = Nobody

\* A hangup is decided; it may wait for a goodbye.
Decide == stage = "talking" /\ stage' = "hanging" /\ UNCHANGED owner

\* One task takes the hangup, decided before or now, and keeps it.
Claim ==
  /\ stage \in {"talking", "hanging"} /\ owner = Nobody
  /\ stage' = "hanging" /\ owner' \in Tasks

\* The owner ends the call.
End == stage = "hanging" /\ owner # Nobody /\ stage' = "ended" /\ owner' = Nobody

\* The call ends under it: the caller left or a connection failed.
Lost == stage \in {"talking", "hanging"} /\ stage' = "ended" /\ owner' = Nobody

\* The session returns.
Finish == stage = "ended" /\ stage' = "over" /\ UNCHANGED owner

\* The session is given up as a whole.
Abandon == stage \in {"talking", "hanging"} /\ stage' = "over" /\ owner' = Nobody

Next == Decide \/ Claim \/ End \/ Lost \/ Finish \/ Abandon

\* An ended call is closed.
Spec == Init /\ [][Next]_promise /\ WF_promise(Finish)
=============================================================================
