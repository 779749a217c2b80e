------------------------------ MODULE CommandOnce ------------------------------
(***************************************************************************)
(* What the checkout routes of the worker promise their callers: a command *)
(* runs at most once, however often it is sent; a caller told that it was  *)
(* applied or refused is told what happened, and one told that it was      *)
(* accepted can count on it being queued.                                  *)
(***************************************************************************)
CONSTANTS Callers, Commands

VARIABLES
    outcome,    \* each command: "none", "queued", "applied" or "refused"
    told        \* what each caller was told: [command, verdict], or Silence

Silence == [verdict |-> "none"]

Init ==
    /\ outcome = [c \in Commands |-> "none"]
    /\ told = [r \in Callers |-> Silence]

Queue(c) ==
    /\ outcome[c] = "none"
    /\ outcome' = [outcome EXCEPT ![c] = "queued"]
    /\ UNCHANGED told

\* A command runs once: it is applied, or refused for good.
Run(c, verdict) ==
    /\ outcome[c] = "queued"
    /\ outcome' = [outcome EXCEPT ![c] = verdict]
    /\ UNCHANGED told

\* A caller gets one answer; one that says anything says what is so.
Tell(r, c, verdict) ==
    /\ told[r] = Silence
    /\ verdict \in {"applied", "refused"} => outcome[c] = verdict
    /\ verdict = "accepted" => outcome[c] # "none"
    /\ told' = [told EXCEPT ![r] = [command |-> c, verdict |-> verdict]]
    /\ UNCHANGED outcome

Next ==
    \/ \E c \in Commands : Queue(c)
    \/ \E c \in Commands, verdict \in {"applied", "refused"} : Run(c, verdict)
    \/ \E r \in Callers, c \in Commands, verdict \in {"applied", "refused", "accepted", "unknown"} :
          Tell(r, c, verdict)

Spec == Init /\ [][Next]_<<outcome, told>>

=============================================================================
