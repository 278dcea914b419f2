----------------------------- MODULE RunLifecycle -----------------------------
(***************************************************************************)
(* What an Agent Run promises to whoever follows it: the order of its      *)
(* journal, and that its one effect begins, is reported and is judged in   *)
(* the phase that allows it.                                               *)
(***************************************************************************)
VARIABLES
    phase,      \* the latest transition, "new" before the first
    effect,     \* "none", "begun", "unknown", "confirmed" or "failed"
    submitted,  \* the browser has submitted
    signalled   \* a pause signal was recorded for the run

vars == <<phase, effect, submitted, signalled>>

Init ==
    /\ phase = "new"
    /\ effect = "none"
    /\ submitted = FALSE
    /\ signalled = FALSE

Moves(from, to) == phase = from /\ phase' = to /\ UNCHANGED <<effect, submitted, signalled>>

Admit == Moves("new", "admitted")
AskApproval == Moves("admitted", "approval_required")
Approve == Moves("approval_required", "approval_resumed")
Reject == Moves("approval_required", "approval_rejected")

\* A run is canceled before it asks for approval; one that was signalled, at
\* any time before its effect.
Cancel ==
    /\ phase = "admitted" \/ (signalled /\ phase # "new")
    /\ effect = "none"
    /\ phase' = "run_cancelled"
    /\ UNCHANGED <<effect, submitted, signalled>>

\* The effect may take place: after the approval, and, which is what a signal
\* costs, after a cancellation of what was approved.
Underway == phase = "approval_resumed" \/ (signalled /\ phase = "run_cancelled")

Becomes(status) == effect' = status /\ UNCHANGED <<phase, submitted, signalled>>

BeginEffect == Underway /\ effect = "none" /\ Becomes("begun")

Submit ==
    /\ Underway
    /\ effect \in {"begun", "unknown"}
    /\ ~submitted
    /\ submitted' = TRUE
    /\ UNCHANGED <<phase, effect, signalled>>

LoseSight == effect = "begun" /\ Becomes("unknown")

\* Only an effect that has not left the process is given up.
GiveUp == effect = "begun" /\ ~submitted /\ Becomes("failed")

Report ==
    /\ Underway
    /\ effect = "unknown"
    /\ phase' = "probe_blocked"
    /\ UNCHANGED <<effect, submitted, signalled>>

Judge ==
    /\ phase = "probe_blocked"
    /\ effect = "unknown"
    /\ \E verdict \in {"confirmed", "failed"} : Becomes(verdict)

\* A second judge, who looked at the effect before the first had spoken, may
\* come to another verdict.
Revise ==
    /\ phase \in {"probe_blocked", "plan_completed"}
    /\ effect \in {"confirmed", "failed"}
    /\ \E verdict \in {"confirmed", "failed"} : Becomes(verdict)

Complete == effect = "confirmed" /\ Moves("probe_blocked", "plan_completed")

Signal ==
    /\ ~signalled /\ phase # "new"
    /\ signalled' = TRUE
    /\ UNCHANGED <<phase, effect, submitted>>

Next ==
    \/ Admit \/ AskApproval \/ Approve \/ Reject \/ Cancel
    \/ BeginEffect \/ Submit \/ LoseSight \/ GiveUp
    \/ Report \/ Judge \/ Revise \/ Complete
    \/ Signal

Spec == Init /\ [][Next]_vars

=============================================================================
