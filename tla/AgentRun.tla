------------------------------- MODULE AgentRun -------------------------------
(***************************************************************************)
(* One Agent Run from its admission to its end: the commands of            *)
(* agent_runs/service.py, the plan journal (agent_runs/journal.py), the    *)
(* native rows it is verified against                                      *)
(* (integrations/skyvern_agent_run_store.py) and the transactions of the   *)
(* live Stripe adapter between them (domains/stripe_payment/m10_runtime.py)*)
(*                                                                         *)
(* The plan has one step and the native task is the root row, so the task  *)
(* and the step are one status, `pair'.  Every command locks the root row  *)
(* and is one transaction, with two exceptions that are steps here: create,*)
(* approve and probe run several transactions one after another, and       *)
(* approve and reject read the approval before they lock it, which the     *)
(* generic approval route does not wait for.  The browser execution is     *)
(* ExecutionBoundary's, seen through the status of its attempt.            *)
(***************************************************************************)
EXTENDS Naturals, Sequences

CONSTANTS
    Calls,       \* API calls that may be in progress together
    Nobody,      \* no call holds the root row
    MaxCrashes,  \* bound on the calls that die between two transactions
    Signals      \* whether clients record pause signals

ASSUME CallAssumption ==
    /\ Nobody \notin Calls
    /\ MaxCrashes \in Nat
    /\ Signals \in BOOLEAN

VARIABLES
    admission,   \* the admission row exists
    pair,        \* native task and step status, "none" before the root row
    journal,     \* transitions of the plan journal, in order
    action,      \* status of the pending action
    approval,    \* status of the approval request
    expired,     \* the pending action is past its expires_at
    attempt,     \* status of the execution attempt, "none" without a row
    submitted,   \* the browser has submitted
    signal,      \* the pause signal row
    pc,          \* the next transaction of each call
    lock,        \* the call that holds the root row across a step
    crashes      \* calls that died so far

approvalVars == <<action, approval, expired>>
effectVars == <<attempt, submitted>>
callVars == <<pc, lock, crashes>>
vars == <<admission, pair, journal, action, approval, expired, attempt,
          submitted, signal, pc, lock, crashes>>

NoSignal == [at |-> 0, cancel |-> FALSE, open |-> FALSE]

Init ==
    /\ admission = FALSE
    /\ pair = "none"
    /\ journal = <<>>
    /\ action = "none" /\ approval = "none" /\ expired = FALSE
    /\ attempt = "none" /\ submitted = FALSE
    /\ signal = NoSignal
    /\ pc = [c \in Calls |-> "idle"]
    /\ lock = Nobody
    /\ crashes = 0

(***************************************************************************)
(* The journal.                                                            *)
(***************************************************************************)

Terminal == {"plan_completed", "approval_rejected", "run_cancelled"}

\* replay_plan_journal.  The digests, sequence numbers and identities of the
\* chain hold by the way _event builds them.
Replayable ==
    /\ journal # <<>>
    /\ journal[1] = "admitted"
    /\ \A i \in 1 .. Len(journal) - 1 : journal[i] \notin Terminal

\* The last transition, which fixes the state of the checkpoint
\* (_validate_transition_checkpoint): every caller of append keeps to it.
Latest == journal[Len(journal)]

Active == Latest \in {"admitted", "approval_resumed"}

\* verify_checkpoint_native_state, on the rows as the transaction leaves them.
Verified(transition, status) ==
    /\ transition = "approval_required" => status = "pending_approval"
    /\ transition = "approval_resumed" => status = "resuming"
    /\ transition \in {"approval_rejected", "run_cancelled"} => status = "canceled"
    /\ transition = "probe_blocked" =>
          status = "pending_result_probe" /\ attempt = "unknown"
    /\ transition = "plan_completed" => status = "completed" /\ attempt = "confirmed"

\* append_agent_run_transition in a transaction that leaves the pair at
\* `status'.  The checkpoint was read under the root lock the transaction
\* holds, so it is never stale.
Record(transition, status) ==
    /\ Replayable
    /\ Verified(transition, status)
    /\ journal' = Append(journal, transition)

(***************************************************************************)
(* The authoritative projection: _project_locked.                          *)
(***************************************************************************)

Readable == pair # "none" /\ admission /\ Replayable

\* A pause signal hides everything else.  It counts while the checkpoint it
\* was recorded at is the current one.
Paused == Readable /\ signal.open /\ signal.at = Len(journal)

Unpaused == Readable /\ ~signal.open

Succeeded == Unpaused /\ Latest = "plan_completed"

Unknown ==
    /\ Unpaused /\ Latest = "probe_blocked"
    /\ pair = "pending_result_probe" /\ attempt = "unknown"

Rejected ==
    /\ Unpaused /\ Latest = "approval_rejected"
    /\ pair = "canceled" /\ action = "rejected" /\ attempt = "none"

Cancelled ==
    /\ Unpaused /\ Latest = "run_cancelled"
    /\ pair = "canceled" /\ attempt = "none"

AwaitingApproval ==
    /\ Unpaused /\ Latest = "approval_required"
    /\ pair = "pending_approval" /\ action = "pending" /\ attempt = "none"

ApprovalRecorded == Unpaused /\ Latest = "approval_required" /\ action = "approved"

Running == Unpaused /\ Active /\ pair \in {"running", "resuming"} /\ attempt = "none"

\* STATE_CONFLICT: the journal and the native rows disagree.
Conflict ==
    Readable /\ ~ (\/ Paused \/ Succeeded \/ Unknown \/ Rejected \/ Cancelled
                   \/ AwaitingApproval \/ ApprovalRecorded \/ Running)

\* _effect_may_have_started; a completed checkpoint has no active step.
EffectMayHaveStarted == Latest # "plan_completed" /\ attempt # "none"

\* MUTANT of CancelLegal: a run that resumes may be canceled as well.
CancelLegalResuming ==
    \/ Paused /\ signal.cancel
    \/ Running

\* CANCEL is among the legal actions of the projection.
CancelLegal ==
    \/ Paused /\ signal.cancel
    \/ Running /\ pair = "running"

(***************************************************************************)
(* create.                                                                 *)
(***************************************************************************)

Free == lock = Nobody
GoTo(c, where) == pc' = [pc EXCEPT ![c] = where]

\* ACTION: Create ----------------------------------------------------------
\* The advisory gate admits one call for the request.  Root and admission
\* row exist both or neither, otherwise the command is refused.
Create(c) ==
    /\ pc[c] = "idle" /\ Free
    /\ \A d \in Calls : pc[d] \notin {"admit", "initialise", "ask"}
    /\ ~admission /\ pair = "none"
    /\ GoTo(c, "admit")
    /\ UNCHANGED <<admission, pair, journal, approvalVars, effectVars, signal, lock, crashes>>

\* ACTION: Admit -----------------------------------------------------------
Admit(c) ==
    /\ pc[c] = "admit"
    /\ admission' = TRUE
    /\ GoTo(c, "initialise")
    /\ UNCHANGED <<pair, journal, approvalVars, effectVars, signal, lock, crashes>>

\* ACTION: Initialise ------------------------------------------------------
\* _initialize_agent_run_state: root row, step and the first journal event.
Initialise(c) ==
    /\ pc[c] = "initialise"
    /\ pair' = "running"
    /\ journal' = <<"admitted">>
    /\ GoTo(c, "ask")
    /\ UNCHANGED <<admission, approvalVars, effectVars, signal, lock, crashes>>

\* MUTANT of Pausable: the pair is put to pending approval from any status.
PausableAlways == TRUE

\* What create_approval_pause requires of the rows.
Pausable == pair = "running" /\ action = "none"

\* ACTION: AskApproval -----------------------------------------------------
\* _pause_for_approval.  It checks the identities, not the checkpoint state.
AskApproval(c) ==
    /\ pc[c] = "ask" /\ Free
    /\ \/ /\ Pausable
          /\ Record("approval_required", "pending_approval")
          /\ pair' = "pending_approval"
          /\ action' = "pending" /\ approval' = "pending"
       \/ /\ ~(Pausable /\ Replayable)
          /\ UNCHANGED <<pair, journal, action, approval>>
    /\ GoTo(c, "idle")
    /\ UNCHANGED <<admission, expired, effectVars, signal, lock, crashes>>

(***************************************************************************)
(* The approval: the commands of the run and the generic route.            *)
(***************************************************************************)

\* ACTION: Expire ----------------------------------------------------------
\* The TTL passes.  The row keeps its status.
Expire ==
    /\ action # "none" /\ ~expired
    /\ expired' = TRUE
    /\ UNCHANGED <<admission, pair, journal, action, approval, effectVars, signal, callVars>>

\* ACTION: RouteDecides ----------------------------------------------------
\* _decide_persisted_request: it loads the pending action under its lock and
\* knows nothing of the run.
RouteDecides(outcome) ==
    /\ action = "pending" /\ approval = "pending" /\ ~expired
    /\ action' = outcome /\ approval' = outcome
    /\ UNCHANGED <<admission, pair, journal, expired, effectVars, signal, callVars>>

\* MUTANT of Granted: approve goes on whatever the route has decided.
GrantedOrNot == action # "pending"

\* A decision the generic route has made, taken up by approve.
Granted == approval = "approved" /\ action = "approved"

\* ACTION: ApproveReads ----------------------------------------------------
\* approve up to its first locked row: projection, pending action and
\* approval request stay in the session as they were read here.
ApproveReads(c) ==
    /\ pc[c] = "idle" /\ Free /\ Readable
    /\ \/ AwaitingApproval /\ GoTo(c, "decide")
       \/ ~AwaitingApproval /\ Granted /\ GoTo(c, "take")
    /\ lock' = c
    /\ UNCHANGED <<admission, pair, journal, approvalVars, effectVars, signal, crashes>>

Resumable(c) == pair = "pending_approval" /\ (pc[c] = "decide" => ~expired)

\* ACTION: ApproveCommits --------------------------------------------------
\* The locked selects return the objects that ApproveReads loaded, so a
\* decision the route committed in between is neither seen nor kept.
ApproveCommits(c) ==
    /\ pc[c] \in {"decide", "take"}
    /\ \/ /\ Resumable(c)
          /\ Record("approval_resumed", "resuming")
          /\ action' = "invalidated"
          /\ approval' = IF pc[c] = "decide" THEN "approved" ELSE approval
          /\ pair' = "resuming"
          /\ GoTo(c, "advance")
       \/ /\ ~Resumable(c)
          /\ GoTo(c, "idle")
          /\ UNCHANGED <<pair, journal, action, approval>>
    /\ lock' = Nobody
    /\ UNCHANGED <<admission, expired, effectVars, signal, crashes>>

\* ACTION: RejectReads -----------------------------------------------------
RejectReads(c) ==
    /\ pc[c] = "idle" /\ Free
    /\ AwaitingApproval
    /\ GoTo(c, "refuse")
    /\ lock' = c
    /\ UNCHANGED <<admission, pair, journal, approvalVars, effectVars, signal, crashes>>

\* ACTION: RejectCommits ---------------------------------------------------
RejectCommits(c) ==
    /\ pc[c] = "refuse"
    /\ \/ /\ ~expired
          /\ Record("approval_rejected", "canceled")
          /\ action' = "rejected" /\ approval' = "rejected"
          /\ pair' = "canceled"
       \/ /\ expired
          /\ UNCHANGED <<pair, journal, action, approval>>
    /\ GoTo(c, "idle")
    /\ lock' = Nobody
    /\ UNCHANGED <<admission, expired, effectVars, signal, crashes>>

(***************************************************************************)
(* cancel and the pause signal.                                            *)
(***************************************************************************)

\* ACTION: Cancel ----------------------------------------------------------
\* A completed checkpoint has no active step to cancel.
Cancel ==
    /\ Free /\ Readable
    /\ CancelLegal
    /\ ~EffectMayHaveStarted
    /\ Latest # "plan_completed"
    /\ Record("run_cancelled", "canceled")
    /\ pair' = "canceled"
    /\ signal' = [at |-> signal.at, cancel |-> signal.cancel, open |-> FALSE]
    /\ UNCHANGED <<admission, approvalVars, effectVars, callVars>>

\* ACTION: RecordSignal ----------------------------------------------------
\* record_pause_signal asks nothing of the state of the run.  A run has one
\* pause row: save_pause_signal refuses every other signal, also when the
\* first has been cleared.
RecordSignal(cancel) ==
    /\ Signals /\ Free /\ Readable
    /\ signal = NoSignal
    /\ signal' = [at |-> Len(journal), cancel |-> cancel, open |-> TRUE]
    /\ UNCHANGED <<admission, pair, journal, approvalVars, effectVars, callVars>>

(***************************************************************************)
(* advance: the live adapter after an approve, outside its transaction.    *)
(***************************************************************************)

\* ACTION: Advance ---------------------------------------------------------
\* The permit is consumed and the attempt authorized, or the adapter fails
\* before that (expired contract, no runtime, refused policy).  approve
\* advances a run once, so that _load_live_attempt finds no attempt here.
Advance(c) ==
    /\ pc[c] = "advance"
    /\ \/ attempt = "none" /\ attempt' = "authorized" /\ GoTo(c, "execute")
       \/ attempt' = attempt /\ GoTo(c, "idle")
    /\ UNCHANGED <<admission, pair, journal, approvalVars, submitted, signal, lock, crashes>>

\* ACTION: Execute ---------------------------------------------------------
\* The commit of EXECUTING; it fails if the scan has abandoned the attempt.
Execute(c) ==
    /\ pc[c] = "execute"
    /\ \/ attempt = "authorized" /\ attempt' = "executing" /\ GoTo(c, "submit")
       \/ attempt # "authorized" /\ attempt' = attempt /\ GoTo(c, "idle")
    /\ UNCHANGED <<admission, pair, journal, approvalVars, submitted, signal, lock, crashes>>

\* ACTION: Submit ----------------------------------------------------------
Submit(c) ==
    /\ pc[c] = "submit"
    /\ submitted' = TRUE
    /\ GoTo(c, "settle")
    /\ UNCHANGED <<admission, pair, journal, approvalVars, attempt, signal, lock, crashes>>

\* ACTION: Settle ----------------------------------------------------------
\* The commit of UNKNOWN; when the scan was first the adapter finds the
\* UNKNOWN attempt in its error path and goes on in the same way.
Settle(c) ==
    /\ pc[c] = "settle"
    /\ attempt \in {"executing", "unknown"}
    /\ attempt' = "unknown"
    /\ GoTo(c, "suspend")
    /\ UNCHANGED <<admission, pair, journal, approvalVars, submitted, signal, lock, crashes>>

\* MUTANT of SuspendedAs: a status the native rows do not have.
SuspendedUnlisted == "suspended"

\* MUTANT of SuspendedAs: the pair is left as the approval resumed it.
SuspendForgotten == pair

SuspendedAs == "pending_result_probe"

\* ACTION: Suspend ---------------------------------------------------------
\* _set_live_native_status, whatever the status was.
Suspend(c) ==
    /\ pc[c] = "suspend" /\ Free
    /\ pair' = SuspendedAs
    /\ GoTo(c, "reflect")
    /\ UNCHANGED <<admission, journal, approvalVars, effectVars, signal, lock, crashes>>

\* ACTION: Reflect ---------------------------------------------------------
\* _reflect_advance_result with the coordinator's translation.
Reflect(c) ==
    /\ pc[c] = "reflect" /\ Free
    /\ \/ Record("probe_blocked", pair)
       \/ ~(Replayable /\ Verified("probe_blocked", pair)) /\ journal' = journal
    /\ GoTo(c, "idle")
    /\ UNCHANGED <<admission, pair, approvalVars, effectVars, signal, lock, crashes>>

\* ACTION: RecoverAbandoned ------------------------------------------------
\* recover_abandoned_executions, which the application runs when it chooses.
RecoverAbandoned ==
    /\ attempt \in {"authorized", "executing"}
    /\ attempt' = IF attempt = "authorized" THEN "failed" ELSE "unknown"
    /\ UNCHANGED <<admission, pair, journal, approvalVars, submitted, signal, callVars>>

(***************************************************************************)
(* probe.                                                                  *)
(***************************************************************************)

ProbeLegal == Unknown

\* ACTION: Probe -----------------------------------------------------------
Probe(c) ==
    /\ pc[c] = "idle" /\ Free
    /\ ProbeLegal
    /\ GoTo(c, "probe")
    /\ UNCHANGED <<admission, pair, journal, approvalVars, effectVars, signal, lock, crashes>>

\* ACTION: Resolve ---------------------------------------------------------
\* _probe_live_run up to the commit of the verdict: confirmed or not confirmed
\* (the attempt fails), or nothing decided.  A probe that loaded the attempt
\* before another one resolved it writes its own verdict over the other's
\* (ExecutionBoundary), later ones are refused.
Resolve(c) ==
    /\ pc[c] = "probe"
    /\ \/ attempt' \in {"confirmed", "failed"} /\ GoTo(c, "complete")
       \/ attempt' = attempt /\ GoTo(c, "idle")
    /\ UNCHANGED <<admission, pair, journal, approvalVars, submitted, signal, lock, crashes>>

\* ACTION: Complete --------------------------------------------------------
\* The native pair completes on either verdict.
Complete(c) ==
    /\ pc[c] = "complete" /\ Free
    /\ pair' = "completed"
    /\ GoTo(c, "conclude")
    /\ UNCHANGED <<admission, journal, approvalVars, effectVars, signal, lock, crashes>>

\* AgentRunResultCoordinator.probe: only a confirmed attempt ends the plan, and
\* only one that the journal reports.
Concludes ==
    /\ Replayable /\ Latest = "probe_blocked"
    /\ Verified("plan_completed", pair)

\* ACTION: Conclude --------------------------------------------------------
\* _reflect_probe_result.
Conclude(c) ==
    /\ pc[c] = "conclude" /\ Free
    /\ \/ Concludes /\ Record("plan_completed", pair)
       \/ ~Concludes /\ journal' = journal
    /\ GoTo(c, "idle")
    /\ UNCHANGED <<admission, pair, approvalVars, effectVars, signal, lock, crashes>>

(***************************************************************************)
(* The system.                                                             *)
(***************************************************************************)

\* ACTION: Crash -----------------------------------------------------------
\* A call dies between two commits; its open transaction is rolled back.
Crash(c) ==
    /\ crashes < MaxCrashes
    /\ pc[c] # "idle"
    /\ crashes' = crashes + 1
    /\ GoTo(c, "idle")
    /\ lock' = IF lock = c THEN Nobody ELSE lock
    /\ UNCHANGED <<admission, pair, journal, approvalVars, effectVars, signal>>

\* The steps of a call that has begun.
Proceed(c) ==
    \/ Admit(c) \/ Initialise(c) \/ AskApproval(c)
    \/ ApproveCommits(c) \/ RejectCommits(c)
    \/ Advance(c) \/ Execute(c) \/ Submit(c) \/ Settle(c) \/ Suspend(c) \/ Reflect(c)
    \/ Resolve(c) \/ Complete(c) \/ Conclude(c)

Begin(c) == Create(c) \/ ApproveReads(c) \/ RejectReads(c) \/ Probe(c)

Next ==
    \/ \E c \in Calls : Begin(c) \/ Proceed(c) \/ Crash(c)
    \/ Cancel
    \/ \E cancel \in BOOLEAN : RecordSignal(cancel)
    \/ \E outcome \in {"approved", "rejected"} : RouteDecides(outcome)
    \/ Expire
    \/ RecoverAbandoned

Spec == Init /\ [][Next]_vars

\* A call that has begun runs to its end unless it dies: every await of the
\* service returns or raises.  No client is obliged to call.
FairSpec == Spec /\ \A c \in Calls : WF_vars(Proceed(c))

-----------------------------------------------------------------------------
(***************************************************************************)
(* Properties.                                                             *)
(***************************************************************************)

Steps == {"idle", "admit", "initialise", "ask", "decide", "take", "refuse",
          "advance", "execute", "submit", "settle", "suspend", "reflect",
          "probe", "complete", "conclude"}

Transitions == Terminal \cup {"admitted", "approval_required",
                              "approval_resumed", "probe_blocked"}

TypeOK ==
    /\ admission \in BOOLEAN
    /\ pair \in {"none", "running", "pending_approval", "resuming", "canceled",
                 "pending_result_probe", "completed"}
    /\ journal \in Seq(Transitions)
    /\ action \in {"none", "pending", "approved", "rejected", "invalidated"}
    /\ approval \in {"none", "pending", "approved", "rejected"}
    /\ expired \in BOOLEAN
    /\ attempt \in {"none", "authorized", "executing", "unknown", "confirmed", "failed"}
    /\ submitted \in BOOLEAN
    /\ signal \in [at : Nat, cancel : BOOLEAN, open : BOOLEAN]
    /\ pc \in [Calls -> Steps]
    /\ lock \in Calls \cup {Nobody}
    /\ crashes \in Nat

InJournal(transition) == \E i \in 1 .. Len(journal) : journal[i] = transition

\* The browser submits only in a run whose approval request is approved and
\* whose pending action is spent, whichever of the two routes decided and
\* however the calls interleave (service.approve).
SubmittedWasApproved ==
    submitted => approval = "approved" /\ action = "invalidated"

\* skyvern_agent_run_store.py:477 calls the checkpoint of a rejected or
\* canceled run a "Terminal non-effect checkpoint": a run that was rejected or
\* canceled never gets an attempt, before or after.
StoppedNeverActs ==
    InJournal("approval_rejected") \/ InJournal("run_cancelled") => attempt = "none"

\* As long as no pause signal was recorded, the journal a run has produced is
\* one that replay_plan_journal accepts, so that no interleaving of commands
\* appends to a terminal journal.
UnsignalledJournalReplays == signal = NoSignal /\ journal # <<>> => Replayable

\* As long as no pause signal was recorded for the run, a stop holds: cancel
\* and reject find no advance under way, none starts after them, and nothing
\* follows them in the journal.
UnsignalledStopHolds ==
    (signal = NoSignal => StoppedNeverActs) /\ UnsignalledJournalReplays

Busy == \E c \in Calls :
            pc[c] \in {"execute", "submit", "settle", "suspend", "reflect",
                       "complete", "conclude"}

\* The projection of an admitted run is a STATE_CONFLICT only while a call is
\* between two of its transactions or after something went wrong that the
\* journal has no transition for: a crash, a refusal by the generic route, an
\* attempt that failed or a pause signal.
ConflictHasCause ==
    Conflict =>
        Busy \/ crashes > 0 \/ approval = "rejected" \/ attempt = "failed"
             \/ signal # NoSignal

\* A verdict is given on an uncertain attempt only after the run has reported
\* it: probe is legal in the projection UNKNOWN alone (service.probe).
VerdictFollowsReport ==
    [][attempt = "unknown" /\ attempt' # "unknown" => Latest = "probe_blocked"]_vars

\* Unless a call dies, an attempt whose outcome is uncertain comes to be
\* recorded as such in the journal, whatever the other commands and the
\* recovery scan do meanwhile (approve: _set_live_native_status, then
\* _reflect_advance_result).
UncertainReported ==
    attempt = "unknown" ~> InJournal("probe_blocked") \/ crashes > 0

-----------------------------------------------------------------------------
(***************************************************************************)
(* The inductive invariant of AgentRunProofs.                              *)
(***************************************************************************)

Creating == {"admit", "initialise", "ask"}
Deciding == {"decide", "take", "refuse"}
Acting == {"execute", "submit", "settle", "suspend", "reflect", "probe",
           "complete", "conclude"}

\* Whoever decides holds the root row; one call creates, on empty rows.
CallsExclude ==
    /\ \A c \in Calls : pc[c] \in Deciding => lock = c
    /\ \A c, d \in Calls : pc[c] \in Creating /\ pc[d] \in Creating => c = d
    /\ \A c \in Calls : pc[c] \in {"admit", "initialise"} => pair = "none"
    /\ pair = "none" => journal = <<>> /\ action = "none"

\* What a deciding call has read is still so, but for the generic route.
DecisionsRead ==
    \A c \in Calls :
        /\ pc[c] = "take" => Granted
        /\ pc[c] \in {"decide", "refuse"} =>
              /\ action \in {"pending", "approved", "rejected"}
              /\ journal # <<>> /\ Latest = "approval_required"

\* An advance under way, an attempt and a submission rest on a spent approval
\* and never leave the pair running.
ActsApproved ==
    /\ \A c \in Calls : pc[c] \in Acting => attempt # "none"
    /\ attempt # "none" \/ submitted \/ (\E c \in Calls : pc[c] = "advance") =>
          approval = "approved" /\ action = "invalidated" /\ pair # "running"

\* The journal says so of an uncertain attempt that is probed and of a
\* resolved one.
JournalFollows ==
    /\ \A c \in Calls : pc[c] = "probe" =>
          /\ attempt \in {"unknown", "confirmed", "failed"}
          /\ journal # <<>>
          /\ \/ Latest = "probe_blocked"
             \/ Latest = "plan_completed" /\ attempt # "unknown"
    /\ journal # <<>> /\ Latest = "plan_completed" =>
          attempt \in {"confirmed", "failed"}

Unsignalled ==
    /\ signal = NoSignal \/ signal.at # 0
    /\ UnsignalledJournalReplays
    /\ signal = NoSignal
       /\ (InJournal("approval_rejected") \/ InJournal("run_cancelled")) =>
          /\ pair = "canceled" /\ attempt = "none"
          /\ \A c \in Calls : pc[c] # "advance"

IInv == /\ TypeOK /\ CallsExclude /\ DecisionsRead
        /\ ActsApproved /\ JournalFollows /\ Unsignalled

(***************************************************************************)
(* What the rows say of the latest transition, and who is between two of   *)
(* its transactions when they do not say it yet.                           *)
(***************************************************************************)

Effecting == {"execute", "submit", "settle", "suspend", "reflect"}
Advancing == Effecting \cup {"advance"}

\* One approve advances the run; the attempt is as far as it has taken it, or
\* as the scan has left it.
OneAdvance ==
    /\ \A c, d \in Calls : pc[c] \in Advancing /\ pc[d] \in Advancing => c = d
    /\ \A c \in Calls :
          /\ pc[c] = "advance" => attempt = "none"
          /\ pc[c] = "execute" => attempt \in {"authorized", "failed"}
          /\ pc[c] \in {"submit", "settle"} => attempt \in {"executing", "unknown"}
          /\ pc[c] \in {"suspend", "reflect"} => attempt = "unknown"
          /\ pc[c] = "reflect" => pair = "pending_result_probe"
          /\ pc[c] \in {"complete", "conclude"} => attempt \in {"confirmed", "failed"}
          /\ pc[c] = "conclude" => pair = "completed"

\* The native rows are those of the latest transition.
RowsFollow ==
    /\ action \in {"pending", "approved", "rejected"} => approval = action
    /\ journal # <<>> =>
          /\ Latest = "admitted" => pair = "running" /\ action = "none"
          /\ Latest = "approval_required" =>
                pair = "pending_approval" /\ action \in {"pending", "approved", "rejected"}
          /\ Latest = "approval_resumed" => (attempt = "none" => pair = "resuming")
          /\ Latest = "approval_rejected" => action = "rejected"
          /\ Latest = "probe_blocked" =>
                /\ attempt \in {"unknown", "confirmed", "failed"}
                /\ attempt = "unknown" => pair = "pending_result_probe"
          /\ Latest \in {"probe_blocked", "plan_completed"} =>
                \A c \in Calls : pc[c] \notin Advancing

\* An effect that the journal does not show yet is some call's to report.
EffectsInHand ==
    crashes = 0 /\ signal = NoSignal /\ journal # <<>> =>
        /\ Latest = "approval_resumed" /\ attempt \notin {"none", "failed"} =>
              \E c \in Calls : pc[c] \in Effecting
        /\ Latest = "probe_blocked" /\ attempt = "confirmed" =>
              \E c \in Calls : pc[c] \in {"complete", "conclude"}

CauseInv == OneAdvance /\ RowsFollow /\ EffectsInHand

-----------------------------------------------------------------------------
(***************************************************************************)
(* The life of the run as its journal and its attempt show it.             *)
(***************************************************************************)

Phase == IF journal = <<>> THEN "new" ELSE Latest

Effect == IF attempt \in {"authorized", "executing"} THEN "begun" ELSE attempt

Lifecycle == INSTANCE RunLifecycle WITH
    phase <- Phase, effect <- Effect, signalled <- signal # NoSignal

\* However commands, the generic route, the scan, crashes and pause signals
\* interleave, the run goes through its phases in order, and its one effect
\* begins, is submitted, reported and judged in the phase for it
\* (agent_runs/journal.py over agent_runs/service.py).
LifecycleSpec == Lifecycle!Spec

\* What the refinement needs beside IInv and CauseInv.  A pair that runs or
\* waits does so in its phase.
PairPhase ==
    journal # <<>> =>
        /\ pair = "running" => Latest = "admitted"
        /\ pair = "pending_approval" => Latest = "approval_required"

\* An advance is under way after the approval it rests on, or after a
\* cancellation that a signal allowed.
AdvanceUnderway ==
    \A c \in Calls : pc[c] \in Advancing =>
        /\ journal # <<>>
        /\ \/ Latest = "approval_resumed"
           \/ signal # NoSignal /\ Latest = "run_cancelled"

\* What has not passed Submit has not been submitted.
SubmitsOnce ==
    /\ \A c \in Calls : pc[c] \in {"advance", "execute", "submit"} => ~submitted
    /\ attempt \in {"none", "authorized"} => ~submitted

LifecycleInv == PairPhase /\ AdvanceUnderway /\ SubmitsOnce

==============================================================================
