----------------------------- MODULE BrowserLoop -----------------------------
(***************************************************************************)
(* One run of AgentPactBrowserLoop (browser_loop/loop.py): observe, decide,*)
(* authorize, execute, observe again and verify, under an iteration and a  *)
(* retry budget.  The model, the policy, the verifier and the browser      *)
(* runtime are injected ports: each call of one may return anything its    *)
(* port allows or raise.  The event sink is a port too, and every emit is a*)
(* point where the run can be cut short.                                   *)
(*                                                                         *)
(* What an exception out of the runtime leaves behind is the subject of    *)
(* ExecutionBoundary; here it is a write that may have had its effect.     *)
(***************************************************************************)
EXTENDS Naturals

CONSTANTS
    MaxIterations,   \* BrowserLoopConfig.max_iterations
    MaxRetries       \* BrowserLoopConfig.max_retries

ASSUME BudgetAssumption == MaxIterations \in Nat \ {0} /\ MaxRetries \in Nat

VARIABLES
    failing,     \* whether the event sink of this run may raise
    pc,          \* where the run is
    iteration,
    retries,     \* retries_used
    effect,      \* effect_may_have_started
    kind,        \* effect of the action being executed, "read" or "write"
    pending,     \* its result is a pending result probe
    spent,       \* the observation in hand was already executed on
    unsettled,   \* a write may have had its effect and nothing verified it
    report,      \* status of the BrowserLoopReport
    checkpoint   \* the report carries the execution checkpoint

actionVars == <<effect, kind, pending, spent, unsettled>>
vars == <<failing, pc, iteration, retries, effect, kind, pending, spent, unsettled,
          report, checkpoint>>

Places == {"start", "decide", "claim", "policy", "execute", "returned",
           "deferred", "observe", "verify", "done"}

Init ==
    /\ failing \in BOOLEAN
    /\ pc = "start"
    /\ iteration = 0
    /\ retries = 0
    /\ effect = FALSE
    /\ kind = "read"
    /\ pending = FALSE
    /\ spent = FALSE
    /\ unsettled = FALSE
    /\ report = "none"
    /\ checkpoint = FALSE

(***************************************************************************)
(* Leaving the loop.                                                       *)
(***************************************************************************)

\* MUTANT of Flagged: the effect flag is not consulted.
FlaggedFailed(started) == "FAILED"

\* The status a failure of the event sink, or of the loop itself, leads to.
Flagged(started) == IF started THEN "UNKNOWN" ELSE "FAILED"

\* _terminal: the report has the given status if its event can be emitted.
ReportWith(status, carries) ==
    /\ pc' = "done"
    /\ \/ report' = status
       \/ failing /\ report' = Flagged(effect')
    /\ checkpoint' = carries
    /\ UNCHANGED <<failing, iteration>>

Report(status) == ReportWith(status, FALSE)

\* An emit raises out of _run and run() reports the failure.
EmitFails == failing /\ Report(Flagged(effect'))

GoesTo(place) ==
    /\ pc' = place
    /\ UNCHANGED <<failing, iteration, report, checkpoint>>

(***************************************************************************)
(* The next turn of the loop.                                              *)
(***************************************************************************)

\* MUTANT of NextIteration: the loop has no last iteration.
NextIterationAlways ==
    /\ pc' = "decide"
    /\ iteration' = IF iteration < MaxIterations THEN iteration + 1 ELSE iteration
    /\ UNCHANGED <<failing, report, checkpoint>>

NextIteration ==
    \/ /\ iteration < MaxIterations
       /\ pc' = "decide"
       /\ iteration' = iteration + 1
       /\ UNCHANGED <<failing, report, checkpoint>>
    \/ /\ iteration = MaxIterations
       /\ Report("FAILED")

\* MUTANT of MayRetry: one retry too many.
MayRetryOnceMore == retries <= MaxRetries

MayRetry == retries < MaxRetries

\* _retry_reobserve: a retry costs one unit of the budget, and the next turn
\* needs a fresh observation; without either the run fails.
RetryReobserve ==
    \/ /\ MayRetry
       /\ retries' = retries + 1
       /\ \/ spent' = FALSE /\ NextIteration
          \/ spent' = spent /\ Report("FAILED")
    \/ /\ ~MayRetry
       /\ UNCHANGED <<retries, spent>>
       /\ Report("FAILED")

(***************************************************************************)
(* The steps of a turn.                                                    *)
(***************************************************************************)

\* ACTION: FirstObservation ------------------------------------------------
FirstObservation ==
    /\ pc = "start"
    /\ UNCHANGED <<retries, actionVars>>
    /\ NextIteration \/ Report("FAILED")

\* ACTION: Decide ----------------------------------------------------------
\* A provider that raises, a decision for another observation and a FAILURE
\* end the run; a SUCCESS is a claim to be verified.
Decide ==
    /\ pc = "decide"
    /\ UNCHANGED <<retries, actionVars>>
    /\ \/ Report("FAILED")
       \/ EmitFails
       \/ GoesTo("claim")
       \/ GoesTo("policy")

\* ACTION: VerifyClaim -----------------------------------------------------
\* The verdict on a claim ends the run, or the page is observed again.
VerifyClaim ==
    /\ pc = "claim"
    /\ UNCHANGED <<effect, kind, pending, unsettled>>
    /\ \/ /\ UNCHANGED <<retries, spent>>
          /\ \/ EmitFails
             \/ \E status \in {"SUCCEEDED", "FAILED", "UNKNOWN"} : Report(status)
       \/ RetryReobserve
       \/ /\ spent' = FALSE
          /\ UNCHANGED retries
          /\ NextIteration

\* ACTION: Authorize -------------------------------------------------------
\* authorize_action, the checks of _authorized_command, the age of the
\* observation and the ACTION_STARTED event.
Authorize ==
    /\ pc = "policy"
    /\ UNCHANGED <<effect, pending, unsettled>>
    /\ \/ /\ UNCHANGED <<retries, kind, spent>>
          /\ \/ Report("FAILED")
             \/ Report("AWAITING_APPROVAL")
             \/ EmitFails
       \/ /\ UNCHANGED kind
          /\ RetryReobserve
       \/ /\ UNCHANGED <<retries, spent>>
          /\ kind' \in {"read", "write"}
          /\ GoesTo("execute")

\* MUTANT of RetrySafe: an uncertain write is retried like a read.
RetrySafeAlways(started) == TRUE

\* Whether an action may be executed again after a failure.
RetrySafe(started) == ~(started /\ kind = "write")

\* ACTION: ExecuteRaises ---------------------------------------------------
\* A stale observation is found before anything has started.  A
\* BrowserRuntimeError says whether the effect may have started; of any other
\* exception the loop assumes it has.
ExecuteRaises ==
    /\ pc = "execute"
    /\ UNCHANGED <<effect, kind, pending>>
    /\ \E started \in BOOLEAN :
          /\ unsettled' = (started /\ kind = "write")
          /\ \/ RetrySafe(started) /\ RetryReobserve
             \/ /\ ~RetrySafe(started)
                /\ UNCHANGED <<retries, spent>>
                /\ Report("UNKNOWN")
             \/ /\ RetrySafe(TRUE)
                /\ UNCHANGED <<retries, spent>>
                /\ Report("FAILED")

\* ACTION: ExecuteReturns --------------------------------------------------
\* The result says whether the effect may have started; the persisted executor
\* returns a started write as a pending result probe with its checkpoint.
ExecuteReturns ==
    /\ pc = "execute"
    /\ spent' = TRUE
    /\ \E started \in BOOLEAN :
          /\ unsettled' = (started /\ kind = "write")
          /\ effect' = (effect \/ unsettled')
    /\ pending' \in IF unsettled' THEN BOOLEAN ELSE {FALSE}
    /\ UNCHANGED <<retries, kind>>
    /\ GoesTo("returned")

\* ACTION: EmitResult ------------------------------------------------------
EmitResult ==
    /\ pc = "returned"
    /\ UNCHANGED <<retries, actionVars>>
    /\ EmitFails \/ GoesTo(IF pending THEN "deferred" ELSE "observe")

\* MUTANT of Deferred: the report is made without the checkpoint.
DeferredBare == Report("UNKNOWN")

\* The checkpoint is handed to _terminal, and only there.
Deferred == ReportWith("UNKNOWN", TRUE)

\* ACTION: DeferVerification -----------------------------------------------
\* The verification is recorded, its verdict is not used: the result probe
\* is the only judge of a pending write.
DeferVerification ==
    /\ pc = "deferred"
    /\ UNCHANGED <<retries, actionVars>>
    /\ EmitFails \/ Deferred

\* ACTION: ObserveAfter ----------------------------------------------------
ObserveAfter ==
    /\ pc = "observe"
    /\ UNCHANGED <<retries, effect, kind, pending, unsettled>>
    /\ \/ spent' = FALSE /\ GoesTo("verify")
       \/ /\ UNCHANGED spent
          /\ Report(IF kind = "write" THEN "UNKNOWN" ELSE "FAILED")

\* ACTION: VerifyAction ----------------------------------------------------
\* SUCCEEDED, FAILED and CONTINUE are verdicts on the effect of the action; an
\* UNKNOWN, a RETRY and a failure of the sink leave it as uncertain as it was.
VerifyAction ==
    /\ pc = "verify"
    /\ UNCHANGED <<effect, kind, pending, spent>>
    /\ \/ /\ UNCHANGED <<retries, unsettled>>
          /\ EmitFails \/ Report("UNKNOWN")
       \/ /\ unsettled' = FALSE
          /\ UNCHANGED retries
          /\ NextIteration \/ \E status \in {"SUCCEEDED", "FAILED"} : Report(status)
       \/ /\ ~RetrySafe(TRUE)
          /\ UNCHANGED <<retries, unsettled>>
          /\ Report("UNKNOWN")
       \/ /\ RetrySafe(TRUE)
          /\ UNCHANGED unsettled
          /\ \/ MayRetry /\ retries' = retries + 1 /\ NextIteration
             \/ ~MayRetry /\ UNCHANGED retries /\ Report("FAILED")

Next ==
    \/ FirstObservation
    \/ Decide
    \/ VerifyClaim
    \/ Authorize
    \/ ExecuteRaises
    \/ ExecuteReturns
    \/ EmitResult
    \/ DeferVerification
    \/ ObserveAfter
    \/ VerifyAction

Spec == Init /\ [][Next]_vars

\* Every call of a port returns or raises: the loop itself sets no timeout and
\* relies on those of its ports.
FairSpec == Spec /\ WF_vars(Next)

-----------------------------------------------------------------------------
(***************************************************************************)
(* Properties.                                                             *)
(***************************************************************************)

TypeOK ==
    /\ failing \in BOOLEAN
    /\ pc \in Places
    /\ iteration \in 0 .. MaxIterations
    /\ retries \in 0 .. MaxRetries
    /\ effect \in BOOLEAN
    /\ kind \in {"read", "write"}
    /\ pending \in BOOLEAN
    /\ spent \in BOOLEAN
    /\ unsettled \in BOOLEAN
    /\ report \in {"none", "SUCCEEDED", "FAILED", "UNKNOWN", "AWAITING_APPROVAL"}
    /\ checkpoint \in BOOLEAN

\* Nothing is executed, neither again nor anew, while the effect of an
\* earlier write is uncertain, and nothing on an observation that was already
\* acted on: no path of retries, failures and claims leads back to the browser
\* without a fresh observation and authorization.
NeverReplays == pc = "execute" => ~unsettled /\ ~spent

\* A write with an uncertain execution is reported UNKNOWN, as far as the code
\* keeps that rule: for every write under a sink that does not raise, and under
\* any sink for a write the runtime returned from, which the effect flag of
\* _RunState remembers.
ReturnedIsUnknown ==
    unsettled /\ pc = "done" /\ (effect \/ ~failing) => report = "UNKNOWN"

\* A run that leaves an attempt to be probed hands its checkpoint to the owner,
\* unless the sink failed, and is UNKNOWN even then.
CheckpointReported ==
    pending /\ pc = "done" => report = "UNKNOWN" /\ (checkpoint \/ failing)

\* Every run ends in a report, whatever its ports answer.
Reports == <>(pc = "done")

\* Where a write can still be uncertain, and of what action.
UncertainPlaces ==
    unsettled => pc \in {"returned", "deferred", "observe", "verify", "done"}
                 /\ kind = "write"

\* The observation in hand, wherever an action can follow, was not acted on.
FreshToAct ==
    pc \in {"start", "decide", "claim", "policy", "execute", "verify"} => ~spent

\* A pending result is that of a write that is not verified by the loop.
PendingUnsettled ==
    pending => pc \in {"returned", "deferred", "done"} /\ unsettled /\ effect

\* What makes the safety properties inductive: an uncertain write is either on
\* its way to its verification or the last thing the run did.
IInv ==
    /\ TypeOK
    /\ UncertainPlaces
    /\ FreshToAct
    /\ ReturnedIsUnknown
    /\ PendingUnsettled
    /\ CheckpointReported

=============================================================================
