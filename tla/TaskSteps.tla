------------------------------ MODULE TaskSteps ------------------------------
(***************************************************************************)
(* One task of the Skyvern engine (forge/agent.py): the chain of its steps,*)
(* from the background executor that launches it to the webhook that       *)
(* reports it, with cancel requests at any time.                           *)
(*                                                                         *)
(* execute_step runs one step and calls itself, inside its own try block,  *)
(* for the retry or the next step, so an exception of an inner call is     *)
(* handled once more by the call around it, with the step of that call.    *)
(* The task stands alone or is a try of a block of a workflow run, which may*)
(* be canceled or time out meanwhile.                                      *)
(* What the model, the page and the artifact store do is any outcome the   *)
(* code distinguishes; the database answers.                               *)
(***************************************************************************)
EXTENDS Naturals, Sequences

CONSTANTS
    MaxSteps,     \* max_steps_per_run
    MaxRetries,   \* max_retries_per_step
    MaxCancels    \* bound: cancel requests that pass validation

ASSUME BoundsAssumption ==
    MaxSteps \in Nat \ {0} /\ MaxRetries \in Nat /\ MaxCancels \in Nat

\* A step is known by its order and its retry index.  Two orders and one index
\* more than the budgets allow are here to be ruled out.
Ids == (0 .. MaxSteps + 1) \X (0 .. MaxRetries + 1)

VARIABLES
    run,         \* status of the workflow run, "none" for a task on its own
    task,        \* status of the task row
    step,        \* status of each step row, "none" when there is no row
    frames,      \* the steps of the nested calls of execute_step
    pc,          \* where the innermost call is
    guarded,     \* it is inside its try block
    caught,      \* the exception it handles, "none" outside a handler
    verdict,     \* status update_task has validated and not yet written
    seen,        \* the task status clean_up_task read from the database
    reports,     \* statuses posted to the webhook by the chain
    discarded,   \* speculative steps handed to a background cancellation
    canceling,   \* cancel requests between their check and their write
    cancels,     \* cancel requests that passed the check
    late         \* steps started while the task or its run was stopped

vars == <<run, task, step, frames, pc, guarded, caught, verdict, seen, reports,
          discarded, canceling, cancels, late>>

RunStatus == {"none", "running", "canceled", "timed_out"}
TaskStatus == {"created", "running", "failed", "terminated", "completed", "canceled",
               "timed_out"}
StepStatus == {"none", "created", "running", "failed", "completed", "canceled"}
Final == {"failed", "terminated", "completed", "canceled", "timed_out"}
Exceptions == {"webhook", "canceled", "unsupported", "scraping", "fails"}
Places == {"launch", "entry", "ready", "act", "failed", "completed", "verifying",
           "conclude", "handle", "failing", "cleanup", "send", "raised", "returned"}

Init ==
    /\ run \in {"none", "running"}
    /\ task = "created"
    /\ step = [id \in Ids |-> "none"]
    /\ frames = <<>>
    /\ pc = "launch"
    /\ guarded = FALSE
    /\ caught = "none"
    /\ verdict = "none"
    /\ seen = "none"
    /\ reports = <<>>
    /\ discarded = {}
    /\ canceling = 0
    /\ cancels = 0
    /\ late = 0

cur == frames[Len(frames)]
Retry(id) == <<id[1], id[2] + 1>>
Following(id) == <<id[1] + 1, 0>>

\* TaskStatus.can_update_to, for the statuses a task of this kind has.
CanBecome(status) ==
    \/ task = "created" /\ status \in {"failed", "canceled", "timed_out"}
    \/ task = "running" /\ status \in Final
    \/ task = "canceled" /\ status = "completed"

(***************************************************************************)
(* Moves between the places of a call.                                     *)
(***************************************************************************)

chainVars == <<frames, guarded, caught, verdict, seen, reports, discarded, late>>
cancelVars == <<run, canceling, cancels>>

GoTo(place) ==
    /\ pc' = place
    /\ UNCHANGED <<task, step, chainVars, cancelVars>>

StepTo(status, place) ==
    /\ step' = [step EXCEPT ![cur] = status]
    /\ pc' = place
    /\ UNCHANGED <<task, chainVars, cancelVars>>

\* An exception reaches the handlers of the innermost call when that call is in
\* its try block, those of the call around it when not, and the background
\* runner, or the block of the workflow run, when there is no other call.
Raised(kind) ==
    /\ guarded' = FALSE
    /\ IF guarded
         THEN pc' = "handle" /\ caught' = kind /\ frames' = frames
         ELSE IF Len(frames) > 1
           THEN pc' = "handle" /\ caught' = kind /\ frames' = SubSeq(frames, 1, Len(frames) - 1)
           ELSE /\ pc' = IF run = "none" THEN "returned" ELSE "raised"
                /\ caught' = "none" /\ frames' = frames

Raise(kind) ==
    /\ Raised(kind)
    /\ UNCHANGED <<task, step, verdict, seen, reports, discarded, late, cancelVars>>

\* MUTANT of MayRetry: the retries are not counted.
MayAlwaysRetry(id) == TRUE

MayRetry(id) == id[2] < MaxRetries

\* MUTANT of LastOrder: one order too many.
LastOrderLate(id) == id[1] >= MaxSteps

LastOrder(id) == id[1] + 1 >= MaxSteps

\* update_task refreshes and validates here, and writes after further awaits.
\* The two exceptions it raises, TaskAlreadyCanceled and
\* InvalidTaskStatusTransition, have handlers that do the same.
UpdateTask(status) ==
    /\ \/ /\ CanBecome(status)
          /\ verdict' = status
          /\ pc' = "conclude"
          /\ UNCHANGED <<frames, guarded, caught>>
       \/ /\ ~CanBecome(status)
          /\ Raised("canceled")
          /\ UNCHANGED verdict
    /\ UNCHANGED <<task, seen, reports, late, cancelVars>>

\* The call for a step that was created now, or by the speculation before.
Recurse(id) ==
    /\ step' = [step EXCEPT ![id] = "created"]
    /\ frames' = Append(frames, id)
    /\ guarded' = FALSE
    /\ pc' = "entry"
    /\ UNCHANGED <<task, caught, verdict, seen, reports, discarded, late, cancelVars>>

(***************************************************************************)
(* One call of execute_step.                                               *)
(***************************************************************************)

\* ACTION: Launch ----------------------------------------------------------
\* BackgroundTaskExecutor.execute_task, or create_task_and_step_from_block: the
\* first step, and the task is running whatever it was.
Launch ==
    /\ pc = "launch"
    /\ task' = "running"
    /\ step' = [step EXCEPT ![<<0, 0>>] = "created"]
    /\ frames' = << <<0, 0>> >>
    /\ pc' = "entry"
    /\ UNCHANGED <<guarded, caught, verdict, seen, reports, discarded, late, cancelVars>>

\* MUTANT of Enter: the task is not read again between two steps.
EnterUnread ==
    /\ pc = "entry"
    /\ guarded' = TRUE
    /\ pc' = "ready"
    /\ UNCHANGED <<task, step, frames, caught, verdict, seen, reports, discarded, late, cancelVars>>

\* ACTION: Enter -----------------------------------------------------------
\* The run and the task are read again.  When one of them was stopped the call
\* ends here, before its try block; any other task is validated inside it on
\* this reading.
Enter ==
    /\ pc = "entry"
    /\ \/ /\ run \in {"canceled", "timed_out"}
          /\ step' = [step EXCEPT ![cur] = "canceled"]
          /\ UpdateTask(run)
          /\ UNCHANGED discarded
       \/ /\ run \in {"none", "running"}
          /\ task = "canceled"
          /\ StepTo("canceled", "cleanup")
       \/ /\ run \in {"none", "running"}
          /\ task = "running"
          /\ step[cur] = "created"
          /\ \A id \in Ids : step[id] # "running"
          /\ guarded' = TRUE
          /\ pc' = "ready"
          /\ UNCHANGED <<task, step, frames, caught, verdict, seen, reports,
                         discarded, late, cancelVars>>

\* ACTION: Begin -----------------------------------------------------------
\* The browser may fail to start or to navigate.  A task without a goal is done
\* on arrival at its page; for any other the agent starts the step.
Begin ==
    /\ pc = "ready"
    /\ \/ \E kind \in {"scraping", "fails"} : Raise(kind)
       \/ /\ step' = [step EXCEPT ![cur] = "completed"]
          /\ UpdateTask("completed")
          /\ UNCHANGED discarded
       \/ /\ step' = [step EXCEPT ![cur] = "running"]
          /\ pc' = "act"
          /\ late' = IF {task, run} \cap {"canceled", "timed_out"} # {} THEN late + 1 ELSE late
          /\ UNCHANGED <<task, frames, guarded, caught, verdict, seen, reports,
                         discarded, cancelVars>>

\* ACTION: Act -------------------------------------------------------------
\* agent_step: every exception but five ends in a failed step.
Act ==
    /\ pc = "act"
    /\ \/ StepTo("failed", "failed")
       \/ StepTo("completed", "completed")
       \/ Raise("unsupported")
       \/ Raise("scraping")

\* ACTION: HandleFailedStep ------------------------------------------------
HandleFailedStep ==
    /\ pc = "failed"
    /\ \/ Raise("fails")
       \/ MayRetry(cur) /\ Recurse(Retry(cur))
       \/ ~MayRetry(cur) /\ UpdateTask("failed") /\ UNCHANGED <<step, discarded>>

\* ACTION: HandleCompletedStep ---------------------------------------------
\* Without verification of the goal: what the step itself achieved decides,
\* then the budget.
HandleCompletedStep ==
    /\ pc = "completed"
    /\ \/ \E kind \in {"scraping", "fails"} : Raise(kind)
       \/ /\ \E status \in {"completed", "terminated"} : UpdateTask(status)
          /\ UNCHANGED <<step, discarded>>
       \/ LastOrder(cur) /\ UpdateTask("failed") /\ UNCHANGED <<step, discarded>>
       \/ ~LastOrder(cur) /\ Recurse(Following(cur))

\* ACTION: Speculate -------------------------------------------------------
\* With verification the next step is created before the goal is judged.
Speculate ==
    /\ pc = "completed"
    /\ step' = [step EXCEPT ![Following(cur)] = "created"]
    /\ pc' = "verifying"
    /\ UNCHANGED <<task, chainVars, cancelVars>>

\* MUTANT of GoalReached: the speculative step is forgotten.
GoalReachedForgetting ==
    /\ pc = "verifying"
    /\ \E status \in {"completed", "terminated"} : UpdateTask(status)
    /\ UNCHANGED <<step, discarded>>

\* ACTION: GoalReached -----------------------------------------------------
\* A background task is to cancel the speculative step; carrying out the final
\* action may raise.
GoalReached ==
    /\ pc = "verifying"
    /\ discarded' = discarded \cup {Following(cur)}
    /\ UNCHANGED step
    /\ \/ \E status \in {"completed", "terminated"} : UpdateTask(status)
       \/ /\ \E kind \in {"scraping", "fails"} : Raised(kind)
          /\ UNCHANGED <<task, verdict, seen, reports, late, cancelVars>>

\* ACTION: GoalNotReached --------------------------------------------------
GoalNotReached ==
    /\ pc = "verifying"
    /\ \/ /\ LastOrder(cur)
          /\ step' = [step EXCEPT ![Following(cur)] = "canceled"]
          /\ UpdateTask("failed")
          /\ UNCHANGED discarded
       \/ ~LastOrder(cur) /\ Recurse(Following(cur))

\* ACTION: Conclude --------------------------------------------------------
\* The write of update_task, and the cleanup unless the run was stopped.
Conclude ==
    /\ pc = "conclude"
    /\ task' = verdict
    /\ verdict' = "none"
    /\ pc' = IF guarded \/ caught # "none" THEN "cleanup" ELSE "returned"
    /\ UNCHANGED <<step, frames, guarded, caught, seen, reports, discarded, late, cancelVars>>

(***************************************************************************)
(* The handlers, and the end of the task.                                  *)
(***************************************************************************)

\* ACTION: Handle ----------------------------------------------------------
\* The webhook's exception ends the chain and a refused status leads to the
\* cleanup.  The others come to fail_task, whose update_step raises for a step
\* that is completed: it answers as if the task were failed.
Handle ==
    /\ pc = "handle"
    /\ \/ caught = "webhook" /\ GoTo("returned")
       \/ caught = "canceled" /\ GoTo("cleanup")
       \/ /\ caught \notin {"webhook", "canceled"}
          /\ \/ step[cur] = "completed" /\ GoTo("cleanup")
             \/ step[cur] # "completed" /\ StepTo("failed", "failing")

\* MUTANT of FailTask: a task that cannot be failed is tried again.
FailTaskAgain ==
    /\ pc = "failing"
    /\ \/ /\ CanBecome("failed")
          /\ verdict' = "failed"
          /\ pc' = "conclude"
          /\ UNCHANGED <<task, step, frames, guarded, caught, seen, reports,
                         discarded, late, cancelVars>>
       \/ ~CanBecome("failed") /\ GoTo("handle")

\* ACTION: FailTask --------------------------------------------------------
\* A task that cannot be failed is not cleaned up, unless the handler ignores
\* the answer of fail_task.
FailTask ==
    /\ pc = "failing"
    /\ \/ /\ CanBecome("failed")
          /\ verdict' = "failed"
          /\ pc' = "conclude"
          /\ UNCHANGED <<task, step, frames, guarded, caught, seen, reports,
                         discarded, late, cancelVars>>
       \/ /\ ~CanBecome("failed")
          /\ GoTo(IF caught = "fails" THEN "returned" ELSE "cleanup")

\* ACTION: CleanUp ---------------------------------------------------------
\* clean_up_task reads the task again.  Browser and webhook are left to the run
\* when there is one; closing the browser may raise.
CleanUp ==
    /\ pc = "cleanup"
    /\ \/ run # "none" /\ GoTo("returned")
       \/ run = "none" /\ Raise("fails")
       \/ /\ run = "none"
          /\ seen' = task
          /\ pc' = "send"
          /\ UNCHANGED <<task, step, frames, guarded, caught, verdict, reports,
                         discarded, late, cancelVars>>

\* ACTION: Send ------------------------------------------------------------
\* The webhook has what clean_up_task read; posting it, or recording that it
\* was posted, may raise.
Send ==
    /\ pc = "send"
    /\ \/ caught \in {"canceled", "unsupported"} /\ GoTo("returned")
       \/ /\ caught \notin {"canceled", "unsupported"}
          /\ reports' = Append(reports, seen)
          /\ UNCHANGED <<task, step, verdict, seen, discarded, late, cancelVars>>
          /\ \/ pc' = "returned" /\ UNCHANGED <<frames, guarded, caught>>
             \/ Raised("webhook")

\* ACTION: BlockFailsTask --------------------------------------------------
\* What comes out of execute_step fails the task of a block whatever it was
\* (_handle_task_failure_with_error_detection).
BlockFailsTask ==
    /\ pc = "raised"
    /\ task' = "failed"
    /\ pc' = "returned"
    /\ UNCHANGED <<step, chainVars, cancelVars>>

(***************************************************************************)
(* The other actors.                                                       *)
(***************************************************************************)

\* ACTION: CancelDiscarded -------------------------------------------------
\* _persist_speculative_metadata_for_discarded_plan: the step is canceled once
\* the speculation has ended, unless its metadata cannot be stored.
CancelDiscarded(id) ==
    /\ id \in discarded
    /\ discarded' = discarded \ {id}
    /\ step' = [step EXCEPT ![id] = "canceled"]
    /\ UNCHANGED <<task, frames, pc, guarded, caught, verdict, seen, reports, late, cancelVars>>

\* ACTION: RequestCancel ---------------------------------------------------
\* cancel_task: update_task reads and validates ...
RequestCancel ==
    /\ cancels < MaxCancels
    /\ CanBecome("canceled")
    /\ canceling' = canceling + 1
    /\ cancels' = cancels + 1
    /\ UNCHANGED <<run, task, step, pc, chainVars>>

\* ACTION: WriteCancel -----------------------------------------------------
\* ... and writes, whatever the task has become.
WriteCancel ==
    /\ canceling > 0
    /\ task' = "canceled"
    /\ canceling' = canceling - 1
    /\ UNCHANGED <<run, step, pc, chainVars, cancels>>

\* ACTION: StopRun ---------------------------------------------------------
\* The run is canceled, or marked as timed out, by somebody else.
StopRun ==
    /\ run = "running"
    /\ run' \in {"canceled", "timed_out"}
    /\ UNCHANGED <<task, step, pc, chainVars, canceling, cancels>>

Chain ==
    \/ Launch \/ Enter \/ Begin \/ Act
    \/ HandleFailedStep \/ HandleCompletedStep
    \/ Speculate \/ GoalReached \/ GoalNotReached \/ Conclude
    \/ Handle \/ FailTask \/ CleanUp \/ Send
    \/ BlockFailsTask

Next ==
    \/ Chain
    \/ \E id \in Ids : CancelDiscarded(id)
    \/ RequestCancel
    \/ WriteCancel
    \/ StopRun

Spec == Init /\ [][Next]_vars

FairSpec == Spec /\ WF_vars(Chain)

(***************************************************************************)
(* Properties.                                                             *)
(***************************************************************************)

\* Types of the state: every step the chain creates is one the budgets allow, or
\* the speculative one beyond them (handle_failed_step, handle_completed_step).
TypeOK ==
    /\ run \in RunStatus
    /\ task \in TaskStatus
    /\ step \in [Ids -> StepStatus]
    /\ frames \in Seq(Ids)
    /\ pc \in Places
    /\ guarded \in BOOLEAN
    /\ caught \in Exceptions \cup {"none"}
    /\ verdict \in Final \cup {"none"}
    /\ seen \in TaskStatus \cup {"none"}
    /\ reports \in Seq(TaskStatus)
    /\ discarded \subseteq Ids
    /\ canceling \in Nat
    /\ cancels \in Nat
    /\ late \in Nat

Ran(id) == step[id] \in {"running", "failed", "completed"}

\* Within the budgets, and in order: a retry only after the failure of the
\* attempt before, a new order only after a completed step of the order before
\* (handle_failed_step, handle_completed_step, and the speculative step).
StepOrder ==
    \A id \in Ids : Ran(id) =>
        /\ id[1] < MaxSteps /\ id[2] <= MaxRetries
        /\ id[2] > 0 => step[<<id[1], id[2] - 1>>] = "failed"
        /\ id[1] > 0 => \E r \in 0 .. MaxRetries : step[<<id[1] - 1, r>>] = "completed"

\* At most one step is started after the task or its run was stopped
\* (execute_step: "Task is canceled, stopping execution").
CancelStops == late <= 1

LastStepCompleted ==
    \E id \in Ids : /\ step[id] = "completed"
                    /\ \A other \in Ids : Ran(other) => other[1] <= id[1]

\* What nobody works on any more is settled: no step is left running, none is
\* left waiting but those handed to a background cancellation, and the task is
\* final, or fail_task was told of a step that had completed ("Task might going
\* to be time_out").  The webhook is called at most once, and with a final status
\* unless so.
Settles ==
    /\ pc = "returned" =>
         /\ \A id \in Ids : step[id] \in {"created", "running"} => id \in discarded
         /\ task \in Final \/ LastStepCompleted
    /\ Len(reports) <= 1
    /\ reports # <<>> => reports[1] \in Final \/ LastStepCompleted

\* execute_step returns, whatever the model, the page and the webhook do.
ChainReturns == <>(pc = "returned")

=============================================================================
