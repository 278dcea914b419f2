------------------------------ MODULE WorkflowRun ------------------------------
(***************************************************************************)
(* One workflow run of the Skyvern engine (forge/sdk/workflow/service.py): *)
(* execute_workflow walks the blocks of the workflow, runs the finally     *)
(* block, writes the final status, and cleans up.  Cancel and continue     *)
(* requests write the same status column, which no writer guards.          *)
(*                                                                         *)
(* Labels 1 .. Blocks are the blocks in an order that their edges follow;  *)
(* label 0 is the finally block.  What a block does is any status it can   *)
(* return; the pause of a human interaction and the iterations of a loop   *)
(* are modelled.  A block inside a loop is a human interaction, or returns *)
(* any status again.                                                       *)
(***************************************************************************)
EXTENDS Naturals, FiniteSets

CONSTANTS
    Blocks,            \* number of blocks besides the finally block
    MaxValues,         \* bound: values a loop iterates over
    MaxBody,           \* bound: blocks inside a loop
    MaxIterations,     \* DEFAULT_MAX_LOOP_ITERATIONS
    MaxStepsPerIteration, \* DEFAULT_MAX_STEPS_PER_ITERATION
    MaxStops,          \* bound: requests that stop the run
    MaxContinues       \* bound: continue requests that find the run paused

ASSUME BoundsAssumption ==
    /\ Blocks \in Nat \ {0} /\ MaxValues \in Nat /\ MaxBody \in Nat \ {0}
    /\ MaxIterations \in Nat \ {0} /\ MaxStepsPerIteration \in Nat \ {0}
    /\ MaxStops \in Nat /\ MaxContinues \in Nat

Finally == 0
Labels == 0 .. Blocks

VARIABLES
    kind,        \* what each block is; the finally block may be absent
    lenient,     \* continue_on_failure of each block
    status,      \* status of the workflow run
    pc,          \* where execute_workflow is
    block,       \* the block it is at
    outcome,     \* the result of that block
    loop,        \* the definition and the position of the loop being executed
    pre,         \* pre_finally_status
    seen,        \* the status of execute_workflow's own copy of the run
    escaped,     \* an exception left execute_workflow
    reports,     \* statuses posted to the webhook by execute_workflow
    stops,       \* requests that stopped the run
    continuing,  \* continue requests between their check and their write
    continues,   \* continue requests that passed the check
    results,     \* the results that count: of blocks without continue_on_failure,
                 \* and the canceled ones
    disturbed,   \* somebody wrote over what execute_workflow had written
    stopped,     \* the run was stopped before the finally block was considered
    late         \* blocks in which something was started, the block itself or one
                 \* inside it, while the status said that the run is stopped

definition == <<kind, lenient>>
requests == <<stops, continuing, continues, disturbed, stopped>>
vars == <<definition, status, pc, block, outcome, loop, pre, seen, escaped, reports,
          requests, results, late>>

RunStatus == {"created", "running", "paused", "failed", "terminated", "canceled",
              "timed_out", "completed"}
BlockStatus == {"completed", "failed", "terminated", "canceled", "timed_out"}
Kinds == {"work", "human", "loop", "conditional"}
Places == {"start", "setup", "prepare", "enter", "begin", "working", "waiting", "looping",
           "asking", "judge", "after", "reopen", "finally", "finalize", "cleanup", "send", "done"}

\* The statuses the block loop stops at.
Stopped(s) == s \in {"canceled", "timed_out"}
NotCompleted == {"canceled", "failed", "terminated", "timed_out"}

\* The blocks besides the finally block are being executed.
Executing == {"enter", "begin", "working", "waiting", "looping", "asking", "judge",
              "after"}

NoLoop == [values |-> 0, body |-> 0, lenient |-> FALSE, next |-> FALSE, i |-> 0, p |-> 0]
Loops == [values : 0 .. MaxValues, body : 0 .. MaxBody, lenient : BOOLEAN, next : BOOLEAN,
          i : 0 .. MaxIterations, p : 0 .. MaxBody]

Init ==
    /\ kind \in {k \in [Labels -> Kinds \cup {"none"}] :
                    /\ k[Finally] \in {"none", "work", "human"}
                    /\ \A b \in 1 .. Blocks : k[b] \in Kinds}
    /\ lenient \in {l \in [Labels -> BOOLEAN] : ~l[Finally]}
    /\ status = "created"
    /\ pc = "start"
    /\ block = 1
    /\ outcome = "none"
    /\ loop = NoLoop
    /\ pre = "none"
    /\ seen = "none"
    /\ escaped = FALSE
    /\ reports = {}
    /\ stops = 0 /\ continuing = 0 /\ continues = 0
    /\ disturbed = FALSE /\ stopped = FALSE
    /\ results = {}
    /\ late = {}

(***************************************************************************)
(* Before the blocks.                                                      *)
(***************************************************************************)

\* ACTION: Start -----------------------------------------------------------
\* The run is marked as running whatever it has become since it was created.
Start ==
    /\ pc = "start"
    /\ status' = "running"
    /\ seen' = "running"
    /\ pc' = "setup"
    /\ UNCHANGED <<definition, block, outcome, loop, pre, escaped, reports, requests, results, late>>

\* ACTION: SetUp -----------------------------------------------------------
\* When the context cannot be initialised or the browser session cannot be
\* begun, the run is failed and cleaned up.  What raises between these two (the
\* parameters, creating a session) nobody catches, and nothing is cleaned up.
SetUp ==
    /\ pc = "setup"
    /\ \/ pc' = "prepare" /\ UNCHANGED <<status, escaped, results>>
       \/ /\ status' = "failed"
          /\ results' = {"failed"}
          /\ pc' = "cleanup"
          /\ UNCHANGED escaped
       \/ pc' = "done" /\ escaped' = TRUE /\ UNCHANGED <<status, results>>
    /\ UNCHANGED <<definition, block, outcome, loop, pre, seen, reports, requests, late>>

\* ACTION: Prepare ---------------------------------------------------------
\* _execute_workflow_blocks marks the run as running once more.  A label that is
\* not found, or no block at all, is an exception nobody catches; a graph that
\* is not valid fails the run.
Prepare ==
    /\ pc = "prepare"
    /\ status' = "running"
    /\ \/ pc' = "enter" /\ UNCHANGED <<outcome, escaped>>
       \/ pc' = "judge" /\ outcome' = "raised" /\ UNCHANGED escaped
       \/ pc' = "cleanup" /\ escaped' = TRUE /\ UNCHANGED outcome
    /\ UNCHANGED <<definition, block, loop, pre, seen, reports, requests, results, late>>

(***************************************************************************)
(* One block (_execute_single_block).                                      *)
(***************************************************************************)

\* MUTANT of Enter: the run is not read again before a block.
EnterUnread ==
    /\ pc = "enter"
    /\ pc' = "begin"
    /\ UNCHANGED <<definition, status, block, outcome, loop, pre, seen, escaped, reports,
                   requests, results, late>>

\* ACTION: Enter -----------------------------------------------------------
Enter ==
    /\ pc = "enter"
    /\ pc' = IF Stopped(status) THEN "after" ELSE "begin"
    /\ UNCHANGED <<definition, status, block, outcome, loop, pre, seen, escaped, reports,
                   requests, results, late>>

\* A result of the current block.  That of the finally block is dropped, and so
\* is its exception.
Return(r) ==
    /\ IF block = Finally
         THEN pc' = "finalize" /\ outcome' = "none"
         ELSE pc' = "judge" /\ outcome' = r
    /\ loop' = NoLoop

\* MUTANT of WaitForHuman: the timeout is not checked.
WaitForHumanForever ==
    /\ pc = "waiting"
    /\ status # "paused" /\ Return("completed")
    /\ UNCHANGED <<definition, status, block, pre, seen, escaped, reports, requests, results, late>>

\* Block b starts, or a block inside it.
Started(b) == IF Stopped(status) THEN late \cup {b} ELSE late

\* ACTION: Begin -----------------------------------------------------------
\* Its parameters may not be found.  A human interaction pauses the run, and
\* returns at once when its text cannot be formatted or its mail not be sent.
Begin ==
    /\ pc \in {"begin", "finally"}
    /\ block' = IF pc = "finally" THEN Finally ELSE block
    /\ UNCHANGED <<definition, pre, seen, escaped, reports, requests, results>>
    /\ \/ /\ pc' = IF pc = "finally" THEN "finalize" ELSE "judge"
          /\ outcome' = IF pc = "finally" THEN "none" ELSE "raised"
          /\ UNCHANGED <<status, loop, late>>
       \/ /\ late' = Started(block')
          /\ \/ /\ kind[block'] \in {"work", "conditional"}
                /\ pc' = "working"
                /\ UNCHANGED <<status, outcome, loop>>
             \/ /\ kind[block'] = "human"
                /\ \/ pc' = "working" /\ UNCHANGED status
                   \/ pc' \in {"working", "waiting"} /\ status' = "paused"
                /\ UNCHANGED <<outcome, loop>>
             \/ /\ kind[block'] = "loop"
                /\ \E values \in 0 .. MaxValues, body \in 0 .. MaxBody, l, n \in BOOLEAN :
                     loop' = [values |-> values, body |-> body, lenient |-> l, next |-> n,
                              i |-> 0, p |-> 1]
                /\ pc' = "looping"
                /\ UNCHANGED <<status, outcome>>

\* ACTION: Work ------------------------------------------------------------
\* execute_safe turns an exception into a failed result.
Work ==
    /\ pc = "working"
    /\ \E r \in BlockStatus :
         /\ kind[block] = "conditional" => r \in {"completed", "failed"}
         /\ kind[block] = "human" => r = "failed"
         /\ Return(r)
    /\ UNCHANGED <<definition, status, block, pre, seen, escaped, reports, requests, results, late>>

\* ACTION: WaitForHuman ----------------------------------------------------
\* HumanInteractionBlock polls the run: after its timeout, and when the run is
\* paused no more, whatever it has become.
WaitForHuman ==
    /\ pc = "waiting"
    /\ \/ Return("timed_out")
       \/ status # "paused" /\ Return("completed")
    /\ UNCHANGED <<definition, status, block, pre, seen, escaped, reports, requests, results, late>>

\* The result of a loop whose last result was r (LoopBlockExecutedResult).
LoopResult(r) ==
    IF r = "canceled" THEN "canceled"
    ELSE IF r = "completed" \/ loop.lenient THEN "completed"
    ELSE IF r = "terminated" THEN "terminated" ELSE "failed"

\* The next iteration, or the end of the loop.
NextIteration(r) ==
    IF loop.i + 1 = loop.values THEN Return(LoopResult(r))
    ELSE IF loop.i + 1 >= MaxIterations THEN Return(LoopResult("failed"))
    ELSE loop' = [loop EXCEPT !.i = @ + 1, !.p = 1] /\ pc' = "looping" /\ UNCHANGED outcome

\* ACTION: EmptyLoop -------------------------------------------------------
\* No values, or no blocks, or values that cannot be computed.
EmptyLoop ==
    /\ pc = "looping"
    /\ loop.i = 0 /\ loop.p = 1
    /\ \/ Return("failed")
       \/ loop.values = 0 /\ Return("completed")
       \/ (loop.values = 0 \/ loop.body = 0) /\ Return("terminated")
    /\ UNCHANGED <<definition, status, block, pre, seen, escaped, reports, requests, results, late>>

\* MUTANT of LoopBlock: the blocks of an iteration go on after the last one.
LoopBlockBeyond ==
    /\ pc = "looping"
    /\ loop.values > 0 /\ loop.body > 0
    /\ loop' = [loop EXCEPT !.p = @ + 1]
    /\ UNCHANGED <<definition, status, pc, block, outcome, pre, seen, escaped, reports,
                   requests, results, late>>

\* After a result inside a loop: the next block, the next iteration, or the end.
\* The budget of the iteration is checked before the result is.
LoopGoesOn(r) ==
    \/ /\ loop.p >= MaxStepsPerIteration
       /\ IF loop.next THEN NextIteration("failed") ELSE Return(LoopResult("failed"))
    \/ /\ loop.p < MaxStepsPerIteration
       /\ \/ r = "canceled" /\ Return("canceled")
          \/ /\ r \notin {"canceled", "completed"} /\ ~loop.lenient
             /\ IF loop.next THEN NextIteration(r) ELSE Return(LoopResult(r))
          \/ /\ r = "completed" \/ (r # "canceled" /\ loop.lenient)
             /\ IF loop.p < loop.body
                  THEN loop' = [loop EXCEPT !.p = @ + 1] /\ pc' = "looping" /\ UNCHANGED outcome
                  ELSE NextIteration(r)

\* A block inside the loop returns r.
LoopReturn(r) ==
    /\ LoopGoesOn(r)
    /\ results' = IF r = "canceled" /\ loop.p < MaxStepsPerIteration
                    THEN results \cup {r} ELSE results

\* ACTION: LoopBlock -------------------------------------------------------
\* One block inside a loop.  The run is not read between two of them.  A human
\* interaction pauses the run as it does outside, and waits or fails.
LoopBlock ==
    /\ pc = "looping"
    /\ loop.values > 0 /\ loop.body > 0
    /\ late' = Started(block)
    /\ \/ status' = status /\ \E r \in BlockStatus : LoopReturn(r)
       \/ status' = "paused" /\ LoopReturn("failed")
       \/ status' = "paused" /\ pc' = "asking" /\ UNCHANGED <<outcome, loop, results>>
    /\ UNCHANGED <<definition, block, pre, seen, escaped, reports, requests>>

\* ACTION: LoopHuman -------------------------------------------------------
\* WaitForHuman inside a loop.
LoopHuman ==
    /\ pc = "asking"
    /\ \/ LoopReturn("timed_out")
       \/ status # "paused" /\ LoopReturn("completed")
    /\ UNCHANGED <<definition, status, block, pre, seen, escaped, reports, requests, late>>

\* Blocks without branches form one chain.  Beside a conditional block every edge
\* leads to a later block or to the end.
Following(b) ==
    IF \E c \in 1 .. Blocks : kind[c] = "conditional" THEN (b + 1 .. Blocks) \cup {Finally}
    ELSE IF b < Blocks THEN {b + 1} ELSE {Finally}

\* ACTION: Judge -----------------------------------------------------------
\* _handle_block_result_status, and the next block.  Finally stands for no next
\* block.  A conditional block that failed has taken no branch: the run ends, or
\* in version 1 goes to the block after it.
Judge ==
    /\ pc = "judge"
    /\ outcome' = "none"
    /\ results' = IF outcome = "raised" THEN results \cup {"failed"}
                  ELSE IF outcome = "canceled" \/ ~lenient[block] THEN results \cup {outcome}
                  ELSE results
    /\ \/ /\ outcome = "canceled"
          /\ status' = "canceled" /\ pc' = "after" /\ UNCHANGED block
       \/ /\ outcome = "raised" \/ (outcome \in {"failed", "timed_out"} /\ ~lenient[block])
          /\ status' = "failed" /\ pc' = "after" /\ UNCHANGED block
       \/ /\ outcome = "terminated" /\ ~lenient[block]
          /\ status' = "terminated" /\ pc' = "after" /\ UNCHANGED block
       \/ /\ outcome = "completed" \/ (outcome \in {"failed", "timed_out", "terminated"} /\ lenient[block])
          /\ UNCHANGED status
          /\ \E b \in Following(block) :
               /\ kind[block] = "conditional" /\ outcome # "completed" => b \in {block + 1, Finally}
               /\ pc' = IF b = Finally THEN "after" ELSE "enter"
               /\ block' = IF b = Finally THEN block ELSE b
    /\ UNCHANGED <<definition, loop, pre, seen, escaped, reports, requests, late>>

(***************************************************************************)
(* After the blocks.                                                       *)
(***************************************************************************)

\* ACTION: After -----------------------------------------------------------
\* The run is read again.  For one that did not fail a script may be generated,
\* whose exceptions nobody catches.
After ==
    /\ pc = "after"
    /\ pre' = status
    /\ seen' = status
    /\ \/ /\ status \notin {"canceled", "failed", "timed_out"}
          /\ pc' = "cleanup" /\ escaped' = TRUE
       \/ /\ pc' = IF kind[Finally] = "none" \/ status = "canceled" THEN "finalize"
                   ELSE IF status \in NotCompleted THEN "reopen" ELSE "finally"
          /\ UNCHANGED escaped
    /\ UNCHANGED <<definition, status, block, outcome, loop, reports, requests, results, late>>

\* ACTION: Reopen ----------------------------------------------------------
\* "Temporarily set to running for terminal workflows (for frontend UX)".
Reopen ==
    /\ pc = "reopen"
    /\ status' = "running"
    /\ seen' = "running"
    /\ pc' = "finally"
    /\ UNCHANGED <<definition, block, outcome, loop, pre, escaped, reports, requests, results, late>>

\* MUTANT of Finalize: what was set to running for the finally block stays so.
FinalizeForgetting ==
    /\ pc = "finalize"
    /\ status' = IF pre \notin NotCompleted THEN "completed" ELSE status
    /\ pc' = "cleanup"
    /\ UNCHANGED <<definition, block, outcome, loop, pre, seen, escaped, reports, requests, results, late>>

\* ACTION: Finalize --------------------------------------------------------
Finalize ==
    /\ pc = "finalize"
    /\ status' = IF pre \notin NotCompleted THEN "completed"
                 ELSE IF seen = "running" THEN pre ELSE status
    /\ pc' = "cleanup"
    /\ UNCHANGED <<definition, block, outcome, loop, pre, seen, escaped, reports, requests, results, late>>

\* ACTION: CleanUp ---------------------------------------------------------
\* Closing the browser or storing its session may raise.
CleanUp ==
    /\ pc = "cleanup"
    /\ pc' \in {"send", "done"}
    /\ UNCHANGED <<definition, status, block, outcome, loop, pre, seen, escaped, reports,
                   requests, results, late>>

\* ACTION: Send ------------------------------------------------------------
\* execute_workflow_webhook reads the run again for its body.
Send ==
    /\ pc = "send"
    /\ reports' = reports \cup {status}
    /\ pc' = "done"
    /\ UNCHANGED <<definition, status, block, outcome, loop, pre, seen, escaped,
                   requests, results, late>>

(***************************************************************************)
(* Requests.                                                               *)
(***************************************************************************)

\* ACTION: Stop ------------------------------------------------------------
\* cancel_workflow_run marks the run as canceled whatever it is; the timeout of
\* the infrastructure does the same with its status.
Stop ==
    /\ stops < MaxStops
    /\ status' \in {"canceled", "timed_out"}
    /\ stops' = stops + 1
    /\ disturbed' = TRUE
    /\ stopped' = (stopped \/ (status' = "canceled" /\ pc \in Executing /\ block # Finally))
    /\ UNCHANGED <<definition, pc, block, outcome, loop, pre, seen, escaped, reports,
                   continuing, continues, results, late>>

\* ACTION: RequestContinue -------------------------------------------------
RequestContinue ==
    /\ continues < MaxContinues
    /\ status = "paused"
    /\ continuing' = continuing + 1
    /\ continues' = continues + 1
    /\ UNCHANGED <<definition, status, pc, block, outcome, loop, pre, seen, escaped, reports,
                   stops, disturbed, stopped, results, late>>

\* ACTION: WriteContinue ---------------------------------------------------
\* _continue_workflow_run marks the run as running, paused or not by now.
WriteContinue ==
    /\ continuing > 0
    /\ status' = "running"
    /\ continuing' = continuing - 1
    /\ disturbed' = (disturbed \/ status # "paused")
    /\ UNCHANGED <<definition, pc, block, outcome, loop, pre, seen, escaped, reports,
                   stops, continues, stopped, results, late>>

Executor ==
    \/ Start \/ SetUp \/ Prepare
    \/ Enter \/ Begin \/ Work \/ WaitForHuman \/ EmptyLoop \/ LoopBlock \/ LoopHuman
    \/ Judge \/ After \/ Reopen \/ Finalize \/ CleanUp \/ Send

Next == Executor \/ Stop \/ RequestContinue \/ WriteContinue

Spec == Init /\ [][Next]_vars

FairSpec == Spec /\ WF_vars(Executor)

(***************************************************************************)
(* Properties.                                                             *)
(***************************************************************************)

\* Types of the state, with the position of the chain of blocks and of a loop
\* within its limits (execute_loop_helper).
TypeOK ==
    /\ kind \in [Labels -> Kinds \cup {"none"}]
    /\ lenient \in [Labels -> BOOLEAN]
    /\ status \in RunStatus
    /\ pc \in Places
    /\ block \in Labels
    /\ outcome \in BlockStatus \cup {"none", "raised"}
    /\ loop \in Loops
    /\ pre \in RunStatus \cup {"none"}
    /\ seen \in RunStatus \cup {"none"}
    /\ escaped \in BOOLEAN
    /\ reports \subseteq RunStatus
    /\ stops \in Nat /\ continuing \in Nat /\ continues \in Nat
    /\ disturbed \in BOOLEAN /\ stopped \in BOOLEAN
    /\ results \subseteq BlockStatus
    /\ late \subseteq Labels

\* As long as the status says that the run is stopped, each request that stopped
\* it leaves one block at most, the finally block included, in which anything
\* still starts (_execute_single_block: "Workflow run is canceled, stopping
\* execution inside workflow execution loop").  That one block may be a loop,
\* and then any number of the blocks inside it start: execute_loop_helper does
\* not read the run.  A stop ends when somebody writes over it, and nothing is
\* counted from there on: Start and Prepare, a human interaction in the one
\* block that still starts, a continue request, the verdict on a block that
\* fails, Reopen and Finalize do.
StopsHeeded == Cardinality(late) <= stops

\* What the blocks returned decides the status: any canceled block, else the
\* result that a block without continue_on_failure ended on.
Verdict ==
    IF "canceled" \in results THEN "canceled"
    ELSE IF results \cap {"failed", "timed_out"} # {} THEN "failed"
    ELSE IF "terminated" \in results THEN "terminated"
    ELSE "completed"

\* When nobody else wrote over it and no exception left execute_workflow, the
\* run ends with that status, whatever pauses and the finally block wrote in
\* between, and the webhook reports it (_finalize_workflow_run_status: "Set
\* final workflow run status based on pre-finally state").
BlocksDecide ==
    pc = "done" /\ ~disturbed /\ ~escaped =>
        status = Verdict /\ reports \subseteq {Verdict}

\* execute_workflow ends, however long a human interaction waits.
RunEnds == <>(pc = "done")

\* A run the user stopped while its blocks were executed does not execute the
\* finally block ("Skip for: canceled (user explicitly stopped)").
StoppedSkipsFinally == stopped => block # Finally

=============================================================================
