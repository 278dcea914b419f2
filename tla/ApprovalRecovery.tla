--------------------------- MODULE ApprovalRecovery ---------------------------
(***************************************************************************)
(* A governed pause from the moment the Agent needs approval to the fresh  *)
(* Agent execution that follows the decision: pending actions              *)
(* (governance/pending_action_service.py), approval requests               *)
(* (approval/persistence.py, approval/routes.py), the native task and step *)
(* (governance/approval_pause_service.py) and the recovery scheduler       *)
(* (approval_recovery_service.py, approval_recovery_scheduler.py,          *)
(* resume_execution_service.py) with the entry of the Skyvern agent it     *)
(* hands a task to.                                                        *)
(*                                                                         *)
(* A task is modelled with its one governed step.  A pause is a row of     *)
(* pending_actions with the approval request linked to it: both are        *)
(* inserted by create_approval_pause in one transaction.  Tasks and pauses *)
(* are numbers in the order of their created_at.                           *)
(***************************************************************************)
EXTENDS Naturals, FiniteSets

CONSTANTS
    NumTasks,     \* governed tasks
    NumPauses,    \* approval pauses that may be created, over all tasks
    Approvers,    \* users the approval routes let through
    Requester,    \* the user recorded as requester of a task's approvals, or nobody
    Workers,      \* processes running approval_recovery_scheduler
    BatchSize,    \* GOVERNANCE_RECOVERY_BATCH_SIZE
    ActionTtl,    \* life of a pending action, in ticks
    MaxCrashes    \* bound on the crashes of recovery workers

ASSUME SizeAssumption ==
    /\ NumTasks \in Nat \ {0} /\ NumPauses \in Nat \ {0}
    /\ BatchSize \in Nat \ {0} /\ ActionTtl \in Nat \ {0} /\ MaxCrashes \in Nat

Tasks == 1 .. NumTasks
Pauses == 1 .. NumPauses

VARIABLES
    task,       \* native task status
    step,       \* native step status
    first,      \* tasks whose original Agent execution is still under way
    owner,      \* the task a pause belongs to, 0 while the row does not exist
    action,     \* status of the pending action
    approval,   \* status of the approval request
    approver,   \* who decided it
    ticks,      \* age of the undecided pause, up to ActionTtl + 1
    review,     \* the approval each user's request has loaded, 0 for none
    seen,       \* the approval status that unlocked load returned
    wpc,        \* where each recovery worker is in its cycle
    todo,       \* tasks the worker's cycle has still to hand off
    copy,       \* the step status in the worker's records of the current task
    crashes     \* crashes so far

nativeVars == <<task, step, first>>
pauseVars == <<owner, action, approval, approver, ticks>>
routeVars == <<review, seen>>
workerVars == <<wpc, todo, copy, crashes>>
vars == <<task, step, first, owner, action, approval, approver, ticks,
          review, seen, wpc, todo, copy, crashes>>

NobodyYet == "nobody"
Active == {"pending", "approved"}

Init ==
    /\ task = [t \in Tasks |-> "running"]
    /\ step = [t \in Tasks |-> "running"]
    /\ first = Tasks
    /\ owner = [p \in Pauses |-> 0]
    /\ action = [p \in Pauses |-> "none"]
    /\ approval = [p \in Pauses |-> "none"]
    /\ approver = [p \in Pauses |-> NobodyYet]
    /\ ticks = [p \in Pauses |-> 0]
    /\ review = [u \in Approvers |-> 0]
    /\ seen = [u \in Approvers |-> "none"]
    /\ wpc = [w \in Workers |-> "scan"]
    /\ todo = [w \in Workers |-> {}]
    /\ copy = [w \in Workers |-> "none"]
    /\ crashes = 0

(***************************************************************************)
(* Creating a pause.                                                       *)
(***************************************************************************)

HasActivePause(t) == \E p \in Pauses : owner[p] = t /\ action[p] \in Active

NextPause(p) == owner[p] = 0 /\ \A q \in Pauses : q < p => owner[q] # 0

\* create_approval_pause, one transaction: the pending action, the approval
\* request, the link between them, and the native pair to pending_approval.
CreatePause(t, p) ==
    /\ NextPause(p)
    /\ ~HasActivePause(t)
    /\ task[t] = "running" /\ step[t] = "running"
    /\ owner' = [owner EXCEPT ![p] = t]
    /\ action' = [action EXCEPT ![p] = "pending"]
    /\ approval' = [approval EXCEPT ![p] = "pending"]
    /\ task' = [task EXCEPT ![t] = "pending_approval"]
    /\ step' = [step EXCEPT ![t] = "pending_approval"]

\* ACTION: FirstPause ------------------------------------------------------
\* The original Agent execution of a task stops at an approval.
FirstPause(t, p) ==
    /\ t \in first
    /\ CreatePause(t, p)
    /\ first' = first \ {t}
    /\ UNCHANGED <<approver, ticks, routeVars, workerVars>>

\* ACTION: CancelTask ------------------------------------------------------
\* The native cancel endpoint changes the task and leaves its step alone.
CancelTask(t) ==
    /\ task[t] \in {"running", "pending_approval", "resuming"}
    /\ task' = [task EXCEPT ![t] = "canceled"]
    /\ UNCHANGED <<step, first, pauseVars, routeVars, workerVars>>

\* ACTION: Tick ------------------------------------------------------------
Tick ==
    /\ ticks' = [p \in Pauses |->
                    IF action[p] = "pending" /\ ticks[p] <= ActionTtl
                    THEN ticks[p] + 1 ELSE ticks[p]]
    /\ UNCHANGED <<nativeVars, owner, action, approval, approver, routeVars, workerVars>>

(***************************************************************************)
(* Deciding an approval: routes._decide_persisted_request.                 *)
(***************************************************************************)

\* ACTION: LoadApproval ----------------------------------------------------
\* The route reads the request without a lock, to authorize the user.  The
\* session keeps that object: the locked select that follows does not
\* refresh it.
LoadApproval(u, p) ==
    /\ review[u] = 0
    /\ owner[p] # 0
    /\ review' = [review EXCEPT ![u] = p]
    /\ seen' = [seen EXCEPT ![u] = approval[p]]
    /\ UNCHANGED <<nativeVars, pauseVars, workerVars>>

Expired(p) == ticks[p] > ActionTtl

\* MUTANT of Undecided: record_approval_decision without its status check.
UndecidedUnchecked(p) == TRUE

\* The status check of _require_pending, on the row as it is committed.
Undecided(p) == action[p] = "pending"

Answer(u) ==
    /\ review' = [review EXCEPT ![u] = 0]
    /\ seen' = [seen EXCEPT ![u] = "none"]

\* MUTANT of MayDecide: requester and approver are not compared.
MayDecideOwn(u, p) == seen[u] = "pending"

\* The checks of decide_approval_request that raise ApprovalPersistenceError.
MayDecide(u, p) == seen[u] = "pending" /\ u # Requester[owner[p]]

\* MUTANT of Outcome: a refusal is stored as an expiry.
OutcomeExpires(approved) == IF approved THEN "approved" ELSE "expired"

Outcome(approved) == IF approved THEN "approved" ELSE "rejected"

\* MUTANT of RecordOutcome: the pending action is not moved with the request.
RecordApprovalOnly(p, approved) ==
    /\ approval' = [approval EXCEPT ![p] = Outcome(approved)]
    /\ action' = action

RecordOutcome(p, approved) ==
    /\ approval' = [approval EXCEPT ![p] = Outcome(approved)]
    /\ action' = [action EXCEPT ![p] = Outcome(approved)]

\* ACTION: Decide ----------------------------------------------------------
Decide(u, approved) ==
    LET p == review[u]
    IN  /\ p # 0
        /\ MayDecide(u, p)
        /\ Undecided(p)
        /\ ~Expired(p)
        /\ RecordOutcome(p, approved)
        /\ approver' = [approver EXCEPT ![p] = u]
        /\ Answer(u)
        /\ UNCHANGED <<nativeVars, owner, ticks, workerVars>>

\* ACTION: RefuseDecision --------------------------------------------------
\* ApprovalPersistenceError is a rollback and 409.  PendingActionError is not
\* caught by the route: the session closes without a commit, so the EXPIRED
\* that _require_pending wrote is rolled back with the rest.
RefuseDecision(u) ==
    LET p == review[u]
    IN  /\ p # 0
        /\ ~MayDecide(u, p) \/ ~Undecided(p) \/ Expired(p)
        /\ Answer(u)
        /\ UNCHANGED <<nativeVars, pauseVars, workerVars>>

(***************************************************************************)
(* The recovery cycle of a worker: run_approval_recovery_cycle.            *)
(***************************************************************************)

\* The rows a select ordered by created_at returns under its limit.
Batch(S) == {n \in S : Cardinality({m \in S : m < n}) < BatchSize}

\* MUTANT of Resumable: the state the transition leads to is required of the
\* pair, not the state it starts from.
ResumableAfterwards(p) ==
    task[owner[p]] = "resuming" /\ step[owner[p]] = "resuming"

\* begin_reobservation_after_approval accepts only a pair that waits.
Resumable(p) ==
    task[owner[p]] = "pending_approval" /\ step[owner[p]] = "pending_approval"

Invalidated(status) == "invalidated"

\* ACTION: PrepareApproved -------------------------------------------------
\* prepare_approved_pauses_for_reobservation and its commit.  A pause whose
\* task no longer waits is skipped and stays approved.
PrepareApproved(w) ==
    LET taken == {p \in Batch({q \in Pauses : action[q] = "approved"}) : Resumable(p)}
        resumed == {owner[p] : p \in taken}
    IN  /\ wpc[w] = "scan"
        /\ action' = [p \in Pauses |->
                         IF p \in taken THEN Invalidated(action[p]) ELSE action[p]]
        /\ task' = [t \in Tasks |-> IF t \in resumed THEN "resuming" ELSE task[t]]
        /\ step' = [t \in Tasks |-> IF t \in resumed THEN "resuming" ELSE step[t]]
        /\ wpc' = [wpc EXCEPT ![w] = "discover"]
        /\ UNCHANGED <<first, owner, approval, approver, ticks, routeVars, todo, copy, crashes>>

\* MUTANT of Claimable: a task left running by a crashed claim is not
\* discovered again.
ClaimableOnce(t) == step[t] = "resuming" /\ task[t] = "resuming"

\* A resuming step whose task may run: what discover_resuming_tasks keeps of
\* a batch and what the claim then requires under the row locks.
Claimable(t) == step[t] = "resuming" /\ task[t] \in {"resuming", "running"}

\* ACTION: Discover --------------------------------------------------------
Discover(w) ==
    LET found == {t \in Batch({s \in Tasks : step[s] = "resuming"}) : Claimable(t)}
    IN  /\ wpc[w] = "discover"
        /\ todo' = [todo EXCEPT ![w] = found]
        /\ wpc' = [wpc EXCEPT ![w] = IF found = {} THEN "scan" ELSE "handoff"]
        /\ UNCHANGED <<nativeVars, pauseVars, routeVars, copy, crashes>>

Current(w) == CHOOSE t \in todo[w] : \A s \in todo[w] : t <= s

\* The cycle goes on with its next task, also after a failed handoff.
NextTask(w) ==
    /\ todo' = [todo EXCEPT ![w] = @ \ {Current(w)}]
    /\ wpc' = [wpc EXCEPT ![w] = IF todo[w] = {Current(w)} THEN "scan" ELSE "handoff"]
    /\ copy' = [copy EXCEPT ![w] = "none"]
    /\ UNCHANGED crashes

GoesOn(w, next) ==
    /\ wpc' = [wpc EXCEPT ![w] = next]
    /\ UNCHANGED <<todo, crashes>>

\* ACTION: Claim -----------------------------------------------------------
\* claim_resuming_task_for_execution and its commit.
Claim(w) ==
    LET t == Current(w)
    IN  /\ wpc[w] = "handoff"
        /\ \/ /\ Claimable(t)
              /\ task' = [task EXCEPT ![t] = "running"]
              /\ GoesOn(w, "claimed")
              /\ UNCHANGED copy
           \/ /\ ~Claimable(t)
              /\ task' = task
              /\ NextTask(w)
        /\ UNCHANGED <<step, first, pauseVars, routeVars>>

\* ACTION: LoadRecords -----------------------------------------------------
\* execute_resuming_task reads task and step again after the commit, and
\* Agent.execute_step refreshes the task; a canceled one ends the step.
LoadRecords(w) ==
    LET t == Current(w)
    IN  /\ wpc[w] = "claimed"
        /\ \/ /\ task[t] = "canceled"
              /\ step' = [step EXCEPT ![t] = "canceled"]
              /\ NextTask(w)
           \/ /\ task[t] = "running"
              /\ copy' = [copy EXCEPT ![w] = step[t]]
              /\ GoesOn(w, "loaded")
              /\ step' = step
           \/ /\ task[t] \notin {"canceled", "running"}
              /\ NextTask(w)
              /\ step' = step
        /\ UNCHANGED <<task, first, pauseVars, routeVars>>

Startable(status) == status \in {"resuming", "failed"}

\* ACTION: Validate --------------------------------------------------------
\* validate_step_execution: the loaded step must be startable and a fresh
\* read must show no running step.
Validate(w) ==
    /\ wpc[w] = "loaded"
    /\ \/ /\ Startable(copy[w]) /\ step[Current(w)] # "running"
          /\ GoesOn(w, "validated")
          /\ UNCHANGED copy
       \/ /\ ~Startable(copy[w]) \/ step[Current(w)] = "running"
          /\ NextTask(w)
    /\ UNCHANGED <<nativeVars, pauseVars, routeVars>>

\* ACTION: StartAgent ------------------------------------------------------
\* update_step to running.  The transition is validated against the loaded
\* copy, not against the row.
StartAgent(w) ==
    /\ wpc[w] = "validated"
    /\ step' = [step EXCEPT ![Current(w)] = "running"]
    /\ GoesOn(w, "agent")
    /\ UNCHANGED <<task, first, copy, pauseVars, routeVars>>

\* ACTION: AgentPauses -----------------------------------------------------
\* The fresh plan needs approval again.
AgentPauses(w, p) ==
    /\ wpc[w] = "agent"
    /\ CreatePause(Current(w), p)
    /\ NextTask(w)
    /\ UNCHANGED <<first, approver, ticks, routeVars>>

\* ACTION: AgentEnds -------------------------------------------------------
\* The step ends; a canceled task keeps its status.
AgentEnds(w, status) ==
    LET t == Current(w)
    IN  /\ wpc[w] = "agent"
        /\ step' = [step EXCEPT ![t] = status]
        /\ task' = [task EXCEPT ![t] = IF @ = "canceled" THEN @ ELSE status]
        /\ NextTask(w)
        /\ UNCHANGED <<first, pauseVars, routeVars>>

\* ACTION: WorkerCrash -----------------------------------------------------
\* The process dies between two commits and starts a new cycle later.
WorkerCrash(w) ==
    /\ crashes < MaxCrashes
    /\ wpc[w] # "scan"
    /\ crashes' = crashes + 1
    /\ wpc' = [wpc EXCEPT ![w] = "scan"]
    /\ todo' = [todo EXCEPT ![w] = {}]
    /\ copy' = [copy EXCEPT ![w] = "none"]
    /\ UNCHANGED <<nativeVars, pauseVars, routeVars>>

Cycle(w) ==
    \/ PrepareApproved(w)
    \/ Discover(w)
    \/ Claim(w)
    \/ LoadRecords(w)
    \/ Validate(w)
    \/ StartAgent(w)
    \/ \E p \in Pauses : AgentPauses(w, p)
    \/ \E status \in {"completed", "failed"} : AgentEnds(w, status)

Next ==
    \/ \E t \in Tasks, p \in Pauses : FirstPause(t, p)
    \/ \E t \in Tasks : CancelTask(t)
    \/ \E u \in Approvers, p \in Pauses : LoadApproval(u, p)
    \/ \E u \in Approvers, approved \in BOOLEAN : Decide(u, approved)
    \/ \E u \in Approvers : RefuseDecision(u)
    \/ \E w \in Workers : Cycle(w)
    \/ \E w \in Workers : WorkerCrash(w)
    \/ Tick

Spec == Init /\ [][Next]_vars

\* approval_recovery_scheduler runs cycles for ever; within a cycle every
\* await returns.
FairSpec == Spec /\ \A w \in Workers : WF_vars(Cycle(w))

-----------------------------------------------------------------------------
(***************************************************************************)
(* Properties.                                                             *)
(***************************************************************************)

PairStatus == {"running", "pending_approval", "resuming", "completed",
               "failed", "canceled"}

TypeOK ==
    /\ task \in [Tasks -> PairStatus] /\ step \in [Tasks -> PairStatus]
    /\ first \subseteq Tasks
    /\ owner \in [Pauses -> Tasks \cup {0}]
    /\ action \in [Pauses -> Active \cup {"none", "rejected", "invalidated"}]
    /\ approval \in [Pauses -> {"none", "pending", "approved", "rejected"}]
    /\ approver \in [Pauses -> Approvers \cup {NobodyYet}]
    /\ ticks \in [Pauses -> 0 .. ActionTtl + 1]
    /\ review \in [Approvers -> Pauses \cup {0}]
    /\ seen \in [Approvers -> {"none", "pending", "approved", "rejected"}]
    /\ wpc \in [Workers -> {"scan", "discover", "handoff", "claimed", "loaded",
                            "validated", "agent"}]
    /\ todo \in [Workers -> SUBSET Tasks]
    /\ copy \in [Workers -> PairStatus \cup {"none"}]
    /\ crashes \in 0 .. MaxCrashes

\* The two rows of a pause always tell the same story, although the route
\* decides on an approval it loaded without a lock: a granted approval and
\* an action that is approved or already spent, and so for the others
\* (decide_approval_request is one transaction).
DecisionConsistent ==
    \A p \in Pauses :
        /\ approval[p] = "approved" <=> action[p] \in {"approved", "invalidated"}
        /\ approval[p] = "rejected" <=> action[p] = "rejected"
        /\ approval[p] = "pending" <=> action[p] = "pending"

\* A decision is final: two approvers who loaded the same pending request
\* cannot both decide it.
DecisionFinal ==
    [][\A p \in Pauses :
          approval[p] \in {"approved", "rejected"} =>
             approval'[p] = approval[p] /\ approver'[p] = approver[p]]_vars

\* A step has one approval at most that can still resume something, and none
\* while it resumes: none survives the resumption it was spent on, over all
\* rounds of re-observation (invalidate_approved_action_for_reobservation,
\* uq_pending_action_active_step).
OneActivePause ==
    \A p \in Pauses : action[p] \in Active =>
        /\ step[owner[p]] # "resuming"
        /\ \A q \in Pauses : action[q] \in Active /\ owner[q] = owner[p] => q = p

\* An approval that can still resume something belongs to a step that waits
\* for it (begin_reobservation_after_approval).
ActivePauseWaits ==
    \A p \in Pauses : action[p] \in Active => step[owner[p]] = "pending_approval"

\* While a step waits for approval no recovery worker's Agent acts on it.
NoAgentDuringPause ==
    \A w \in Workers :
        wpc[w] = "agent" => step[Current(w)] # "pending_approval"

\* The rows that a pause is spread over agree, and the worker with them:
\* approval, action, step and Agent.
PausesAgree ==
    DecisionConsistent /\ OneActivePause /\ ActivePauseWaits /\ NoAgentDuringPause

\* A waiting step resumes only by spending, in the same transaction, an
\* approval granted to it by someone other than the requester
\* (begin_reobservation_after_approval).
ResumeSpendsApproval ==
    [][\A t \in Tasks :
          step[t] # "resuming" /\ step'[t] = "resuming" =>
             /\ step[t] = "pending_approval" /\ task[t] = "pending_approval"
             /\ \E p \in Pauses :
                   /\ owner[p] = t
                   /\ action[p] = "approved" /\ action'[p] = "invalidated"
                   /\ approver[p] \in Approvers \ {Requester[t]}]_vars

Canceled(t) == \E s \in Tasks : s = t /\ task[s] = "canceled"

\* The rows of canceled tasks are skipped and stay in the select: as many of
\* them as a batch holds keep every younger row out of it for ever.
ApprovalStarved(p) ==
    BatchSize <= Cardinality({q \in Pauses :
                     q < p /\ action[q] = "approved" /\ Canceled(owner[q])})

StepStarved(t) ==
    BatchSize <= Cardinality({s \in Tasks :
                     s < t /\ step[s] = "resuming" /\ Canceled(s)})

\* A granted approval is taken up by the scheduler, whatever else waits,
\* unless its own task was canceled or a whole batch of older approvals of
\* canceled tasks starves it: nothing else, no number of older approvals
\* that can be taken up and no crash, keeps it waiting
\* (prepare_approved_pauses_for_reobservation: "make them durably
\* discoverable as RESUMING").
ApprovalTakenUp ==
    \A p \in Pauses :
        action[p] = "approved" ~>
           action[p] = "invalidated" \/ Canceled(owner[p]) \/ ApprovalStarved(p)

\* A resuming step gets an Agent, also when workers die between the claim and
\* the start (claim_resuming_task_for_execution) and when the batch has room
\* for one step, unless its own task was canceled or a whole batch of older
\* steps of canceled tasks starves it.
ResumingStarts ==
    \A t \in Tasks :
        step[t] = "resuming" ~>
           step[t] # "resuming" \/ Canceled(t) \/ StepStarved(t)

(***************************************************************************)
(* The inductive invariants of ApprovalRecoveryProofs.                     *)
(***************************************************************************)

\* A worker that hands tasks off has one left, the current one.
HandsOff ==
    \A w \in Workers :
        wpc[w] \notin {"scan", "discover"} => todo[w] # {}

\* A pause that was not created has no rows, and an approval that was granted
\* was granted by an approver other than the requester.
RowsAgree ==
    \A p \in Pauses :
        /\ owner[p] = 0 => action[p] = "none" /\ approval[p] = "none"
        /\ approval[p] = "approved" =>
              approver[p] \in Approvers \ {Requester[owner[p]]}

\* Where the only worker is tells the step it works on, and no original Agent
\* has a step but a running one.
WorkerOwnsStep ==
    /\ \A t \in first : step[t] = "running"
    /\ \A w \in Workers :
          /\ wpc[w] \in {"claimed", "loaded", "validated"} =>
                step[Current(w)] = "resuming"
          /\ wpc[w] = "agent" =>
                step[Current(w)] = "running" /\ Current(w) \notin first

=============================================================================
