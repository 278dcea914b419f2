---------------------------- MODULE TaskStepsProofs ----------------------------
(***************************************************************************)
(* Proofs about the steps of one task, for all budgets and any number of   *)
(* cancel requests.                                                        *)
(***************************************************************************)
EXTENDS TaskSteps, SequenceTheorems, TLAPS

(***************************************************************************)
(* Types.  The nested calls are within the budgets, which a retry or a next*)
(* step checks before it calls.                                            *)
(***************************************************************************)

Budget == (0 .. MaxSteps - 1) \X (0 .. MaxRetries)

TypeInv ==
    /\ TypeOK
    /\ frames \in Seq(Budget)
    /\ pc # "launch" => frames # <<>>
    /\ pc = "conclude" => verdict # "none"
    /\ pc = "send" => seen # "none"

LEMMA BudgetIds == Budget \subseteq Ids
BY BoundsAssumption DEF Budget, Ids

LEMMA CurBudget == ASSUME TypeInv, pc # "launch" PROVE cur \in Budget
<1>1. frames \in Seq(Budget) /\ frames # <<>>
  BY DEF TypeInv
<1>2. Len(frames) \in 1 .. Len(frames)
  BY <1>1
<1> QED
  BY <1>1, <1>2 DEF cur

\* What may follow a step is within the budgets, and the speculative step
\* within one more order.
LEMMA NextSteps ==
    ASSUME NEW id \in Budget
    PROVE  /\ MayRetry(id) => Retry(id) \in Budget
           /\ ~LastOrder(id) => Following(id) \in Budget
           /\ Following(id) \in Ids
BY BoundsAssumption DEF Budget, Ids, MayRetry, LastOrder, Retry, Following

LEMMA AllButLast ==
    ASSUME NEW s \in Seq(Budget), Len(s) > 1
    PROVE  /\ SubSeq(s, 1, Len(s) - 1) \in Seq(Budget)
           /\ Len(SubSeq(s, 1, Len(s) - 1)) = Len(s) - 1
           /\ \A i \in 1 .. Len(s) - 1 : SubSeq(s, 1, Len(s) - 1)[i] = s[i]
<1> DEFINE n == Len(s) - 1
           q == SubSeq(s, 1, n)
<1>1. n \in Int /\ 1 \in Int
  OBVIOUS
<1>2. \A i \in 1 .. n : s[i] \in Budget
  OBVIOUS
<1>3. 1 <= n /\ n - 1 + 1 = n /\ \A i \in 1 .. n : 1 + i - 1 = i
  OBVIOUS
<1> HIDE DEF n
<1>4. q \in Seq(Budget)
  BY <1>1, <1>2, SubSeqProperties
<1>5. Len(q) = IF 1 <= n THEN n - 1 + 1 ELSE 0
  BY <1>1, <1>2, SubSeqProperties
<1>6. \A i \in 1 .. n - 1 + 1 : q[i] = s[1 + i - 1]
  BY <1>1, <1>2, SubSeqProperties
<1> HIDE DEF q
<1>7. Len(q) = n /\ \A i \in 1 .. n : q[i] = s[i]
  BY ONLY <1>1, <1>3, <1>5, <1>6
<1> QED
  BY ONLY <1>4, <1>7 DEF n, q

\* The frames after an exception are those before, or all but the last.
LEMMA RaisedTypes ==
    ASSUME TypeInv, pc # "launch", NEW k \in Exceptions, Raised(k)
    PROVE  /\ frames' \in Seq(Budget) /\ frames' # <<>>
           /\ pc' \in {"handle", "raised", "returned"}
           /\ guarded' = FALSE
           /\ caught' \in Exceptions \cup {"none"}
<1>1. frames \in Seq(Budget) /\ frames # <<>>
  BY DEF TypeInv
<1>2. /\ pc' \in {"handle", "raised", "returned"} /\ guarded' = FALSE
      /\ caught' \in Exceptions \cup {"none"}
  BY DEF Raised
<1>3. \/ frames' = frames
      \/ Len(frames) > 1 /\ frames' = SubSeq(frames, 1, Len(frames) - 1)
  BY Zenon DEF Raised
<1>4. ASSUME frames' = frames PROVE frames' \in Seq(Budget) /\ frames' # <<>>
  BY <1>1, <1>4
<1>5. ASSUME Len(frames) > 1, frames' = SubSeq(frames, 1, Len(frames) - 1)
      PROVE  frames' \in Seq(Budget) /\ frames' # <<>>
  <2>1. frames' \in Seq(Budget)
    BY ONLY <1>1, <1>5, AllButLast, Zenon
  <2>2. Len(frames') = Len(frames) - 1
    BY ONLY <1>1, <1>5, AllButLast, Zenon
  <2>3. Len(frames) \in Nat /\ Len(frames) > 1
    BY ONLY <1>1, <1>5
  <2>4. Len(frames') # 0
    BY ONLY <2>2, <2>3
  <2>5. frames' # <<>>
    BY ONLY <2>4
  <2> QED
    BY ONLY <2>1, <2>5, Zenon
<1> QED
  BY ONLY <1>2, <1>3, <1>4, <1>5, Zenon

LEMMA UpdateTypes ==
    ASSUME TypeInv, pc # "launch", NEW s \in Final, UpdateTask(s),
           step' \in [Ids -> StepStatus], discarded' \subseteq Ids
    PROVE  TypeInv' /\ pc' \in {"conclude", "handle", "raised", "returned"} /\ UNCHANGED <<task, run, late>>
<1>1. CASE CanBecome(s) /\ verdict' = s /\ pc' = "conclude" /\ UNCHANGED <<frames, guarded, caught>>
  BY <1>1 DEF UpdateTask, TypeInv, TypeOK, cancelVars, Places, Final
<1>2. CASE Raised("canceled") /\ UNCHANGED verdict
  <2>1. /\ frames' \in Seq(Budget) /\ frames' # <<>>
        /\ pc' \in {"handle", "raised", "returned"}
        /\ guarded' = FALSE
        /\ caught' \in Exceptions \cup {"none"}
    BY <1>2, RaisedTypes DEF Exceptions
  <2>2. frames' \in Seq(Ids)
    BY <2>1, BudgetIds
  <2> QED
    BY <1>2, <2>1, <2>2 DEF UpdateTask, TypeInv, TypeOK, cancelVars, Places
<1> QED
  BY <1>1, <1>2 DEF UpdateTask

LEMMA RaiseTypes ==
    ASSUME TypeInv, pc # "launch", NEW k \in Exceptions, Raised(k),
           UNCHANGED <<task, step, verdict, seen, late, cancelVars>>,
           reports' \in Seq(TaskStatus), discarded' \subseteq Ids
    PROVE  TypeInv' /\ pc' \in {"handle", "raised", "returned"} /\ UNCHANGED <<task, run, late>>
<1>1. /\ frames' \in Seq(Budget) /\ frames' # <<>>
      /\ pc' \in {"handle", "raised", "returned"}
      /\ guarded' = FALSE
      /\ caught' \in Exceptions \cup {"none"}
  BY RaisedTypes
<1>2. frames' \in Seq(Ids)
  BY <1>1, BudgetIds
<1> QED
  BY <1>1, <1>2 DEF TypeInv, TypeOK, cancelVars, Places

LEMMA RecurseTypes ==
    ASSUME TypeInv, pc # "launch", NEW id \in Budget, Recurse(id)
    PROVE  TypeInv' /\ pc' = "entry" /\ UNCHANGED <<task, run, late>>
<1>1. frames' \in Seq(Budget) /\ frames' # <<>>
  BY AppendProperties DEF TypeInv, Recurse
<1>2. frames' \in Seq(Ids)
  BY <1>1, BudgetIds
<1>3. step' \in [Ids -> StepStatus]
  BY DEF Recurse, TypeInv, TypeOK, StepStatus
<1> QED
  BY <1>1, <1>2, <1>3 DEF Recurse, TypeInv, TypeOK, cancelVars, Places

LEMMA StepToTypes ==
    ASSUME TypeInv, pc # "launch", NEW s \in StepStatus, NEW place \in Places, place \notin {"launch", "conclude", "send"},
           StepTo(s, place) \/ GoTo(place)
    PROVE  TypeInv' /\ pc' = place /\ UNCHANGED <<task, run, late>>
<1>1. step' \in [Ids -> StepStatus]
  BY DEF StepTo, GoTo, TypeInv, TypeOK
<1>2. UNCHANGED <<task, frames, guarded, caught, verdict, seen, reports, discarded, late,
                  run, canceling, cancels>> /\ pc' = place
  BY DEF StepTo, GoTo, chainVars, cancelVars
<1> QED
  BY <1>1, <1>2 DEF TypeInv, TypeOK

LEMMA TypeStep == TypeInv /\ [Next]_vars => TypeInv'
<1> SUFFICES ASSUME TypeInv, [Next]_vars PROVE TypeInv'
  OBVIOUS
<1>1. CASE Launch
  <2>1. <<0, 0>> \in Budget
    BY BoundsAssumption DEF Budget
  <2>2. frames' \in Seq(Budget) /\ frames' # <<>> /\ frames' \in Seq(Ids)
    BY <1>1, <2>1, BudgetIds DEF Launch
  <2>3. step' \in [Ids -> StepStatus]
    BY <1>1 DEF Launch, TypeInv, TypeOK, StepStatus
  <2> QED
    BY <1>1, <2>2, <2>3 DEF Launch, TypeInv, TypeOK, cancelVars, TaskStatus, Places
<1>2. CASE Enter
  <2>0. pc # "launch" /\ "canceled" \in StepStatus /\ {"cleanup", "ready"} \subseteq Places
    BY <1>2 DEF Enter, StepStatus, Places
  <2>1. CASE /\ run \in {"canceled", "timed_out"}
             /\ step' = [step EXCEPT ![cur] = "canceled"]
             /\ UpdateTask(run)
             /\ UNCHANGED discarded
    <3>1. step' \in [Ids -> StepStatus]
      BY <2>0, <2>1 DEF TypeInv, TypeOK
    <3>2. discarded' \subseteq Ids /\ run \in Final
      BY <2>1 DEF TypeInv, TypeOK, Final
    <3> QED
      BY <2>0, <2>1, <3>1, <3>2, UpdateTypes
  <2>2. CASE StepTo("canceled", "cleanup")
    BY <2>0, <2>2, StepToTypes
  <2>3. CASE /\ guarded' = TRUE /\ pc' = "ready"
             /\ UNCHANGED <<task, step, frames, caught, verdict, seen, reports,
                            discarded, late, cancelVars>>
    BY <2>0, <2>3 DEF TypeInv, TypeOK, cancelVars
  <2> QED
    BY <1>2, <2>1, <2>2, <2>3 DEF Enter
<1>3. CASE Begin
  <2>0. pc # "launch" /\ {"completed", "running"} \subseteq StepStatus /\ "act" \in Places
    BY <1>3 DEF Begin, StepStatus, Places
  <2>1. ASSUME NEW k \in {"scraping", "fails"}, Raise(k) PROVE TypeInv'
    BY <2>0, <2>1, RaiseTypes DEF Raise, Exceptions, TypeInv, TypeOK
  <2>2. CASE /\ step' = [step EXCEPT ![cur] = "completed"]
             /\ UpdateTask("completed")
             /\ UNCHANGED discarded
    <3>1. step' \in [Ids -> StepStatus] /\ discarded' \subseteq Ids /\ "completed" \in Final
      BY <2>0, <2>2 DEF TypeInv, TypeOK, Final
    <3> QED
      BY <2>0, <2>2, <3>1, UpdateTypes
  <2>3. CASE /\ step' = [step EXCEPT ![cur] = "running"]
             /\ pc' = "act"
             /\ late' = IF {task, run} \cap {"canceled", "timed_out"} # {} THEN late + 1 ELSE late
             /\ UNCHANGED <<task, frames, guarded, caught, verdict, seen, reports,
                            discarded, cancelVars>>
    <3>1. step' \in [Ids -> StepStatus]
      BY <2>0, <2>3 DEF TypeInv, TypeOK
    <3>2. late' \in {late, late + 1}
      BY <2>3
    <3>3. late' \in Nat
      BY <3>2 DEF TypeInv, TypeOK
    <3> QED
      BY <2>0, <2>3, <3>1, <3>3 DEF TypeInv, TypeOK, cancelVars
  <2> QED
    BY <1>3, <2>1, <2>2, <2>3 DEF Begin
<1>4. CASE Act
  BY <1>4, StepToTypes, RaiseTypes DEF Act, Raise, Exceptions, StepStatus, Places, TypeInv, TypeOK
<1>5. CASE HandleFailedStep
  <2>0. pc # "launch" /\ "failed" \in Final
    BY <1>5 DEF HandleFailedStep, Final
  <2>1. CASE Raise("fails")
    BY <2>0, <2>1, RaiseTypes DEF Raise, Exceptions, TypeInv, TypeOK
  <2>2. CASE MayRetry(cur) /\ Recurse(Retry(cur))
    BY <2>0, <2>2, CurBudget, NextSteps, RecurseTypes
  <2>3. CASE UpdateTask("failed") /\ UNCHANGED <<step, discarded>>
    BY <2>0, <2>3, UpdateTypes DEF TypeInv, TypeOK
  <2> QED
    BY <1>5, <2>1, <2>2, <2>3 DEF HandleFailedStep
<1>6. CASE HandleCompletedStep
  <2>0. pc # "launch" /\ {"failed", "completed", "terminated"} \subseteq Final
    BY <1>6 DEF HandleCompletedStep, Final
  <2>1. ASSUME NEW k \in {"scraping", "fails"}, Raise(k) PROVE TypeInv'
    BY <2>0, <2>1, RaiseTypes DEF Raise, Exceptions, TypeInv, TypeOK
  <2>2. CASE ~LastOrder(cur) /\ Recurse(Following(cur))
    BY <2>0, <2>2, CurBudget, NextSteps, RecurseTypes
  <2>3. ASSUME NEW s \in Final, UpdateTask(s), UNCHANGED <<step, discarded>> PROVE TypeInv'
    BY <2>0, <2>3, UpdateTypes DEF TypeInv, TypeOK
  <2> QED
    BY <1>6, <2>0, <2>1, <2>2, <2>3 DEF HandleCompletedStep
<1>7. CASE Speculate
  <2>1. step' \in [Ids -> StepStatus]
    BY <1>7 DEF Speculate, TypeInv, TypeOK, StepStatus
  <2> QED
    BY <1>7, <2>1 DEF Speculate, TypeInv, TypeOK, Places, chainVars, cancelVars
<1>8. CASE GoalReached
  <2>0. pc # "launch" /\ {"completed", "terminated"} \subseteq Final
    BY <1>8 DEF GoalReached, Final
  <2>1. discarded' \subseteq Ids /\ step' \in [Ids -> StepStatus]
    BY <1>8, <2>0, CurBudget, NextSteps DEF GoalReached, TypeInv, TypeOK
  <2>2. ASSUME NEW s \in Final, UpdateTask(s) PROVE TypeInv'
    BY <2>0, <2>1, <2>2, UpdateTypes
  <2>3. ASSUME NEW k \in {"scraping", "fails"}, Raised(k),
               UNCHANGED <<task, verdict, seen, reports, late, cancelVars>>
        PROVE  TypeInv'
    BY <1>8, <2>0, <2>1, <2>3, RaiseTypes DEF GoalReached, Exceptions, TypeInv, TypeOK
  <2> QED
    BY <1>8, <2>0, <2>2, <2>3 DEF GoalReached
<1>9. CASE GoalNotReached
  <2>0. pc # "launch" /\ "failed" \in Final
    BY <1>9 DEF GoalNotReached, Final
  <2>1. CASE /\ step' = [step EXCEPT ![Following(cur)] = "canceled"]
             /\ UpdateTask("failed")
             /\ UNCHANGED discarded
    <3>1. step' \in [Ids -> StepStatus] /\ discarded' \subseteq Ids
      BY <2>1 DEF TypeInv, TypeOK, StepStatus
    <3> QED
      BY <2>0, <2>1, <3>1, UpdateTypes
  <2>2. CASE ~LastOrder(cur) /\ Recurse(Following(cur))
    BY <2>0, <2>2, CurBudget, NextSteps, RecurseTypes
  <2> QED
    BY <1>9, <2>1, <2>2 DEF GoalNotReached
<1>10. CASE Conclude
  <2>1. task' \in TaskStatus
    BY <1>10 DEF Conclude, Final, TaskStatus, TypeInv, TypeOK
  <2> QED
    BY <1>10, <2>1 DEF Conclude, TypeInv, TypeOK, Places, cancelVars
<1>11. CASE Handle
  BY <1>11, StepToTypes DEF Handle, StepStatus, Places
<1>12. CASE FailTask
  <2>1. CASE /\ verdict' = "failed" /\ pc' = "conclude"
             /\ UNCHANGED <<task, step, frames, guarded, caught, seen, reports,
                            discarded, late, cancelVars>>
    BY <1>12, <2>1 DEF FailTask, TypeInv, TypeOK, Places, Final, cancelVars
  <2>2. CASE GoTo(IF caught = "fails" THEN "returned" ELSE "cleanup")
    BY <1>12, <2>2, StepToTypes DEF FailTask, Places, StepStatus
  <2> QED
    BY <1>12, <2>1, <2>2 DEF FailTask
<1>13. CASE CleanUp
  <2>0. pc # "launch"
    BY <1>13 DEF CleanUp
  <2>1. CASE GoTo("returned")
    BY <2>0, <2>1, StepToTypes DEF Places, StepStatus
  <2>2. CASE Raise("fails")
    BY <2>0, <2>2, RaiseTypes DEF Raise, Exceptions, TypeInv, TypeOK
  <2>3. CASE /\ seen' = task /\ pc' = "send"
             /\ UNCHANGED <<task, step, frames, guarded, caught, verdict, reports,
                            discarded, late, cancelVars>>
    BY <2>0, <2>3 DEF TypeInv, TypeOK, TaskStatus, Places, cancelVars
  <2> QED
    BY <1>13, <2>1, <2>2, <2>3 DEF CleanUp
<1>14. CASE Send
  <2>0. pc # "launch"
    BY <1>14 DEF Send
  <2>1. CASE GoTo("returned")
    BY <2>0, <2>1, StepToTypes DEF Places, StepStatus
  <2>2. CASE /\ reports' = Append(reports, seen)
             /\ UNCHANGED <<task, step, verdict, seen, discarded, late, cancelVars>>
             /\ (pc' = "returned" /\ UNCHANGED <<frames, guarded, caught>>) \/ Raised("webhook")
    <3>1. reports' \in Seq(TaskStatus)
      BY <1>14, <2>2, AppendProperties DEF Send, TypeInv, TypeOK
    <3>2. CASE pc' = "returned" /\ UNCHANGED <<frames, guarded, caught>>
      BY <2>0, <2>2, <3>1, <3>2 DEF TypeInv, TypeOK, Places, cancelVars
    <3>3. CASE Raised("webhook")
      BY <2>0, <2>2, <3>1, <3>3, RaiseTypes DEF Exceptions, TypeInv, TypeOK
    <3> QED
      BY <2>2, <3>2, <3>3
  <2> QED
    BY <1>14, <2>1, <2>2 DEF Send
<1>15. CASE BlockFailsTask
  BY <1>15 DEF BlockFailsTask, TypeInv, TypeOK, TaskStatus, Places, chainVars, cancelVars
<1>16. ASSUME NEW id \in Ids, CancelDiscarded(id) PROVE TypeInv'
  <2>1. step' \in [Ids -> StepStatus] /\ discarded' \subseteq Ids
    BY <1>16 DEF CancelDiscarded, TypeInv, TypeOK, StepStatus
  <2> QED
    BY <1>16, <2>1 DEF CancelDiscarded, TypeInv, TypeOK, cancelVars
<1>17. CASE RequestCancel
  BY <1>17 DEF RequestCancel, TypeInv, TypeOK, chainVars
<1>18. CASE WriteCancel
  BY <1>18 DEF WriteCancel, TypeInv, TypeOK, TaskStatus, chainVars
<1>19. CASE StopRun
  BY <1>19 DEF StopRun, TypeInv, TypeOK, RunStatus, chainVars
<1>20. CASE UNCHANGED vars
  BY <1>20 DEF vars, TypeInv, TypeOK
<1> QED
  BY <1>1, <1>2, <1>3, <1>4, <1>5, <1>6, <1>7, <1>8, <1>9, <1>10, <1>11, <1>12, <1>13,
     <1>14, <1>15, <1>16, <1>17, <1>18, <1>19, <1>20 DEF Next, Chain

LEMMA TypeInvHolds == Spec => []TypeInv
<1>1. Init => TypeInv
  <2> SUFFICES ASSUME Init PROVE TypeInv
    OBVIOUS
  <2>1. step \in [Ids -> StepStatus]
    BY DEF Init, StepStatus
  <2>2. frames \in Seq(Budget) /\ frames \in Seq(Ids) /\ reports \in Seq(TaskStatus)
    BY DEF Init
  <2>3. pc = "launch" /\ caught = "none" /\ verdict = "none" /\ seen = "none"
        /\ discarded = {}
    BY DEF Init
  <2>4. guarded \in BOOLEAN
    BY DEF Init
  <2>5. run \in RunStatus /\ task \in TaskStatus
        /\ canceling \in Nat /\ cancels \in Nat /\ late \in Nat
    BY DEF Init, RunStatus, TaskStatus
  <2>6. TypeOK
    BY <2>1, <2>2, <2>3, <2>4, <2>5 DEF TypeOK, Places
  <2> QED
    BY <2>2, <2>3, <2>6 DEF TypeInv
<1> QED
  BY <1>1, TypeStep, PTL DEF Spec

\* Every variable keeps its type (execute_step).
THEOREM Typing == Spec => []TypeOK
<1>1. TypeInv => TypeOK
  BY DEF TypeInv
<1> QED
  BY <1>1, TypeInvHolds, PTL

(***************************************************************************)
(* A cancellation is heeded.                                               *)
(***************************************************************************)

StoppedNow == {task, run} \cap {"canceled", "timed_out"} # {}

\* The places a chain can still come from to another step.
Working == {"entry", "ready", "act", "failed", "completed", "verifying"}

\* Once a step was started late, the chain does not pass entry again.
CancelInv ==
    /\ late <= 1
    /\ pc \in {"launch", "ready"} => late = 0
    /\ pc \in Working /\ late > 0 => StoppedNow

\* Every step but a few leaves late alone and either ends the work of the chain
\* or stays within it, with the task and the run as they are.
LEMMA CancelKept ==
    ASSUME CancelInv, UNCHANGED late,
           pc' \notin Working \cup {"launch"}
    PROVE  CancelInv'
BY DEF CancelInv, Working

LEMMA CancelWorking ==
    ASSUME CancelInv, UNCHANGED <<late, task, run>>, pc \in Working,
           pc' \in Working \ {"ready"}
    PROVE  CancelInv'
BY DEF CancelInv, Working, StoppedNow

LEMMA RaisedPlace ==
    ASSUME NEW k, Raised(k)
    PROVE  pc' \in {"handle", "raised", "returned"}
BY DEF Raised

LEMMA UpdatePlace ==
    ASSUME NEW s, UpdateTask(s)
    PROVE  pc' \in {"conclude", "handle", "raised", "returned"} /\ UNCHANGED <<task, run, late>>
BY RaisedPlace DEF UpdateTask, cancelVars

LEMMA CancelStep == TypeInv /\ CancelInv /\ [Next]_vars => CancelInv'
<1> SUFFICES ASSUME TypeInv, CancelInv, [Next]_vars PROVE CancelInv'
  OBVIOUS
<1>0. late \in Nat
  BY DEF TypeInv, TypeOK
<1>1. ASSUME NEW s, UpdateTask(s) PROVE CancelInv'
  BY <1>1, UpdatePlace, CancelKept DEF Working
<1>2. ASSUME NEW k, Raised(k), UNCHANGED late PROVE CancelInv'
  BY <1>2, RaisedPlace, CancelKept DEF Working
<1>3. ASSUME NEW place, GoTo(place) \/ (\E s : StepTo(s, place)), place \notin Working \cup {"launch"}
      PROVE  CancelInv'
  BY <1>3, CancelKept DEF GoTo, StepTo, chainVars
<1>4. ASSUME NEW id, Recurse(id), pc \in Working PROVE CancelInv'
  BY <1>4, CancelWorking DEF Recurse, cancelVars, Working
<1>5. CASE Launch
  BY <1>5 DEF Launch, CancelInv
<1>6. CASE Enter
  <2>1. CASE /\ task = "running" /\ run \in {"none", "running"} /\ pc = "entry"
             /\ pc' = "ready" /\ UNCHANGED <<task, late, cancelVars>>
    <3>1. ~StoppedNow
      BY <2>1 DEF StoppedNow
    <3>2. late = 0
      BY <1>0, <2>1, <3>1 DEF CancelInv, Working
    <3> QED
      BY <2>1, <3>2 DEF CancelInv
  <2> QED
    BY <1>1, <1>3, <1>6, <2>1 DEF Enter, Working
<1>7. CASE Begin
  <2>1. CASE /\ pc = "ready" /\ pc' = "act" /\ UNCHANGED <<task, cancelVars>>
             /\ late' = IF StoppedNow THEN late + 1 ELSE late
    <3>1. late = 0
      BY <2>1 DEF CancelInv
    <3>2. StoppedNow' = StoppedNow
      BY <2>1 DEF StoppedNow, cancelVars
    <3>3. late' = IF StoppedNow THEN 1 ELSE 0
      BY <2>1, <3>1
    <3> QED
      BY <2>1, <3>2, <3>3 DEF CancelInv
  <2> QED
    BY <1>1, <1>2, <1>7, <2>1 DEF Begin, Raise, StoppedNow
<1>8. CASE Act
  <2>1. ASSUME NEW place \in {"failed", "completed"}, NEW s, StepTo(s, place), pc = "act"
        PROVE  CancelInv'
    BY <2>1, CancelWorking DEF StepTo, chainVars, cancelVars, Working
  <2> QED
    BY <1>2, <1>8, <2>1 DEF Act, Raise
<1>9. CASE HandleFailedStep
  BY <1>1, <1>2, <1>4, <1>9 DEF HandleFailedStep, Raise, Working
<1>10. CASE HandleCompletedStep
  BY <1>1, <1>2, <1>4, <1>10 DEF HandleCompletedStep, Raise, Working
<1>11. CASE Speculate
  BY <1>11, CancelWorking DEF Speculate, chainVars, cancelVars, Working
<1>12. CASE GoalReached
  BY <1>1, <1>2, <1>12 DEF GoalReached
<1>13. CASE GoalNotReached
  BY <1>1, <1>4, <1>13 DEF GoalNotReached, Working
<1>14. CASE Conclude
  BY <1>14, CancelKept DEF Conclude, Working
<1>15. CASE Handle
  BY <1>3, <1>15 DEF Handle, Working
<1>16. CASE FailTask
  BY <1>3, <1>16, CancelKept DEF FailTask, Working
<1>17. CASE CleanUp
  BY <1>2, <1>3, <1>17, CancelKept DEF CleanUp, Raise, Working
<1>18. CASE Send
  BY <1>2, <1>3, <1>18, CancelKept DEF Send, Working
<1>19. CASE BlockFailsTask
  BY <1>19, CancelKept DEF BlockFailsTask, chainVars, Working
<1>20. ASSUME UNCHANGED <<pc, late>>, StoppedNow => StoppedNow' PROVE CancelInv'
  BY <1>20 DEF CancelInv
<1>21. ASSUME NEW id \in Ids, CancelDiscarded(id) PROVE CancelInv'
  BY <1>20, <1>21 DEF CancelDiscarded, cancelVars, StoppedNow
<1>22. CASE RequestCancel
  BY <1>20, <1>22 DEF RequestCancel, chainVars, StoppedNow
<1>23. CASE WriteCancel
  BY <1>20, <1>23 DEF WriteCancel, chainVars, StoppedNow
<1>24. CASE StopRun
  BY <1>20, <1>24 DEF StopRun, chainVars, StoppedNow
<1>25. CASE UNCHANGED vars
  BY <1>20, <1>25 DEF vars, StoppedNow
<1> QED
  BY <1>5, <1>6, <1>7, <1>8, <1>9, <1>10, <1>11, <1>12, <1>13, <1>14, <1>15, <1>16, <1>17,
     <1>18, <1>19, <1>21, <1>22, <1>23, <1>24, <1>25 DEF Next, Chain

\* At most one step starts after the task or its run was stopped (execute_step
\* reads both again before each step).
THEOREM CancelIsHeeded == Spec => []CancelStops
<1>1. Init => CancelInv
  BY DEF Init, CancelInv, Working
<1>2. CancelInv => CancelStops
  BY DEF CancelInv, CancelStops
<1> QED
  BY <1>1, <1>2, TypeInvHolds, CancelStep, PTL DEF Spec

(***************************************************************************)
(* The order of the steps.                                                 *)
(***************************************************************************)

\* What entitles a step to run.
Entitled(id) ==
    /\ id[1] < MaxSteps /\ id[2] <= MaxRetries
    /\ id[2] > 0 => step[<<id[1], id[2] - 1>>] = "failed"
    /\ id[1] > 0 => \E r \in 0 .. MaxRetries : step[<<id[1] - 1, r>>] = "completed"

UpTo(id, other) == id[1] < other[1] \/ (id[1] = other[1] /\ id[2] <= other[2])

StatusAt ==
    /\ pc \in {"entry", "ready"} => step[cur] = "created"
    /\ pc = "act" => step[cur] = "running"
    /\ pc = "failed" => step[cur] = "failed"
    /\ pc \in {"completed", "verifying"} => step[cur] = "completed"

Latest == \A id \in Ids : Ran(id) => UpTo(id, cur)
LatestCall == \A i \in 1 .. Len(frames) : UpTo(frames[i], cur)

\* The steps that ran and those being handled were entitled to; while the chain
\* can go on, the innermost step is the latest, so the next one is new; and a
\* discarded step neither ran nor is it handled.
OrderInv ==
    /\ \A id \in Ids : Ran(id) => Entitled(id)
    /\ \A i \in 1 .. Len(frames) : Entitled(frames[i])
    /\ pc = "launch" => \A id \in Ids : ~Ran(id)
    /\ pc \in Working => Latest /\ LatestCall /\ StatusAt
    /\ pc \in Working \cup {"launch"} => discarded = {}
    /\ \A id \in discarded : ~Ran(id) /\ \A i \in 1 .. Len(frames) : frames[i] # id

\* No step that failed or was completed changes.
Lasting == \A id \in Ids : step[id] \in {"failed", "completed"} => step'[id] = step[id]

LEMMA EntitledLasts ==
    ASSUME TypeInv, Lasting, NEW id \in Ids, Entitled(id)
    PROVE  Entitled(id)'
<1>0. id[1] \in 0 .. MaxSteps + 1 /\ id[2] \in 0 .. MaxRetries + 1 /\ id = <<id[1], id[2]>>
  BY DEF Ids
<1>1. ASSUME id[2] > 0 PROVE step'[<<id[1], id[2] - 1>>] = "failed"
  <2>1. <<id[1], id[2] - 1>> \in Ids
    BY <1>0, <1>1, BoundsAssumption DEF Ids
  <2> QED
    BY <1>1, <2>1 DEF Entitled, Lasting
<1>2. ASSUME id[1] > 0
      PROVE  \E r \in 0 .. MaxRetries : step'[<<id[1] - 1, r>>] = "completed"
  <2>1. PICK r \in 0 .. MaxRetries : step[<<id[1] - 1, r>>] = "completed"
    BY <1>2 DEF Entitled
  <2>2. <<id[1] - 1, r>> \in Ids
    BY <1>0, <1>2, BoundsAssumption DEF Ids
  <2> QED
    BY <2>1, <2>2 DEF Lasting
<1> QED
  BY <1>1, <1>2 DEF Entitled

\* The calls after a step are some of those before.
FramesKept == \A i \in 1 .. Len(frames') : \E j \in 1 .. Len(frames) : frames'[i] = frames[j]

\* A step that ends the work of the chain, or goes on with its end.
LEMMA OrderEnds ==
    ASSUME TypeInv, TypeInv', OrderInv, Lasting, FramesKept,
           pc' \notin Working \cup {"launch"},
           \A id \in Ids : Ran(id)' => Ran(id) \/ Entitled(id),
           \A id \in discarded' : ~Ran(id)' /\ \A i \in 1 .. Len(frames) : frames[i] # id
    PROVE  OrderInv'
<1>1. \A id \in Ids : Ran(id)' => Entitled(id)'
  BY EntitledLasts DEF OrderInv
<1>2. ASSUME NEW i \in 1 .. Len(frames') PROVE Entitled(frames[i])'
  <2>1. PICK id \in Ids : frames'[i] = id /\ \E j \in 1 .. Len(frames) : frames[j] = id
    BY <1>2 DEF FramesKept, TypeInv, TypeOK
  <2>2. Entitled(id)
    BY <2>1 DEF OrderInv
  <2>3. Entitled(id)'
    BY <2>2, EntitledLasts
  <2> QED
    BY <2>1, <2>3 DEF Entitled
<1>3. \A id \in discarded' : ~Ran(id)' /\ \A i \in 1 .. Len(frames') : frames'[i] # id
  BY DEF FramesKept
<1> QED
  BY <1>1, <1>2, <1>3 DEF OrderInv

\* An exception, a write to the task and a move leave the steps of the calls.
LEMMA RaisedFrames ==
    ASSUME TypeInv, pc # "launch", NEW k, Raised(k)
    PROVE  FramesKept
<1>1. frames \in Seq(Budget)
  BY DEF TypeInv
<1>2. CASE frames' = frames
  BY <1>2 DEF FramesKept
<1>3. CASE Len(frames) > 1 /\ frames' = SubSeq(frames, 1, Len(frames) - 1)
  <2>1. /\ Len(frames') = Len(frames) - 1
        /\ \A i \in 1 .. Len(frames) - 1 : frames'[i] = frames[i]
    BY ONLY <1>1, <1>3, AllButLast, Zenon
  <2>2. Len(frames) \in Nat
    BY <1>1
  <2>3. \A i \in 1 .. Len(frames') : i \in 1 .. Len(frames) /\ frames'[i] = frames[i]
    BY ONLY <2>1, <2>2
  <2> QED
    BY ONLY <2>3, Zenon DEF FramesKept
<1> QED
  BY ONLY <1>2, <1>3, Raised(k), Zenon DEF Raised

LEMMA UpdateFrames ==
    ASSUME TypeInv, pc # "launch", NEW s, UpdateTask(s)
    PROVE  FramesKept /\ pc' \notin Working \cup {"launch"}
<1>1. CASE UNCHANGED frames
  BY <1>1, UpdatePlace DEF FramesKept, Working
<1>2. CASE Raised("canceled")
  BY <1>2, RaisedFrames, UpdatePlace DEF Working
<1> QED
  BY <1>1, <1>2 DEF UpdateTask

\* The innermost step is one of those being handled.
LEMMA CurEntitled ==
    ASSUME TypeInv, OrderInv, pc # "launch"
    PROVE  Entitled(cur) /\ cur \in Ids /\ cur \notin discarded
<1>1. frames \in Seq(Budget) /\ frames # <<>>
  BY DEF TypeInv
<1>2. Len(frames) \in 1 .. Len(frames)
  BY <1>1
<1> QED
  BY <1>2, CurBudget, BudgetIds DEF OrderInv, cur

\* The three ways in which the status of a step changes when the chain ends.
LEMMA EndsWithStep ==
    ASSUME TypeInv, TypeInv', OrderInv, pc # "launch", FramesKept,
           pc' \notin Working \cup {"launch"},
           UNCHANGED discarded,
           \/ UNCHANGED step
           \/ step[cur] \notin {"failed", "completed"} /\ \E s : step' = [step EXCEPT ![cur] = s]
           \/ /\ pc = "verifying" /\ step' = [step EXCEPT ![Following(cur)] = "canceled"]
    PROVE  OrderInv'
<1>1. CASE UNCHANGED step
  BY <1>1, OrderEnds DEF OrderInv, Lasting, Ran
<1>2. CASE step[cur] \notin {"failed", "completed"} /\ \E s : step' = [step EXCEPT ![cur] = s]
  <2>1. cur \in Ids /\ Entitled(cur) /\ cur \notin discarded
    BY CurEntitled
  <2>2. \A id \in Ids : id # cur => step'[id] = step[id]
    BY <1>2 DEF TypeInv, TypeOK
  <2>3. Lasting
    BY <1>2, <2>2 DEF Lasting
  <2>4. \A id \in Ids : Ran(id)' => Ran(id) \/ Entitled(id)
    BY <2>1, <2>2 DEF Ran
  <2>5. \A id \in discarded' : ~Ran(id)' /\ \A i \in 1 .. Len(frames) : frames[i] # id
    BY <2>1, <2>2 DEF Ran, OrderInv, TypeInv, TypeOK
  <2> QED
    BY <2>3, <2>4, <2>5, OrderEnds
<1>3. CASE pc = "verifying" /\ step' = [step EXCEPT ![Following(cur)] = "canceled"]
  <2>1. cur \in Budget
    BY CurBudget
  <2>2. ~UpTo(Following(cur), cur) /\ Following(cur) \in Ids
    BY <2>1, NextSteps DEF UpTo, Following, Budget
  <2>3. ~Ran(Following(cur)) /\ discarded = {}
    BY <1>3, <2>2 DEF OrderInv, Latest, Working
  <2>4. \A id \in Ids : id # Following(cur) => step'[id] = step[id]
    BY <1>3 DEF TypeInv, TypeOK
  <2>5. step'[Following(cur)] = "canceled"
    BY <1>3, <2>2 DEF TypeInv, TypeOK
  <2>6. Lasting
    BY <2>3, <2>4 DEF Lasting, Ran
  <2>7. \A id \in Ids : Ran(id)' => Ran(id)
    BY <2>4, <2>5 DEF Ran
  <2> QED
    BY <2>3, <2>6, <2>7, OrderEnds
<1> QED
  BY <1>1, <1>2, <1>3

\* The next call is for a new step that is entitled to run.
LEMMA OrderRecurse ==
    ASSUME TypeInv, TypeInv', OrderInv, NEW id \in Budget, Recurse(id),
           \/ id = Retry(cur) /\ pc = "failed"
           \/ id = Following(cur) /\ pc \in {"completed", "verifying"}
    PROVE  OrderInv'
<1>1. cur \in Budget /\ cur \in Ids /\ Entitled(cur)
  BY CurBudget, CurEntitled
<1>2. cur[1] \in Nat /\ cur[2] \in 0 .. MaxRetries /\ cur = <<cur[1], cur[2]>>
  BY <1>1 DEF Budget
<1>3. id \in Ids /\ ~UpTo(id, cur) /\ UpTo(cur, id)
  BY <1>2, BudgetIds DEF UpTo, Retry, Following
<1>4. pc \in Working
  BY DEF Working
<1>5. ~Ran(id) /\ Latest /\ LatestCall /\ StatusAt /\ discarded = {}
  BY <1>3, <1>4 DEF OrderInv, Latest
<1>6. step'[id] = "created" /\ \A x \in Ids : x # id => step'[x] = step[x]
  BY <1>3 DEF Recurse, TypeInv, TypeOK
<1>7. Lasting
  BY <1>5, <1>6 DEF Lasting, Ran
<1>8. Entitled(id)
  <2>1. CASE id = Retry(cur)
    <3>1. step[cur] = "failed"
      BY <1>2, <1>5, <2>1 DEF StatusAt, Retry, Following
    <3>2. id[1] = cur[1] /\ id[2] - 1 = cur[2]
      BY <1>2, <2>1 DEF Retry
    <3>3. step[<<id[1], id[2] - 1>>] = "failed"
      BY <1>2, <3>1, <3>2
    <3>4. id[1] < MaxSteps /\ id[2] <= MaxRetries
      BY BoundsAssumption DEF Budget
    <3> QED
      BY <1>1, <3>2, <3>3, <3>4 DEF Entitled
  <2>2. CASE id = Following(cur)
    <3>1. step[cur] = "completed"
      BY <1>2, <1>5, <2>2 DEF StatusAt, Retry, Following
    <3>2. id[1] - 1 = cur[1] /\ id[2] = 0
      BY <1>2, <2>2 DEF Following
    <3>3. step[<<id[1] - 1, cur[2]>>] = "completed"
      BY <1>2, <3>1, <3>2
    <3>4. id[1] < MaxSteps /\ id[2] <= MaxRetries
      BY BoundsAssumption DEF Budget
    <3> QED
      BY <1>2, <3>2, <3>3, <3>4 DEF Entitled
  <2> QED
    BY <2>1, <2>2
<1>9. /\ Len(frames') = Len(frames) + 1 /\ Len(frames) \in Nat
      /\ frames'[Len(frames')] = id
      /\ \A i \in 1 .. Len(frames) : frames'[i] = frames[i]
  BY AppendProperties DEF Recurse, TypeInv
<1>10. cur' = id
  BY <1>9 DEF cur
<1>11. \A x \in Ids : Ran(x)' => Ran(x)
  BY <1>6 DEF Ran
<1>12. \A x \in Ids : Ran(x)' => Entitled(x)'
  BY <1>7, <1>11, EntitledLasts DEF OrderInv
<1>13. ASSUME NEW i \in 1 .. Len(frames') PROVE Entitled(frames[i])' /\ UpTo(frames'[i], id)
  <2>1. PICK x \in Ids : frames'[i] = x /\ Entitled(x) /\ UpTo(x, id)
    <3>1. CASE i = Len(frames')
      <4>1. UpTo(id, id)
        BY DEF UpTo, Budget
      <4> QED
        BY <1>3, <1>8, <1>9, <3>1, <4>1
    <3>2. CASE i # Len(frames')
      <4>1. i \in 1 .. Len(frames) /\ frames'[i] = frames[i]
        BY <1>9, <3>2
      <4>2. frames[i] \in Budget /\ Entitled(frames[i]) /\ UpTo(frames[i], cur)
        BY <1>5, <4>1 DEF TypeInv, OrderInv, LatestCall
      <4>3. UpTo(frames[i], id)
        BY <1>1, <1>3, <4>2 DEF UpTo, Budget
      <4> QED
        BY <4>1, <4>2, <4>3, BudgetIds
    <3> QED
      BY <3>1, <3>2
  <2>2. Entitled(x)'
    BY <1>7, <2>1, EntitledLasts
  <2> QED
    BY <2>1, <2>2 DEF Entitled
<1>14. ASSUME NEW x \in Ids, Ran(x)' PROVE UpTo(x, id)
  <2>1. UpTo(x, cur)
    BY <1>5, <1>11, <1>14 DEF Latest
  <2> QED
    BY <1>1, <1>3, <2>1 DEF UpTo, Budget, Ids
<1>15. pc' = "entry" /\ discarded' = {}
  BY <1>5 DEF Recurse
<1>16. Latest' /\ LatestCall' /\ StatusAt'
  BY <1>6, <1>10, <1>13, <1>14, <1>15 DEF Latest, LatestCall, StatusAt, UpTo
<1> QED
  BY <1>12, <1>13, <1>15, <1>16 DEF OrderInv, Working

\* A step of the chain from one of its places to another with the same calls.
LEMMA OrderWorking ==
    ASSUME TypeInv, TypeInv', OrderInv, pc \in Working, pc' \in Working,
           UNCHANGED <<frames, discarded>>, StatusAt',
           \/ UNCHANGED step
           \/ step[cur] \notin {"failed", "completed"} /\ \E s : step' = [step EXCEPT ![cur] = s]
           \/ step' = [step EXCEPT ![Following(cur)] = "created"]
    PROVE  OrderInv'
<1>1. cur \in Budget /\ cur \in Ids /\ Entitled(cur) /\ cur' = cur
  BY CurBudget, CurEntitled DEF Working, cur
<1>2. ~UpTo(Following(cur), cur) /\ Following(cur) \in Ids /\ UpTo(cur, cur)
  BY <1>1, NextSteps DEF UpTo, Following, Budget
<1>3. Latest /\ LatestCall /\ discarded = {}
  BY DEF OrderInv
<1>4. ~Ran(Following(cur))
  BY <1>2, <1>3 DEF Latest
<1>5. Lasting /\ \A id \in Ids : Ran(id)' => Ran(id) \/ id = cur
  <2>1. CASE UNCHANGED step
    BY <2>1 DEF Lasting, Ran
  <2>2. CASE step[cur] \notin {"failed", "completed"} /\ \E s : step' = [step EXCEPT ![cur] = s]
    <3>1. \A id \in Ids : id # cur => step'[id] = step[id]
      BY <2>2 DEF TypeInv, TypeOK
    <3> QED
      BY <2>2, <3>1 DEF Lasting, Ran
  <2>3. CASE step' = [step EXCEPT ![Following(cur)] = "created"]
    <3>1. /\ \A id \in Ids : id # Following(cur) => step'[id] = step[id]
          /\ step'[Following(cur)] = "created"
      BY <1>2, <2>3 DEF TypeInv, TypeOK
    <3> QED
      BY <1>4, <3>1 DEF Lasting, Ran
  <2> QED
    BY <2>1, <2>2, <2>3
<1>6. \A id \in Ids : Ran(id)' => Entitled(id)' /\ UpTo(id, cur)
  BY <1>1, <1>2, <1>3, <1>5, EntitledLasts DEF OrderInv, Latest
<1>7. \A i \in 1 .. Len(frames) : Entitled(frames[i])'
  <2> SUFFICES ASSUME NEW i \in 1 .. Len(frames) PROVE Entitled(frames[i])'
    OBVIOUS
  <2>1. PICK id \in Ids : frames[i] = id
    BY DEF TypeInv, TypeOK
  <2>2. Entitled(id)
    BY <2>1 DEF OrderInv
  <2>3. Entitled(id)'
    BY <1>5, <2>2, EntitledLasts
  <2>4. frames'[i] = id
    BY <2>1
  <2> QED
    BY ONLY <2>3, <2>4 DEF Entitled
<1>8. Latest' /\ LatestCall'
  BY <1>1, <1>3, <1>6 DEF Latest, LatestCall
<1> QED
  BY <1>3, <1>6, <1>7, <1>8 DEF OrderInv, Working

LEMMA OrderStep == TypeInv /\ OrderInv /\ [Next]_vars => OrderInv'
<1> SUFFICES ASSUME TypeInv, OrderInv, [Next]_vars PROVE OrderInv'
  OBVIOUS
<1>0. TypeInv'
  BY TypeStep
<1>1. ASSUME NEW s, UpdateTask(s), UNCHANGED <<step, discarded>>, pc # "launch" PROVE OrderInv'
  BY <1>0, <1>1, UpdateFrames, EndsWithStep
<1>2. ASSUME NEW k, Raise(k), pc # "launch" PROVE OrderInv'
  BY <1>0, <1>2, RaisedFrames, RaisedPlace, EndsWithStep DEF Raise, Working
<1>3. ASSUME pc # "launch", pc' \notin Working \cup {"launch"}, UNCHANGED <<step, frames, discarded>>
      PROVE  OrderInv'
  <2>1. FramesKept
    BY <1>3 DEF FramesKept
  <2> QED
    BY <1>0, <1>3, <2>1, EndsWithStep
<1>4. ASSUME NEW place, GoTo(place), pc # "launch", place \notin Working \cup {"launch"} PROVE OrderInv'
  BY <1>3, <1>4 DEF GoTo, chainVars
<1>5. CASE Launch
  <2>1. /\ frames' = << <<0, 0>> >> /\ pc' = "entry" /\ UNCHANGED discarded
        /\ step' = [step EXCEPT ![<<0, 0>>] = "created"] /\ pc = "launch"
    BY <1>5 DEF Launch
  <2>2. <<0, 0>> \in Ids /\ <<0, 0>> \in Budget
    BY BoundsAssumption DEF Ids, Budget
  <2>3. \A id \in Ids : ~Ran(id)'
    BY <2>1, <2>2 DEF OrderInv, Ran, TypeInv, TypeOK
  <2>4. cur' = <<0, 0>> /\ Len(frames') = 1 /\ frames'[1] = <<0, 0>>
    BY <2>1 DEF cur
  <2>5. step'[<<0, 0>>] = "created"
    BY <2>1, <2>2 DEF TypeInv, TypeOK
  <2>6. Entitled(<<0, 0>>)' /\ UpTo(<<0, 0>>, <<0, 0>>)
    BY BoundsAssumption DEF Entitled, UpTo
  <2>7. \A i \in 1 .. Len(frames') : frames'[i] = <<0, 0>>
    BY <2>4
  <2>8. \A i \in 1 .. Len(frames') : Entitled(frames[i])'
    BY <2>6, <2>7 DEF Entitled
  <2>9. Latest' /\ LatestCall' /\ StatusAt'
    BY <2>1, <2>3, <2>4, <2>5, <2>6, <2>7 DEF Latest, LatestCall, StatusAt
  <2> QED
    BY <2>1, <2>3, <2>8, <2>9 DEF OrderInv
<1>6. CASE Enter
  <2>0. pc \in Working /\ pc # "launch" /\ pc = "entry" /\ step[cur] = "created"
    BY <1>6 DEF Enter, Working, OrderInv, StatusAt
  <2>1. CASE /\ step' = [step EXCEPT ![cur] = "canceled"]
             /\ UpdateTask(run)
             /\ UNCHANGED discarded
    <3>1. FramesKept /\ pc' \notin Working \cup {"launch"}
      BY <2>0, <2>1, UpdateFrames
    <3> QED
      BY <1>0, <2>0, <2>1, <3>1, EndsWithStep
  <2>2. CASE StepTo("canceled", "cleanup")
    <3>1. FramesKept /\ pc' \notin Working \cup {"launch"} /\ UNCHANGED discarded
          /\ step' = [step EXCEPT ![cur] = "canceled"]
      BY <2>2 DEF StepTo, FramesKept, Working, chainVars
    <3> QED
      BY <1>0, <2>0, <3>1, EndsWithStep
  <2>3. CASE pc' = "ready" /\ UNCHANGED <<step, frames, discarded>>
    <3>1. StatusAt' /\ pc' \in Working
      BY <2>0, <2>3 DEF StatusAt, cur, Working
    <3> QED
      BY <1>0, <2>0, <2>3, <3>1, OrderWorking
  <2> QED
    BY <1>6, <2>1, <2>2, <2>3 DEF Enter
<1>7. CASE Begin
  <2>0. pc \in Working /\ pc # "launch" /\ step[cur] = "created" /\ cur \in Ids
    BY <1>7, CurEntitled DEF Begin, Working, OrderInv, StatusAt
  <2>1. CASE /\ step' = [step EXCEPT ![cur] = "completed"]
             /\ UpdateTask("completed")
             /\ UNCHANGED discarded
    <3>1. FramesKept /\ pc' \notin Working \cup {"launch"}
      BY <2>0, <2>1, UpdateFrames
    <3> QED
      BY <1>0, <2>0, <2>1, <3>1, EndsWithStep
  <2>2. CASE /\ step' = [step EXCEPT ![cur] = "running"] /\ pc' = "act"
             /\ UNCHANGED <<frames, discarded>>
    <3>1. cur' = cur /\ step'[cur] = "running"
      BY <2>0, <2>2 DEF cur, TypeInv, TypeOK
    <3>2. StatusAt' /\ pc' \in Working
      BY <2>2, <3>1 DEF StatusAt, Working
    <3> QED
      BY <1>0, <2>0, <2>2, <3>2, OrderWorking
  <2> QED
    BY <1>2, <1>7, <2>0, <2>1, <2>2 DEF Begin
<1>8. CASE Act
  <2>0. pc \in Working /\ pc # "launch" /\ step[cur] = "running" /\ cur \in Ids
    BY <1>8, CurEntitled DEF Act, Working, OrderInv, StatusAt
  <2>1. ASSUME NEW s \in {"failed", "completed"}, StepTo(s, s) PROVE OrderInv'
    <3>1. UNCHANGED <<frames, discarded>> /\ step' = [step EXCEPT ![cur] = s] /\ pc' = s
      BY <2>1 DEF StepTo, chainVars
    <3>2. cur' = cur /\ step'[cur] = s
      BY <2>0, <3>1 DEF cur, TypeInv, TypeOK
    <3>3. StatusAt' /\ pc' \in Working
      BY <3>1, <3>2 DEF StatusAt, Working
    <3> QED
      BY <1>0, <2>0, <3>1, <3>3, OrderWorking
  <2> QED
    BY <1>2, <1>8, <2>0, <2>1 DEF Act
<1>9. CASE HandleFailedStep
  <2>1. CASE MayRetry(cur) /\ Recurse(Retry(cur))
    BY <1>0, <1>9, <2>1, CurBudget, NextSteps, OrderRecurse DEF HandleFailedStep
  <2> QED
    BY <1>1, <1>2, <1>9, <2>1 DEF HandleFailedStep
<1>10. CASE HandleCompletedStep
  <2>1. CASE ~LastOrder(cur) /\ Recurse(Following(cur))
    BY <1>0, <1>10, <2>1, CurBudget, NextSteps, OrderRecurse DEF HandleCompletedStep
  <2> QED
    BY <1>1, <1>2, <1>10, <2>1 DEF HandleCompletedStep
<1>11. CASE Speculate
  <2>1. /\ pc \in Working /\ pc' \in Working /\ pc = "completed" /\ pc' = "verifying"
        /\ UNCHANGED <<frames, discarded>>
        /\ step' = [step EXCEPT ![Following(cur)] = "created"]
    BY <1>11 DEF Speculate, Working, chainVars
  <2>2. cur \in Budget /\ cur \in Ids /\ step[cur] = "completed" /\ cur' = cur
    BY <2>1, CurBudget, BudgetIds DEF OrderInv, StatusAt, cur
  <2>3. cur # Following(cur)
    BY <2>2 DEF Following, Budget
  <2>4. StatusAt'
    BY <2>1, <2>2, <2>3 DEF StatusAt, TypeInv, TypeOK
  <2> QED
    BY <1>0, <2>1, <2>4, OrderWorking
<1>12. CASE GoalReached
  <2>1. pc # "launch" /\ pc \in Working /\ UNCHANGED step /\ discarded' = {Following(cur)}
    BY <1>12 DEF GoalReached, Working, OrderInv
  <2>2. FramesKept /\ pc' \notin Working \cup {"launch"}
    BY <1>12, <2>1, UpdateFrames, RaisedFrames, RaisedPlace DEF GoalReached, Working
  <2>3. ~UpTo(Following(cur), cur)
    BY <2>1, CurBudget DEF UpTo, Following, Budget
  <2>4. Following(cur) \in Ids
    BY <2>1, CurBudget, NextSteps
  <2>5. \A id \in discarded' : ~Ran(id)' /\ \A i \in 1 .. Len(frames) : frames[i] # id
    BY <2>1, <2>3, <2>4 DEF OrderInv, Latest, LatestCall, Ran
  <2>6. Lasting /\ \A id \in Ids : Ran(id)' => Ran(id)
    BY <2>1 DEF Lasting, Ran
  <2> QED
    BY <1>0, <2>1, <2>2, <2>5, <2>6, OrderEnds
<1>13. CASE GoalNotReached
  <2>0. pc # "launch" /\ pc = "verifying"
    BY <1>13 DEF GoalNotReached
  <2>1. CASE /\ step' = [step EXCEPT ![Following(cur)] = "canceled"]
             /\ UpdateTask("failed")
             /\ UNCHANGED discarded
    BY <1>0, <2>0, <2>1, UpdateFrames, EndsWithStep
  <2>2. CASE ~LastOrder(cur) /\ Recurse(Following(cur))
    BY <1>0, <2>0, <2>2, CurBudget, NextSteps, OrderRecurse
  <2> QED
    BY <1>13, <2>1, <2>2 DEF GoalNotReached
<1>14. CASE Conclude
  BY <1>3, <1>14 DEF Conclude, Working
<1>15. CASE Handle
  <2>1. CASE step[cur] # "completed" /\ StepTo("failed", "failing")
    <3>0. pc # "launch" /\ cur \in Ids
      BY <1>15, CurEntitled DEF Handle
    <3>1. FramesKept /\ pc' \notin Working \cup {"launch"} /\ UNCHANGED <<frames, discarded>>
          /\ step' = [step EXCEPT ![cur] = "failed"]
      BY <2>1 DEF StepTo, FramesKept, Working, chainVars
    <3>2. CASE step[cur] = "failed"
      <4>1. step' = step
        BY <3>0, <3>1, <3>2 DEF TypeInv, TypeOK
      <4> QED
        BY <1>3, <3>0, <3>1, <4>1
    <3>3. CASE step[cur] # "failed"
      BY <1>0, <2>1, <3>0, <3>1, <3>3, EndsWithStep
    <3> QED
      BY <3>2, <3>3
  <2> QED
    BY <1>4, <1>15, <2>1 DEF Handle, Working
<1>16. CASE FailTask
  BY <1>3, <1>4, <1>16 DEF FailTask, Working
<1>17. CASE CleanUp
  BY <1>2, <1>3, <1>4, <1>17 DEF CleanUp, Working
<1>18. CASE Send
  <2>1. CASE Raised("webhook") /\ UNCHANGED <<step, discarded>>
    BY <1>0, <1>18, <2>1, RaisedFrames, RaisedPlace, EndsWithStep DEF Send, Working
  <2> QED
    BY <1>3, <1>4, <1>18, <2>1 DEF Send, Working
<1>19. CASE BlockFailsTask
  BY <1>3, <1>19 DEF BlockFailsTask, Working, chainVars
<1>20. ASSUME NEW id \in Ids, CancelDiscarded(id) PROVE OrderInv'
  <2>1. /\ id \in discarded /\ discarded' = discarded \ {id} /\ UNCHANGED <<frames, pc>>
        /\ step' = [step EXCEPT ![id] = "canceled"]
    BY <1>20 DEF CancelDiscarded
  <2>2. ~Ran(id) /\ pc \notin Working \cup {"launch"}
    BY <2>1 DEF OrderInv
  <2>3. step'[id] = "canceled" /\ \A x \in Ids : x # id => step'[x] = step[x]
    BY <2>1 DEF TypeInv, TypeOK
  <2>4. Lasting /\ \A x \in Ids : Ran(x)' => Ran(x)
    BY <2>2, <2>3 DEF Lasting, Ran
  <2>5. FramesKept /\ discarded' \subseteq Ids
    BY <2>1 DEF FramesKept, TypeInv, TypeOK
  <2> QED
    BY <1>0, <2>1, <2>2, <2>4, <2>5, OrderEnds DEF OrderInv
<1>21. ASSUME UNCHANGED <<step, frames, pc, discarded>> PROVE OrderInv'
  BY <1>21 DEF OrderInv, Entitled, Ran, Latest, LatestCall, StatusAt, cur
<1>22. CASE RequestCancel
  BY <1>21, <1>22 DEF RequestCancel, chainVars
<1>23. CASE WriteCancel
  BY <1>21, <1>23 DEF WriteCancel, chainVars
<1>24. CASE StopRun
  BY <1>21, <1>24 DEF StopRun, chainVars
<1>25. CASE UNCHANGED vars
  BY <1>21, <1>25 DEF vars
<1> QED
  BY <1>5, <1>6, <1>7, <1>8, <1>9, <1>10, <1>11, <1>12, <1>13, <1>14, <1>15, <1>16, <1>17,
     <1>18, <1>19, <1>20, <1>22, <1>23, <1>24, <1>25 DEF Next, Chain

\* Steps run within the budgets and in order (handle_failed_step,
\* handle_completed_step, _handle_completed_step_with_parallel_verification).
THEOREM StepsInOrder == Spec => []StepOrder
<1>1. Init => OrderInv
  BY DEF Init, OrderInv, Ran, Working
<1>2. OrderInv => StepOrder
  BY DEF OrderInv, Entitled, StepOrder
<1> QED
  BY <1>1, <1>2, TypeInvHolds, OrderStep, PTL DEF Spec

(***************************************************************************)
(* What the chain leaves behind.                                           *)
(***************************************************************************)

\* A step that is not finished and that nothing else is to cancel.
Open(id) == step[id] \in {"created", "running"} /\ id \notin discarded

\* Such a step is in the hands of the chain: the one it works on, the one it
\* created ahead, or the one whose exception it handles.
OpenInHand ==
    \A id \in Ids : Open(id) =>
        \/ pc \in {"entry", "ready", "act"} /\ id = cur
        \/ pc = "verifying" /\ id = Following(cur)
        \/ pc = "handle" /\ caught \notin {"webhook", "canceled"} /\ id = cur

Settled == task \in Final \/ LastStepCompleted

\* The task is settled wherever the chain ends without writing it; before, an
\* exception is handled by the call it came from, whose step is the latest.
EndsSettled ==
    /\ pc # "launch" => task # "created"
    /\ pc \in Working \ {"entry"} => guarded
    /\ pc = "handle" => Settled \/ Latest
    /\ pc = "handle" /\ caught \in {"webhook", "canceled"} => Settled
    /\ pc \in {"cleanup", "send", "returned"} => Settled

\* The chain ends with the webhook it sent.
ReportsEnd ==
    /\ pc = "send" => run = "none" /\ (seen \in Final \/ LastStepCompleted)
    /\ reports # <<>> =>
          /\ pc = "returned" \/ (pc = "handle" /\ caught = "webhook")
          /\ Len(reports) = 1
          /\ reports[1] \in Final \/ LastStepCompleted

SettleInv == OpenInHand /\ EndsSettled /\ ReportsEnd

LEMMA CalledNext ==
    ASSUME TypeInv, NEW id \in Budget, Recurse(id)
    PROVE  cur' = id
BY AppendProperties DEF Recurse, TypeInv, cur

\* Writing to a task that was launched is refused only when it is final.
LEMMA RefusedFinal ==
    ASSUME TypeInv, EndsSettled, pc # "launch", NEW s \in Final, ~CanBecome(s)
    PROVE  task \in Final
BY DEF TypeInv, TypeOK, TaskStatus, Final, CanBecome, EndsSettled

LEMMA LastLasts ==
    ASSUME LastStepCompleted, Lasting, \A id \in Ids : Ran(id)' => Ran(id)
    PROVE  LastStepCompleted'
BY DEF LastStepCompleted, Lasting

\* An exception inside the try block comes to the handlers of the same call.
LEMMA RaisedHere ==
    ASSUME NEW k, Raise(k), guarded
    PROVE  pc' = "handle" /\ caught' = k /\ UNCHANGED <<frames, step, task, discarded>>
BY DEF Raise, Raised

LEMMA OpenStep ==
    TypeInv /\ OrderInv /\ EndsSettled /\ OpenInHand /\ [Next]_vars => OpenInHand'
<1> SUFFICES ASSUME TypeInv, OrderInv, EndsSettled, OpenInHand, [Next]_vars PROVE OpenInHand'
  OBVIOUS
<1>1. ASSUME \A id \in Ids : ~Open(id)' PROVE OpenInHand'
  BY <1>1 DEF OpenInHand
<1>2. ASSUME UNCHANGED <<step, discarded>>, pc \notin {"entry", "ready", "act", "verifying", "handle"}
      PROVE  OpenInHand'
  BY <1>1, <1>2 DEF OpenInHand, Open
<1>3. ASSUME NEW k \in {"unsupported", "scraping", "fails"}, Raise(k),
             pc \in Working \ {"entry", "verifying"}
      PROVE  OpenInHand'
  <2>1. guarded
    BY <1>3 DEF EndsSettled
  <2>2. pc' = "handle" /\ caught' = k /\ UNCHANGED <<frames, step, discarded>>
    BY <1>3, <2>1, RaisedHere
  <2>3. \A id \in Ids : Open(id)' => Open(id) /\ id = cur
    BY <1>3, <2>2 DEF Open, OpenInHand, Working
  <2> QED
    BY <2>2, <2>3 DEF OpenInHand, cur
\* The step at hand gets a status that is not open, and it was the only one.
<1>4. ASSUME NEW s \in {"failed", "completed", "canceled"}, UNCHANGED discarded,
             step' = [step EXCEPT ![cur] = s], pc \in {"entry", "ready", "act", "handle"}
      PROVE  OpenInHand'
  <2>1. cur \in Ids
    BY <1>4, CurEntitled
  <2>2. \A id \in Ids : Open(id) => id = cur
    BY <1>4 DEF OpenInHand
  <2>3. step'[cur] = s /\ \A id \in Ids : id # cur => step'[id] = step[id]
    BY <1>4, <2>1 DEF TypeInv, TypeOK
  <2> QED
    BY <1>1, <1>4, <2>2, <2>3 DEF Open
<1>5. ASSUME NEW id \in Budget, Recurse(id),
             pc \in {"failed", "completed"} \/ (pc = "verifying" /\ id = Following(cur))
      PROVE  OpenInHand'
  <2>1. cur' = id /\ pc' = "entry" /\ UNCHANGED discarded /\ id \in Ids
    BY <1>5, CalledNext, BudgetIds DEF Recurse
  <2>2. \A x \in Ids : x # id => step'[x] = step[x]
    BY <1>5, <2>1 DEF Recurse, TypeInv, TypeOK
  <2>3. \A x \in Ids : Open(x)' => x = id
    BY <1>5, <2>1, <2>2 DEF Open, OpenInHand
  <2> QED
    BY <2>1, <2>3 DEF OpenInHand
<1>6. CASE Launch
  <2>1. cur' = <<0, 0>> /\ pc = "launch" /\ pc' = "entry" /\ UNCHANGED discarded
    BY <1>6 DEF Launch, cur
  <2>2. \A id \in Ids : id # <<0, 0>> => step'[id] = step[id]
    BY <1>6 DEF Launch, TypeInv, TypeOK
  <2>3. \A id \in Ids : Open(id)' => id = <<0, 0>>
    BY <2>1, <2>2 DEF Open, OpenInHand
  <2> QED
    BY <2>1, <2>3 DEF OpenInHand
<1>7. CASE Enter
  <2>1. CASE pc = "entry" /\ pc' = "ready" /\ UNCHANGED <<step, frames, discarded>>
    BY <2>1 DEF OpenInHand, Open, cur
  <2> QED
    BY <1>4, <1>7, <2>1 DEF Enter, StepTo, chainVars
<1>8. CASE Begin
  <2>1. CASE /\ pc = "ready" /\ pc' = "act" /\ UNCHANGED <<frames, discarded>>
             /\ step' = [step EXCEPT ![cur] = "running"]
    <3>1. \A id \in Ids : id # cur => step'[id] = step[id]
      BY <2>1 DEF TypeInv, TypeOK
    <3>2. \A id \in Ids : Open(id)' => id = cur
      BY <2>1, <3>1 DEF Open, OpenInHand
    <3> QED
      BY <2>1, <3>2 DEF OpenInHand, cur
  <2> QED
    BY <1>3, <1>4, <1>8, <2>1 DEF Begin, Working
<1>9. CASE Act
  BY <1>3, <1>4, <1>9 DEF Act, StepTo, chainVars, Working
<1>10. CASE HandleFailedStep
  BY <1>2, <1>3, <1>5, <1>10, CurBudget, NextSteps DEF HandleFailedStep, Working
<1>11. CASE HandleCompletedStep
  BY <1>2, <1>3, <1>5, <1>11, CurBudget, NextSteps DEF HandleCompletedStep, Working
<1>12. CASE Speculate
  <2>1. /\ pc = "completed" /\ pc' = "verifying" /\ UNCHANGED <<frames, discarded>>
        /\ step' = [step EXCEPT ![Following(cur)] = "created"]
    BY <1>12 DEF Speculate, chainVars
  <2>2. \A id \in Ids : id # Following(cur) => step'[id] = step[id]
    BY <2>1 DEF TypeInv, TypeOK
  <2>3. \A id \in Ids : Open(id)' => id = Following(cur)
    BY <2>1, <2>2 DEF Open, OpenInHand
  <2> QED
    BY <2>1, <2>3 DEF OpenInHand, cur, Following
<1>13. CASE GoalReached
  <2>1. pc = "verifying" /\ discarded' = discarded \cup {Following(cur)} /\ UNCHANGED step
    BY <1>13 DEF GoalReached
  <2> QED
    BY <1>1, <2>1 DEF Open, OpenInHand
<1>14. CASE GoalNotReached
  <2>0. pc = "verifying" /\ pc # "launch"
    BY <1>14 DEF GoalNotReached
  <2>1. CASE step' = [step EXCEPT ![Following(cur)] = "canceled"] /\ UNCHANGED discarded
    <3>1. Following(cur) \in Ids
      BY <2>0, CurBudget, NextSteps
    <3>2. /\ step'[Following(cur)] = "canceled"
          /\ \A id \in Ids : id # Following(cur) => step'[id] = step[id]
      BY <2>1, <3>1 DEF TypeInv, TypeOK
    <3> QED
      BY <1>1, <2>0, <2>1, <3>2 DEF Open, OpenInHand
  <2>2. CASE ~LastOrder(cur) /\ Recurse(Following(cur))
    BY <1>5, <2>0, <2>2, CurBudget, NextSteps
  <2> QED
    BY <1>14, <2>1, <2>2 DEF GoalNotReached
<1>15. CASE Conclude
  BY <1>2, <1>15 DEF Conclude
<1>16. CASE Handle
  <2>1. CASE caught \in {"webhook", "canceled"} \/ step[cur] = "completed"
    <3>1. \A id \in Ids : ~Open(id)
      BY <1>16, <2>1 DEF Handle, OpenInHand, Open
    <3>2. CASE UNCHANGED <<step, discarded>>
      BY <1>1, <3>1, <3>2 DEF Open
    <3>3. CASE StepTo("failed", "failing")
      BY <1>4, <1>16, <3>3 DEF StepTo, chainVars, Handle
    <3> QED
      BY <1>16, <3>2, <3>3 DEF Handle, GoTo, chainVars
  <2>2. CASE StepTo("failed", "failing")
    BY <1>4, <1>16, <2>2 DEF StepTo, chainVars, Handle
  <2> QED
    BY <1>16, <2>1, <2>2 DEF Handle
<1>17. CASE FailTask
  BY <1>2, <1>17 DEF FailTask, GoTo, chainVars
<1>18. CASE CleanUp
  BY <1>2, <1>18 DEF CleanUp, GoTo, Raise, chainVars
<1>19. CASE Send
  BY <1>2, <1>19 DEF Send, GoTo, chainVars
<1>20. CASE BlockFailsTask
  BY <1>2, <1>20 DEF BlockFailsTask, chainVars
<1>21. ASSUME NEW id \in Ids, CancelDiscarded(id) PROVE OpenInHand'
  <2>1. UNCHANGED <<frames, pc, caught>> /\ discarded' = discarded \ {id}
    BY <1>21 DEF CancelDiscarded
  <2>2. step'[id] = "canceled" /\ \A x \in Ids : x # id => step'[x] = step[x]
    BY <1>21 DEF CancelDiscarded, TypeInv, TypeOK
  <2>3. \A x \in Ids : Open(x)' => Open(x)
    BY <2>1, <2>2 DEF Open
  <2> QED
    BY <2>1, <2>3 DEF OpenInHand, cur, Following
<1>22. ASSUME UNCHANGED <<step, frames, pc, caught, discarded>> PROVE OpenInHand'
  BY <1>22 DEF OpenInHand, Open, cur, Following
<1>23. CASE RequestCancel \/ WriteCancel \/ StopRun
  BY <1>22, <1>23 DEF RequestCancel, WriteCancel, StopRun, chainVars
<1>24. CASE UNCHANGED vars
  BY <1>22, <1>24 DEF vars
<1> QED
  BY <1>6, <1>7, <1>8, <1>9, <1>10, <1>11, <1>12, <1>13, <1>14, <1>15, <1>16, <1>17,
     <1>18, <1>19, <1>20, <1>21, <1>23, <1>24 DEF Next, Chain

LEMMA EndsStep ==
    TypeInv /\ OrderInv /\ EndsSettled /\ [Next]_vars => EndsSettled'
<1> SUFFICES ASSUME TypeInv, OrderInv, EndsSettled, [Next]_vars PROVE EndsSettled'
  OBVIOUS
<1>0. ASSUME UNCHANGED <<task, step>>, Settled PROVE Settled'
  BY <1>0 DEF Settled, LastStepCompleted, Ran
<1>1. ASSUME NEW s \in Final, UpdateTask(s), pc # "launch" PROVE EndsSettled'
  <2>1. CASE pc' = "conclude" /\ UNCHANGED task
    BY <1>1, <2>1 DEF EndsSettled, Working
  <2>2. CASE ~CanBecome(s) /\ Raised("canceled") /\ UNCHANGED task
    <3>1. task' \in Final /\ pc' \in {"handle", "raised", "returned"}
      BY <1>1, <2>2, RefusedFinal, RaisedPlace
    <3> QED
      BY <3>1 DEF EndsSettled, Settled, Working, Final
  <2> QED
    BY <1>1, <2>1, <2>2 DEF UpdateTask
<1>2. ASSUME NEW k \in {"unsupported", "scraping", "fails"}, Raise(k) \/ Raised(k),
             UNCHANGED <<task, step>>, pc \in Working \ {"entry"}
      PROVE  EndsSettled'
  <2>1. guarded /\ Latest
    BY <1>2 DEF EndsSettled, OrderInv, Working
  <2>2. pc' = "handle" /\ caught' = k /\ UNCHANGED frames
    BY <1>2, <2>1 DEF Raise, Raised
  <2>3. Latest'
    BY <1>2, <2>1, <2>2 DEF Latest, Ran, cur
  <2> QED
    BY <1>2, <2>2, <2>3 DEF EndsSettled, Working
\* Once the task is settled it does not matter whose call goes on.
<1>3. ASSUME UNCHANGED <<task, step>>, Settled, pc # "launch",
             pc' \notin Working \cup {"launch"}
      PROVE  EndsSettled'
  BY <1>0, <1>3 DEF EndsSettled
<1>4. ASSUME NEW id \in Budget, Recurse(id), pc # "launch" PROVE EndsSettled'
  BY <1>4 DEF Recurse, EndsSettled, Working
<1>5. ASSUME UNCHANGED task, pc # "launch", pc' = "failing" PROVE EndsSettled'
  BY <1>5 DEF EndsSettled, Working
<1>6. CASE Launch
  BY <1>6 DEF Launch, EndsSettled, Working
<1>7. CASE Enter
  <2>0. pc # "launch"
    BY <1>7 DEF Enter
  <2>1. CASE run \in {"canceled", "timed_out"} /\ UpdateTask(run)
    BY <1>1, <2>0, <2>1 DEF Final
  <2>2. CASE task = "canceled" /\ StepTo("canceled", "cleanup")
    BY <2>0, <2>2 DEF StepTo, EndsSettled, Settled, Working, Final
  <2>3. CASE guarded' = TRUE /\ pc' = "ready" /\ UNCHANGED task
    BY <2>0, <2>3 DEF EndsSettled
  <2> QED
    BY <1>7, <2>1, <2>2, <2>3 DEF Enter
<1>8. CASE Begin
  <2>0. pc \in Working \ {"entry"} /\ pc # "launch"
    BY <1>8 DEF Begin, Working
  <2>1. CASE pc' = "act" /\ UNCHANGED <<task, guarded>>
    BY <2>0, <2>1 DEF EndsSettled
  <2> QED
    BY <1>1, <1>2, <1>8, <2>0, <2>1 DEF Begin, Raise, Final
<1>9. CASE Act
  <2>0. pc \in Working \ {"entry"} /\ pc # "launch"
    BY <1>9 DEF Act, Working
  <2>1. ASSUME NEW s \in {"failed", "completed"}, StepTo(s, s) PROVE EndsSettled'
    BY <2>0, <2>1 DEF StepTo, chainVars, EndsSettled
  <2> QED
    BY <1>2, <1>9, <2>0, <2>1 DEF Act, Raise
<1>10. CASE HandleFailedStep
  <2>0. pc \in Working \ {"entry"} /\ pc # "launch"
    BY <1>10 DEF HandleFailedStep, Working
  <2> QED
    BY <1>1, <1>2, <1>4, <1>10, <2>0, CurBudget, NextSteps DEF HandleFailedStep, Raise, Final
<1>11. CASE HandleCompletedStep
  <2>0. pc \in Working \ {"entry"} /\ pc # "launch"
    BY <1>11 DEF HandleCompletedStep, Working
  <2> QED
    BY <1>1, <1>2, <1>4, <1>11, <2>0, CurBudget, NextSteps DEF HandleCompletedStep, Raise, Final
<1>12. CASE Speculate
  BY <1>12 DEF Speculate, chainVars, EndsSettled, Working
<1>13. CASE GoalReached
  <2>0. pc \in Working \ {"entry"} /\ pc # "launch"
    BY <1>13 DEF GoalReached, Working
  <2> QED
    BY <1>1, <1>2, <1>13, <2>0 DEF GoalReached, Final
<1>14. CASE GoalNotReached
  <2>0. pc # "launch"
    BY <1>14 DEF GoalNotReached
  <2> QED
    BY <1>1, <1>4, <1>14, <2>0, CurBudget, NextSteps DEF GoalNotReached, Final
<1>15. CASE Conclude
  <2>1. task' \in Final
    BY <1>15 DEF Conclude, TypeInv, TypeOK
  <2>2. pc' \in {"cleanup", "returned"}
    BY <1>15 DEF Conclude
  <2> QED
    BY <2>1, <2>2 DEF EndsSettled, Settled, Working, Final
<1>16. CASE Handle
  <2>0. pc = "handle" /\ (Settled \/ Latest) /\ (caught \in {"webhook", "canceled"} => Settled)
    BY <1>16 DEF Handle, EndsSettled
  <2>1. ASSUME NEW place \in {"returned", "cleanup"}, GoTo(place), Settled PROVE EndsSettled'
    BY <1>3, <2>0, <2>1 DEF GoTo, Working
  <2>2. CASE step[cur] = "completed" /\ GoTo("cleanup")
    <3>1. cur \in Ids
      BY <2>0, CurEntitled
    <3>2. \A id \in Ids : UpTo(id, cur) => id[1] <= cur[1]
      BY <3>1 DEF UpTo, Ids
    <3>3. Latest => LastStepCompleted
      BY <2>2, <3>1, <3>2 DEF Latest, LastStepCompleted
    <3> QED
      BY <2>0, <2>1, <2>2, <3>3 DEF Settled
  <2>3. CASE StepTo("failed", "failing")
    BY <1>5, <2>0, <2>3 DEF StepTo
  <2> QED
    BY <1>16, <2>0, <2>1, <2>2, <2>3 DEF Handle
<1>17. CASE FailTask
  <2>0. pc # "launch"
    BY <1>17 DEF FailTask
  <2>1. CASE pc' = "conclude" /\ UNCHANGED task
    BY <2>0, <2>1 DEF EndsSettled, Working
  <2>2. CASE ~CanBecome("failed") /\ GoTo(IF caught = "fails" THEN "returned" ELSE "cleanup")
    <3>1. Settled
      BY <2>0, <2>2, RefusedFinal DEF Settled, Final
    <3> QED
      BY <1>3, <2>0, <2>2, <3>1 DEF GoTo, Working
  <2> QED
    BY <1>17, <2>1, <2>2 DEF FailTask
<1>18. CASE CleanUp
  <2>0. pc = "cleanup" /\ Settled
    BY <1>18 DEF CleanUp, EndsSettled
  <2>1. UNCHANGED <<task, step>> /\ pc' \in {"returned", "handle", "raised", "send"}
    BY <1>18, RaisedPlace DEF CleanUp, GoTo, Raise
  <2> QED
    BY <1>3, <2>0, <2>1 DEF Working
<1>19. CASE Send
  <2>0. pc = "send" /\ Settled
    BY <1>19 DEF Send, EndsSettled
  <2>1. UNCHANGED <<task, step>> /\ pc' \in {"returned", "handle", "raised"}
    BY <1>19, RaisedPlace DEF Send, GoTo
  <2> QED
    BY <1>3, <2>0, <2>1 DEF Working
<1>20. CASE BlockFailsTask
  BY <1>20 DEF BlockFailsTask, EndsSettled, Settled, Working, Final
<1>21. ASSUME NEW id \in Ids, CancelDiscarded(id) PROVE EndsSettled'
  <2>1. UNCHANGED <<task, pc, frames, caught, guarded>> /\ ~Ran(id)
    BY <1>21 DEF CancelDiscarded, OrderInv
  <2>2. step'[id] = "canceled" /\ \A x \in Ids : x # id => step'[x] = step[x]
    BY <1>21 DEF CancelDiscarded, TypeInv, TypeOK
  <2>3. Lasting /\ \A x \in Ids : Ran(x)' => Ran(x)
    BY <2>1, <2>2 DEF Lasting, Ran
  <2>4. (Settled => Settled') /\ (Latest => Latest')
    BY <2>1, <2>3, LastLasts DEF Settled, Latest, cur
  <2> QED
    BY <2>1, <2>4 DEF EndsSettled
<1>22. ASSUME UNCHANGED <<step, frames, pc, caught, guarded>>, task' = task \/ task' \in Final
       PROVE  EndsSettled'
  <2>1. (Settled => Settled') /\ (Latest => Latest')
    BY <1>22 DEF Settled, Latest, LastStepCompleted, Ran, cur
  <2> QED
    BY <1>22, <2>1 DEF EndsSettled, Final
<1>23. CASE RequestCancel \/ WriteCancel \/ StopRun
  BY <1>22, <1>23 DEF RequestCancel, WriteCancel, StopRun, chainVars, Final
<1>24. CASE UNCHANGED vars
  BY <1>22, <1>24 DEF vars
<1> QED
  BY <1>6, <1>7, <1>8, <1>9, <1>10, <1>11, <1>12, <1>13, <1>14, <1>15, <1>16, <1>17,
     <1>18, <1>19, <1>20, <1>21, <1>23, <1>24 DEF Next, Chain

LEMMA ReportsStep ==
    TypeInv /\ OrderInv /\ EndsSettled /\ ReportsEnd /\ [Next]_vars => ReportsEnd'
<1> SUFFICES ASSUME TypeInv, OrderInv, EndsSettled, ReportsEnd, [Next]_vars PROVE ReportsEnd'
  OBVIOUS
\* Before the webhook there is nothing to keep.
<1>1. ASSUME UNCHANGED reports, pc \notin {"handle", "returned"}, pc' # "send" PROVE ReportsEnd'
  BY <1>1 DEF ReportsEnd
<1>2. ASSUME NEW s, UpdateTask(s), pc \notin {"handle", "returned"} PROVE ReportsEnd'
  BY <1>1, <1>2, UpdatePlace DEF UpdateTask
<1>3. ASSUME NEW k, Raised(k), UNCHANGED reports, pc \notin {"handle", "returned"} PROVE ReportsEnd'
  BY <1>1, <1>3, RaisedPlace
<1>4. CASE Launch \/ Enter \/ Begin \/ Act
  BY <1>1, <1>2, <1>3, <1>4 DEF Launch, Enter, Begin, Act, Raise, StepTo, chainVars
<1>5. CASE HandleFailedStep \/ HandleCompletedStep
  BY <1>1, <1>2, <1>3, <1>5 DEF HandleFailedStep, HandleCompletedStep, Raise, Recurse
<1>6. CASE Speculate \/ GoalReached \/ GoalNotReached
  BY <1>1, <1>2, <1>3, <1>6 DEF Speculate, GoalReached, GoalNotReached, Recurse, chainVars
<1>7. CASE Conclude \/ FailTask \/ BlockFailsTask
  BY <1>1, <1>7 DEF Conclude, FailTask, BlockFailsTask, GoTo, chainVars
<1>8. CASE Handle
  <2>1. CASE caught = "webhook" /\ GoTo("returned")
    BY <2>1 DEF GoTo, chainVars, ReportsEnd, LastStepCompleted, Ran
  <2>2. CASE caught # "webhook"
    <3>1. reports = <<>>
      BY <1>8, <2>2 DEF Handle, ReportsEnd
    <3>2. UNCHANGED reports /\ pc' # "send"
      BY <1>8, <2>2 DEF Handle, GoTo, StepTo, chainVars
    <3> QED
      BY <3>1, <3>2 DEF ReportsEnd
  <2> QED
    BY <1>8, <2>1, <2>2 DEF Handle
<1>9. CASE CleanUp
  <2>1. CASE /\ run = "none" /\ seen' = task /\ pc = "cleanup" /\ pc' = "send"
             /\ UNCHANGED <<task, step, reports, run>>
    <3>1. seen' \in Final \/ LastStepCompleted'
      BY <2>1 DEF EndsSettled, Settled, LastStepCompleted, Ran
    <3>2. reports' = <<>>
      BY <2>1 DEF ReportsEnd
    <3> QED
      BY <2>1, <3>1, <3>2 DEF ReportsEnd
  <2> QED
    BY <1>1, <1>3, <1>9, <2>1 DEF CleanUp, GoTo, Raise, chainVars, cancelVars
<1>10. CASE Send
  <2>0. pc = "send" /\ run = "none" /\ (seen \in Final \/ LastStepCompleted) /\ reports = <<>>
    BY <1>10 DEF Send, ReportsEnd
  <2>1. CASE /\ reports' = Append(reports, seen)
             /\ UNCHANGED <<task, step>>
             /\ (pc' = "returned") \/ Raised("webhook")
    <3>1. reports' = <<seen>>
      BY <2>0, <2>1
    <3>2. Len(reports') = 1 /\ reports'[1] = seen
      BY <3>1
    <3>3. pc' = "returned" \/ (pc' = "handle" /\ caught' = "webhook")
      BY <2>0, <2>1 DEF Raised
    <3>4. LastStepCompleted => LastStepCompleted'
      BY <2>1 DEF LastStepCompleted, Ran
    <3> QED
      BY <2>0, <3>2, <3>3, <3>4 DEF ReportsEnd
  <2> QED
    BY <1>1, <1>10, <2>1 DEF Send, GoTo, chainVars
<1>11. ASSUME NEW id \in Ids, CancelDiscarded(id) PROVE ReportsEnd'
  <2>1. UNCHANGED <<pc, caught, seen, reports, run>> /\ ~Ran(id)
    BY <1>11 DEF CancelDiscarded, OrderInv, cancelVars
  <2>2. step'[id] = "canceled" /\ \A x \in Ids : x # id => step'[x] = step[x]
    BY <1>11 DEF CancelDiscarded, TypeInv, TypeOK
  <2>3. Lasting /\ \A x \in Ids : Ran(x)' => Ran(x)
    BY <2>1, <2>2 DEF Lasting, Ran
  <2>4. LastStepCompleted => LastStepCompleted'
    BY <2>3, LastLasts
  <2> QED
    BY <2>1, <2>4 DEF ReportsEnd
<1>12. ASSUME UNCHANGED <<step, pc, caught, seen, reports>>, run = "none" => run' = "none"
       PROVE  ReportsEnd'
  BY <1>12 DEF ReportsEnd, LastStepCompleted, Ran
<1>13. CASE RequestCancel \/ WriteCancel \/ StopRun
  BY <1>12, <1>13 DEF RequestCancel, WriteCancel, StopRun, chainVars
<1>14. CASE UNCHANGED vars
  BY <1>12, <1>14 DEF vars
<1> QED
  BY <1>4, <1>5, <1>6, <1>7, <1>8, <1>9, <1>10, <1>11, <1>13, <1>14 DEF Next, Chain

\* What the chain leaves is settled: no step is open but those a background
\* cancellation has, the task is final, or its last step had completed when
\* fail_task was called, and one webhook at most says so (execute_step,
\* clean_up_task).
THEOREM ChainSettles == Spec => []Settles
<1>1. Init => OrderInv /\ SettleInv
  <2> SUFFICES ASSUME Init PROVE OrderInv /\ SettleInv
    OBVIOUS
  <2>1. /\ pc = "launch" /\ reports = <<>> /\ discarded = {} /\ frames = <<>>
        /\ \A id \in Ids : step[id] = "none"
    BY DEF Init
  <2> QED
    BY <2>1 DEF OrderInv, Ran, Working, SettleInv, OpenInHand, Open, EndsSettled, ReportsEnd
<1>2. TypeInv /\ OrderInv /\ SettleInv /\ [Next]_vars => OrderInv' /\ SettleInv'
  BY OrderStep, OpenStep, EndsStep, ReportsStep DEF SettleInv
<1>3. SettleInv => Settles
  <2> SUFFICES ASSUME SettleInv PROVE Settles
    OBVIOUS
  <2>1. reports = <<>> => Len(reports) = 0
    OBVIOUS
  <2>2. pc = "returned" => \A id \in Ids : step[id] \in {"created", "running"} => id \in discarded
    BY DEF SettleInv, OpenInHand, Open
  <2>3. pc = "returned" => task \in Final \/ LastStepCompleted
    BY DEF SettleInv, EndsSettled, Settled
  <2>4. reports # <<>> => Len(reports) = 1 /\ (reports[1] \in Final \/ LastStepCompleted)
    BY DEF SettleInv, ReportsEnd
  <2>5. Len(reports) <= 1
    BY <2>1, <2>4
  <2> QED
    BY <2>2, <2>3, <2>4, <2>5 DEF Settles
<1> QED
  BY <1>1, <1>2, <1>3, TypeInvHolds, PTL DEF Spec
=============================================================================
