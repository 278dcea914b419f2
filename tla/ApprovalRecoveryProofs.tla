------------------------ MODULE ApprovalRecoveryProofs ------------------------
(***************************************************************************)
(* Proofs about ApprovalRecovery, for every number of tasks, pauses,       *)
(* approvers, crashes and workers; only the last theorem asks for one      *)
(* worker.                                                                 *)
(***************************************************************************)
EXTENDS ApprovalRecovery, WellFoundedInduction, TLAPS

(***************************************************************************)
(* Types, and the task a worker is at.                                     *)
(***************************************************************************)

\* A worker that hands off tasks has a current one: the least number of a
\* nonempty set of tasks, in the order the select returns them.
LEMMA CurrentTask ==
    ASSUME TypeOK, HandsOff, NEW w \in Workers, wpc[w] \notin {"scan", "discover"}
    PROVE  Current(w) \in todo[w] /\ Current(w) \in Tasks
<1>1. todo[w] \subseteq Nat /\ todo[w] \subseteq Tasks /\ todo[w] # {}
  BY SizeAssumption DEF TypeOK, HandsOff, Tasks
<1>2. PICK t \in todo[w] : \A s \in todo[w] : ~(<<s, t>> \in OpToRel(<, Nat))
  BY <1>1, WFMin, NatLessThanWellFounded
<1>3. \A s \in todo[w] : t <= s
  <2>1. SUFFICES ASSUME NEW s \in todo[w]
                 PROVE  t <= s
    OBVIOUS
  <2>2. s \in Nat /\ t \in Nat
    BY <1>1
  <2>3. ~(s < t)
    BY <1>2, <2>2 DEF OpToRel
  <2> QED
    BY <2>2, <2>3
<1> QED
  BY <1>1, <1>3 DEF Current

\* Creating a pause writes statuses of their types.
LEMMA CreatePauseTypes ==
    ASSUME TypeOK, NEW t \in Tasks, NEW p \in Pauses, CreatePause(t, p)
    PROVE  /\ task' \in [Tasks -> PairStatus] /\ step' \in [Tasks -> PairStatus]
           /\ owner' \in [Pauses -> Tasks \cup {0}]
           /\ action' \in [Pauses -> Active \cup {"none", "rejected", "invalidated"}]
           /\ approval' \in [Pauses -> {"none", "pending", "approved", "rejected"}]
  BY DEF CreatePause, TypeOK, PairStatus, Active

\* Going on with the next task leaves the worker a task to go on with.
LEMMA NextTaskTypes ==
    ASSUME TypeOK, HandsOff, NEW w \in Workers,
           wpc[w] \notin {"scan", "discover"}, NextTask(w)
    PROVE  /\ wpc' \in [Workers -> {"scan", "discover", "handoff", "claimed",
                                    "loaded", "validated", "agent"}]
           /\ todo' \in [Workers -> SUBSET Tasks]
           /\ copy' \in [Workers -> PairStatus \cup {"none"}]
           /\ crashes' \in 0 .. MaxCrashes
           /\ HandsOff'
<1>1. Current(w) \in todo[w]
  BY CurrentTask
<1>2. todo'[w] = todo[w] \ {Current(w)} /\ todo'[w] \subseteq todo[w]
  BY DEF NextTask, TypeOK
<1>3. todo[w] # {Current(w)} => todo'[w] # {}
  BY <1>1, <1>2
<1>4. HandsOff'
  BY <1>3 DEF NextTask, HandsOff, TypeOK
<1> QED
  BY <1>4 DEF NextTask, TypeOK

\* The statuses are of their types, the numbers within their bounds, and a
\* worker that hands tasks off has one left.
THEOREM Typing == Spec => [](TypeOK /\ HandsOff)
<1> USE DEF nativeVars, pauseVars, routeVars, workerVars
<1>1. Init => TypeOK /\ HandsOff
  BY SizeAssumption
     DEF Init, TypeOK, HandsOff, PairStatus, Active, NobodyYet
<1>2. ASSUME TypeOK, HandsOff, [Next]_vars
      PROVE  TypeOK' /\ HandsOff'
  <2>1. CASE UNCHANGED vars
    BY <1>2, <2>1 DEF vars, TypeOK, HandsOff
  <2>2. CASE \E t \in Tasks, p \in Pauses : FirstPause(t, p)
    BY <1>2, <2>2, CreatePauseTypes DEF FirstPause, TypeOK, HandsOff
  <2>3. CASE \E t \in Tasks : CancelTask(t)
    BY <1>2, <2>3 DEF CancelTask, TypeOK, HandsOff, PairStatus
  <2>4. CASE \E u \in Approvers, p \in Pauses : LoadApproval(u, p)
    BY <1>2, <2>4 DEF LoadApproval, TypeOK, HandsOff
  <2>5. ASSUME NEW u \in Approvers, NEW approved \in BOOLEAN, Decide(u, approved)
        PROVE  TypeOK' /\ HandsOff'
    BY <1>2, <2>5
       DEF Decide, RecordOutcome, Outcome, Answer, TypeOK, HandsOff, Active
  <2>6. CASE \E u \in Approvers : RefuseDecision(u)
    BY <1>2, <2>6 DEF RefuseDecision, Answer, TypeOK, HandsOff
  <2>7. ASSUME NEW w \in Workers, Cycle(w)
        PROVE  TypeOK' /\ HandsOff'
    <3>1. CASE PrepareApproved(w)
      BY <1>2, <3>1
         DEF PrepareApproved, Invalidated, TypeOK, HandsOff, PairStatus
    <3>2. CASE Discover(w)
      BY <1>2, <3>2 DEF Discover, Batch, TypeOK, HandsOff
    <3>3. CASE Claim(w)
      BY <1>2, <3>3, CurrentTask, NextTaskTypes
         DEF Claim, GoesOn, TypeOK, HandsOff, PairStatus
    <3>4. CASE LoadRecords(w)
      BY <1>2, <3>4, CurrentTask, NextTaskTypes
         DEF LoadRecords, GoesOn, TypeOK, HandsOff, PairStatus
    <3>5. CASE Validate(w)
      BY <1>2, <3>5, NextTaskTypes DEF Validate, GoesOn, TypeOK, HandsOff
    <3>6. CASE StartAgent(w)
      BY <1>2, <3>6, CurrentTask
         DEF StartAgent, GoesOn, TypeOK, HandsOff, PairStatus
    <3>7. CASE \E p \in Pauses : AgentPauses(w, p)
      BY <1>2, <3>7, CurrentTask, CreatePauseTypes, NextTaskTypes
         DEF AgentPauses, TypeOK
    <3>8. CASE \E status \in {"completed", "failed"} : AgentEnds(w, status)
      BY <1>2, <3>8, CurrentTask, NextTaskTypes
         DEF AgentEnds, TypeOK, PairStatus
    <3> QED
      BY <2>7, <3>1, <3>2, <3>3, <3>4, <3>5, <3>6, <3>7, <3>8 DEF Cycle
  <2>8. CASE \E w \in Workers : WorkerCrash(w)
    BY <1>2, <2>8, SizeAssumption DEF WorkerCrash, TypeOK, HandsOff
  <2>9. CASE Tick
    BY <1>2, <2>9, SizeAssumption DEF Tick, TypeOK, HandsOff
  <2> QED
    BY <1>2, <2>1, <2>2, <2>3, <2>4, <2>5, <2>6, <2>7, <2>8, <2>9 DEF Next
<1> QED
  BY <1>1, <1>2, PTL DEF Spec

(***************************************************************************)
(* The two rows of a pause.                                                *)
(***************************************************************************)

Rows == TypeOK /\ DecisionConsistent /\ RowsAgree

\* A new pause starts with two rows that agree.
LEMMA CreatePauseRows ==
    ASSUME Rows, NEW t \in Tasks, NEW p \in Pauses, CreatePause(t, p),
           UNCHANGED approver
    PROVE  DecisionConsistent' /\ RowsAgree'
<1>1. 0 \notin Tasks
  BY DEF Tasks
<1>2. owner[p] = 0 /\ owner'[p] = t /\ t # 0
  BY <1>1 DEF CreatePause, NextPause, Rows, TypeOK
<1>3. \A q \in Pauses \ {p} : /\ owner'[q] = owner[q] /\ action'[q] = action[q]
                               /\ approval'[q] = approval[q]
  BY DEF CreatePause, Rows, TypeOK
<1>4. action'[p] = "pending" /\ approval'[p] = "pending"
  BY DEF CreatePause, Rows, TypeOK
<1> QED
  BY <1>2, <1>3, <1>4 DEF Rows, DecisionConsistent, RowsAgree

\* A decision moves both rows of a pending pause, and an approver who is not
\* the requester makes it.
LEMMA DecideRows ==
    ASSUME Rows, NEW u \in Approvers, NEW approved \in BOOLEAN, Decide(u, approved)
    PROVE  DecisionConsistent' /\ RowsAgree'
<1> DEFINE p == review[u]
<1>1. p \in Pauses /\ action[p] = "pending" /\ approval[p] = "pending"
  BY DEF Decide, Undecided, Rows, TypeOK, DecisionConsistent
<1>2. owner[p] # 0 /\ u # Requester[owner[p]]
  BY <1>1 DEF Decide, MayDecide, Rows, RowsAgree
<1>3. /\ action'[p] = Outcome(approved) /\ approval'[p] = Outcome(approved)
      /\ approver'[p] = u
  BY <1>1 DEF Decide, RecordOutcome, Rows, TypeOK
<1>4. owner' = owner
  BY DEF Decide
<1>5. \A q \in Pauses \ {p} : /\ approver'[q] = approver[q]
                               /\ action'[q] = action[q] /\ approval'[q] = approval[q]
  BY DEF Decide, RecordOutcome, Rows, TypeOK
<1> HIDE DEF p
<1> QED
  BY <1>1, <1>2, <1>3, <1>4, <1>5 DEF Rows, Outcome, DecisionConsistent, RowsAgree

\* Spending an approval leaves the approval request approved.
LEMMA PrepareRows ==
    ASSUME Rows, NEW w \in Workers, PrepareApproved(w)
    PROVE  DecisionConsistent' /\ RowsAgree'
<1>1. \A p \in Pauses :
         action'[p] # action[p] => action[p] = "approved" /\ action'[p] = "invalidated"
  BY DEF PrepareApproved, Batch, Invalidated
<1>2. UNCHANGED <<owner, approval, approver>>
  BY DEF PrepareApproved
<1> QED
  BY <1>1, <1>2 DEF Rows, DecisionConsistent, RowsAgree

\* No other step changes the rows of a pause.
LEMMA RowsStep ==
    ASSUME Rows, HandsOff, [Next]_vars
    PROVE  DecisionConsistent' /\ RowsAgree'
<1>0. ASSUME UNCHANGED <<owner, action, approval, approver>>
      PROVE  DecisionConsistent' /\ RowsAgree'
  BY <1>0 DEF Rows, DecisionConsistent, RowsAgree
<1>1. CASE UNCHANGED vars
  BY <1>0, <1>1 DEF vars
<1>2. ASSUME NEW t \in Tasks, NEW p \in Pauses, FirstPause(t, p)
      PROVE  DecisionConsistent' /\ RowsAgree'
  BY <1>2, CreatePauseRows DEF FirstPause
<1>3. ASSUME NEW u \in Approvers, NEW approved \in BOOLEAN, Decide(u, approved)
      PROVE  DecisionConsistent' /\ RowsAgree'
  BY <1>3, DecideRows
<1>4. ASSUME NEW w \in Workers, Cycle(w)
      PROVE  DecisionConsistent' /\ RowsAgree'
  <2>1. CASE PrepareApproved(w)
    BY <2>1, PrepareRows
  <2>2. ASSUME NEW p \in Pauses, AgentPauses(w, p)
        PROVE  DecisionConsistent' /\ RowsAgree'
    <3>1. Current(w) \in Tasks
      BY <2>2, CurrentTask DEF AgentPauses, Rows
    <3> QED
      BY <2>2, <3>1, CreatePauseRows DEF AgentPauses
  <2>3. CASE \/ Discover(w) \/ Claim(w) \/ LoadRecords(w) \/ Validate(w)
             \/ StartAgent(w)
             \/ \E status \in {"completed", "failed"} : AgentEnds(w, status)
    BY <1>0, <2>3
       DEF Discover, Claim, LoadRecords, Validate, StartAgent, AgentEnds, pauseVars
  <2> QED
    BY <1>4, <2>1, <2>2, <2>3 DEF Cycle
<1>5. CASE \/ \E t \in Tasks : CancelTask(t)
           \/ \E u \in Approvers, p \in Pauses : LoadApproval(u, p)
           \/ \E u \in Approvers : RefuseDecision(u)
           \/ \E w \in Workers : WorkerCrash(w)
           \/ Tick
  BY <1>0, <1>5
     DEF CancelTask, LoadApproval, RefuseDecision, WorkerCrash, Tick, pauseVars
<1> QED
  BY <1>1, <1>2, <1>3, <1>4, <1>5 DEF Next

\* Approval request and pending action tell the same story, and a granted
\* approval was granted by an approver other than the requester.
THEOREM RowsConsistent == Spec => [](DecisionConsistent /\ RowsAgree)
<1>1. Init => DecisionConsistent /\ RowsAgree
  BY DEF Init, DecisionConsistent, RowsAgree
<1>2. TypeOK /\ HandsOff /\ DecisionConsistent /\ RowsAgree /\ [Next]_vars
         => (DecisionConsistent /\ RowsAgree)'
  BY RowsStep DEF Rows
<1> QED
  BY <1>1, <1>2, Typing, PTL DEF Spec

\* A decision is final: only Decide writes a decision, of a pause that is
\* still pending, and only a new pause writes a request that was not there.
THEOREM DecisionsFinal == Spec => DecisionFinal
<1>1. ASSUME Rows, HandsOff, [Next]_vars, NEW p \in Pauses,
             approval[p] \in {"approved", "rejected"}
      PROVE  approval'[p] = approval[p] /\ approver'[p] = approver[p]
  <2>0. ASSUME UNCHANGED <<approval, approver>>
        PROVE  approval'[p] = approval[p] /\ approver'[p] = approver[p]
    BY <2>0
  <2>1. ASSUME NEW t \in Tasks, NEW q \in Pauses, CreatePause(t, q),
               UNCHANGED approver
        PROVE  approval'[p] = approval[p] /\ approver'[p] = approver[p]
    <3>1. q # p
      BY <1>1, <2>1 DEF CreatePause, NextPause, Rows, RowsAgree
    <3> QED
      BY <1>1, <2>1, <3>1 DEF CreatePause, Rows, TypeOK
  <2>2. ASSUME NEW u \in Approvers, NEW approved \in BOOLEAN, Decide(u, approved)
        PROVE  approval'[p] = approval[p] /\ approver'[p] = approver[p]
    <3>1. review[u] # p
      BY <1>1, <2>2 DEF Decide, Undecided, Rows, DecisionConsistent
    <3> QED
      BY <1>1, <2>2, <3>1 DEF Decide, RecordOutcome, Rows, TypeOK
  <2>3. CASE \E t \in Tasks, q \in Pauses : FirstPause(t, q)
    BY <2>1, <2>3 DEF FirstPause
  <2>4. ASSUME NEW w \in Workers, Cycle(w)
        PROVE  approval'[p] = approval[p] /\ approver'[p] = approver[p]
    <3>1. ASSUME NEW q \in Pauses, AgentPauses(w, q)
          PROVE  approval'[p] = approval[p] /\ approver'[p] = approver[p]
      <4>1. Current(w) \in Tasks
        BY <1>1, <3>1, CurrentTask DEF AgentPauses, Rows
      <4> QED
        BY <2>1, <3>1, <4>1 DEF AgentPauses
    <3>2. CASE \/ PrepareApproved(w) \/ Discover(w) \/ Claim(w)
               \/ LoadRecords(w) \/ Validate(w) \/ StartAgent(w)
               \/ \E status \in {"completed", "failed"} : AgentEnds(w, status)
      BY <2>0, <3>2
         DEF PrepareApproved, Discover, Claim, LoadRecords, Validate, StartAgent,
             AgentEnds, pauseVars
    <3> QED
      BY <2>4, <3>1, <3>2 DEF Cycle
  <2>5. CASE \/ \E t \in Tasks : CancelTask(t)
             \/ \E u \in Approvers, q \in Pauses : LoadApproval(u, q)
             \/ \E u \in Approvers : RefuseDecision(u)
             \/ \E w \in Workers : WorkerCrash(w)
             \/ Tick \/ UNCHANGED vars
    BY <2>0, <2>5
       DEF CancelTask, LoadApproval, RefuseDecision, WorkerCrash, Tick, pauseVars, vars
  <2> QED
    BY <1>1, <2>2, <2>3, <2>4, <2>5 DEF Next
<1>2. TypeOK /\ HandsOff /\ DecisionConsistent /\ RowsAgree /\ [Next]_vars
         => [\A p \in Pauses :
                approval[p] \in {"approved", "rejected"} =>
                   approval'[p] = approval[p] /\ approver'[p] = approver[p]]_vars
  BY <1>1 DEF Rows
<1> QED
  BY <1>2, Typing, RowsConsistent, PTL DEF Spec, DecisionFinal

(***************************************************************************)
(* Resuming a step.                                                        *)
(***************************************************************************)

\* Only prepare_approved_pauses_for_reobservation makes a step resuming.
LEMMA OnlyPrepareResumes ==
    ASSUME TypeOK, HandsOff, [Next]_vars, NEW t \in Tasks,
           step[t] # "resuming", step'[t] = "resuming"
    PROVE  \E w \in Workers : PrepareApproved(w)
<1> USE DEF nativeVars, pauseVars, routeVars, workerVars
<1>1. ASSUME NEW s \in Tasks, NEW p \in Pauses
      PROVE  ~CreatePause(s, p)
  BY DEF CreatePause, TypeOK
<1>2. ~ \E s \in Tasks, p \in Pauses : FirstPause(s, p)
  BY <1>1 DEF FirstPause
<1>3. ~(\/ UNCHANGED vars
        \/ \E s \in Tasks : CancelTask(s)
        \/ \E u \in Approvers, p \in Pauses : LoadApproval(u, p)
        \/ \E u \in Approvers, approved \in BOOLEAN : Decide(u, approved)
        \/ \E u \in Approvers : RefuseDecision(u)
        \/ \E w \in Workers : WorkerCrash(w)
        \/ Tick)
  BY DEF vars, CancelTask, LoadApproval, Decide, RefuseDecision, WorkerCrash, Tick
<1>4. ASSUME NEW w \in Workers, Cycle(w)
      PROVE  PrepareApproved(w)
  <2>1. ~(Discover(w) \/ Claim(w) \/ Validate(w))
    BY DEF Discover, Claim, Validate
  <2>2. ~LoadRecords(w)
    BY DEF LoadRecords, TypeOK
  <2>3. ~StartAgent(w)
    BY DEF StartAgent, TypeOK
  <2>4. ~ \E p \in Pauses : AgentPauses(w, p)
    BY <1>1, CurrentTask DEF AgentPauses
  <2>5. ~ \E status \in {"completed", "failed"} : AgentEnds(w, status)
    BY DEF AgentEnds, TypeOK
  <2> QED
    BY <1>4, <2>1, <2>2, <2>3, <2>4, <2>5 DEF Cycle
<1> QED
  BY <1>2, <1>3, <1>4 DEF Next

\* A waiting step resumes only by spending, in the same transaction, an
\* approval granted by someone other than the requester.
THEOREM ResumptionSpends == Spec => ResumeSpendsApproval
<1> DEFINE Spends(t) ==
        /\ step[t] = "pending_approval" /\ task[t] = "pending_approval"
        /\ \E p \in Pauses :
              /\ owner[p] = t
              /\ action[p] = "approved" /\ action'[p] = "invalidated"
              /\ approver[p] \in Approvers \ {Requester[t]}
<1>1. ASSUME Rows, HandsOff, [Next]_vars, NEW t \in Tasks,
             step[t] # "resuming", step'[t] = "resuming"
      PROVE  Spends(t)
  <2>1. PICK w \in Workers : PrepareApproved(w)
    BY <1>1, OnlyPrepareResumes DEF Rows
  <2>2. PICK p \in Pauses : /\ action[p] = "approved" /\ action'[p] = "invalidated"
                            /\ Resumable(p) /\ owner[p] = t
    BY <1>1, <2>1 DEF PrepareApproved, Batch, Invalidated
  <2>3. approver[p] \in Approvers \ {Requester[t]}
    BY <1>1, <2>2 DEF Rows, DecisionConsistent, RowsAgree
  <2> QED
    BY <2>2, <2>3 DEF Resumable
<1>2. TypeOK /\ HandsOff /\ DecisionConsistent /\ RowsAgree /\ [Next]_vars
         => [\A t \in Tasks :
                step[t] # "resuming" /\ step'[t] = "resuming" => Spends(t)]_vars
  BY <1>1 DEF Rows
<1> QED
  BY <1>2, Typing, RowsConsistent, PTL DEF Spec, ResumeSpendsApproval

(***************************************************************************)
(* One active pause of a step, whatever the workers do.                    *)
(***************************************************************************)

\* A new pause is the only active one of a step that now waits.
LEMMA CreatePauseAlone ==
    ASSUME Rows, OneActivePause, NEW t \in Tasks, NEW p \in Pauses, CreatePause(t, p)
    PROVE  OneActivePause'
<1>1. /\ owner'[p] = t /\ step'[t] = "pending_approval"
      /\ \A s \in Tasks \ {t} : step'[s] = step[s]
  BY DEF CreatePause, Rows, TypeOK
<1>2. \A q \in Pauses \ {p} : owner'[q] = owner[q] /\ action'[q] = action[q]
  BY DEF CreatePause, Rows, TypeOK
<1>3. \A q \in Pauses \ {p} : action[q] \in Active => owner[q] \in Tasks \ {t}
  BY DEF CreatePause, HasActivePause, Rows, RowsAgree, TypeOK, Active
<1> QED
  BY <1>1, <1>2, <1>3 DEF OneActivePause

\* A step of the system that makes no pause active, and no step resuming that
\* has an active pause left.
LEMMA PausesLeftAlone ==
    ASSUME OneActivePause, UNCHANGED owner,
           \A p \in Pauses : action'[p] \in Active =>
              action[p] \in Active
              /\ (step[owner[p]] # "resuming" => step'[owner[p]] # "resuming")
    PROVE  OneActivePause'
  BY DEF OneActivePause

\* Spending an approval takes the only active pause off the resumed step.
LEMMA PrepareAlone ==
    ASSUME Rows, OneActivePause, NEW w \in Workers, PrepareApproved(w)
    PROVE  OneActivePause'
<1> DEFINE taken == {p \in Batch({q \in Pauses : action[q] = "approved"}) : Resumable(p)}
           resumed == {owner[p] : p \in taken}
<1>1. /\ action' = [p \in Pauses |->
                       IF p \in taken THEN Invalidated(action[p]) ELSE action[p]]
      /\ step' = [t \in Tasks |-> IF t \in resumed THEN "resuming" ELSE step[t]]
      /\ owner' = owner
  BY DEF PrepareApproved
<1>2. \A p \in taken : p \in Pauses /\ action[p] \in Active
  BY DEF Batch, Active
<1> HIDE DEF taken
<1>3. ASSUME NEW p \in Pauses, action'[p] \in Active
      PROVE  action[p] \in Active /\ step'[owner[p]] = step[owner[p]]
  <2>1. p \notin taken /\ action[p] \in Active
    BY <1>1, <1>3 DEF Invalidated, Active
  <2>2. owner[p] \in Tasks
    BY <2>1 DEF Rows, RowsAgree, TypeOK, Active
  <2>3. owner[p] \notin resumed
    BY <1>2, <2>1 DEF OneActivePause
  <2> QED
    BY <1>1, <2>1, <2>2, <2>3
<1> QED
  BY <1>1, <1>3, PausesLeftAlone

\* Every step of the system keeps the active pauses apart.
LEMMA AloneStep ==
    ASSUME Rows, HandsOff, OneActivePause, [Next]_vars
    PROVE  OneActivePause'
<1> USE DEF nativeVars, pauseVars
<1>0. \A p \in Pauses : action[p] \in Active => owner[p] \in Tasks
  BY DEF Rows, RowsAgree, TypeOK, Active
<1>1. ASSUME UNCHANGED <<step, owner, action>>
      PROVE  OneActivePause'
  BY <1>1 DEF OneActivePause
<1>2. ASSUME UNCHANGED <<owner, action>>, NEW t \in Tasks, NEW status,
             status # "resuming", step' = [step EXCEPT ![t] = status]
      PROVE  OneActivePause'
  BY <1>0, <1>2, PausesLeftAlone DEF Rows, TypeOK
<1>3. ASSUME NEW t \in Tasks, NEW p \in Pauses, FirstPause(t, p)
      PROVE  OneActivePause'
  BY <1>3, CreatePauseAlone DEF FirstPause
<1>4. ASSUME NEW u \in Approvers, NEW approved \in BOOLEAN, Decide(u, approved)
      PROVE  OneActivePause'
  <2>1. \A p \in Pauses : action'[p] \in Active => action[p] \in Active
    BY <1>4 DEF Decide, Undecided, RecordOutcome, Rows, TypeOK, Active
  <2> QED
    BY <1>4, <2>1, PausesLeftAlone DEF Decide
<1>5. ASSUME NEW w \in Workers, Cycle(w)
      PROVE  OneActivePause'
  <2>1. wpc[w] \notin {"scan", "discover"} => Current(w) \in Tasks
    BY CurrentTask DEF Rows
  <2>2. CASE PrepareApproved(w)
    BY <2>2, PrepareAlone
  <2>3. CASE Discover(w) \/ Claim(w) \/ Validate(w)
    BY <1>1, <2>3 DEF Discover, Claim, Validate
  <2>4. CASE LoadRecords(w)
    <3>1. /\ Current(w) \in Tasks /\ UNCHANGED <<owner, action>>
          /\ step' = step \/ step' = [step EXCEPT ![Current(w)] = "canceled"]
      BY <2>1, <2>4 DEF LoadRecords
    <3> QED
      BY <1>1, <1>2, <3>1
  <2>5. CASE StartAgent(w)
    <3>1. /\ Current(w) \in Tasks /\ UNCHANGED <<owner, action>>
          /\ step' = [step EXCEPT ![Current(w)] = "running"]
      BY <2>1, <2>5 DEF StartAgent
    <3> QED
      BY <1>2, <3>1
  <2>6. ASSUME NEW p \in Pauses, AgentPauses(w, p)
        PROVE  OneActivePause'
    BY <2>1, <2>6, CreatePauseAlone DEF AgentPauses
  <2>7. ASSUME NEW status \in {"completed", "failed"}, AgentEnds(w, status)
        PROVE  OneActivePause'
    <3>1. /\ Current(w) \in Tasks /\ UNCHANGED <<owner, action>>
          /\ step' = [step EXCEPT ![Current(w)] = status]
      BY <2>1, <2>7 DEF AgentEnds
    <3> QED
      BY <1>2, <3>1
  <2> QED
    BY <1>5, <2>2, <2>3, <2>4, <2>5, <2>6, <2>7 DEF Cycle
<1>6. CASE \/ UNCHANGED vars
           \/ \E t \in Tasks : CancelTask(t)
           \/ \E u \in Approvers, p \in Pauses : LoadApproval(u, p)
           \/ \E u \in Approvers : RefuseDecision(u)
           \/ \E w \in Workers : WorkerCrash(w)
           \/ Tick
  BY <1>1, <1>6
     DEF vars, CancelTask, LoadApproval, RefuseDecision, WorkerCrash, Tick
<1> QED
  BY <1>3, <1>4, <1>5, <1>6 DEF Next

\* A step has one approval at most that can still resume something, and none
\* once it resumes, also when several workers claim the same resuming step.
THEOREM OnePauseAtMost == Spec => []OneActivePause
<1>1. Init => OneActivePause
  BY DEF Init, OneActivePause, Active
<1>2. TypeOK /\ HandsOff /\ DecisionConsistent /\ RowsAgree /\ OneActivePause
         /\ [Next]_vars => OneActivePause'
  BY AloneStep DEF Rows
<1> QED
  BY <1>1, <1>2, Typing, RowsConsistent, PTL DEF Spec

(***************************************************************************)
(* The step a pause waits on, with one recovery worker.                    *)
(*                                                                         *)
(* claim_resuming_task_for_execution leaves the step resuming until the    *)
(* Agent starts, so that two workers may both claim it: what follows is    *)
(* about a deployment with one approval_recovery_scheduler.                *)
(***************************************************************************)

OneWorker == \A v, w \in Workers : v = w

StepsKept == ActivePauseWaits /\ WorkerOwnsStep

\* Creating a pause on a running step that no worker will act on.
LEMMA CreatePauseSteps ==
    ASSUME Rows, StepsKept, NEW t \in Tasks, NEW p \in Pauses, CreatePause(t, p)
    PROVE  /\ ActivePauseWaits'
           /\ \A s \in Tasks \ {t} : step'[s] = step[s]
<1>1. \A s \in Tasks \ {t} : step'[s] = step[s]
  BY DEF CreatePause, Rows, TypeOK
<1>2. step'[t] = "pending_approval" /\ owner'[p] = t /\ owner[p] = 0
  BY DEF CreatePause, NextPause, Rows, TypeOK
<1>3. \A q \in Pauses \ {p} : owner'[q] = owner[q] /\ action'[q] = action[q]
  BY DEF CreatePause, Rows, TypeOK
<1>4. \A q \in Pauses \ {p} : action[q] \in Active => owner[q] \in Tasks \ {t}
  BY DEF CreatePause, HasActivePause, Rows, RowsAgree, TypeOK, Active
<1> QED
  BY <1>1, <1>2, <1>3, <1>4 DEF StepsKept, ActivePauseWaits

\* A step that no pause waits on may change its status.
LEMMA OtherStep ==
    ASSUME Rows, ActivePauseWaits, NEW t \in Tasks,
           step[t] # "pending_approval",
           \A s \in Tasks \ {t} : step'[s] = step[s],
           UNCHANGED <<owner, action>>
    PROVE  ActivePauseWaits'
<1>1. \A p \in Pauses : action[p] \in Active => owner[p] \in Tasks \ {t}
  BY DEF ActivePauseWaits, Rows, RowsAgree, TypeOK, Active
<1> QED
  BY <1>1 DEF ActivePauseWaits

\* Spending an approval changes no step that another pause waits on.
LEMMA PrepareSteps ==
    ASSUME Rows, OneActivePause, StepsKept, NEW w \in Workers, PrepareApproved(w)
    PROVE  /\ ActivePauseWaits'
           /\ \A t \in Tasks : step[t] # "pending_approval" => step'[t] = step[t]
<1> DEFINE taken == {p \in Batch({q \in Pauses : action[q] = "approved"}) : Resumable(p)}
           resumed == {owner[p] : p \in taken}
<1>1. /\ action' = [p \in Pauses |->
                       IF p \in taken THEN Invalidated(action[p]) ELSE action[p]]
      /\ step' = [t \in Tasks |-> IF t \in resumed THEN "resuming" ELSE step[t]]
      /\ owner' = owner
  BY DEF PrepareApproved
<1>2. \A p \in taken : /\ p \in Pauses /\ action[p] \in Active
                       /\ step[owner[p]] = "pending_approval"
  BY DEF Batch, Resumable, Active
<1> HIDE DEF taken
<1>3. ASSUME NEW p \in Pauses, action'[p] \in Active
      PROVE  /\ action[p] \in Active /\ owner[p] \in Tasks
             /\ step'[owner[p]] = step[owner[p]]
  <2>1. p \notin taken /\ action[p] \in Active
    BY <1>1, <1>3 DEF Invalidated, Active
  <2>2. owner[p] \in Tasks
    BY <2>1 DEF Rows, RowsAgree, TypeOK, Active
  <2>3. owner[p] \notin resumed
    BY <1>2, <2>1 DEF OneActivePause
  <2> QED
    BY <1>1, <2>1, <2>2, <2>3
<1>4. ActivePauseWaits'
  BY <1>1, <1>3 DEF StepsKept, ActivePauseWaits
<1> QED
  BY <1>1, <1>2, <1>4

\* The steps of the only worker's cycle.
LEMMA CycleSteps ==
    ASSUME OneWorker, Rows, HandsOff, OneActivePause, StepsKept,
           NEW w \in Workers, Cycle(w)
    PROVE  StepsKept'
<1> USE DEF nativeVars, pauseVars, routeVars, workerVars
<1> DEFINE t == Current(w)
<1>0. \A v \in Workers : v = w
  BY DEF OneWorker
<1>1. wpc[w] \notin {"scan", "discover"} => t \in Tasks
  BY CurrentTask DEF Rows
<1>2. \A s \in first : s \in Tasks /\ step[s] = "running"
  BY DEF Rows, TypeOK, StepsKept, WorkerOwnsStep
<1>3. /\ wpc[w] \in {"claimed", "loaded", "validated"} => step[t] = "resuming"
      /\ wpc[w] = "agent" => step[t] = "running" /\ t \notin first
  BY DEF StepsKept, WorkerOwnsStep
<1>4. NextTask(w) => wpc'[w] \in {"scan", "handoff"}
  BY DEF NextTask, Rows, TypeOK
<1>5. \A next : GoesOn(w, next) => wpc'[w] = next /\ todo' = todo
  BY DEF GoesOn, Rows, TypeOK
<1>6. todo' = todo => Current(w)' = t
  BY DEF Current
<1> HIDE DEF t
<1>7. CASE PrepareApproved(w)
  <2>1. wpc'[w] = "discover" /\ first' = first
    BY <1>7 DEF PrepareApproved, Rows, TypeOK
  <2> QED
    BY <1>0, <1>2, <1>7, <2>1, PrepareSteps DEF StepsKept, WorkerOwnsStep
<1>8. CASE Discover(w)
  <2>1. wpc'[w] \in {"scan", "handoff"} /\ UNCHANGED <<first, step, owner, action>>
    BY <1>8 DEF Discover, Rows, TypeOK
  <2> QED
    BY <1>0, <1>2, <2>1 DEF StepsKept, WorkerOwnsStep, ActivePauseWaits
<1>9. CASE Claim(w)
  <2>1. UNCHANGED <<first, step, owner, action>>
    BY <1>9 DEF Claim
  <2>2. \/ wpc'[w] \in {"scan", "handoff"}
        \/ wpc'[w] = "claimed" /\ step[t] = "resuming" /\ Current(w)' = t
    BY <1>4, <1>5, <1>6, <1>9 DEF Claim, Claimable, t
  <2> QED
    BY <1>0, <1>2, <2>1, <2>2 DEF StepsKept, WorkerOwnsStep, ActivePauseWaits
<1>10. CASE LoadRecords(w)
  <2>1. UNCHANGED <<first, owner, action>> /\ step[t] = "resuming" /\ t \in Tasks
    BY <1>1, <1>3, <1>10 DEF LoadRecords
  <2>2. \/ /\ wpc'[w] \in {"scan", "handoff"}
           /\ \A s \in Tasks \ {t} : step'[s] = step[s]
        \/ wpc'[w] = "loaded" /\ step' = step /\ Current(w)' = t
    BY <1>4, <1>5, <1>6, <1>10 DEF LoadRecords, Rows, TypeOK, t
  <2>3. \A s \in Tasks \ {t} : step'[s] = step[s]
    BY <2>2
  <2>4. ActivePauseWaits'
    BY <2>1, <2>3, OtherStep DEF StepsKept
  <2> QED
    BY <1>0, <1>2, <2>1, <2>2, <2>3, <2>4 DEF StepsKept, WorkerOwnsStep
<1>11. CASE Validate(w)
  <2>1. UNCHANGED <<first, step, owner, action>> /\ step[t] = "resuming"
    BY <1>3, <1>11 DEF Validate
  <2>2. \/ wpc'[w] \in {"scan", "handoff"}
        \/ wpc'[w] = "validated" /\ Current(w)' = t
    BY <1>4, <1>5, <1>6, <1>11 DEF Validate
  <2> QED
    BY <1>0, <1>2, <2>1, <2>2 DEF StepsKept, WorkerOwnsStep, ActivePauseWaits
<1>12. CASE StartAgent(w)
  <2>1. UNCHANGED <<first, owner, action>> /\ step[t] = "resuming" /\ t \in Tasks
    BY <1>1, <1>3, <1>12 DEF StartAgent
  <2>2. wpc'[w] = "agent" /\ Current(w)' = t
    BY <1>5, <1>6, <1>12 DEF StartAgent
  <2>3. step'[t] = "running" /\ \A s \in Tasks \ {t} : step'[s] = step[s]
    BY <1>12, <2>1 DEF StartAgent, Rows, TypeOK, t
  <2>4. ActivePauseWaits'
    BY <2>1, <2>3, OtherStep DEF StepsKept
  <2> QED
    BY <1>0, <1>2, <2>1, <2>2, <2>3, <2>4 DEF StepsKept, WorkerOwnsStep
<1>13. ASSUME NEW p \in Pauses, AgentPauses(w, p)
       PROVE  StepsKept'
  <2>1. /\ CreatePause(t, p) /\ t \in Tasks /\ t \notin first /\ first' = first
        /\ wpc'[w] \in {"scan", "handoff"}
    BY <1>1, <1>3, <1>4, <1>13 DEF AgentPauses, t
  <2> QED
    BY <1>0, <1>2, <2>1, CreatePauseSteps DEF StepsKept, WorkerOwnsStep
<1>14. ASSUME NEW status \in {"completed", "failed"}, AgentEnds(w, status)
       PROVE  StepsKept'
  <2>1. /\ UNCHANGED <<first, owner, action>> /\ t \in Tasks /\ t \notin first
        /\ step[t] = "running" /\ wpc'[w] \in {"scan", "handoff"}
    BY <1>1, <1>3, <1>4, <1>14 DEF AgentEnds
  <2>2. \A s \in Tasks \ {t} : step'[s] = step[s]
    BY <1>14 DEF AgentEnds, Rows, TypeOK, t
  <2>3. ActivePauseWaits'
    BY <2>1, <2>2, OtherStep DEF StepsKept
  <2> QED
    BY <1>0, <1>2, <2>1, <2>2, <2>3 DEF StepsKept, WorkerOwnsStep
<1> QED
  BY <1>7, <1>8, <1>9, <1>10, <1>11, <1>12, <1>13, <1>14 DEF Cycle

\* Every step of the system keeps the waiting steps and the worker's step.
LEMMA StepsStep ==
    ASSUME OneWorker, Rows, HandsOff, OneActivePause, StepsKept, [Next]_vars
    PROVE  StepsKept'
<1> USE DEF nativeVars, pauseVars, routeVars, workerVars
<1>1. ASSUME NEW t \in Tasks, NEW p \in Pauses, FirstPause(t, p)
      PROVE  StepsKept'
  <2>1. /\ CreatePause(t, p) /\ t \in first /\ first' = first \ {t}
        /\ UNCHANGED <<wpc, todo>>
    BY <1>1 DEF FirstPause
  <2>2. step[t] = "running"
    BY <2>1 DEF StepsKept, WorkerOwnsStep
  <2>3. \A w \in Workers : wpc[w] \notin {"scan", "discover"} =>
                              Current(w) \in Tasks /\ Current(w)' = Current(w)
    BY <2>1, CurrentTask DEF Rows, Current
  <2>4. \A w \in Workers : wpc[w] \in {"claimed", "loaded", "validated", "agent"}
                              => Current(w) # t
    BY <2>1, <2>2 DEF StepsKept, WorkerOwnsStep
  <2>5. first \subseteq Tasks
    BY DEF Rows, TypeOK
  <2> QED
    BY <2>1, <2>3, <2>4, <2>5, CreatePauseSteps DEF StepsKept, WorkerOwnsStep
<1>2. ASSUME NEW u \in Approvers, NEW approved \in BOOLEAN, Decide(u, approved)
      PROVE  StepsKept'
  <2>1. UNCHANGED <<step, first, owner, wpc, todo>>
    BY <1>2 DEF Decide
  <2>2. \A p \in Pauses : action'[p] \in Active => action[p] \in Active
    BY <1>2 DEF Decide, Undecided, RecordOutcome, Rows, TypeOK, Active
  <2> QED
    BY <2>1, <2>2 DEF StepsKept, ActivePauseWaits, WorkerOwnsStep, Current
<1>3. ASSUME UNCHANGED <<step, first, owner, action, wpc, todo>>
      PROVE  StepsKept'
  BY <1>3 DEF StepsKept, ActivePauseWaits, WorkerOwnsStep, Current
<1>4. CASE \/ UNCHANGED vars
           \/ \E t \in Tasks : CancelTask(t)
           \/ \E u \in Approvers, p \in Pauses : LoadApproval(u, p)
           \/ \E u \in Approvers : RefuseDecision(u)
           \/ Tick
  BY <1>3, <1>4 DEF vars, CancelTask, LoadApproval, RefuseDecision, Tick
<1>5. ASSUME NEW w \in Workers, WorkerCrash(w)
      PROVE  StepsKept'
  <2>1. /\ UNCHANGED <<step, first, owner, action>> /\ wpc'[w] = "scan"
        /\ \A v \in Workers : v = w
    BY <1>5 DEF WorkerCrash, OneWorker, Rows, TypeOK
  <2> QED
    BY <2>1 DEF StepsKept, ActivePauseWaits, WorkerOwnsStep
<1> QED
  BY <1>1, <1>2, <1>4, <1>5, CycleSteps DEF Next

\* With one recovery worker the rows of a pause, its step and the worker's
\* Agent agree: an approval that can still resume something belongs to a
\* waiting step, one at most, and no Agent acts on a waiting step.
THEOREM OneWorkerAgrees ==
    ASSUME OneWorker
    PROVE  Spec => []PausesAgree
<1>1. Init => StepsKept
  BY DEF Init, StepsKept, ActivePauseWaits, WorkerOwnsStep, Active
<1>2. TypeOK /\ HandsOff /\ DecisionConsistent /\ RowsAgree /\ OneActivePause /\ StepsKept
         /\ [Next]_vars => StepsKept'
  BY StepsStep DEF Rows
<1>3. DecisionConsistent /\ OneActivePause /\ StepsKept => PausesAgree
  BY DEF PausesAgree, StepsKept, WorkerOwnsStep, NoAgentDuringPause
<1> QED
  BY <1>1, <1>2, <1>3, Typing, RowsConsistent, OnePauseAtMost, PTL DEF Spec

=============================================================================
