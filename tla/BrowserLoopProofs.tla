-------------------------- MODULE BrowserLoopProofs --------------------------
(***************************************************************************)
(* Proofs about the loop of browser_loop/loop.py, for every iteration and  *)
(* retry budget and for sinks that fail and sinks that do not.  IInv is    *)
(* inductive; the safety properties follow from it.                        *)
(***************************************************************************)
EXTENDS BrowserLoop, TLAPS

\* A counter below its budget stays within it when it is counted up.
LEMMA CountsUp ==
    ASSUME NEW max \in Nat, NEW n \in 0 .. max, n < max
    PROVE  n + 1 \in 0 .. max
OBVIOUS

\* _terminal (loop.py:470-504): a report that says UNKNOWN where the write is
\* uncertain, or is made when none is, keeps the invariant.
LEMMA ReportKeeps ==
    ASSUME NEW status \in {"SUCCEEDED", "FAILED", "UNKNOWN", "AWAITING_APPROVAL"},
           NEW carries \in BOOLEAN,
           ReportWith(status, carries),
           failing \in BOOLEAN, iteration \in 0 .. MaxIterations, retries' \in 0 .. MaxRetries,
           effect' \in BOOLEAN, kind' \in {"read", "write"}, pending' \in BOOLEAN,
           spent' \in BOOLEAN, unsettled' \in BOOLEAN,
           unsettled' => status = "UNKNOWN" /\ kind' = "write",
           pending' => carries /\ unsettled' /\ effect'
    PROVE  IInv'
BY DEF ReportWith, Flagged, IInv, TypeOK, Places, UncertainPlaces, FreshToAct,
       ReturnedIsUnknown, PendingUnsettled, CheckpointReported

\* run (loop.py:76-82): a failure of the sink is reported by the effect flag,
\* which is set for every write that returned.
LEMMA EmitFailureKeeps ==
    ASSUME EmitFails,
           failing \in BOOLEAN, iteration \in 0 .. MaxIterations, retries' \in 0 .. MaxRetries,
           effect' \in BOOLEAN, kind' \in {"read", "write"}, pending' \in BOOLEAN,
           spent' \in BOOLEAN, unsettled' \in BOOLEAN,
           unsettled' => kind' = "write",
           pending' => unsettled' /\ effect'
    PROVE  IInv'
BY DEF EmitFails, Report, ReportWith, Flagged, IInv, TypeOK, Places,
       UncertainPlaces, FreshToAct, ReturnedIsUnknown, PendingUnsettled,
       CheckpointReported

\* for iteration in range(...) (loop.py:91): the next turn starts from a fresh
\* observation with nothing uncertain, or the budget is spent.
LEMMA NextIterationKeeps ==
    ASSUME NextIteration,
           failing \in BOOLEAN, iteration \in 0 .. MaxIterations, retries' \in 0 .. MaxRetries,
           effect' \in BOOLEAN, kind' \in {"read", "write"}, pending' = FALSE,
           spent' = FALSE, unsettled' = FALSE,
           report \in {"none", "SUCCEEDED", "FAILED", "UNKNOWN", "AWAITING_APPROVAL"},
           checkpoint \in BOOLEAN
    PROVE  IInv'
<1>1. CASE iteration < MaxIterations
  <2>1. iteration + 1 \in 0 .. MaxIterations /\ iteration # MaxIterations
    BY <1>1, CountsUp, BudgetAssumption
  <2>2. pc' = "decide" /\ iteration' = iteration + 1 /\ UNCHANGED <<failing, report, checkpoint>>
    BY <2>1, Zenon DEF NextIteration
  <2> QED
    BY <2>1, <2>2, Zenon DEF IInv, TypeOK, Places, UncertainPlaces, FreshToAct,
       ReturnedIsUnknown, PendingUnsettled, CheckpointReported
<1>2. CASE iteration = MaxIterations
  <2>1. ~(iteration < MaxIterations)
    BY <1>2, BudgetAssumption
  <2>2. ReportWith("FAILED", FALSE)
    BY <2>1, Zenon DEF NextIteration, Report
  <2> QED BY <2>2, ReportKeeps, Zenon
<1> QED BY <1>1, <1>2, BudgetAssumption

\* _retry_reobserve (loop.py:427-439) keeps the invariant when nothing is
\* uncertain.
LEMMA RetryKeeps ==
    ASSUME IInv, RetryReobserve,
           effect' \in BOOLEAN, kind' \in {"read", "write"}, pending' = FALSE,
           unsettled' = FALSE
    PROVE  IInv'
<1> USE DEF IInv, TypeOK
<1>1. CASE MayRetry /\ retries' = retries + 1
  <2>1. retries' \in 0 .. MaxRetries
    BY <1>1, CountsUp, BudgetAssumption DEF MayRetry
  <2>2. CASE spent' = FALSE /\ NextIteration
    <3> HIDE DEF IInv
    <3> QED BY <2>1, <2>2, NextIterationKeeps DEF IInv
  <2>3. CASE spent' = spent /\ Report("FAILED")
    BY <2>1, <2>3, ReportKeeps DEF Report
  <2> QED BY <1>1, <2>2, <2>3 DEF RetryReobserve, MayRetry
<1>2. CASE UNCHANGED <<retries, spent>> /\ Report("FAILED")
  BY <1>2, ReportKeeps DEF Report
<1> QED BY <1>1, <1>2 DEF RetryReobserve

\* GoesTo moves the run within a turn and reports nothing.
LEMMA GoesToKeeps ==
    ASSUME IInv, NEW place \in Places \ {"start", "done"}, GoesTo(place), pc # "done",
           retries' \in 0 .. MaxRetries, effect' \in BOOLEAN,
           kind' \in {"read", "write"}, pending' \in BOOLEAN,
           spent' \in BOOLEAN, unsettled' \in BOOLEAN,
           unsettled' => place \in {"returned", "deferred", "observe", "verify"}
                         /\ kind' = "write",
           spent' => place \in {"returned", "deferred", "observe"},
           pending' => place \in {"returned", "deferred"} /\ unsettled' /\ effect'
    PROVE  IInv'
BY DEF GoesTo, IInv, TypeOK, Places, UncertainPlaces, FreshToAct,
       ReturnedIsUnknown, PendingUnsettled, CheckpointReported

LEMMA Initially == Init => IInv
<1>1. 0 \in 0 .. MaxIterations /\ 0 \in 0 .. MaxRetries
  BY BudgetAssumption
<1> QED
  BY <1>1, Zenon DEF Init, IInv, TypeOK, Places, UncertainPlaces, FreshToAct,
                     ReturnedIsUnknown, PendingUnsettled, CheckpointReported

\* Each step of a turn preserves the invariant.
LEMMA Inductive == IInv /\ [Next]_vars => IInv'
<1> SUFFICES ASSUME IInv, [Next]_vars PROVE IInv'
  OBVIOUS
<1>t. TypeOK /\ UncertainPlaces /\ FreshToAct /\ PendingUnsettled
  BY DEF IInv
<1>u. pc \in {"start", "decide", "claim", "policy", "execute"}
      => unsettled = FALSE /\ spent = FALSE
  BY <1>t DEF UncertainPlaces, FreshToAct, TypeOK
<1>p. /\ pc \notin {"returned", "deferred", "done"} => pending = FALSE
      /\ pending => unsettled /\ effect
  BY <1>t DEF PendingUnsettled, TypeOK
<1>1. CASE FirstObservation
  <2>1. unsettled' = FALSE /\ spent' = FALSE
    BY <1>1, <1>u DEF FirstObservation, actionVars
  <2>2. TypeOK /\ retries' = retries /\ effect' = effect /\ kind' = kind /\ pending' = FALSE
    BY <1>1, <1>t, <1>p DEF FirstObservation, actionVars
  <2>3. CASE NextIteration
    BY <2>1, <2>2, <2>3, NextIterationKeeps DEF TypeOK
  <2>4. CASE ReportWith("FAILED", FALSE)
    BY <2>1, <2>2, <2>4, ReportKeeps DEF TypeOK
  <2> QED BY <1>1, <2>3, <2>4 DEF FirstObservation, Report
<1>2. CASE Decide
  <2>1. /\ pc = "decide" /\ TypeOK
        /\ UNCHANGED <<retries, effect, kind>> /\ pending' = FALSE
        /\ unsettled' = FALSE /\ spent' = FALSE
    BY <1>2, <1>t, <1>u, <1>p DEF Decide, actionVars
  <2>2. CASE ReportWith("FAILED", FALSE)
    BY <2>1, <2>2, ReportKeeps DEF TypeOK
  <2>3. CASE EmitFails
    BY <2>1, <2>3, EmitFailureKeeps DEF TypeOK
  <2>4. CASE GoesTo("claim") \/ GoesTo("policy")
    BY <2>1, <2>4, GoesToKeeps DEF TypeOK, Places
  <2> QED BY <1>2, <2>2, <2>3, <2>4 DEF Decide, Report
<1>3. CASE VerifyClaim
  <2>1. /\ pc = "claim" /\ TypeOK
        /\ UNCHANGED <<effect, kind>> /\ pending' = FALSE
        /\ unsettled' = FALSE
    BY <1>3, <1>t, <1>u, <1>p DEF VerifyClaim
  <2>2. CASE UNCHANGED <<retries, spent>> /\ EmitFails
    BY <2>1, <2>2, EmitFailureKeeps DEF TypeOK
  <2>3. ASSUME NEW status \in {"SUCCEEDED", "FAILED", "UNKNOWN"},
               UNCHANGED <<retries, spent>>, ReportWith(status, FALSE)
        PROVE  IInv'
    BY <2>1, <2>3, ReportKeeps DEF TypeOK
  <2>4. CASE RetryReobserve
    BY <2>1, <2>4, RetryKeeps DEF TypeOK
  <2>5. CASE spent' = FALSE /\ UNCHANGED retries /\ NextIteration
    BY <2>1, <2>5, NextIterationKeeps DEF TypeOK
  <2> QED BY <1>3, <2>2, <2>3, <2>4, <2>5 DEF VerifyClaim, Report
<1>4. CASE Authorize
  <2>1. /\ pc = "policy" /\ TypeOK
        /\ UNCHANGED effect /\ pending' = FALSE
        /\ unsettled' = FALSE
    BY <1>4, <1>t, <1>u, <1>p DEF Authorize
  <2>2. ASSUME UNCHANGED <<retries, kind, spent>>,
               NEW status \in {"FAILED", "AWAITING_APPROVAL"}, ReportWith(status, FALSE)
        PROVE  IInv'
    BY <2>1, <2>2, ReportKeeps DEF TypeOK
  <2>3. CASE UNCHANGED <<retries, kind, spent>> /\ EmitFails
    BY <2>1, <2>3, EmitFailureKeeps DEF TypeOK
  <2>4. CASE UNCHANGED kind /\ RetryReobserve
    BY <2>1, <2>4, RetryKeeps DEF TypeOK
  <2>5. CASE UNCHANGED <<retries, spent>> /\ kind' \in {"read", "write"} /\ GoesTo("execute")
    <3>1. spent' = FALSE
      BY <2>1, <2>5, <1>u
    <3> QED BY <2>1, <2>5, <3>1, GoesToKeeps DEF TypeOK, Places
  <2> QED BY <1>4, <2>2, <2>3, <2>4, <2>5 DEF Authorize, Report
<1>5. CASE ExecuteRaises
  <2>1. /\ pc = "execute" /\ TypeOK
        /\ UNCHANGED <<effect, kind>> /\ pending' = FALSE
    BY <1>5, <1>t, <1>p DEF ExecuteRaises
  <2>2. PICK started \in BOOLEAN :
           /\ unsettled' = (started /\ kind = "write")
           /\ \/ RetrySafe(started) /\ RetryReobserve
              \/ /\ ~RetrySafe(started)
                 /\ UNCHANGED <<retries, spent>>
                 /\ Report("UNKNOWN")
              \/ /\ RetrySafe(TRUE)
                 /\ UNCHANGED <<retries, spent>>
                 /\ Report("FAILED")
    BY <1>5 DEF ExecuteRaises
  <2>3. CASE RetrySafe(started) /\ RetryReobserve
    <3>1. unsettled' = FALSE
      BY <2>2, <2>3 DEF RetrySafe
    <3> QED BY <2>1, <2>3, <3>1, RetryKeeps DEF TypeOK
  <2>4. CASE ~RetrySafe(started) /\ UNCHANGED <<retries, spent>> /\ ReportWith("UNKNOWN", FALSE)
    <3>1. kind' = "write" /\ unsettled' \in BOOLEAN
      BY <2>1, <2>2, <2>4 DEF RetrySafe
    <3> QED BY <2>1, <2>4, <3>1, ReportKeeps DEF TypeOK
  <2>5. CASE RetrySafe(TRUE) /\ UNCHANGED <<retries, spent>> /\ ReportWith("FAILED", FALSE)
    <3>1. unsettled' = FALSE
      BY <2>2, <2>5 DEF RetrySafe
    <3> QED BY <2>1, <2>5, <3>1, ReportKeeps DEF TypeOK
  <2> QED BY <2>2, <2>3, <2>4, <2>5 DEF Report
<1>6. CASE ExecuteReturns
  <2>1. PICK started \in BOOLEAN :
           /\ unsettled' = (started /\ kind = "write")
           /\ effect' = (effect \/ unsettled')
    BY <1>6 DEF ExecuteReturns
  <2>2. /\ pc = "execute" /\ TypeOK /\ UNCHANGED <<retries, kind>> /\ spent' = TRUE
        /\ pending' \in BOOLEAN /\ (pending' => unsettled') /\ GoesTo("returned")
    BY <1>6, <1>t DEF ExecuteReturns
  <2>3. /\ unsettled' \in BOOLEAN /\ effect' \in BOOLEAN
        /\ unsettled' => kind' = "write" /\ effect'
    BY <2>1, <2>2 DEF TypeOK
  <2> QED BY <2>2, <2>3, GoesToKeeps DEF TypeOK, Places
<1>7. CASE EmitResult
  <2>1. /\ pc = "returned" /\ TypeOK
        /\ UNCHANGED <<retries, effect, kind, pending, spent, unsettled>>
        /\ unsettled => kind = "write"
        /\ pending => unsettled /\ effect
    BY <1>7, <1>t, <1>p DEF EmitResult, actionVars, UncertainPlaces
  <2>2. CASE EmitFails
    BY <2>1, <2>2, EmitFailureKeeps DEF TypeOK
  <2>3. CASE pending = TRUE /\ GoesTo("deferred")
    BY <2>1, <2>3, GoesToKeeps DEF TypeOK, Places
  <2>4. CASE pending = FALSE /\ GoesTo("observe")
    BY <2>1, <2>4, GoesToKeeps DEF TypeOK, Places
  <2>5. pending \in BOOLEAN
    BY <2>1 DEF TypeOK
  <2>6. EmitFails \/ GoesTo(IF pending THEN "deferred" ELSE "observe")
    BY <1>7 DEF EmitResult
  <2>7. CASE pending = TRUE
    BY <2>2, <2>3, <2>6, <2>7
  <2>8. CASE pending = FALSE
    BY <2>2, <2>4, <2>6, <2>8
  <2> QED BY <2>5, <2>7, <2>8
<1>8. CASE DeferVerification
  <2>1. /\ TypeOK
        /\ UNCHANGED <<retries, effect, kind, pending, spent, unsettled>>
        /\ unsettled => kind = "write"
        /\ pending => unsettled /\ effect
    BY <1>8, <1>t, <1>p DEF DeferVerification, actionVars, UncertainPlaces
  <2>2. CASE EmitFails
    BY <2>1, <2>2, EmitFailureKeeps DEF TypeOK
  <2>3. CASE ReportWith("UNKNOWN", TRUE)
    BY <2>1, <2>3, ReportKeeps DEF TypeOK
  <2> QED BY <1>8, <2>2, <2>3 DEF DeferVerification, Deferred
<1>9. CASE ObserveAfter
  <2>1. /\ pc = "observe" /\ TypeOK
        /\ UNCHANGED <<retries, effect, kind, unsettled>> /\ pending' = FALSE
        /\ unsettled => kind = "write"
    BY <1>9, <1>t, <1>p DEF ObserveAfter, UncertainPlaces
  <2>2. CASE spent' = FALSE /\ GoesTo("verify")
    BY <2>1, <2>2, GoesToKeeps DEF TypeOK, Places
  <2>3. CASE UNCHANGED spent /\ ReportWith(IF kind = "write" THEN "UNKNOWN" ELSE "FAILED", FALSE)
    <3>1. CASE kind = "write" /\ ReportWith("UNKNOWN", FALSE)
      BY <2>1, <2>3, <3>1, ReportKeeps DEF TypeOK
    <3>2. CASE kind # "write" /\ ReportWith("FAILED", FALSE)
      BY <2>1, <2>3, <3>2, ReportKeeps DEF TypeOK
    <3> QED BY <2>3, <3>1, <3>2
  <2> QED BY <1>9, <2>2, <2>3 DEF ObserveAfter, Report
<1>10. CASE VerifyAction
  <2>1. /\ pc = "verify" /\ TypeOK
        /\ UNCHANGED <<effect, kind>> /\ pending' = FALSE /\ spent' = FALSE
        /\ unsettled => kind = "write"
    BY <1>10, <1>t, <1>p DEF VerifyAction, UncertainPlaces, FreshToAct, TypeOK
  <2>2. CASE UNCHANGED <<retries, unsettled>> /\ EmitFails
    BY <2>1, <2>2, EmitFailureKeeps DEF TypeOK
  <2>3. CASE UNCHANGED <<retries, unsettled>> /\ ReportWith("UNKNOWN", FALSE)
    BY <2>1, <2>3, ReportKeeps DEF TypeOK
  <2>4. CASE unsettled' = FALSE /\ UNCHANGED retries /\ NextIteration
    BY <2>1, <2>4, NextIterationKeeps DEF TypeOK
  <2>5. ASSUME NEW status \in {"SUCCEEDED", "FAILED"}, unsettled' = FALSE,
               UNCHANGED retries, ReportWith(status, FALSE)
        PROVE  IInv'
    BY <2>1, <2>5, ReportKeeps DEF TypeOK
  <2>6. CASE RetrySafe(TRUE) /\ UNCHANGED unsettled
             /\ \/ MayRetry /\ retries' = retries + 1 /\ NextIteration
                \/ ~MayRetry /\ UNCHANGED retries /\ ReportWith("FAILED", FALSE)
    <3>1. unsettled' = FALSE
      BY <2>1, <2>6 DEF RetrySafe, TypeOK
    <3>2. CASE MayRetry /\ retries' = retries + 1 /\ NextIteration
      <4>1. retries' \in 0 .. MaxRetries
        BY <2>1, <3>2, CountsUp, BudgetAssumption DEF MayRetry, TypeOK
      <4> QED BY <2>1, <3>1, <3>2, <4>1, NextIterationKeeps DEF TypeOK
    <3>3. CASE UNCHANGED retries /\ ReportWith("FAILED", FALSE)
      BY <2>1, <3>1, <3>3, ReportKeeps DEF TypeOK
    <3> QED BY <2>6, <3>2, <3>3
  <2> QED BY <1>10, <2>2, <2>3, <2>4, <2>5, <2>6 DEF VerifyAction, Report
<1>11. CASE UNCHANGED vars
  BY <1>11 DEF vars, IInv, TypeOK, UncertainPlaces, FreshToAct,
               ReturnedIsUnknown, PendingUnsettled, CheckpointReported
<1> QED
  BY <1>1, <1>2, <1>3, <1>4, <1>5, <1>6, <1>7, <1>8, <1>9, <1>10, <1>11 DEF Next

THEOREM LoopInvariance == Spec => []IInv
BY Initially, Inductive, PTL DEF Spec

\* The budgets of BrowserLoopConfig bound every run.
THEOREM LoopTypeCorrect == Spec => []TypeOK
<1>1. IInv => TypeOK
  BY DEF IInv
<1> QED BY <1>1, LoopInvariance, PTL

\* No path through the retries, claims and failures of loop.py:84-286 executes
\* while a write is uncertain or on an observation already acted on.
THEOREM LoopNeverReplays == Spec => []NeverReplays
<1>1. IInv => NeverReplays
  BY DEF IInv, NeverReplays, UncertainPlaces, FreshToAct
<1> QED BY <1>1, LoopInvariance, PTL

\* The rule of agentpact-browser-loop.md:87 holds of every uncertain write while
\* the sink does not raise, and of a write the runtime returned from always.
THEOREM LoopReturnedIsUnknown == Spec => []ReturnedIsUnknown
<1>1. IInv => ReturnedIsUnknown
  BY DEF IInv
<1> QED BY <1>1, LoopInvariance, PTL

\* No attempt is left to be probed without its checkpoint in the report, except
\* by a failure of the sink.
THEOREM LoopCheckpointReported == Spec => []CheckpointReported
<1>1. IInv => CheckpointReported
  BY DEF IInv
<1> QED BY <1>1, LoopInvariance, PTL

=============================================================================
