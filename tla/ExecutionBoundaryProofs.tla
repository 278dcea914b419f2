----------------------- MODULE ExecutionBoundaryProofs -----------------------
(***************************************************************************)
(* Proofs about ExecutionBoundary, for every set of calls, permits, keys   *)
(* and probe requests and every value of the two clocks' limits.           *)
(* IInv is inductive: one lemma per conjunct, one step per operation that  *)
(* can disturb it.  The safety properties follow from it.                  *)
(***************************************************************************)
EXTENDS ExecutionBoundary, TLAPS

\* The application starts with no permit, no attempt and no probe request.
LEMMA InitInvariant == Init => IInv
  BY BindingAssumption, TtlAssumption, MinimumAgeAssumption, NoCallAssumption
     DEF Init, IInv, TypeOK, KeyHeldOnce, PermitSpentOnce, StageAgreement,
         BusinessAgreement, VerdictAgreement, Stages, Ends, AttemptStatus

\* Every operation writes to a row or a local only values of its column or
\* type.  A probe that is past its read carries a final verdict, never the
\* null reference or "unknown": that is VerdictAgreement's share of IInv.
LEMMA TypeStep ==
    ASSUME IInv, [Next]_vars
    PROVE  TypeOK'
<1>1. ASSUME NEW p \in Permits, IssuePermit(p)
      PROVE  TypeOK'
  BY <1>1
     DEF IInv, TypeOK, IssuePermit, callVars, attemptVars, worldVars,
         probeVars
<1>2. ASSUME NEW c \in Calls, Preflight(c)
      PROVE  TypeOK'
  BY <1>2
     DEF IInv, TypeOK, Preflight, Moves, Stages, Ends, permitVars,
         attemptVars, worldVars, probeVars
<1>3. ASSUME NEW c \in Calls, LockPermit(c)
      PROVE  TypeOK'
  BY <1>3
     DEF IInv, TypeOK, LockPermit, Moves, Stages, Ends, attemptVars,
         worldVars, probeVars
<1>4. ASSUME NEW c \in Calls, CommitAuthorized(c)
      PROVE  TypeOK'
  BY <1>4
     DEF IInv, TypeOK, CommitAuthorized, Moves, Consume, Stages, Ends,
         AttemptStatus, worldVars, probeVars
<1>5. ASSUME NEW c \in Calls, CommitExecuting(c)
      PROVE  TypeOK'
  BY <1>5
     DEF IInv, TypeOK, CommitExecuting, Transition, Moves, Stages, Ends,
         AttemptStatus, permitVars, worldVars, probeVars
<1>6. ASSUME NEW c \in Calls, InvokeBrowser(c)
      PROVE  TypeOK'
  BY <1>6
     DEF IInv, TypeOK, InvokeBrowser, Moves, Stages, Ends, permitVars,
         attemptVars, probeVars
<1>7. ASSUME NEW c \in Calls, BrowserReturns(c)
      PROVE  TypeOK'
  BY <1>7
     DEF IInv, TypeOK, BrowserReturns, Moves, Stages, Ends, permitVars,
         attemptVars, worldVars, probeVars
<1>8. ASSUME NEW c \in Calls, CommitUnknown(c)
      PROVE  TypeOK'
  BY <1>8
     DEF IInv, TypeOK, CommitUnknown, Transition, Moves, Stages, Ends,
         AttemptStatus, permitVars, worldVars, probeVars
<1>9. ASSUME NEW c \in Calls, Crash(c)
      PROVE  TypeOK'
  BY <1>9 DEF IInv, TypeOK, Crash, Ends, attemptVars, worldVars, probeVars
<1>10. ASSUME NEW S \in SUBSET Calls, RecoverAbandoned(S)
      PROVE  TypeOK'
  BY <1>10
     DEF IInv, TypeOK, RecoverAbandoned, AttemptStatus, callVars, permitVars,
         worldVars, probeVars
<1>11. ASSUME NEW c \in Calls, SubmissionLands(c)
      PROVE  TypeOK'
  BY <1>11
     DEF IInv, TypeOK, SubmissionLands, Commands, callVars, permitVars,
         attemptVars, probeVars
<1>12. ASSUME NEW c \in Calls, SubmissionLost(c)
      PROVE  TypeOK'
  BY <1>12
     DEF IInv, TypeOK, SubmissionLost, callVars, permitVars, attemptVars,
         probeVars
<1>13. ASSUME NEW k \in Keys, CancelResource(k)
      PROVE  TypeOK'
  BY <1>13
     DEF IInv, TypeOK, CancelResource, callVars, permitVars, attemptVars,
         probeVars
<1>14. ASSUME NEW r \in Probers, NEW c \in Calls,
              ProbeRead(r, c) \/ ProbeReadAbsent(r, c)
      PROVE  TypeOK'
  <2>1. CASE ProbeRead(r, c)
    BY <2>1
       DEF IInv, TypeOK, ProbeRead, Reads, Classify, callVars, permitVars,
           attemptVars
  <2>2. CASE ProbeReadAbsent(r, c)
    BY <2>2
       DEF IInv, TypeOK, ProbeReadAbsent, Reads, Commands, callVars,
           permitVars, attemptVars
  <2> QED
    BY <1>14, <2>1, <2>2
<1>15. ASSUME NEW r \in Probers, ProbeLoad(r)
      PROVE  TypeOK'
  BY <1>15
     DEF IInv, TypeOK, ProbeLoad, Leave, callVars, permitVars, attemptVars, worldVars
<1>16. ASSUME NEW r \in Probers, ProbeResolve(r)
      PROVE  TypeOK'
  BY <1>16
     DEF IInv, TypeOK, VerdictAgreement, ProbeResolve, Leave, AttemptStatus,
         callVars, permitVars, worldVars
<1>17. ASSUME NEW r \in Probers, ProbeAborts(r)
      PROVE  TypeOK'
  BY <1>17
     DEF IInv, TypeOK, ProbeAborts, Leave, callVars, permitVars, attemptVars,
         worldVars
<1>18. ASSUME Tick
      PROVE  TypeOK'
  BY <1>18, TtlAssumption, MinimumAgeAssumption
     DEF IInv, TypeOK, Tick, Older, callVars, worldVars, probeVars
<1>19. ASSUME UNCHANGED vars
      PROVE  TypeOK'
  BY <1>19 DEF IInv, TypeOK, vars
<1> QED
  BY <1>1, <1>2, <1>3, <1>4, <1>5, <1>6, <1>7, <1>8, <1>9, <1>10, <1>11,
     <1>12, <1>13, <1>14, <1>15, <1>16, <1>17, <1>18, <1>19
     DEF Next, ExecutorStep, ProbeStep

\* No transaction inserts a second attempt for a key: the insert checks the
\* unique constraint, every other write of an attempt finds the row there.
LEMMA KeyStep ==
    ASSUME IInv, [Next]_vars
    PROVE  KeyHeldOnce'
<1>1. CASE UNCHANGED <<cmd, attempt>>
  BY <1>1 DEF IInv, KeyHeldOnce
<1>2. ASSUME NEW c \in Calls, CommitAuthorized(c)
      PROVE  KeyHeldOnce'
  BY <1>2
     DEF IInv, TypeOK, KeyHeldOnce, CommitAuthorized, Moves, Consume,
         KeyTaken, worldVars, probeVars
<1>3. ASSUME NEW c \in Calls, CommitExecuting(c)
      PROVE  KeyHeldOnce'
  BY <1>3
     DEF IInv, TypeOK, KeyHeldOnce, CommitExecuting, Transition, Moves,
         permitVars, worldVars, probeVars
<1>4. ASSUME NEW c \in Calls, CommitUnknown(c)
      PROVE  KeyHeldOnce'
  BY <1>4
     DEF IInv, TypeOK, KeyHeldOnce, CommitUnknown, Transition, Moves,
         permitVars, worldVars, probeVars
<1>5. ASSUME NEW S \in SUBSET Calls, RecoverAbandoned(S)
      PROVE  KeyHeldOnce'
  BY <1>5
     DEF IInv, TypeOK, KeyHeldOnce, RecoverAbandoned, Stale, Recoverable,
         callVars, permitVars, worldVars, probeVars
<1>6. ASSUME NEW r \in Probers, ProbeResolve(r)
      PROVE  KeyHeldOnce'
  BY <1>6
     DEF IInv, TypeOK, KeyHeldOnce, ProbeResolve, VerdictAgreement, callVars,
         permitVars, worldVars
<1> QED
  BY <1>1, <1>2, <1>3, <1>4, <1>5, <1>6
     DEF Next, ExecutorStep, ProbeStep, vars, callVars, permitVars,
         attemptVars, worldVars, probeVars, IssuePermit, Preflight,
         LockPermit, InvokeBrowser, BrowserReturns, Crash, SubmissionLands,
         SubmissionLost, CancelResource, ProbeRead, ProbeReadAbsent,
         Reads, ProbeLoad, ProbeAborts,
         Tick, Moves

\* A permit is consumed in the transaction that inserts its attempt, and by no
\* other: a refused insert leaves both as they were.
LEMMA PermitStep ==
    ASSUME IInv, [Next]_vars
    PROVE  PermitSpentOnce'
<1>1. CASE UNCHANGED <<cmd, attempt, permit>>
  BY <1>1 DEF IInv, PermitSpentOnce
<1>2. ASSUME NEW p \in Permits, IssuePermit(p)
      PROVE  PermitSpentOnce'
  BY <1>2
     DEF IInv, TypeOK, PermitSpentOnce, IssuePermit, callVars, attemptVars,
         worldVars, probeVars
<1>3. ASSUME NEW c \in Calls, CommitAuthorized(c)
      PROVE  PermitSpentOnce'
  <2> DEFINE p == cmd[c].permit
  <2>1. CASE UNCHANGED <<permit, attempt>>
    BY <2>1, <1>3 DEF IInv, PermitSpentOnce, CommitAuthorized, worldVars
  <2>2. CASE ~UNCHANGED <<permit, attempt>>
    <3>1. /\ p \in Permits
          /\ ~PermitSpent(p)
          /\ cmd' = cmd
          /\ permit' = [permit EXCEPT ![p] = "consumed"]
          /\ attempt' = [attempt EXCEPT ![c] = "authorized"]
      BY <2>2, <1>3 DEF IInv, TypeOK, Commands, CommitAuthorized, Consume
    <3>2. attempt'[c] = "authorized" /\ permit'[p] = "consumed"
      BY <3>1 DEF IInv, TypeOK
    <3>3. ASSUME NEW q \in Permits
          PROVE  permit'[q] = "consumed" <=>
                    \E d \in Calls : attempt'[d] # "none" /\ cmd'[d].permit = q
      <4>1. CASE q = p
        BY <3>1, <3>2, <4>1
      <4>2. CASE q # p
        BY <3>1, <4>2 DEF IInv, TypeOK, PermitSpentOnce
      <4> QED
        BY <4>1, <4>2
    <3>4. \A d, e \in Calls :
             attempt'[d] # "none" /\ attempt'[e] # "none"
             /\ cmd'[d].permit = cmd'[e].permit => d = e
      BY <3>1 DEF IInv, TypeOK, PermitSpentOnce, PermitSpent
    <3> QED
      BY <3>3, <3>4 DEF PermitSpentOnce
  <2> QED
    BY <2>1, <2>2
<1>4. ASSUME NEW c \in Calls, CommitExecuting(c)
      PROVE  PermitSpentOnce'
  BY <1>4
     DEF IInv, TypeOK, PermitSpentOnce, CommitExecuting, Transition, Moves,
         permitVars, worldVars, probeVars
<1>5. ASSUME NEW c \in Calls, CommitUnknown(c)
      PROVE  PermitSpentOnce'
  BY <1>5
     DEF IInv, TypeOK, PermitSpentOnce, CommitUnknown, Transition, Moves,
         permitVars, worldVars, probeVars
<1>6. ASSUME NEW S \in SUBSET Calls, RecoverAbandoned(S)
      PROVE  PermitSpentOnce'
  BY <1>6
     DEF IInv, TypeOK, PermitSpentOnce, RecoverAbandoned, Stale, Recoverable,
         callVars, permitVars, worldVars, probeVars
<1>7. ASSUME NEW r \in Probers, ProbeResolve(r)
      PROVE  PermitSpentOnce'
  BY <1>7
     DEF IInv, TypeOK, PermitSpentOnce, ProbeResolve, VerdictAgreement,
         callVars, permitVars, worldVars
<1> QED
  BY <1>1, <1>2, <1>3, <1>4, <1>5, <1>6, <1>7
     DEF Next, ExecutorStep, ProbeStep, vars, callVars, permitVars,
         attemptVars, worldVars, probeVars, Preflight, LockPermit,
         InvokeBrowser, BrowserReturns, Crash, SubmissionLands,
         SubmissionLost, CancelResource, ProbeRead, ProbeReadAbsent,
         Reads, ProbeLoad, ProbeAborts,
         Tick, Moves

\* The commit points of execute() and the rows they leave stay in step, with
\* the scanner taking attempts from under live calls.
LEMMA StageStep ==
    ASSUME IInv, [Next]_vars
    PROVE  StageAgreement'
<1>1. CASE UNCHANGED <<pc, attempt, browser>>
  BY <1>1 DEF IInv, StageAgreement
<1>2. ASSUME NEW c \in Calls, Preflight(c)
      PROVE  StageAgreement'
  BY <1>2
     DEF IInv, TypeOK, StageAgreement, Preflight, Moves, permitVars,
         attemptVars, worldVars, probeVars
<1>3. ASSUME NEW c \in Calls, LockPermit(c)
      PROVE  StageAgreement'
  BY <1>3
     DEF IInv, TypeOK, StageAgreement, LockPermit, Moves, attemptVars,
         worldVars, probeVars
<1>4. ASSUME NEW c \in Calls, CommitAuthorized(c)
      PROVE  StageAgreement'
  BY <1>4
     DEF IInv, TypeOK, StageAgreement, CommitAuthorized, Moves, Consume,
         worldVars, probeVars
<1>5. ASSUME NEW c \in Calls, CommitExecuting(c)
      PROVE  StageAgreement'
  BY <1>5
     DEF IInv, TypeOK, StageAgreement, CommitExecuting, Transition, Moves,
         permitVars, worldVars, probeVars
<1>6. ASSUME NEW c \in Calls, InvokeBrowser(c)
      PROVE  StageAgreement'
  BY <1>6
     DEF IInv, TypeOK, StageAgreement, InvokeBrowser, Moves, permitVars,
         attemptVars, probeVars
<1>7. ASSUME NEW c \in Calls, BrowserReturns(c)
      PROVE  StageAgreement'
  BY <1>7
     DEF IInv, TypeOK, StageAgreement, BrowserReturns, Moves, permitVars,
         attemptVars, worldVars, probeVars
<1>8. ASSUME NEW c \in Calls, CommitUnknown(c)
      PROVE  StageAgreement'
  BY <1>8
     DEF IInv, TypeOK, StageAgreement, CommitUnknown, Transition, Moves,
         permitVars, worldVars, probeVars
<1>9. ASSUME NEW c \in Calls, Crash(c)
      PROVE  StageAgreement'
  BY <1>9
     DEF IInv, TypeOK, StageAgreement, Crash, Stages, attemptVars, worldVars,
         probeVars
<1>10. ASSUME NEW S \in SUBSET Calls, RecoverAbandoned(S)
      PROVE  StageAgreement'
  BY <1>10
     DEF IInv, TypeOK, StageAgreement, RecoverAbandoned, Stale, Recoverable,
         callVars, permitVars, worldVars, probeVars
<1>11. ASSUME NEW c \in Calls, SubmissionLands(c)
      PROVE  StageAgreement'
  BY <1>11
     DEF IInv, TypeOK, StageAgreement, SubmissionLands, callVars, permitVars,
         attemptVars, probeVars
<1>12. ASSUME NEW c \in Calls, SubmissionLost(c)
      PROVE  StageAgreement'
  BY <1>12
     DEF IInv, TypeOK, StageAgreement, SubmissionLost, callVars, permitVars,
         attemptVars, probeVars
<1>13. ASSUME NEW r \in Probers, ProbeResolve(r)
      PROVE  StageAgreement'
  BY <1>13
     DEF IInv, TypeOK, StageAgreement, ProbeResolve, VerdictAgreement,
         callVars, permitVars, worldVars
<1> QED
  BY <1>1, <1>2, <1>3, <1>4, <1>5, <1>6, <1>7, <1>8, <1>9, <1>10, <1>11,
     <1>12, <1>13
     DEF Next, ExecutorStep, ProbeStep, vars, callVars, permitVars,
         attemptVars, worldVars, probeVars, IssuePermit, CancelResource,
         ProbeRead, ProbeReadAbsent,
         Reads, ProbeLoad, ProbeAborts, Tick

\* The business object, the submissions and the verdicts stay in step: a late
\* submission finds its own key closed when the key counts as failed.
LEMMA BusinessStep ==
    ASSUME IInv, [Next]_vars
    PROVE  BusinessAgreement'
<1>1. CASE UNCHANGED <<cmd, pc, attempt, browser, resource>> /\ denied \subseteq denied'
  BY <1>1 DEF IInv, BusinessAgreement
<1>2. ASSUME NEW c \in Calls, Preflight(c)
      PROVE  BusinessAgreement'
  BY <1>2
     DEF IInv, TypeOK, BusinessAgreement, Preflight, Moves, StageAgreement,
         permitVars, attemptVars, worldVars, probeVars
<1>3. ASSUME NEW c \in Calls, LockPermit(c)
      PROVE  BusinessAgreement'
  BY <1>3
     DEF IInv, TypeOK, BusinessAgreement, LockPermit, Moves, StageAgreement,
         attemptVars, worldVars, probeVars
<1>4. ASSUME NEW c \in Calls, CommitAuthorized(c)
      PROVE  BusinessAgreement'
  BY <1>4
     DEF IInv, TypeOK, BusinessAgreement, CommitAuthorized, Moves, Consume,
         worldVars, probeVars
<1>5. ASSUME NEW c \in Calls, CommitExecuting(c)
      PROVE  BusinessAgreement'
  BY <1>5
     DEF IInv, TypeOK, BusinessAgreement, CommitExecuting, Transition, Moves,
         StageAgreement, permitVars, worldVars, probeVars
<1>6. ASSUME NEW c \in Calls, InvokeBrowser(c)
      PROVE  BusinessAgreement'
  BY <1>6
     DEF IInv, TypeOK, BusinessAgreement, InvokeBrowser, Moves,
         StageAgreement, permitVars, attemptVars, probeVars
<1>7. ASSUME NEW c \in Calls, BrowserReturns(c)
      PROVE  BusinessAgreement'
  BY <1>7
     DEF IInv, TypeOK, BusinessAgreement, BrowserReturns, Moves,
         StageAgreement, permitVars, attemptVars, worldVars, probeVars
<1>8. ASSUME NEW c \in Calls, CommitUnknown(c)
      PROVE  BusinessAgreement'
  BY <1>8
     DEF IInv, TypeOK, BusinessAgreement, CommitUnknown, Transition, Moves,
         StageAgreement, permitVars, worldVars, probeVars
<1>9. ASSUME NEW c \in Calls, Crash(c)
      PROVE  BusinessAgreement'
  BY <1>9
     DEF IInv, TypeOK, BusinessAgreement, Crash, Stages, attemptVars,
         worldVars, probeVars
<1>10. ASSUME NEW S \in SUBSET Calls, RecoverAbandoned(S)
      PROVE  BusinessAgreement'
  BY <1>10
     DEF IInv, TypeOK, BusinessAgreement, RecoverAbandoned, StageAgreement,
         KeyHeldOnce, Stale, Recoverable, Commands, callVars, permitVars,
         worldVars, probeVars
<1>11. ASSUME NEW c \in Calls, SubmissionLands(c)
      PROVE  BusinessAgreement'
  BY <1>11
     DEF IInv, TypeOK, BusinessAgreement, SubmissionLands, StageAgreement,
         KeyHeldOnce, Commands, callVars, permitVars, attemptVars, probeVars
<1>12. ASSUME NEW c \in Calls, SubmissionLost(c)
      PROVE  BusinessAgreement'
  BY <1>12
     DEF IInv, TypeOK, BusinessAgreement, SubmissionLost, callVars,
         permitVars, attemptVars, probeVars
<1>13. ASSUME NEW k \in Keys, CancelResource(k)
      PROVE  BusinessAgreement'
  BY <1>13
     DEF IInv, TypeOK, BusinessAgreement, CancelResource, callVars,
         permitVars, attemptVars, probeVars
<1>14. ASSUME NEW r \in Probers, ProbeResolve(r)
      PROVE  BusinessAgreement'
  BY <1>14
     DEF IInv, TypeOK, BusinessAgreement, ProbeResolve, StageAgreement,
         KeyHeldOnce, VerdictAgreement, Commands, callVars, permitVars,
         worldVars
<1> QED
  BY <1>1, <1>2, <1>3, <1>4, <1>5, <1>6, <1>7, <1>8, <1>9, <1>10, <1>11,
     <1>12, <1>13, <1>14
     DEF Next, ExecutorStep, ProbeStep, vars, callVars, permitVars,
         attemptVars, worldVars, probeVars, IssuePermit, ProbeRead,
         ProbeReadAbsent, Reads, ProbeLoad, ProbeAborts, Tick

\* A verdict read by a probe request stays true while the request sleeps: the
\* attempt stays UNKNOWN or resolved and a final business state is final.
LEMMA VerdictStep ==
    ASSUME IInv, [Next]_vars
    PROVE  VerdictAgreement'
<1>1. CASE UNCHANGED <<cmd, attempt, resource, denied, probing, stage, verdict>>
  BY <1>1 DEF IInv, VerdictAgreement
<1>2. ASSUME NEW c \in Calls, CommitAuthorized(c)
      PROVE  VerdictAgreement'
  BY <1>2
     DEF IInv, TypeOK, VerdictAgreement, CommitAuthorized, Moves, Consume,
         StageAgreement, worldVars, probeVars
<1>3. ASSUME NEW c \in Calls, CommitExecuting(c)
      PROVE  VerdictAgreement'
  BY <1>3
     DEF IInv, TypeOK, VerdictAgreement, CommitExecuting, Transition, Moves,
         permitVars, worldVars, probeVars
<1>4. ASSUME NEW c \in Calls, CommitUnknown(c)
      PROVE  VerdictAgreement'
  BY <1>4
     DEF IInv, TypeOK, VerdictAgreement, CommitUnknown, Transition, Moves,
         permitVars, worldVars, probeVars
<1>5. ASSUME NEW S \in SUBSET Calls, RecoverAbandoned(S)
      PROVE  VerdictAgreement'
  BY <1>5
     DEF IInv, TypeOK, VerdictAgreement, RecoverAbandoned, Stale, Recoverable,
         callVars, permitVars, worldVars, probeVars
<1>6. ASSUME NEW c \in Calls, SubmissionLands(c)
      PROVE  VerdictAgreement'
  BY <1>6
     DEF IInv, TypeOK, VerdictAgreement, SubmissionLands, callVars,
         permitVars, attemptVars, probeVars
<1>7. ASSUME NEW k \in Keys, CancelResource(k)
      PROVE  VerdictAgreement'
  BY <1>7
     DEF IInv, TypeOK, VerdictAgreement, CancelResource, callVars, permitVars,
         attemptVars, probeVars
<1>8. ASSUME NEW r \in Probers, NEW c \in Calls,
             ProbeRead(r, c) \/ ProbeReadAbsent(r, c)
      PROVE  VerdictAgreement'
  BY <1>8
     DEF IInv, TypeOK, VerdictAgreement, ProbeRead, ProbeReadAbsent, Reads,
         Classify, Commands, callVars, permitVars, attemptVars
<1>9. ASSUME NEW r \in Probers, ProbeLoad(r)
      PROVE  VerdictAgreement'
  BY <1>9
     DEF IInv, TypeOK, VerdictAgreement, ProbeLoad, Leave, callVars, permitVars,
         attemptVars, worldVars
<1>10. ASSUME NEW r \in Probers, ProbeResolve(r)
      PROVE  VerdictAgreement'
  BY <1>10
     DEF IInv, TypeOK, VerdictAgreement, ProbeResolve, Leave, callVars, permitVars,
         worldVars
<1>11. ASSUME NEW r \in Probers, ProbeAborts(r)
      PROVE  VerdictAgreement'
  BY <1>11
     DEF IInv, TypeOK, VerdictAgreement, ProbeAborts, Leave, callVars, permitVars,
         attemptVars, worldVars
<1> QED
  BY <1>1, <1>2, <1>3, <1>4, <1>5, <1>6, <1>7, <1>8, <1>9, <1>10, <1>11
     DEF Next, ExecutorStep, ProbeStep, vars, callVars, permitVars,
         attemptVars, worldVars, probeVars, IssuePermit, Preflight,
         LockPermit, InvokeBrowser, BrowserReturns, Crash, SubmissionLost,
         Tick, Moves

\* IInv holds of every execution: the three facts of an inductive invariant.
THEOREM Invariance == Spec => []IInv
<1>1. Init => IInv
  BY InitInvariant
<1>2. IInv /\ [Next]_vars => IInv'
  BY TypeStep, KeyStep, PermitStep, StageStep, BusinessStep, VerdictStep
     DEF IInv
<1> QED
  BY <1>1, <1>2, PTL DEF Spec

\* Type correctness.
THEOREM TypeCorrect == Spec => []TypeOK
<1>1. IInv => TypeOK
  BY DEF IInv
<1> QED
  BY <1>1, Invariance, PTL

\* A key is submitted in the browser by one call at most.
THEOREM OneSubmission == Spec => []AtMostOneSubmission
<1>1. IInv => AtMostOneSubmission
  BY DEF IInv, TypeOK, StageAgreement, KeyHeldOnce, AtMostOneSubmission
<1> QED
  BY <1>1, Invariance, PTL

\* A permit authorizes one attempt.
THEOREM PermitsSpentOnce == Spec => []PermitSpentOnce
<1>1. IInv => PermitSpentOnce
  BY DEF IInv
<1> QED
  BY <1>1, Invariance, PTL

\* What an attempt row says is true of the business object, but for FAILED once
\* a probe was told that there is no such object.
THEOREM VerdictsTrue == Spec => []TruthfulVerdict
<1>1. IInv => TruthfulVerdict
  BY DEF IInv, BusinessAgreement, TruthfulVerdict
<1> QED
  BY <1>1, Invariance, PTL

\* The row lock of ProbeResolve arrives after the status was read, but two
\* verdicts read off the same final business state can only be the same; they
\* differ only when one of them is the verdict on a denied object.
THEOREM VerdictsFinal == Spec => VerdictFinal
<1> DEFINE Kept(c) == attempt[c] \in Resolved =>
                         /\ attempt'[c] \in Resolved
                         /\ attempt'[c] = attempt[c] \/ cmd[c].key \in denied
<1>1. ASSUME IInv, [Next]_vars
      PROVE  \A c \in Calls : Kept(c)
  <2>1. CASE UNCHANGED attempt
    BY <2>1
  <2>2. ASSUME NEW c \in Calls, CommitAuthorized(c)
        PROVE  \A d \in Calls : Kept(d)
    BY <1>1, <2>2 DEF IInv, TypeOK, StageAgreement, CommitAuthorized, Moves, Resolved
  <2>3. ASSUME NEW c \in Calls, CommitExecuting(c) \/ CommitUnknown(c)
        PROVE  \A d \in Calls : Kept(d)
    BY <1>1, <2>3 DEF IInv, TypeOK, CommitExecuting, CommitUnknown, Transition, Resolved
  <2>4. ASSUME NEW S \in SUBSET Calls, RecoverAbandoned(S)
        PROVE  \A d \in Calls : Kept(d)
    BY <1>1, <2>4 DEF IInv, TypeOK, RecoverAbandoned, Stale, Recoverable, Resolved
  <2>5. ASSUME NEW r \in Probers, ProbeResolve(r)
        PROVE  \A d \in Calls : Kept(d)
    BY <1>1, <2>5
       DEF IInv, TypeOK, Commands, BusinessAgreement, VerdictAgreement,
           ProbeResolve, Resolved
  <2> QED
    BY <1>1, <2>1, <2>2, <2>3, <2>4, <2>5
       DEF Next, ExecutorStep, ProbeStep, IssuePermit, Preflight, LockPermit,
           InvokeBrowser, BrowserReturns, Crash, SubmissionLands,
           SubmissionLost, CancelResource, ProbeRead, ProbeReadAbsent, Reads,
           ProbeLoad, ProbeAborts, Tick, vars, attemptVars
<1> QED
  BY <1>1, Invariance, PTL DEF Spec, VerdictFinal

(***************************************************************************)
(* The boundary implements GovernedWrite.                                  *)
(***************************************************************************)

\* The outcome of a key is read off the one attempt that holds it.
LEMMA OutcomeOfHolder ==
    ASSUME IInv, NEW c \in Calls, attempt[c] # "none"
    PROVE  /\ cmd[c].key \in Keys
           /\ Outcome[cmd[c].key] =
                 IF attempt[c] \in Resolved THEN attempt[c] ELSE "none"
  BY DEF IInv, TypeOK, Commands, KeyHeldOnce, Outcome, HasAttempt, Resolved

\* The outcome of a key changes only with the verdict of one of its attempts.
LEMMA OutcomeKept ==
    ASSUME cmd' = cmd,
           \A c \in Calls : \A s \in Resolved : attempt'[c] = s <=> attempt[c] = s
    PROVE  Outcome' = Outcome
<1>1. \A k \in Keys : \A s \in Resolved : HasAttempt(k, s)' <=> HasAttempt(k, s)
  BY DEF HasAttempt
<1> QED
  BY <1>1 DEF Outcome, Resolved

\* A key counts as submitted from the first submission of one of its calls.
LEMMA SubmittedKept ==
    ASSUME cmd' = cmd,
           \A c \in Calls : browser'[c] = "none" <=> browser[c] = "none"
    PROVE  Submitted' = Submitted
  BY DEF Submitted

\* The one call of a key that reaches the browser submits for the key; a key
\* that counts as failed by then is closed or denied.
LEMMA InvokeSubmits ==
    ASSUME IInv, NEW c \in Calls, InvokeBrowser(c)
    PROVE  Governed!Submit(cmd[c].key)
<1> DEFINE k == cmd[c].key
<1>1. /\ k \in Keys
      /\ attempt[c] # "none"
      /\ attempt' = attempt /\ cmd' = cmd
      /\ resource' = resource /\ denied' = denied
      /\ browser' = [browser EXCEPT ![c] = "flying"]
  BY DEF IInv, TypeOK, Commands, StageAgreement, InvokeBrowser, Moves,
         callVars, attemptVars
<1>2. ~Submitted[k]
  BY <1>1 DEF IInv, TypeOK, KeyHeldOnce, StageAgreement, InvokeBrowser, Moves,
              Submitted
<1>3. Outcome[k] = "failed" => resource[k] = "canceled" \/ k \in denied
  BY <1>1, OutcomeOfHolder
     DEF IInv, BusinessAgreement, InvokeBrowser, Moves, Resolved
<1>4. Outcome' = Outcome
  BY <1>1, OutcomeKept
<1>5. Submitted' = [Submitted EXCEPT ![k] = TRUE]
  BY <1>1 DEF IInv, TypeOK, Submitted
<1> QED
  BY <1>1, <1>2, <1>3, <1>4, <1>5 DEF Governed!Submit

\* A submission lands on the open object of a key without a verdict, or with the
\* verdict on a denied object.
LEMMA LandsSucceeds ==
    ASSUME IInv, NEW c \in Calls, SubmissionLands(c)
    PROVE  Governed!Succeed(cmd[c].key)
<1> DEFINE k == cmd[c].key
<1>1. /\ k \in Keys
      /\ attempt[c] # "none"
      /\ browser[c] = "flying" /\ resource[k] = "open"
      /\ attempt' = attempt /\ cmd' = cmd /\ denied' = denied
      /\ browser' = [browser EXCEPT ![c] = "landed"]
      /\ resource' = [resource EXCEPT ![k] = "succeeded"]
  BY DEF IInv, TypeOK, Commands, StageAgreement, SubmissionLands, callVars,
         attemptVars
<1>2. Submitted[k] /\ Submitted' = Submitted
  BY <1>1, SubmittedKept DEF IInv, TypeOK, Submitted
<1>3. Outcome[k] = "none" \/ (Outcome[k] = "failed" /\ k \in denied)
  BY <1>1, OutcomeOfHolder DEF IInv, BusinessAgreement, Resolved
<1>4. Outcome' = Outcome
  BY <1>1, OutcomeKept
<1> QED
  BY <1>1, <1>2, <1>3, <1>4 DEF Governed!Succeed

\* An object is said not to exist to a probe of an attempt without a verdict.
LEMMA AbsentDenies ==
    ASSUME IInv, NEW r \in Probers, NEW c \in Calls, ProbeReadAbsent(r, c)
    PROVE  Governed!Deny(cmd[c].key)
<1>1. /\ attempt[c] = "unknown"
      /\ cmd' = cmd /\ attempt' = attempt
      /\ browser' = browser /\ resource' = resource
      /\ denied' = denied \cup {cmd[c].key}
  BY DEF ProbeReadAbsent, Reads, callVars, attemptVars
<1>2. Outcome[cmd[c].key] = "none"
  BY <1>1, OutcomeOfHolder DEF Resolved
<1>3. Outcome' = Outcome /\ Submitted' = Submitted
  BY <1>1, OutcomeKept, SubmittedKept
<1> QED
  BY <1>1, <1>2, <1>3 DEF Governed!Deny

\* A scan fails the keys of the attempts that never left AUTHORIZED: none of
\* them was ever submitted.
LEMMA RecoveryFails ==
    ASSUME IInv, NEW S \in SUBSET Calls, RecoverAbandoned(S)
    PROVE  \E K \in SUBSET Keys : Governed!Fail(K)
<1> DEFINE F == {c \in S : attempt[c] = "authorized"}
           K == {cmd[c].key : c \in F}
<1>1. /\ K \in SUBSET Keys
      /\ cmd' = cmd /\ browser' = browser
      /\ resource' = resource /\ denied' = denied
      /\ \A c \in Calls : attempt'[c] = "failed" <=> c \in F \/ attempt[c] = "failed"
      /\ \A c \in Calls : attempt'[c] = "confirmed" <=> attempt[c] = "confirmed"
  BY DEF IInv, TypeOK, Commands, RecoverAbandoned, Stale, Recoverable,
         callVars, worldVars
<1>2. \A k \in K : Outcome[k] = "none"
  BY OutcomeOfHolder DEF Resolved
<1>3. \A k \in K : ~Submitted[k]
  BY <1>1 DEF IInv, KeyHeldOnce, StageAgreement, Submitted
<1>4. Outcome' = [k \in Keys |-> IF k \in K THEN "failed" ELSE Outcome[k]]
  <2>1. \A k \in Keys : HasAttempt(k, "confirmed")' <=> HasAttempt(k, "confirmed")
    BY <1>1 DEF HasAttempt
  <2>2. \A k \in Keys : HasAttempt(k, "failed")' <=> k \in K \/ HasAttempt(k, "failed")
    BY <1>1 DEF HasAttempt
  <2>3. \A k \in K : ~HasAttempt(k, "confirmed")
    BY <1>1, <1>2 DEF Outcome
  <2> QED
    BY <2>1, <2>2, <2>3 DEF Outcome
<1>5. Submitted' = Submitted
  BY <1>1, SubmittedKept
<1> QED
  BY <1>1, <1>2, <1>3, <1>4, <1>5 DEF Governed!Fail, Governed!Undecided

\* A probe gives the key the verdict it carries: its first, the same again, or
\* another one on a denied object.
LEMMA ResolveDecides ==
    ASSUME IInv, NEW r \in Probers, ProbeResolve(r)
    PROVE  \/ Governed!Confirm(cmd[probing[r]].key)
           \/ Governed!Fail({cmd[probing[r]].key})
           \/ UNCHANGED Governed!vars
<1> DEFINE c == probing[r]
           k == cmd[c].key
<1>1. /\ c \in Calls /\ k \in Keys
      /\ attempt[c] \in {"unknown", "confirmed", "failed"}
      /\ cmd' = cmd /\ browser' = browser
      /\ resource' = resource /\ denied' = denied
      /\ attempt' = [attempt EXCEPT ![c] = verdict[r]]
      /\ \/ verdict[r] = "confirmed" /\ resource[k] = "succeeded"
         \/ verdict[r] = "failed" /\ (resource[k] = "canceled" \/ k \in denied)
  BY DEF IInv, TypeOK, Commands, VerdictAgreement, ProbeResolve, callVars, worldVars
<1>2. Submitted' = Submitted
  BY <1>1, SubmittedKept
<1>3. Outcome' = [Outcome EXCEPT ![k] = verdict[r]]
  <2>1. \A d \in Calls : d # c => attempt'[d] = attempt[d]
    BY <1>1 DEF IInv, TypeOK
  <2>2. attempt'[c] = verdict[r]
    BY <1>1 DEF IInv, TypeOK
  <2>3. \A d \in Calls : d # c /\ cmd[d].key = k => attempt[d] = "none"
    BY <1>1 DEF IInv, KeyHeldOnce
  <2>4. \A j \in Keys : \A s \in Resolved :
           j = k => (HasAttempt(j, s)' <=> s = verdict[r])
    BY <1>1, <2>1, <2>2, <2>3 DEF HasAttempt, Resolved
  <2>5. \A j \in Keys : \A s \in Resolved :
           j # k => (HasAttempt(j, s)' <=> HasAttempt(j, s))
    BY <1>1, <2>1 DEF HasAttempt
  <2> QED
    BY <1>1, <2>4, <2>5 DEF Outcome, Resolved
<1>4. CASE Outcome[k] = verdict[r]
  <2>1. Outcome' = Outcome
    BY <1>1, <1>3, <1>4 DEF Outcome
  <2> QED
    BY <1>1, <1>2, <2>1 DEF Governed!vars
<1>5. CASE Outcome[k] # verdict[r]
  <2>1. Outcome[k] = "none" \/ k \in denied
    BY <1>1, <1>5, OutcomeOfHolder DEF IInv, BusinessAgreement, Resolved
  <2>2. CASE verdict[r] = "confirmed"
    BY <1>1, <1>2, <1>3, <2>1, <2>2 DEF Governed!Confirm, Governed!Undecided
  <2>3. CASE verdict[r] = "failed"
    <3>1. Outcome' = [j \in Keys |-> IF j \in {k} THEN "failed" ELSE Outcome[j]]
      BY <1>3, <2>3 DEF Outcome
    <3> QED
      BY <1>1, <1>2, <2>1, <2>3, <3>1 DEF Governed!Fail, Governed!Undecided
  <2> QED
    BY <1>1, <2>2, <2>3
<1> QED
  BY <1>4, <1>5

\* The boundary implements GovernedWrite.
THEOREM Refinement == Spec => GovernedSpec
<1>1. Init => Governed!Init
  BY DEF Init, Governed!Init, Submitted, Outcome, HasAttempt, Commands
<1>2. ASSUME IInv, [Next]_vars
      PROVE  [Governed!Next]_Governed!vars
  <2> USE <1>2
  <2>1. CASE /\ UNCHANGED <<cmd, browser, resource, denied>>
             /\ \A c \in Calls : \A s \in Resolved : attempt'[c] = s <=> attempt[c] = s
    BY <2>1, OutcomeKept, SubmittedKept DEF Governed!vars
  <2>2. ASSUME NEW c \in Calls, CommitAuthorized(c)
        PROVE  /\ UNCHANGED <<cmd, browser, resource, denied>>
               /\ \A d \in Calls : \A s \in Resolved : attempt'[d] = s <=> attempt[d] = s
    BY <2>2 DEF IInv, TypeOK, StageAgreement, CommitAuthorized, Moves, Resolved, worldVars
  <2>3. ASSUME NEW c \in Calls, CommitExecuting(c) \/ CommitUnknown(c)
        PROVE  /\ UNCHANGED <<cmd, browser, resource, denied>>
               /\ \A d \in Calls : \A s \in Resolved : attempt'[d] = s <=> attempt[d] = s
    BY <2>3 DEF IInv, TypeOK, CommitExecuting, CommitUnknown, Transition, Resolved, worldVars
  <2>4. ASSUME NEW c \in Calls, InvokeBrowser(c)
        PROVE  Governed!Next
    <3>1. cmd[c].key \in Keys
      BY DEF IInv, TypeOK, Commands
    <3> QED
      BY <2>4, <3>1, InvokeSubmits DEF Governed!Next
  <2>5. ASSUME NEW c \in Calls, SubmissionLands(c)
        PROVE  Governed!Next
    <3>1. cmd[c].key \in Keys
      BY DEF IInv, TypeOK, Commands
    <3> QED
      BY <2>5, <3>1, LandsSucceeds DEF Governed!Next
  <2>6. ASSUME NEW c \in Calls, SubmissionLost(c)
        PROVE  UNCHANGED Governed!vars
    <3>1. \A d \in Calls : browser'[d] = "none" <=> browser[d] = "none"
      BY <2>6 DEF IInv, TypeOK, SubmissionLost
    <3>2. UNCHANGED <<cmd, attempt, resource, denied>>
      BY <2>6 DEF SubmissionLost, callVars, attemptVars
    <3> QED
      BY <3>1, <3>2, OutcomeKept, SubmittedKept DEF Governed!vars
  <2>7. ASSUME NEW k \in Keys, CancelResource(k)
        PROVE  Governed!Next
    <3>1. Outcome' = Outcome /\ Submitted' = Submitted
      BY <2>7, OutcomeKept, SubmittedKept DEF CancelResource, callVars, attemptVars
    <3> QED
      BY <2>7, <3>1 DEF CancelResource, Governed!Next, Governed!Cancel
  <2>8. ASSUME NEW S \in SUBSET Calls, RecoverAbandoned(S)
        PROVE  Governed!Next
    BY <2>8, RecoveryFails DEF Governed!Next
  <2>9. ASSUME NEW r \in Probers, ProbeResolve(r)
        PROVE  [Governed!Next]_Governed!vars
    <3>1. cmd[probing[r]].key \in Keys
      BY <2>9 DEF IInv, TypeOK, Commands, VerdictAgreement, ProbeResolve
    <3> QED
      BY <2>9, <3>1, ResolveDecides DEF Governed!Next
  <2>10. ASSUME NEW r \in Probers, NEW c \in Calls, ProbeReadAbsent(r, c)
        PROVE  Governed!Next
    <3>1. cmd[c].key \in Keys
      BY DEF IInv, TypeOK, Commands
    <3> QED
      BY <2>10, <3>1, AbsentDenies DEF Governed!Next
  <2> QED
    BY <2>1, <2>2, <2>3, <2>4, <2>5, <2>6, <2>7, <2>8, <2>9, <2>10
       DEF Next, ExecutorStep, ProbeStep, IssuePermit, Preflight, LockPermit,
           BrowserReturns, Crash, ProbeRead, Reads, ProbeLoad, ProbeAborts, Tick,
           Moves, vars, callVars, attemptVars, worldVars
<1> QED
  BY <1>1, <1>2, Invariance, PTL DEF Spec, GovernedSpec, Governed!Spec

=============================================================================
