-------------------------- MODULE ResultProbeProofs --------------------------
(***************************************************************************)
(* Proofs about ResultProbe, for every set of probe requests and any       *)
(* number of failed reads, aborted probes and crashes.                     *)
(***************************************************************************)
EXTENDS ResultProbe, TLAPS

\* The executing request writes no verdict and changes no PaymentIntent.
LEMMA RequestStep ==
    ASSUME IInv, Request
    PROVE  IInv'
<1>1. UNCHANGED <<business, denied, signalled, stage, evidence, faults>>
  BY DEF Request, CommitUnknown, LoadToBind, BindSession, LoadToRecord,
         RecordUncertain, Report, Persists, payment
<1>2. TypeOK'
  BY <1>1
     DEF Request, CommitUnknown, LoadToBind, BindSession, LoadToRecord,
         RecordUncertain, Report, Persists, IInv, TypeOK, Unbound, Evidence,
         Conclusive, Verdicts, Ends
<1>3. RowTruthful'
  BY <1>1
     DEF Request, CommitUnknown, LoadToBind, BindSession, LoadToRecord,
         RecordUncertain, Report, Persists, IInv, RowTruthful, ClaimTrue
<1> QED
  BY <1>1, <1>2, <1>3 DEF IInv, EvidenceTruthful, ClaimTrue

\* A probe reads a final status, a denial or nothing, and writes what it read:
\* a final status and a denial stay, so it is still so when the write arrives.
LEMMA ProbeStep ==
    ASSUME IInv, NEW r \in Probers,
           Probe(r) \/ ReadAbsent(r) \/ ReadFails(r) \/ AbortProbe(r)
    PROVE  IInv'
<1> USE DEF payment
<1>1. CASE BeginProbe(r)
  BY <1>1
     DEF BeginProbe, IInv, TypeOK, RowTruthful, EvidenceTruthful, ClaimTrue
<1>2. CASE ReadBusiness(r)
  BY <1>2
     DEF ReadBusiness, Read, Classify, IInv, TypeOK, RowTruthful,
         EvidenceTruthful, ClaimTrue, Evidence, Conclusive, Verdicts
<1>3. CASE ReadAbsent(r)
  BY <1>3
     DEF ReadAbsent, Read, IInv, TypeOK, RowTruthful, EvidenceTruthful,
         ClaimTrue, Evidence, Conclusive, Verdicts
<1>4. CASE ReadFails(r)
  BY <1>4, MaxFaultsAssumption
     DEF ReadFails, Read, Fault, IInv, TypeOK, RowTruthful, EvidenceTruthful,
         ClaimTrue, Evidence, Conclusive, Verdicts
<1>5. CASE LoadToPersist(r) \/ LoadToResolve(r)
  BY <1>5
     DEF LoadToPersist, LoadToResolve, Loads, IInv, TypeOK, RowTruthful,
         EvidenceTruthful, ClaimTrue
<1>6. CASE PersistEvidence(r)
  BY <1>6
     DEF PersistEvidence, IInv, TypeOK, RowTruthful, EvidenceTruthful,
         ClaimTrue, Evidence, Conclusive, Verdicts
<1>7. CASE Resolve(r)
  <2>1. TypeOK' /\ EvidenceTruthful'
    BY <1>7
       DEF Resolve, Outcome, IInv, TypeOK, EvidenceTruthful, ClaimTrue,
           Evidence, Verdicts
  <2>2. RowTruthful'
    <3>1. evidence[r] \in Conclusive /\ ClaimTrue(evidence[r])
      BY <1>7 DEF Resolve, IInv, EvidenceTruthful
    <3>2. evidence[r] = "absent" => denied
      BY DEF IInv, EvidenceTruthful
    <3>3. attempt' = Outcome(evidence[r]) /\ result_probe' = evidence[r]
      BY <1>7 DEF Resolve
    <3>4. business' = business /\ denied' = denied
      BY <1>7 DEF Resolve
    <3> QED
      BY <3>1, <3>2, <3>3, <3>4
         DEF Outcome, RowTruthful, ClaimTrue, Conclusive, Verdicts
  <2> QED
    BY <2>1, <2>2 DEF IInv
<1>8. CASE AbortProbe(r)
  BY <1>8, MaxFaultsAssumption
     DEF AbortProbe, Fault, IInv, TypeOK, RowTruthful, EvidenceTruthful,
         ClaimTrue
<1> QED
  BY <1>1, <1>2, <1>3, <1>4, <1>5, <1>6, <1>7, <1>8 DEF Probe

(***************************************************************************)
(* The row.                                                                *)
(***************************************************************************)

\* The types, the truth of the row and the truth of what travels are inductive
\* together.
THEOREM Invariance == Spec => []IInv
<1>1. Init => IInv
  <2>1. Init => TypeOK
    <3>1. 0 \in 0 .. MaxFaults
      BY MaxFaultsAssumption
    <3> QED
      BY <3>1 DEF Init, TypeOK, Unbound, Evidence, Conclusive, Verdicts, Ends
  <2>2. Init => RowTruthful /\ EvidenceTruthful
    BY DEF Init, RowTruthful, EvidenceTruthful, ClaimTrue
  <2> QED
    BY <2>1, <2>2 DEF IInv
<1>2. ASSUME IInv, [Next]_vars
      PROVE  IInv'
  <2> USE <1>2 DEF payment
  <2>1. CASE Crash
    BY <2>1, MaxFaultsAssumption
       DEF Crash, Fault, Ends, IInv, TypeOK, RowTruthful, EvidenceTruthful,
           ClaimTrue
  <2>2. CASE RecoverAbandoned
    BY <2>2
       DEF RecoverAbandoned, IInv, TypeOK, RowTruthful, EvidenceTruthful,
           ClaimTrue, Evidence
  <2>3. CASE RecordSignal
    BY <2>3
       DEF RecordSignal, IInv, TypeOK, RowTruthful, EvidenceTruthful, ClaimTrue
  <2>4. ASSUME NEW status \in {"succeeded", "canceled"}, Settle(status)
        PROVE  IInv'
    BY <2>4
       DEF Settle, IInv, TypeOK, RowTruthful, EvidenceTruthful, ClaimTrue
  <2>5. CASE UNCHANGED vars
    BY <2>5
       DEF vars, IInv, TypeOK, RowTruthful, EvidenceTruthful, ClaimTrue
  <2> QED
    BY <2>1, <2>2, <2>3, <2>4, <2>5, RequestStep, ProbeStep DEF Next
<1> QED
  BY <1>1, <1>2, PTL DEF Spec

\* Every reachable state of the attempt, its column and its probes is well
\* typed: a read yields evidence, and only evidence is written.
THEOREM TypeCorrect == Spec => []TypeOK
<1>1. IInv => TypeOK
  BY DEF IInv
<1> QED
  BY <1>1, Invariance, PTL

\* What an attempt row says of its PaymentIntent is so, but for FAILED once a
\* probe was told that there is none.
THEOREM RowsTruthful == Spec => []RowTruthful
<1>1. IInv => RowTruthful
  BY DEF IInv
<1> QED
  BY <1>1, Invariance, PTL

(***************************************************************************)
(* The binding of the exact PaymentIntent.                                 *)
(***************************************************************************)

LEMMA BoundFirstStep == TypeOK /\ BoundFirst /\ [Next]_vars => BoundFirst'
<1> SUFFICES ASSUME TypeOK, BoundFirst, [Next]_vars
             PROVE  BoundFirst'
  OBVIOUS
<1> USE DEF BoundFirst
<1>1. CASE Request
  BY <1>1
     DEF Request, CommitUnknown, LoadToBind, BindSession, LoadToRecord,
         RecordUncertain, Report, Persists
<1>2. CASE Crash \/ RecoverAbandoned \/ RecordSignal \/ UNCHANGED vars
  BY <1>2 DEF Crash, Ends, RecoverAbandoned, RecordSignal, vars
<1>3. CASE \E status \in {"succeeded", "canceled"} : Settle(status)
  BY <1>3 DEF Settle
<1>4. ASSUME NEW r \in Probers,
             Probe(r) \/ ReadAbsent(r) \/ ReadFails(r) \/ AbortProbe(r)
      PROVE  BoundFirst'
  <2>1. CASE BeginProbe(r)
    BY <2>1 DEF BeginProbe, Offered, Correlated, TypeOK
  <2>2. CASE ReadBusiness(r) \/ ReadAbsent(r) \/ ReadFails(r)
    BY <2>2 DEF ReadBusiness, ReadAbsent, ReadFails, Read, TypeOK
  <2>3. CASE LoadToPersist(r) \/ LoadToResolve(r)
    BY <2>3 DEF LoadToPersist, LoadToResolve, Loads, TypeOK
  <2>4. CASE PersistEvidence(r) \/ Resolve(r)
    BY <2>4
       DEF PersistEvidence, Resolve, TypeOK, Evidence, Conclusive, Verdicts
  <2>5. CASE AbortProbe(r)
    BY <2>5 DEF AbortProbe, TypeOK
  <2> QED
    BY <1>4, <2>1, <2>2, <2>3, <2>4, <2>5 DEF Probe
<1> QED
  BY <1>1, <1>2, <1>3, <1>4 DEF Next

\* The executing request writes the column twice and the probes as often as they
\* like, all of them on what an unlocked read saw; still none takes back the
\* PaymentIntent another has named, and once it is named only the probes of a
\* run that has reported write it (_persist_probe_context, service.probe).
THEOREM BindingLasts == Spec => BindingKept
<1>1. Init => BoundFirst
  BY DEF Init, BoundFirst
<1>2. TypeOK /\ BoundFirst /\ [Next]_vars =>
        [result_probe \notin Unbound =>
            /\ result_probe' \notin Unbound
            /\ result_probe' # result_probe => pc = "reported"]_vars
  <2> SUFFICES ASSUME TypeOK, BoundFirst, Next, result_probe \notin Unbound
               PROVE  /\ result_probe' \notin Unbound
                      /\ result_probe' # result_probe => pc = "reported"
    BY DEF vars
  <2>1. CASE Request
    <3>1. pc # "binding" /\ pc # "recording"
      BY DEF BoundFirst, Unbound
    <3> QED
      BY <2>1, <3>1
         DEF Request, CommitUnknown, LoadToBind, BindSession, LoadToRecord,
             RecordUncertain, Report, Persists, Unbound
  <2>2. CASE Crash \/ RecoverAbandoned \/ RecordSignal
    BY <2>2 DEF Crash, RecoverAbandoned, RecordSignal
  <2>3. CASE \E status \in {"succeeded", "canceled"} : Settle(status)
    BY <2>3 DEF Settle
  <2>4. ASSUME NEW r \in Probers,
               Probe(r) \/ ReadAbsent(r) \/ ReadFails(r) \/ AbortProbe(r)
        PROVE  /\ result_probe' \notin Unbound
               /\ result_probe' # result_probe => pc = "reported"
    <3>1. CASE PersistEvidence(r) \/ Resolve(r)
      <4>1. pc = "reported"
        BY <3>1 DEF PersistEvidence, Resolve, BoundFirst
      <4> QED
        BY <3>1, <4>1
           DEF PersistEvidence, Resolve, TypeOK, Evidence, Conclusive, Verdicts,
               Unbound
    <3>2. CASE ~ (PersistEvidence(r) \/ Resolve(r))
      BY <2>4, <3>2
         DEF Probe, BeginProbe, ReadBusiness, ReadAbsent, ReadFails, Read,
             LoadToPersist, LoadToResolve, Loads, AbortProbe
    <3> QED
      BY <3>1, <3>2
  <2> QED
    BY <2>1, <2>2, <2>3, <2>4 DEF Next
<1> QED
  BY <1>1, <1>2, BoundFirstStep, TypeCorrect, PTL DEF Spec, BindingKept


=============================================================================
