----------------------------- MODULE ResultProbe -----------------------------
(***************************************************************************)
(* The result_probe column of one execution attempt: the correlation and   *)
(* the evidence that the executing request and the probe requests write    *)
(* into it, next to the status the probes settle                           *)
(* (domains/stripe_payment/live_browser.py: the end of execute_governed,   *)
(* probe_governed, _persist_probe_context, _load_probe_context,            *)
(* _resolve_attempt; result_probe.py; m10_runtime.py: _probe_live_run).    *)
(*                                                                         *)
(* ExecutionBoundary tells how an attempt comes to be EXECUTING and takes  *)
(* a probe as one read; here the read needs a correlation, and every write *)
(* of the column is a transaction of its own that selects the row without  *)
(* a lock.  No operation of this part relates two attempts.                *)
(***************************************************************************)
EXTENDS Naturals

CONSTANTS
    Probers,     \* concurrent probe requests
    MaxFaults    \* bound on failed reads, aborted probes and crashes

ASSUME MaxFaultsAssumption == MaxFaults \in Nat

VARIABLES
    attempt,       \* status of the attempt row
    result_probe,  \* what its result_probe column holds
    business,      \* the PaymentIntent the submission pays
    denied,        \* a probe was told that there is no such PaymentIntent
    pc,            \* where the executing request is, from the browser call on
    signalled,     \* a pause signal was recorded for the run
    stage,         \* how far each probe request is
    evidence,      \* what each probe request read
    faults         \* failed reads, aborted probes and crashes so far

payment == <<business, denied>>
vars == <<attempt, result_probe, payment, pc, signalled, stage, evidence, faults>>

\* The column holds nothing, the Checkout Session alone, or evidence about the
\* exact PaymentIntent.
Unbound == {"null", "session"}
Verdicts == {"confirmed", "failed"}
Conclusive == Verdicts \cup {"absent"}
Evidence == Conclusive \cup {"unknown"}

Ends == {"reported", "crashed"}

Init ==
    /\ attempt = "executing"
    /\ result_probe = "null"
    /\ business = "open"
    /\ denied = FALSE
    /\ pc = "browser"
    /\ signalled = FALSE
    /\ stage = [r \in Probers |-> "idle"]
    /\ evidence = [r \in Probers |-> "unknown"]
    /\ faults = 0

Fault ==
    /\ faults < MaxFaults
    /\ faults' = faults + 1

(***************************************************************************)
(* The executing request, after the browser call.                          *)
(***************************************************************************)

\* ACTION: CommitUnknown ---------------------------------------------------
\* The scanner may have moved the attempt first: execute() then raises, and
\* execute_governed never comes to bind the Checkout Session.
CommitUnknown ==
    /\ pc = "browser"
    /\ \/ attempt = "executing" /\ attempt' = "unknown" /\ pc' = "unknown"
       \/ attempt # "executing" /\ attempt' = attempt /\ pc' = "raised"
    /\ UNCHANGED <<result_probe, payment, signalled, stage, evidence, faults>>

\* The checks of _persist_probe_context pass or the request ends.
Persists(allowed, here, next) ==
    /\ pc = here
    /\ pc' = IF attempt = "unknown" /\ allowed THEN next ELSE "raised"
    /\ UNCHANGED <<attempt, result_probe, payment, signalled, stage, evidence, faults>>

\* ACTION: LoadToBind ------------------------------------------------------
\* Without evidence the column must not name a PaymentIntent yet.
LoadToBind == Persists(result_probe \in Unbound, "unknown", "binding")

\* ACTION: BindSession -----------------------------------------------------
\* The commit of the Checkout Session.  Where the Session could not be read
\* the same write is made and the request raises after it.
BindSession ==
    /\ pc = "binding"
    /\ pc' \in {"bound", "raised"}
    /\ result_probe' = "session"
    /\ UNCHANGED <<attempt, payment, signalled, stage, evidence, faults>>

\* ACTION: LoadToRecord ----------------------------------------------------
\* A PaymentIntent is named only next to the Session it belongs to.
LoadToRecord == Persists(result_probe # "null", "bound", "recording")

\* ACTION: RecordUncertain -------------------------------------------------
RecordUncertain ==
    /\ pc = "recording"
    /\ pc' = "returned"
    /\ result_probe' = "unknown"
    /\ UNCHANGED <<attempt, payment, signalled, stage, evidence, faults>>

\* ACTION: Report ----------------------------------------------------------
\* _advance_live_run on either end of the request, and _reflect_advance_result:
\* the native rows and then the journal say that the run waits for a probe.
Report ==
    /\ pc \in {"returned", "raised"}
    /\ attempt = "unknown"
    /\ pc' = "reported"
    /\ UNCHANGED <<attempt, result_probe, payment, signalled, stage, evidence, faults>>

\* ACTION: RecordSignal ----------------------------------------------------
\* A pause signal is accepted in every state of the run.
RecordSignal ==
    /\ ~signalled
    /\ signalled' = TRUE
    /\ UNCHANGED <<attempt, result_probe, payment, pc, stage, evidence, faults>>

\* ACTION: Crash -----------------------------------------------------------
\* What the request has not committed is lost, and no later request reports
\* the run in its place.
Crash ==
    /\ pc \notin Ends
    /\ Fault
    /\ pc' = "crashed"
    /\ UNCHANGED <<attempt, result_probe, payment, signalled, stage, evidence>>

\* ACTION: RecoverAbandoned ------------------------------------------------
\* The scanner, whatever became of the executing request.
RecoverAbandoned ==
    /\ attempt = "executing"
    /\ attempt' = "unknown"
    /\ UNCHANGED <<result_probe, payment, pc, signalled, stage, evidence, faults>>

\* ACTION: Settle ----------------------------------------------------------
\* The PaymentIntent reaches a final status, at any time.
Settle(status) ==
    /\ business = "open"
    /\ business' = status
    /\ UNCHANGED <<attempt, result_probe, denied, pc, signalled, stage, evidence, faults>>

(***************************************************************************)
(* A probe request.                                                        *)
(***************************************************************************)

\* MUTANT of Correlated: only a Session that was never probed will do.
NeverProbed == result_probe = "session"

\* The exact PaymentIntent is known, or the Session that leads to it.
Correlated == result_probe # "null"

\* MUTANT of Offered: an uncertain attempt is probed whatever its run says.
OfferedUnreported == attempt = "unknown"

\* PROBE is a legal action: the projection of the run is UNKNOWN, which it is
\* after the report alone, and a pause signal hides it.
Offered == pc = "reported" /\ ~signalled /\ attempt = "unknown"

\* ACTION: BeginProbe ------------------------------------------------------
\* service.probe, _probe_live_run and _load_probe_context: any other probe
\* raises at once or returns the projection.
BeginProbe(r) ==
    /\ stage[r] = "idle"
    /\ Offered
    /\ Correlated
    /\ stage' = [stage EXCEPT ![r] = "begun"]
    /\ UNCHANGED <<attempt, result_probe, payment, pc, signalled, evidence, faults>>

\* MUTANT of Classify: the status of the PaymentIntent is taken for a verdict.
ClassifyRaw(status) == IF status = "open" THEN "unknown" ELSE status

\* MUTANT of Classify: a PaymentIntent that has not succeeded has failed.
ClassifyEagerly(status) == IF status = "succeeded" THEN "confirmed" ELSE "failed"

\* classify_payment_intent.
Classify(status) ==
    IF status = "succeeded" THEN "confirmed"
    ELSE IF status = "canceled" THEN "failed" ELSE "unknown"

Read(r, status) ==
    /\ stage[r] = "begun"
    /\ stage' = [stage EXCEPT ![r] = "read"]
    /\ evidence' = [evidence EXCEPT ![r] = status]
    /\ UNCHANGED <<attempt, result_probe, business, pc, signalled>>

\* ACTION: ReadBusiness ----------------------------------------------------
ReadBusiness(r) == Read(r, Classify(business)) /\ UNCHANGED <<denied, faults>>

\* ACTION: ReadAbsent ------------------------------------------------------
\* A 404 is NOT_CONFIRMED, "submission did not land".  Nothing ties the answer
\* to what has become of the submission.
ReadAbsent(r) ==
    /\ Read(r, "absent")
    /\ denied' = TRUE
    /\ UNCHANGED faults

\* ACTION: ReadFails -------------------------------------------------------
\* A timeout, 408, 409, 429 or a server error is evidence of nothing.
ReadFails(r) == Read(r, "unknown") /\ Fault /\ UNCHANGED denied

\* An unlocked select of the row: one that has left UNKNOWN ends the request.
Loads(r, here, next) ==
    /\ stage[r] = here
    /\ stage' = [stage EXCEPT ![r] = IF attempt = "unknown" THEN next ELSE "idle"]
    /\ UNCHANGED <<attempt, result_probe, payment, pc, signalled, evidence, faults>>

\* ACTION: LoadToPersist ---------------------------------------------------
LoadToPersist(r) == Loads(r, "read", "persisting")

\* ACTION: PersistEvidence -------------------------------------------------
\* The commit of _persist_probe_context writes the column of the row,
\* whatever its status has become since the select.
PersistEvidence(r) ==
    /\ stage[r] = "persisting"
    /\ result_probe' = evidence[r]
    /\ stage' = [stage EXCEPT ![r] =
                    IF evidence[r] = "unknown" THEN "idle" ELSE "persisted"]
    /\ UNCHANGED <<attempt, payment, pc, signalled, evidence, faults>>

\* ACTION: LoadToResolve ---------------------------------------------------
LoadToResolve(r) == Loads(r, "persisted", "loaded")

Outcome(seen) == IF seen = "confirmed" THEN "confirmed" ELSE "failed"

\* ACTION: Resolve ---------------------------------------------------------
\* The session holds the row already, so the locked select of
\* _transition_attempt checks the status LoadToResolve saw: the last of two
\* probes that loaded an UNKNOWN row has its way.
Resolve(r) ==
    /\ stage[r] = "loaded"
    /\ attempt' = Outcome(evidence[r])
    /\ result_probe' = evidence[r]
    /\ stage' = [stage EXCEPT ![r] = "idle"]
    /\ UNCHANGED <<payment, pc, signalled, evidence, faults>>

\* ACTION: AbortProbe ------------------------------------------------------
AbortProbe(r) ==
    /\ stage[r] # "idle"
    /\ Fault
    /\ stage' = [stage EXCEPT ![r] = "idle"]
    /\ UNCHANGED <<attempt, result_probe, payment, pc, signalled, evidence>>

Request ==
    \/ CommitUnknown
    \/ LoadToBind
    \/ BindSession
    \/ LoadToRecord
    \/ RecordUncertain
    \/ Report

Probe(r) ==
    \/ BeginProbe(r)
    \/ ReadBusiness(r)
    \/ LoadToPersist(r)
    \/ PersistEvidence(r)
    \/ LoadToResolve(r)
    \/ Resolve(r)

Next ==
    \/ Request
    \/ Crash
    \/ RecoverAbandoned
    \/ RecordSignal
    \/ \E status \in {"succeeded", "canceled"} : Settle(status)
    \/ \E r \in Probers : Probe(r) \/ ReadAbsent(r) \/ ReadFails(r) \/ AbortProbe(r)

Spec == Init /\ [][Next]_vars

\* A request or a probe that is not cut short goes on, and the operator
\* repeats the probe for as long as the run offers it.
FairSpec ==
    /\ Spec
    /\ WF_vars(Request)
    /\ \A r \in Probers : WF_vars(Probe(r))

-----------------------------------------------------------------------------
(***************************************************************************)
(* Properties.                                                             *)
(***************************************************************************)

TypeOK ==
    /\ attempt \in {"executing", "unknown"} \cup Verdicts
    /\ result_probe \in Unbound \cup Evidence
    /\ business \in {"open", "succeeded", "canceled"}
    /\ denied \in BOOLEAN
    /\ pc \in {"browser", "unknown", "binding", "bound", "recording",
               "returned", "raised"} \cup Ends
    /\ signalled \in BOOLEAN
    /\ stage \in [Probers -> {"idle", "begun", "read", "persisting",
                              "persisted", "loaded"}]
    /\ evidence \in [Probers -> Evidence]
    /\ faults \in 0 .. MaxFaults

ClaimTrue(claim) ==
    /\ claim = "confirmed" => business = "succeeded"
    /\ claim = "failed" => business = "canceled"

\* What the row says of the PaymentIntent, in its status or in its evidence, is
\* so, although probes write what they read arbitrarily long ago over what
\* others wrote since.  FAILED is not to be relied on once a probe was told that
\* there is no such PaymentIntent (_resolve_attempt, classify_payment_intent).
RowTruthful ==
    /\ ClaimTrue(result_probe)
    /\ attempt = "confirmed" => business = "succeeded"
    /\ attempt = "failed" => business = "canceled" \/ denied

\* Once the column names the exact PaymentIntent no write takes the binding
\* back, and the executing request writes it no more: what a probe found out is
\* not overwritten by the request's own record, although neither locks the row
\* (_persist_probe_context, service.probe).
BindingKept ==
    [][result_probe \notin Unbound =>
          /\ result_probe' \notin Unbound
          /\ result_probe' # result_probe => pc = "reported"]_vars

\* An attempt whose run offers the probe and whose column leads to a
\* PaymentIntent is settled once that is: a probe repeated after failures and
\* uncertain reads is never refused, unless a pause signal hides it.
BoundSettles ==
    Offered /\ result_probe # "null" /\ business # "open"
        ~> attempt \in Verdicts \/ signalled

\* docs/architecture/agentpact-pack-runtime-execution-plan.md:272-274, after a
\* crash past the commit of EXECUTING the result probe is invoked, or the run is
\* repaired to wait for it: the UNKNOWN attempt of a crashed request is settled
\* once its PaymentIntent is, unless a pause signal hides the probe.
AmbiguousSettles ==
    pc = "crashed" /\ attempt = "unknown" /\ business # "open"
        ~> attempt \in Verdicts \/ signalled

(***************************************************************************)
(* The inductive invariant behind RowTruthful.                             *)
(***************************************************************************)

\* A verdict on its way is true for as long as it travels, only conclusive
\* evidence travels as far as the status, and an absent PaymentIntent was
\* denied.
EvidenceTruthful ==
    \A r \in Probers :
        /\ ClaimTrue(evidence[r])
        /\ evidence[r] = "absent" => denied
        /\ stage[r] \in {"persisted", "loaded"} => evidence[r] \in Conclusive

IInv == TypeOK /\ RowTruthful /\ EvidenceTruthful

(***************************************************************************)
(* The inductive invariant behind BindingKept.                             *)
(***************************************************************************)

\* Until the executing request has bound the Checkout Session, and until the
\* run has reported, nobody but it can write the column.
BoundFirst ==
    /\ pc \in {"browser", "unknown", "binding"} => result_probe = "null"
    /\ pc \in {"bound", "recording"} => result_probe = "session"
    /\ \A r \in Probers : stage[r] # "idle" => pc = "reported" /\ result_probe # "null"

=============================================================================
