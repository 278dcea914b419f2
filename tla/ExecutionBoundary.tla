-------------------------- MODULE ExecutionBoundary --------------------------
(***************************************************************************)
(* The persisted external-write boundary: single-use permits               *)
(* (governance/permit_service.py), execution attempts                      *)
(* (governance/execution_attempt_service.py), the executor that commits    *)
(* them around one browser call and the scanner that recovers what a dead  *)
(* executor left (browser_loop/persisted_executor.py), and the result probe*)
(* that settles an ambiguous attempt                                       *)
(* (domains/stripe_payment/live_browser.py, result_probe.py).              *)
(*                                                                         *)
(* Each element of Calls is one invocation of                              *)
(* PersistedBrowserExecutor.execute for an external write; a retry or a    *)
(* restarted worker is another call.  A call inserts at most one attempt,  *)
(* so attempts are indexed by the call that inserted them.                 *)
(***************************************************************************)
EXTENDS Naturals, FiniteSets

CONSTANTS
    Calls,          \* invocations of PersistedBrowserExecutor.execute
    Permits,        \* rows of execution_permits
    Keys,           \* (task_id, idempotency_key) pairs
    Bindings,       \* (action_fingerprint, observation_hash) pairs
    PermitBinding,  \* the binding each permit is issued for
    Probers,        \* concurrent result-probe requests
    Ttl,            \* life of a permit, in ticks
    MinimumAge,     \* age at which the scanner takes an attempt, in ticks
    NoCall          \* the null reference

ASSUME BindingAssumption == PermitBinding \in [Permits -> Bindings]
ASSUME TtlAssumption == Ttl \in Nat \ {0}
ASSUME MinimumAgeAssumption == MinimumAge \in Nat
ASSUME NoCallAssumption == NoCall \notin Calls

VARIABLES
    cmd,         \* the AuthorizedAction handed to each call
    pc,          \* where each call is
    permit,      \* status of each permit row
    life,        \* ticks since a permit was issued, up to Ttl + 1
    lock,        \* the call whose open transaction holds the permit row
    attempt,     \* status of the attempt row each call inserted
    age,         \* ticks since the attempt was inserted, up to MinimumAge
    browser,     \* what became of the browser submission of each call
    resource,    \* the business object each key writes
    denied,      \* keys whose object a probe was told does not exist
    probing,     \* the attempt each probe request works on
    stage,       \* how far each probe request is
    verdict      \* what a probe request under way has read

callVars == <<cmd, pc>>
permitVars == <<permit, life, lock>>
attemptVars == <<attempt, age>>
worldVars == <<browser, resource, denied>>
probeVars == <<probing, stage, verdict>>
vars == <<cmd, pc, permit, life, lock, attempt, age, browser, resource,
          denied, probing, stage, verdict>>

Commands == [permit : Permits, key : Keys, binding : Bindings]

\* "idle", then one value per commit point of execute(), then how it ended.
Stages == {"idle", "ready", "inserting", "authorized", "executing", "browser",
           "returned"}
Ends == {"pending_result_probe", "raised", "crashed"}

AttemptStatus == {"authorized", "executing", "unknown", "confirmed", "failed"}
Resolved == {"confirmed", "failed"}
Recoverable == {"authorized", "executing"}

Init ==
    /\ cmd \in [Calls -> Commands]
    /\ pc = [c \in Calls |-> "idle"]
    /\ permit = [p \in Permits |-> "none"]
    /\ life = [p \in Permits |-> 0]
    /\ lock = [p \in Permits |-> NoCall]
    /\ attempt = [c \in Calls |-> "none"]
    /\ age = [c \in Calls |-> 0]
    /\ browser = [c \in Calls |-> "none"]
    /\ resource = [k \in Keys |-> "open"]
    /\ denied = {}
    /\ probing = [r \in Probers |-> NoCall]
    /\ stage = [r \in Probers |-> "idle"]
    /\ verdict = [r \in Probers |-> "unknown"]

(***************************************************************************)
(* Permits.                                                                *)
(***************************************************************************)

\* ACTION: IssuePermit -----------------------------------------------------
\* An allow decision persists a permit bound to one action and observation.
IssuePermit(p) ==
    /\ permit[p] = "none"
    /\ permit' = [permit EXCEPT ![p] = "issued"]
    /\ UNCHANGED <<callVars, life, lock, attemptVars, worldVars, probeVars>>

Expired(p) == life[p] > Ttl

\* Every condition under which consume_permit_model returns the row.  The
\* status "expired" it writes before raising is undone by the rollback of the
\* transaction the exception leaves, so refusal changes nothing.
Consumable(c) ==
    LET p == cmd[c].permit
    IN  /\ permit[p] = "issued"
        /\ PermitBinding[p] = cmd[c].binding
        /\ ~Expired(p)

(***************************************************************************)
(* PersistedBrowserExecutor.execute.                                       *)
(***************************************************************************)

Moves(c, from, to) ==
    /\ pc[c] = from
    /\ pc' = [pc EXCEPT ![c] = to]

\* ACTION: Preflight -------------------------------------------------------
\* Staleness and profile checks, before any durable change.
Preflight(c) ==
    /\ \/ Moves(c, "idle", "ready")
       \/ Moves(c, "idle", "raised")
    /\ UNCHANGED <<cmd, permitVars, attemptVars, worldVars, probeVars>>

\* MUTANT of KeyTaken: neither the select nor the unique constraint on
\* (task_id, idempotency_key).
KeyNeverTaken(k) == FALSE

KeyTaken(k) == \E d \in Calls : attempt[d] # "none" /\ cmd[d].key = k

\* ACTION: LockPermit ------------------------------------------------------
\* Transaction A up to the insert: the permit row is locked FOR UPDATE, and
\* a key that already has an attempt, or a permit that is not available,
\* ends the call with the transaction rolled back.
LockPermit(c) ==
    LET p == cmd[c].permit
    IN  /\ lock[p] = NoCall
        /\ \/ /\ ~KeyTaken(cmd[c].key)
              /\ Consumable(c)
              /\ Moves(c, "ready", "inserting")
              /\ lock' = [lock EXCEPT ![p] = c]
           \/ /\ KeyTaken(cmd[c].key) \/ ~Consumable(c)
              /\ Moves(c, "ready", "raised")
              /\ lock' = lock
        /\ UNCHANGED <<cmd, permit, life, attemptVars, worldVars, probeVars>>

PermitSpent(p) == \E d \in Calls : attempt[d] # "none" /\ cmd[d].permit = p

\* MUTANT of Consume: the attempt is inserted but the permit stays issued.
ConsumeForgotten(p) == permit' = permit

Consume(p) == permit' = [permit EXCEPT ![p] = "consumed"]

\* ACTION: CommitAuthorized ------------------------------------------------
\* The insert and commit of transaction A.  The check for an existing attempt
\* locked no row, so another call may have inserted the key since: the two
\* unique constraints of execution_attempts then refuse this insert, and the
\* permit stays issued.
CommitAuthorized(c) ==
    LET p == cmd[c].permit
    IN  /\ lock' = [lock EXCEPT ![p] = NoCall]
        /\ \/ /\ ~KeyTaken(cmd[c].key) /\ ~PermitSpent(p)
              /\ Moves(c, "inserting", "authorized")
              /\ Consume(p)
              /\ attempt' = [attempt EXCEPT ![c] = "authorized"]
           \/ /\ KeyTaken(cmd[c].key) \/ PermitSpent(p)
              /\ Moves(c, "inserting", "raised")
              /\ UNCHANGED <<permit, attempt>>
        /\ UNCHANGED <<cmd, life, age, worldVars, probeVars>>

\* MUTANT of Transition: the committed status is not compared.
TransitionUnchecked(c, from, to, here, next) ==
    /\ attempt' = [attempt EXCEPT ![c] = to]
    /\ Moves(c, here, next)

\* The guard and write of _transition_attempt, by a call on its own attempt.
\* A status that is not the expected one raises and rolls back.
Transition(c, from, to, here, next) ==
    \/ /\ attempt[c] = from
       /\ attempt' = [attempt EXCEPT ![c] = to]
       /\ Moves(c, here, next)
    \/ /\ attempt[c] # from
       /\ attempt' = attempt
       /\ Moves(c, here, "raised")

\* ACTION: CommitExecuting -------------------------------------------------
\* Transaction B, the last commit before the browser is called.
CommitExecuting(c) ==
    /\ Transition(c, "authorized", "executing", "authorized", "executing")
    /\ UNCHANGED <<cmd, permitVars, age, worldVars, probeVars>>

\* ACTION: InvokeBrowser ---------------------------------------------------
\* execute_preflighted: the one submission of this call leaves the process.
InvokeBrowser(c) ==
    /\ Moves(c, "executing", "browser")
    /\ browser' = [browser EXCEPT ![c] = "flying"]
    /\ UNCHANGED <<cmd, permitVars, attemptVars, resource, denied, probeVars>>

\* ACTION: BrowserReturns --------------------------------------------------
\* A result or an exception: neither says whether the submission landed.
BrowserReturns(c) ==
    /\ Moves(c, "browser", "returned")
    /\ UNCHANGED <<cmd, permitVars, attemptVars, worldVars, probeVars>>

\* ACTION: CommitUnknown ---------------------------------------------------
CommitUnknown(c) ==
    /\ Transition(c, "executing", "unknown", "returned", "pending_result_probe")
    /\ UNCHANGED <<cmd, permitVars, age, worldVars, probeVars>>

\* ACTION: Crash -----------------------------------------------------------
\* The worker dies, is cancelled, or a fault hook raises.  An open
\* transaction is rolled back and its row lock released.
Crash(c) ==
    /\ pc[c] \in Stages \ {"idle"}
    /\ pc' = [pc EXCEPT ![c] = "crashed"]
    /\ lock' = [p \in Permits |-> IF lock[p] = c THEN NoCall ELSE lock[p]]
    /\ UNCHANGED <<cmd, permit, life, attemptVars, worldVars, probeVars>>

(***************************************************************************)
(* Recovery of abandoned executions.                                       *)
(***************************************************************************)

Stale(c) == attempt[c] \in Recoverable /\ age[c] >= MinimumAge

\* ACTION: RecoverAbandoned ------------------------------------------------
\* One transaction over the stale rows no other transaction has locked
\* (skip_locked), in whatever state their calls are.
RecoverAbandoned(S) ==
    /\ \A c \in S : Stale(c)
    /\ attempt' = [c \in Calls |->
                      IF c \notin S THEN attempt[c]
                      ELSE IF attempt[c] = "authorized" THEN "failed"
                      ELSE "unknown"]
    /\ UNCHANGED <<callVars, permitVars, age, worldVars, probeVars>>

(***************************************************************************)
(* The business system, which no transaction of this program covers.       *)
(***************************************************************************)

\* ACTION: SubmissionLands -------------------------------------------------
\* At any time after it left, even when the worker is long dead.
SubmissionLands(c) ==
    /\ browser[c] = "flying"
    /\ resource[cmd[c].key] = "open"
    /\ browser' = [browser EXCEPT ![c] = "landed"]
    /\ resource' = [resource EXCEPT ![cmd[c].key] = "succeeded"]
    /\ UNCHANGED <<callVars, permitVars, attemptVars, denied, probeVars>>

\* ACTION: SubmissionLost --------------------------------------------------
SubmissionLost(c) ==
    /\ browser[c] = "flying"
    /\ browser' = [browser EXCEPT ![c] = "lost"]
    /\ UNCHANGED <<callVars, permitVars, attemptVars, resource, denied, probeVars>>

\* ACTION: CancelResource --------------------------------------------------
CancelResource(k) ==
    /\ resource[k] = "open"
    /\ resource' = [resource EXCEPT ![k] = "canceled"]
    /\ UNCHANGED <<callVars, permitVars, attemptVars, browser, denied, probeVars>>

(***************************************************************************)
(* The result probe.                                                       *)
(***************************************************************************)

\* MUTANT of Classify: the business status itself is taken for a verdict.
ClassifyRaw(state) == IF state = "open" THEN "unknown" ELSE state

\* MUTANT of Classify: an undecided business object counts as not confirmed.
ClassifyEagerly(state) == IF state = "succeeded" THEN "confirmed" ELSE "failed"

\* classify_payment_intent: only a final business state yields a verdict.
Classify(state) ==
    IF state = "succeeded" THEN "confirmed"
    ELSE IF state = "canceled" THEN "failed" ELSE "unknown"

Reads(r, c, status) ==
    /\ stage[r] = "idle"
    /\ attempt[c] = "unknown"
    /\ probing' = [probing EXCEPT ![r] = c]
    /\ verdict' = [verdict EXCEPT ![r] = status]
    /\ stage' = [stage EXCEPT ![r] = "read"]
    /\ UNCHANGED <<callVars, permitVars, attemptVars, browser, resource>>

\* ACTION: ProbeRead -------------------------------------------------------
\* The attempt is UNKNOWN when the business state is read.  A read that
\* fails or finds the object undecided leaves the attempt as it is.  How the
\* request finds its business object, by what the result_probe column of the
\* attempt holds, and when its run offers the probe, is the subject of
\* ResultProbe.
ProbeRead(r, c) ==
    LET status == Classify(resource[cmd[c].key])
    IN  /\ status # "unknown"
        /\ Reads(r, c, status)
        /\ UNCHANGED denied

\* ACTION: ProbeReadAbsent -------------------------------------------------
\* A 404 counts as NOT_CONFIRMED.  Nothing ties the answer to the submission,
\* which may have landed or may land yet.
ProbeReadAbsent(r, c) ==
    /\ Reads(r, c, "failed")
    /\ denied' = denied \cup {cmd[c].key}

\* The request is over.
Leave(r) ==
    /\ stage' = [stage EXCEPT ![r] = "idle"]
    /\ probing' = [probing EXCEPT ![r] = NoCall]
    /\ verdict' = [verdict EXCEPT ![r] = "unknown"]

\* ACTION: ProbeLoad -------------------------------------------------------
\* _resolve_attempt loads the row without a lock; one that has left UNKNOWN
\* ends the request.
ProbeLoad(r) ==
    /\ stage[r] = "read"
    /\ \/ /\ attempt[probing[r]] = "unknown"
          /\ stage' = [stage EXCEPT ![r] = "loaded"]
          /\ UNCHANGED <<probing, verdict>>
       \/ /\ attempt[probing[r]] # "unknown"
          /\ Leave(r)
    /\ UNCHANGED <<callVars, permitVars, attemptVars, worldVars>>

\* ACTION: ProbeResolve ----------------------------------------------------
\* _transition_attempt selects the row FOR UPDATE in the same session.  The
\* session already holds the row, and a select does not refresh a loaded
\* object, so the status it checks is the one ProbeLoad saw: the last of two
\* probes that loaded an UNKNOWN row has its way.
ProbeResolve(r) ==
    /\ stage[r] = "loaded"
    /\ attempt' = [attempt EXCEPT ![probing[r]] = verdict[r]]
    /\ Leave(r)
    /\ UNCHANGED <<callVars, permitVars, age, worldVars>>

\* ACTION: ProbeAborts -----------------------------------------------------
\* The request fails or its process dies between two of its steps.
ProbeAborts(r) ==
    /\ stage[r] # "idle"
    /\ Leave(r)
    /\ UNCHANGED <<callVars, permitVars, attemptVars, worldVars>>

(***************************************************************************)
(* Time.                                                                   *)
(***************************************************************************)

Older(n, limit) == IF n < limit THEN n + 1 ELSE limit

\* ACTION: Tick ------------------------------------------------------------
\* Both clocks stop where no comparison in the code can tell them apart.
Tick ==
    /\ life' = [p \in Permits |->
                   IF permit[p] = "issued" THEN Older(life[p], Ttl + 1) ELSE life[p]]
    /\ age' = [c \in Calls |->
                  IF attempt[c] # "none" THEN Older(age[c], MinimumAge) ELSE age[c]]
    /\ UNCHANGED <<callVars, permit, lock, attempt, worldVars, probeVars>>

ExecutorStep(c) ==
    \/ Preflight(c)
    \/ LockPermit(c)
    \/ CommitAuthorized(c)
    \/ CommitExecuting(c)
    \/ InvokeBrowser(c)
    \/ BrowserReturns(c)
    \/ CommitUnknown(c)

ProbeStep(r) ==
    \/ \E c \in Calls : ProbeRead(r, c) \/ ProbeReadAbsent(r, c)
    \/ ProbeLoad(r)
    \/ ProbeResolve(r)
    \/ ProbeAborts(r)

Next ==
    \/ \E p \in Permits : IssuePermit(p)
    \/ \E c \in Calls : ExecutorStep(c)
    \/ \E c \in Calls : Crash(c)
    \/ \E S \in SUBSET Calls \ {{}} : RecoverAbandoned(S)
    \/ \E c \in Calls : SubmissionLands(c)
    \/ \E c \in Calls : SubmissionLost(c)
    \/ \E k \in Keys : CancelResource(k)
    \/ \E r \in Probers : ProbeStep(r)
    \/ Tick

Spec == Init /\ [][Next]_vars

-----------------------------------------------------------------------------
(***************************************************************************)
(* Properties.                                                             *)
(***************************************************************************)

TypeOK ==
    /\ cmd \in [Calls -> Commands]
    /\ pc \in [Calls -> Stages \cup Ends]
    /\ permit \in [Permits -> {"none", "issued", "consumed"}]
    /\ life \in [Permits -> 0 .. Ttl + 1]
    /\ lock \in [Permits -> Calls \cup {NoCall}]
    /\ attempt \in [Calls -> AttemptStatus \cup {"none"}]
    /\ age \in [Calls -> 0 .. MinimumAge]
    /\ browser \in [Calls -> {"none", "flying", "landed", "lost"}]
    /\ resource \in [Keys -> {"open", "succeeded", "canceled"}]
    /\ denied \subseteq Keys
    /\ probing \in [Probers -> Calls \cup {NoCall}]
    /\ stage \in [Probers -> {"idle", "read", "loaded"}]
    /\ verdict \in [Probers -> {"unknown", "confirmed", "failed"}]

\* At most one call of a (task, idempotency key) pair ever submits in the
\* browser, however many permits, retries, crashes and scans there are:
\* authorize_execution_attempt never replays an existing key.
AtMostOneSubmission ==
    \A c, d \in Calls :
        /\ cmd[c].key = cmd[d].key
        /\ browser[c] # "none"
        /\ browser[d] # "none"
        => c = d

\* A permit authorizes one attempt: consumed exactly when an attempt holds
\* it, and held by no second one (consume_permit_model, unique permit_id).
PermitSpentOnce ==
    /\ \A p \in Permits : permit[p] = "consumed" <=>
          \E c \in Calls : attempt[c] # "none" /\ cmd[c].permit = p
    /\ \A c, d \in Calls :
          /\ attempt[c] # "none" /\ attempt[d] # "none"
          /\ cmd[c].permit = cmd[d].permit
          => c = d

\* What an attempt row says of the business object.  CONFIRMED means, for ever,
\* that this call's own submission wrote it.  FAILED means that nothing has
\* written it and, the invariant being kept, nothing ever will, although the
\* scanner takes attempts of live executors, submissions land late and probes
\* act on what they read earlier; it means nothing for a key whose object a
\* probe was told does not exist (StripeApiResultProbe.probe).
TruthfulVerdict ==
    \A c \in Calls :
        /\ attempt[c] = "confirmed" => browser[c] = "landed"
        /\ attempt[c] = "failed" =>
              resource[cmd[c].key] # "succeeded" \/ cmd[c].key \in denied

\* A resolved attempt stays resolved and keeps its verdict for ever, although
\* ProbeResolve does not look at the committed status again before it writes.
\* Only the verdict of an object that was said not to exist may be revised.
VerdictFinal ==
    [][\A c \in Calls : attempt[c] \in Resolved =>
          /\ attempt'[c] \in Resolved
          /\ attempt'[c] = attempt[c] \/ cmd[c].key \in denied]_vars

(***************************************************************************)
(* The promise of the boundary, with the state of each key read off the    *)
(* attempts and submissions of the calls that used it.                     *)
(***************************************************************************)

HasAttempt(k, status) == \E c \in Calls : cmd[c].key = k /\ attempt[c] = status

Submitted == [k \in Keys |-> \E c \in Calls : cmd[c].key = k /\ browser[c] # "none"]

Outcome ==
    [k \in Keys |-> IF HasAttempt(k, "confirmed") THEN "confirmed"
                    ELSE IF HasAttempt(k, "failed") THEN "failed" ELSE "none"]

Governed == INSTANCE GovernedWrite WITH
    submitted <- Submitted, business <- resource, outcome <- Outcome

\* The boundary implements GovernedWrite: however calls, crashes, scans,
\* submissions and probes interleave, each key is written at most once and
\* gets at most one verdict, a true one, unless a probe was told that there is
\* no such object.
GovernedSpec == Governed!Spec

(***************************************************************************)
(* The inductive invariant behind the safety properties.                   *)
(***************************************************************************)

\* The unique constraint on (task_id, idempotency_key).
KeyHeldOnce ==
    \A c, d \in Calls :
        attempt[c] # "none" /\ attempt[d] # "none" /\ cmd[c].key = cmd[d].key => c = d

\* What the place of a call says of its attempt and its submission.
StageAgreement ==
    \A c \in Calls :
        /\ pc[c] \in {"idle", "ready", "inserting"} => attempt[c] = "none"
        /\ pc[c] \in {"authorized", "executing"} => attempt[c] # "none" /\ browser[c] = "none"
        /\ pc[c] = "executing" => attempt[c] # "authorized"
        /\ attempt[c] \in {"none", "authorized"} => browser[c] = "none"
        /\ attempt[c] = "authorized" => pc[c] \in {"authorized", "crashed"}

\* What an attempt and its submission say of the business object.
BusinessAgreement ==
    /\ \A c \in Calls :
          /\ browser[c] = "landed" => resource[cmd[c].key] = "succeeded"
          /\ attempt[c] = "confirmed" => browser[c] = "landed"
          /\ attempt[c] = "failed" =>
                \/ resource[cmd[c].key] = "canceled"
                \/ cmd[c].key \in denied
                \/ /\ resource[cmd[c].key] = "open"
                   /\ browser[c] = "none"
                   /\ pc[c] \in {"authorized", "raised", "crashed"}
    /\ \A k \in Keys : resource[k] = "succeeded" =>
          \E c \in Calls : cmd[c].key = k /\ browser[c] = "landed"

\* A verdict on its way to an attempt is still true, or its object still denied,
\* when it arrives.
VerdictAgreement ==
    \A r \in Probers : stage[r] # "idle" =>
        /\ probing[r] \in Calls
        /\ attempt[probing[r]] \in {"unknown", "confirmed", "failed"}
        /\ \/ verdict[r] = "confirmed" /\ resource[cmd[probing[r]].key] = "succeeded"
           \/ /\ verdict[r] = "failed"
              /\ \/ resource[cmd[probing[r]].key] = "canceled"
                 \/ cmd[probing[r]].key \in denied

IInv ==
    /\ TypeOK
    /\ KeyHeldOnce
    /\ PermitSpentOnce
    /\ StageAgreement
    /\ BusinessAgreement
    /\ VerdictAgreement

=============================================================================
