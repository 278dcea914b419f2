---------------------------- MODULE GovernedWrite ----------------------------
(***************************************************************************)
(* What the execution boundary promises of each idempotency key: the       *)
(* business write is submitted at most once, and the verdict recorded for  *)
(* the key is true of the business object and is never revised, with one   *)
(* reservation: once somebody was told that there is no such object, the   *)
(* verdict "failed" may be recorded, and revised, whatever becomes of it.  *)
(***************************************************************************)
CONSTANT Keys

VARIABLES submitted, business, denied, outcome

vars == <<submitted, business, denied, outcome>>

Init ==
    /\ submitted = [k \in Keys |-> FALSE]
    /\ business = [k \in Keys |-> "open"]
    /\ denied = {}
    /\ outcome = [k \in Keys |-> "none"]

\* The write leaves for the business system.  When the key already counts as
\* failed, the object is closed to it or was said not to exist.
Submit(k) ==
    /\ ~submitted[k]
    /\ outcome[k] = "failed" => business[k] = "canceled" \/ k \in denied
    /\ submitted' = [submitted EXCEPT ![k] = TRUE]
    /\ UNCHANGED <<business, denied, outcome>>

Succeed(k) ==
    /\ submitted[k]
    /\ outcome[k] = "none" \/ (outcome[k] = "failed" /\ k \in denied)
    /\ business[k] = "open"
    /\ business' = [business EXCEPT ![k] = "succeeded"]
    /\ UNCHANGED <<submitted, denied, outcome>>

Cancel(k) ==
    /\ business[k] = "open"
    /\ business' = [business EXCEPT ![k] = "canceled"]
    /\ UNCHANGED <<submitted, denied, outcome>>

\* Somebody is told that there is no such object, before any verdict.
Deny(k) ==
    /\ outcome[k] = "none"
    /\ denied' = denied \cup {k}
    /\ UNCHANGED <<submitted, business, outcome>>

Undecided(k) == outcome[k] = "none" \/ k \in denied

Confirm(k) ==
    /\ Undecided(k)
    /\ business[k] = "succeeded"
    /\ outcome' = [outcome EXCEPT ![k] = "confirmed"]
    /\ UNCHANGED <<submitted, business, denied>>

\* A scan may fail several keys in one transaction.
Fail(K) ==
    /\ \A k \in K : Undecided(k)
    /\ \A k \in K : business[k] = "canceled" \/ ~submitted[k] \/ k \in denied
    /\ outcome' = [k \in Keys |-> IF k \in K THEN "failed" ELSE outcome[k]]
    /\ UNCHANGED <<submitted, business, denied>>

Next ==
    \/ \E k \in Keys : Submit(k) \/ Succeed(k) \/ Cancel(k)
    \/ \E k \in Keys : Deny(k) \/ Confirm(k)
    \/ \E K \in SUBSET Keys : Fail(K)

Spec == Init /\ [][Next]_vars

=============================================================================
