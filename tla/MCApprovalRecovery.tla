-------------------------- MODULE MCApprovalRecovery --------------------------
EXTENDS ApprovalRecovery

CONSTANTS alice, bob, nobody, w1

\* The first task was created by an approver, the second for no user.
MCRequester == [t \in Tasks |-> IF t = 1 THEN alice ELSE nobody]
=============================================================================
