SPECIFICATION FairSpec
CONSTANTS
    alice = alice
    bob = bob
    nobody = nobody
    w1 = w1
    NumTasks = 2
    NumPauses = 2
    Approvers = {alice, bob}
    Requester <- MCRequester
    Workers = {w1}
    BatchSize = 1
    ActionTtl = 1
    MaxCrashes = 1
INVARIANTS TypeOK PausesAgree
PROPERTIES DecisionFinal ResumeSpendsApproval ApprovalTakenUp ResumingStarts
CHECK_DEADLOCK FALSE
