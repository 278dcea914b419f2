---------------------------- MODULE AgentRunProofs ----------------------------
(***************************************************************************)
(* Proofs about AgentRun, for every set of calls, any number of crashes    *)
(* and with or without pause signals.                                      *)
(***************************************************************************)
EXTENDS AgentRun, TLAPS

(***************************************************************************)
(* The journal and the projection.                                         *)
(***************************************************************************)

\* What an append does: the last transition is the new one, the others stay,
\* and a journal that has not ended stays replayable.
LEMMA RecordFacts ==
    ASSUME journal \in Seq(Transitions), journal # <<>>,
           NEW t \in Transitions, journal' = Append(journal, t)
    PROVE  /\ journal' \in Seq(Transitions) /\ journal' # <<>>
           /\ Latest' = t
           /\ \A x : (InJournal(x))' => InJournal(x) \/ x = t
           /\ Replayable /\ Latest \notin Terminal => Replayable'
<1>1. /\ Len(journal) \in Nat /\ Len(journal) # 0
      /\ Len(journal') = Len(journal) + 1
      /\ journal'[Len(journal) + 1] = t
      /\ \A i \in 1 .. Len(journal) : journal'[i] = journal[i]
      /\ journal' \in Seq(Transitions) /\ journal' # <<>>
  OBVIOUS
<1>2. Latest' = t
  BY <1>1 DEF Latest
<1>3. \A x : (InJournal(x))' => InJournal(x) \/ x = t
  BY <1>1 DEF InJournal
<1>4. ASSUME Replayable, Latest \notin Terminal
      PROVE  Replayable'
  BY <1>1, <1>4 DEF Replayable, Latest
<1> QED
  BY <1>1, <1>2, <1>3, <1>4

\* In a replayable journal a transition that ends the run is the last one.
LEMMA StopIsLatest ==
    ASSUME Replayable, NEW t \in Terminal, InJournal(t),
           journal \in Seq(Transitions)
    PROVE  Latest = t
<1>1. PICK i \in 1 .. Len(journal) : journal[i] = t
  BY DEF InJournal
<1>2. i = Len(journal)
  BY <1>1 DEF Replayable
<1> QED
  BY <1>1, <1>2 DEF Latest

\* The last transition is in the journal.
LEMMA LatestInJournal ==
    ASSUME journal \in Seq(Transitions), journal # <<>>
    PROVE  InJournal(Latest)
<1>1. Len(journal) \in 1 .. Len(journal)
  OBVIOUS
<1> QED
  BY <1>1 DEF InJournal, Latest

\* Without a pause signal a run that has not stopped and whose attempt is not
\* confirmed has not ended.
LEMMA NotEnded ==
    ASSUME IInv, journal # <<>>, signal = NoSignal,
           pair # "canceled" \/ attempt # "none",
           attempt \notin {"confirmed", "failed"}
    PROVE  Latest \notin Terminal
<1>1. InJournal(Latest)
  BY LatestInJournal DEF IInv, TypeOK
<1> QED
  BY <1>1 DEF IInv, JournalFollows, Unsignalled, Terminal

(***************************************************************************)
(* Steps that append nothing to the journal.                               *)
(***************************************************************************)

\* A call that begins changes nothing but itself and, to decide, takes the
\* root row.
LEMMA BeginKeeps ==
    ASSUME IInv, NEW c \in Calls,
           Create(c) \/ ApproveReads(c) \/ RejectReads(c) \/ Probe(c)
    PROVE  IInv'
<1> USE CallAssumption
        DEF IInv, TypeOK, CallsExclude, DecisionsRead, ActsApproved,
            JournalFollows, Unsignalled, UnsignalledJournalReplays, Granted,
            Creating, Deciding, Acting, Steps, GoTo, Latest, Replayable,
            InJournal, NoSignal, approvalVars, effectVars, callVars
<1>1. CASE Create(c)
  BY <1>1 DEF Create
<1>2. CASE ApproveReads(c)
  BY <1>2 DEF ApproveReads, AwaitingApproval, Unpaused, Readable, Free
<1>3. CASE RejectReads(c)
  BY <1>3 DEF RejectReads, AwaitingApproval, Unpaused, Readable, Free
<1>4. CASE Probe(c)
  BY <1>4 DEF Probe, ProbeLegal, Unknown, Unpaused, Readable
<1> QED
  BY <1>1, <1>2, <1>3, <1>4

\* The steps of an advance and of a probe around the browser and the provider
\* leave the approval and the journal alone.
LEMMA EffectKeeps ==
    ASSUME IInv, NEW c \in Calls,
           Advance(c) \/ Execute(c) \/ Submit(c) \/ Settle(c) \/
           Suspend(c) \/ Resolve(c) \/ Complete(c)
    PROVE  IInv'
<1> USE CallAssumption
        DEF IInv, TypeOK, CallsExclude, DecisionsRead, ActsApproved,
            JournalFollows, Unsignalled, UnsignalledJournalReplays, Granted,
            Creating, Deciding, Acting, Steps, GoTo, Latest, Replayable,
            InJournal, NoSignal, approvalVars, effectVars, callVars
<1>1. CASE Advance(c)
  BY <1>1 DEF Advance
<1>2. CASE Execute(c)
  BY <1>2 DEF Execute
<1>3. CASE Submit(c)
  BY <1>3 DEF Submit
<1>4. CASE Settle(c)
  BY <1>4 DEF Settle
<1>5. CASE Suspend(c)
  BY <1>5 DEF Suspend, SuspendedAs
<1>6. CASE Resolve(c)
  BY <1>6 DEF Resolve
<1>7. CASE Complete(c)
  BY <1>7 DEF Complete
<1> QED
  BY <1>1, <1>2, <1>3, <1>4, <1>5, <1>6, <1>7

\* A call that dies releases the root row; an admission writes no other row,
\* and the first transition is written on an empty journal.
LEMMA EndKeeps ==
    ASSUME IInv, NEW c \in Calls,
           Admit(c) \/ Crash(c)
    PROVE  IInv'
<1> USE CallAssumption
        DEF IInv, TypeOK, CallsExclude, DecisionsRead, ActsApproved,
            JournalFollows, Unsignalled, UnsignalledJournalReplays, Granted,
            Creating, Deciding, Acting, Steps, GoTo, Latest, Replayable,
            InJournal, NoSignal, approvalVars, effectVars, callVars
<1>1. CASE Admit(c)
  BY <1>1 DEF Admit
<1>2. CASE Crash(c)
  BY <1>2 DEF Crash
<1> QED
  BY <1>1, <1>2

\* The generic route and the clock change rows no deciding call relies on, the
\* scan moves an attempt that no probe has, and a signal is recorded once.
LEMMA EnvironmentKeeps ==
    ASSUME IInv,
           \/ \E cancel \in BOOLEAN : RecordSignal(cancel)
           \/ \E outcome \in {"approved", "rejected"} : RouteDecides(outcome)
           \/ Expire
           \/ RecoverAbandoned
           \/ UNCHANGED vars
    PROVE  IInv'
<1> USE CallAssumption
        DEF IInv, TypeOK, CallsExclude, DecisionsRead, ActsApproved,
            JournalFollows, Unsignalled, UnsignalledJournalReplays, Granted,
            Creating, Deciding, Acting, Steps, GoTo, Latest, Replayable,
            InJournal, NoSignal, approvalVars, effectVars, callVars
<1>1. CASE \E cancel \in BOOLEAN : RecordSignal(cancel)
  BY <1>1 DEF RecordSignal, Readable
<1>2. CASE \E outcome \in {"approved", "rejected"} : RouteDecides(outcome)
  BY <1>2 DEF RouteDecides
<1>3. CASE Expire
  BY <1>3 DEF Expire
<1>4. CASE RecoverAbandoned
  BY <1>4 DEF RecoverAbandoned
<1>5. CASE UNCHANGED vars
  BY <1>5 DEF vars
<1> QED
  BY <1>1, <1>2, <1>3, <1>4, <1>5

(***************************************************************************)
(* Steps that may append to the journal.                                   *)
(***************************************************************************)

\* The run's first transition.
LEMMA InitialiseKeeps ==
    ASSUME IInv, NEW c \in Calls, Initialise(c)
    PROVE  IInv'
<1>1. /\ journal' = <<"admitted">> /\ journal' \in Seq(Transitions)
      /\ journal' # <<>> /\ Latest' = "admitted"
      /\ Replayable' /\ \A x : (InJournal(x))' => x = "admitted"
  BY DEF Initialise, Latest, Replayable, InJournal, Transitions
<1> USE CallAssumption
        DEF IInv, TypeOK, CallsExclude, DecisionsRead, ActsApproved,
            JournalFollows, Unsignalled, UnsignalledJournalReplays, Granted,
            Creating, Deciding, Acting, Steps, GoTo, approvalVars, effectVars
<1>2. TypeOK'
  BY <1>1 DEF Initialise
<1>3. CallsExclude' /\ DecisionsRead'
  BY <1>1 DEF Initialise
<1>4. ActsApproved' /\ JournalFollows'
  BY <1>1 DEF Initialise
<1>5. Unsignalled'
  BY <1>1 DEF Initialise
<1> QED
  BY <1>2, <1>3, <1>4, <1>5

\* An approval is asked for on a pair that runs and has no attempt.
LEMMA AskKeeps ==
    ASSUME IInv, NEW c \in Calls, AskApproval(c)
    PROVE  IInv'
<1>1. CASE journal' = Append(journal, "approval_required") /\ Replayable
<2>1. /\ journal' \in Seq(Transitions) /\ journal' # <<>>
      /\ Latest' = "approval_required"
      /\ \A x : (InJournal(x))' => InJournal(x) \/ x = "approval_required"
      /\ Replayable /\ Latest \notin Terminal => Replayable'
  BY <1>1, RecordFacts DEF IInv, TypeOK, Transitions, Terminal, Replayable
<2>2. signal = NoSignal => Latest \notin Terminal
  BY <1>1, NotEnded
     DEF AskApproval, Pausable, IInv, ActsApproved, Replayable, Record,
         Verified
<2> USE CallAssumption
        DEF IInv, TypeOK, CallsExclude, DecisionsRead, ActsApproved,
            JournalFollows, Unsignalled, UnsignalledJournalReplays, Granted,
            Creating, Deciding, Acting, Steps, GoTo, NoSignal, approvalVars,
            effectVars, callVars
<2>3. TypeOK'
  BY <1>1, <2>1 DEF AskApproval, Pausable, Record, Verified, Free
<2>4. CallsExclude'
  BY <1>1, <2>1 DEF AskApproval, Pausable, Record, Verified, Free
<2>5. DecisionsRead'
  BY <1>1, <2>1 DEF AskApproval, Pausable, Record, Verified, Free
<2>6. ActsApproved'
  BY <1>1, <2>1 DEF AskApproval, Pausable, Record, Verified, Free
<2>7. JournalFollows'
  BY <1>1, <2>1 DEF AskApproval, Pausable, Record, Verified, Free
<2>8. Unsignalled'
  BY <1>1, <2>1, <2>2 DEF AskApproval, Pausable, Record, Verified, Free
<2> QED
  BY <2>3, <2>4, <2>5, <2>6, <2>7, <2>8
<1>2. CASE UNCHANGED <<pair, journal, action, approval>>
  BY <1>2, CallAssumption
     DEF AskApproval, IInv, TypeOK, CallsExclude, DecisionsRead,
         ActsApproved, JournalFollows, Unsignalled, UnsignalledJournalReplays,
         Granted, Creating, Deciding, Acting, Steps, GoTo, Latest,
         Replayable, InJournal, NoSignal, approvalVars, effectVars, callVars
<1> QED
  BY <1>1, <1>2 DEF AskApproval, Record, approvalVars

\* An approve that commits has read the approval under the root lock.
LEMMA ApproveKeeps ==
    ASSUME IInv, NEW c \in Calls, ApproveCommits(c)
    PROVE  IInv'
<1>1. CASE journal' = Append(journal, "approval_resumed") /\ Replayable
<2>1. /\ journal' \in Seq(Transitions) /\ journal' # <<>>
      /\ Latest' = "approval_resumed"
      /\ \A x : (InJournal(x))' => InJournal(x) \/ x = "approval_resumed"
      /\ Replayable /\ Latest \notin Terminal => Replayable'
  BY <1>1, RecordFacts DEF IInv, TypeOK, Transitions, Terminal, Replayable
<2>2. signal = NoSignal => Latest \notin Terminal
  BY <1>1, NotEnded
     DEF ApproveCommits, Resumable, IInv, DecisionsRead, ActsApproved, JournalFollows,
         Replayable, Terminal, Granted
<2> USE CallAssumption
        DEF IInv, TypeOK, CallsExclude, DecisionsRead, ActsApproved,
            JournalFollows, Unsignalled, UnsignalledJournalReplays, Granted,
            Creating, Deciding, Acting, Steps, GoTo, NoSignal, approvalVars,
            effectVars, callVars
<2>3. TypeOK'
  BY <1>1, <2>1 DEF ApproveCommits, Resumable, Record, Verified
<2>4. CallsExclude'
  BY <1>1, <2>1 DEF ApproveCommits, Resumable, Record, Verified
<2>5. DecisionsRead'
  BY <1>1, <2>1 DEF ApproveCommits, Resumable, Record, Verified
<2>6. ActsApproved'
  BY <1>1, <2>1 DEF ApproveCommits, Resumable, Record, Verified
<2>7. JournalFollows'
  BY <1>1, <2>1 DEF ApproveCommits, Resumable, Record, Verified
<2>8. Unsignalled'
  BY <1>1, <2>1, <2>2 DEF ApproveCommits, Resumable, Record, Verified
<2> QED
  BY <2>3, <2>4, <2>5, <2>6, <2>7, <2>8
<1>2. CASE UNCHANGED <<pair, journal, action, approval>>
  BY <1>2, CallAssumption
     DEF ApproveCommits, IInv, TypeOK, CallsExclude, DecisionsRead,
         ActsApproved, JournalFollows, Unsignalled, UnsignalledJournalReplays,
         Granted, Creating, Deciding, Acting, Steps, GoTo, Latest,
         Replayable, InJournal, NoSignal, approvalVars, effectVars, callVars
<1> QED
  BY <1>1, <1>2 DEF ApproveCommits, Record, approvalVars

\* So has a reject.
LEMMA RejectKeeps ==
    ASSUME IInv, NEW c \in Calls, RejectCommits(c)
    PROVE  IInv'
<1>1. CASE journal' = Append(journal, "approval_rejected") /\ Replayable
<2>1. /\ journal' \in Seq(Transitions) /\ journal' # <<>>
      /\ Latest' = "approval_rejected"
      /\ \A x : (InJournal(x))' => InJournal(x) \/ x = "approval_rejected"
      /\ Replayable /\ Latest \notin Terminal => Replayable'
  BY <1>1, RecordFacts DEF IInv, TypeOK, Transitions, Terminal, Replayable
<2>2. signal = NoSignal => Latest \notin Terminal
  BY <1>1 DEF RejectCommits, IInv, DecisionsRead, Terminal
<2> USE CallAssumption
        DEF IInv, TypeOK, CallsExclude, DecisionsRead, ActsApproved,
            JournalFollows, Unsignalled, UnsignalledJournalReplays, Granted,
            Creating, Deciding, Acting, Steps, GoTo, NoSignal, approvalVars,
            effectVars, callVars
<2>3. TypeOK'
  BY <1>1, <2>1 DEF RejectCommits, Record, Verified
<2>4. CallsExclude'
  BY <1>1, <2>1 DEF RejectCommits, Record, Verified
<2>5. DecisionsRead'
  BY <1>1, <2>1 DEF RejectCommits, Record, Verified
<2>6. ActsApproved'
  BY <1>1, <2>1 DEF RejectCommits, Record, Verified
<2>7. JournalFollows'
  BY <1>1, <2>1 DEF RejectCommits, Record, Verified
<2>8. Unsignalled'
  BY <1>1, <2>1, <2>2 DEF RejectCommits, Record, Verified
<2> QED
  BY <2>3, <2>4, <2>5, <2>6, <2>7, <2>8
<1>2. CASE UNCHANGED <<pair, journal, action, approval>>
  BY <1>2, CallAssumption
     DEF RejectCommits, IInv, TypeOK, CallsExclude, DecisionsRead,
         ActsApproved, JournalFollows, Unsignalled, UnsignalledJournalReplays,
         Granted, Creating, Deciding, Acting, Steps, GoTo, Latest,
         Replayable, InJournal, NoSignal, approvalVars, effectVars, callVars
<1> QED
  BY <1>1, <1>2 DEF RejectCommits, Record, approvalVars

\* A cancel finds a run without an effect.
LEMMA CancelKeeps ==
    ASSUME IInv, Cancel
    PROVE  IInv'
<1>1. journal # <<>> /\ journal' = Append(journal, "run_cancelled")
  BY DEF Cancel, Record, Replayable
<1>2. /\ journal' \in Seq(Transitions) /\ journal' # <<>>
      /\ Latest' = "run_cancelled"
      /\ \A x : (InJournal(x))' => InJournal(x) \/ x = "run_cancelled"
      /\ Replayable /\ Latest \notin Terminal => Replayable'
  BY <1>1, RecordFacts DEF IInv, TypeOK, Transitions, Terminal, Replayable
<1>3. signal = NoSignal => Latest \notin Terminal
  BY DEF Cancel, CancelLegal, Running, Paused, Active, NoSignal, Terminal
<1> USE CallAssumption
        DEF IInv, TypeOK, CallsExclude, DecisionsRead, ActsApproved,
            JournalFollows, Unsignalled, UnsignalledJournalReplays, Granted,
            Creating, Deciding, Acting, Steps, GoTo, NoSignal, approvalVars,
            effectVars, callVars
<1>4. TypeOK'
  BY <1>1, <1>2
     DEF Cancel, CancelLegal, Running, Paused, Active, Unpaused, Readable,
         EffectMayHaveStarted, Record, Verified, Free
<1>5. CallsExclude'
  BY <1>1, <1>2
     DEF Cancel, CancelLegal, Running, Paused, Active, Unpaused, Readable,
         EffectMayHaveStarted, Record, Verified, Free
<1>6. DecisionsRead'
  BY <1>1, <1>2
     DEF Cancel, CancelLegal, Running, Paused, Active, Unpaused, Readable,
         EffectMayHaveStarted, Record, Verified, Free
<1>7. ActsApproved'
  BY <1>1, <1>2
     DEF Cancel, CancelLegal, Running, Paused, Active, Unpaused, Readable,
         EffectMayHaveStarted, Record, Verified, Free
<1>8. JournalFollows'
  BY <1>1, <1>2
     DEF Cancel, CancelLegal, Running, Paused, Active, Unpaused, Readable,
         EffectMayHaveStarted, Record, Verified, Free
<1>9. Unsignalled'
  <2>1. signal.at # 0 \/ signal = NoSignal
    OBVIOUS
  <2>2. signal' = NoSignal => signal = NoSignal
    BY <2>1 DEF Cancel
  <2>3. signal'.at # 0 \/ signal' = NoSignal
    <3>1. CASE signal.at # 0
      BY <3>1 DEF Cancel
    <3>2. CASE signal = NoSignal
      <4>1. signal.at = 0 /\ signal.cancel = FALSE /\ signal.open = FALSE
        BY <3>2
      <4> QED
        BY <4>1, Zenon DEF Cancel
    <3> QED
      BY <2>1, <3>1, <3>2
  <2>4. signal = NoSignal => Running /\ pair = "running" /\ Replayable
    BY DEF Cancel, CancelLegal, Paused, Readable
  <2>5. signal = NoSignal => \A d \in Calls : pc[d] # "advance"
    BY <2>4
  <2> QED
    BY <1>2, <1>3, <2>2, <2>3, <2>4, <2>5 DEF Cancel, Running
<1> HIDE DEF TypeOK, CallsExclude, DecisionsRead, ActsApproved, JournalFollows,
        Unsignalled, NoSignal
<1> QED
  BY <1>4, <1>5, <1>6, <1>7, <1>8, <1>9

\* The uncertain attempt is reported.
LEMMA ReflectKeeps ==
    ASSUME IInv, NEW c \in Calls, Reflect(c)
    PROVE  IInv'
<1>1. CASE journal' = Append(journal, "probe_blocked") /\ Replayable
<2>1. /\ journal' \in Seq(Transitions) /\ journal' # <<>>
      /\ Latest' = "probe_blocked"
      /\ \A x : (InJournal(x))' => InJournal(x) \/ x = "probe_blocked"
      /\ Replayable /\ Latest \notin Terminal => Replayable'
  BY <1>1, RecordFacts DEF IInv, TypeOK, Transitions, Terminal, Replayable
<2>2. signal = NoSignal => Latest \notin Terminal
  BY <1>1, NotEnded
     DEF Reflect, IInv, ActsApproved, Acting, Replayable, Record, Verified
<2> USE CallAssumption
        DEF IInv, TypeOK, CallsExclude, DecisionsRead, ActsApproved,
            JournalFollows, Unsignalled, UnsignalledJournalReplays, Granted,
            Creating, Deciding, Acting, Steps, GoTo, NoSignal, approvalVars,
            effectVars, callVars
<2>3. TypeOK'
  BY <1>1, <2>1 DEF Reflect, Record, Verified, Free
<2>4. CallsExclude'
  BY <1>1, <2>1 DEF Reflect, Record, Verified, Free
<2>5. DecisionsRead'
  BY <1>1, <2>1 DEF Reflect, Record, Verified, Free
<2>6. ActsApproved'
  BY <1>1, <2>1 DEF Reflect, Record, Verified, Free
<2>7. JournalFollows'
  BY <1>1, <2>1 DEF Reflect, Record, Verified, Free
<2>8. Unsignalled'
  BY <1>1, <2>1, <2>2 DEF Reflect, Record, Verified, Free
<2> QED
  BY <2>3, <2>4, <2>5, <2>6, <2>7, <2>8
<1>2. CASE UNCHANGED <<pair, journal, action, approval>>
  BY <1>2, CallAssumption
     DEF Reflect, IInv, TypeOK, CallsExclude, DecisionsRead,
         ActsApproved, JournalFollows, Unsignalled, UnsignalledJournalReplays,
         Granted, Creating, Deciding, Acting, Steps, GoTo, Latest,
         Replayable, InJournal, NoSignal, approvalVars, effectVars, callVars
<1> QED
  BY <1>1, <1>2 DEF Reflect, Record, approvalVars

\* The confirmed attempt ends the plan.
LEMMA ConcludeKeeps ==
    ASSUME IInv, NEW c \in Calls, Conclude(c)
    PROVE  IInv'
<1>1. CASE journal' = Append(journal, "plan_completed") /\ Replayable
<2>1. /\ journal' \in Seq(Transitions) /\ journal' # <<>>
      /\ Latest' = "plan_completed"
      /\ \A x : (InJournal(x))' => InJournal(x) \/ x = "plan_completed"
      /\ Replayable /\ Latest \notin Terminal => Replayable'
  BY <1>1, RecordFacts DEF IInv, TypeOK, Transitions, Terminal, Replayable
<2>2. signal = NoSignal => Latest \notin Terminal
  BY <1>1 DEF Conclude, Concludes, Record, Terminal
<2> USE CallAssumption
        DEF IInv, TypeOK, CallsExclude, DecisionsRead, ActsApproved,
            JournalFollows, Unsignalled, UnsignalledJournalReplays, Granted,
            Creating, Deciding, Acting, Steps, GoTo, NoSignal, approvalVars,
            effectVars, callVars
<2>3. TypeOK'
  BY <1>1, <2>1 DEF Conclude, Concludes, Record, Verified, Free
<2>4. CallsExclude'
  BY <1>1, <2>1 DEF Conclude, Concludes, Record, Verified, Free
<2>5. DecisionsRead'
  BY <1>1, <2>1 DEF Conclude, Concludes, Record, Verified, Free
<2>6. ActsApproved'
  BY <1>1, <2>1 DEF Conclude, Concludes, Record, Verified, Free
<2>7. JournalFollows'
  BY <1>1, <2>1 DEF Conclude, Concludes, Record, Verified, Free
<2>8. Unsignalled'
  BY <1>1, <2>1, <2>2 DEF Conclude, Concludes, Record, Verified, Free
<2> QED
  BY <2>3, <2>4, <2>5, <2>6, <2>7, <2>8
<1>2. CASE UNCHANGED <<pair, journal, action, approval>>
  BY <1>2, CallAssumption
     DEF Conclude, Concludes, IInv, TypeOK, CallsExclude, DecisionsRead,
         ActsApproved, JournalFollows, Unsignalled, UnsignalledJournalReplays,
         Granted, Creating, Deciding, Acting, Steps, GoTo, Latest,
         Replayable, InJournal, NoSignal, approvalVars, effectVars, callVars
<1> QED
  BY <1>1, <1>2 DEF Conclude, Concludes, Record, approvalVars

(***************************************************************************)
(* The invariant and what follows from it.                                 *)
(***************************************************************************)

LEMMA InitKeeps == Init => IInv
<1> SUFFICES ASSUME Init PROVE IInv
  OBVIOUS
<1>1. TypeOK
  <2>1. signal \in [at : Nat, cancel : BOOLEAN, open : BOOLEAN]
    BY DEF Init, NoSignal
  <2>2. journal \in Seq(Transitions)
    BY DEF Init
  <2>3. pc \in [Calls -> Steps]
    BY DEF Init, Steps
  <2> QED
    BY <2>1, <2>2, <2>3 DEF Init, TypeOK
<1>2. CallsExclude /\ DecisionsRead /\ ActsApproved /\ JournalFollows
  BY DEF Init, CallsExclude, DecisionsRead, ActsApproved, JournalFollows,
         Creating, Deciding, Acting
<1>3. Len(journal) = 0
  BY DEF Init
<1>4. Unsignalled
  <2>1. signal = NoSignal /\ journal = <<>>
    BY DEF Init
  <2>2. \A x : ~InJournal(x)
    BY <1>3 DEF InJournal
  <2> QED
    BY <2>1, <2>2 DEF Unsignalled, UnsignalledJournalReplays
<1> QED
  BY <1>1, <1>2, <1>4 DEF IInv

LEMMA StepKeeps == IInv /\ [Next]_vars => IInv'
<1> SUFFICES ASSUME IInv, [Next]_vars PROVE IInv'
  OBVIOUS
<1>1. ASSUME NEW c \in Calls, Begin(c) PROVE IInv'
  BY <1>1, BeginKeeps DEF Begin
<1>2. ASSUME NEW c \in Calls, Crash(c) PROVE IInv'
  BY <1>2, EndKeeps
<1>3. ASSUME NEW c \in Calls, Proceed(c) PROVE IInv'
  BY <1>3, EffectKeeps, EndKeeps, InitialiseKeeps, AskKeeps, ApproveKeeps,
     RejectKeeps, ReflectKeeps, ConcludeKeeps DEF Proceed
<1>4. CASE Cancel
  BY <1>4, CancelKeeps
<1> QED
  BY <1>1, <1>2, <1>3, <1>4, EnvironmentKeeps DEF Next

\* The rows of a run keep their types (the models and the status columns of
\* agent_runs, approval and execution).
THEOREM TypeCorrect == Spec => []TypeOK
<1>1. IInv => TypeOK
  BY DEF IInv
<1> QED
  BY <1>1, InitKeeps, StepKeeps, PTL DEF Spec

\* The browser has submitted only if the approval request is approved and the
\* pending action spent, for any number of concurrent calls and crashes
\* (service.approve, service.reject, the generic approval route).
THEOREM ApprovedBeforeSubmitting == Spec => []SubmittedWasApproved
<1>1. IInv => SubmittedWasApproved
  BY DEF IInv, ActsApproved, SubmittedWasApproved
<1> QED
  BY <1>1, InitKeeps, StepKeeps, PTL DEF Spec

\* Without a pause signal a rejected or canceled run has no attempt and never
\* gets one (service.cancel, service.reject against the advance of approve).
THEOREM StopHolds == Spec => []UnsignalledStopHolds
<1>1. IInv => UnsignalledStopHolds
  BY DEF IInv, Unsignalled, UnsignalledJournalReplays, UnsignalledStopHolds,
         StoppedNeverActs
<1> QED
  BY <1>1, InitKeeps, StepKeeps, PTL DEF Spec

\* Without a pause signal every journal the commands produce is one that
\* replay_plan_journal accepts.
THEOREM JournalReplays == Spec => []UnsignalledJournalReplays
<1>1. IInv => UnsignalledJournalReplays
  BY DEF IInv, Unsignalled
<1> QED
  BY <1>1, InitKeeps, StepKeeps, PTL DEF Spec

\* An uncertain attempt gets its verdict only when the journal has reported it
\* (service.probe, m10_runtime._probe_live_run).
THEOREM VerdictAfterReport == Spec => VerdictFollowsReport
<1>1. ASSUME IInv, [Next]_vars, attempt = "unknown", attempt' # "unknown"
      PROVE  Latest = "probe_blocked"
  <2>1. PICK c \in Calls : Resolve(c)
    BY <1>1
       DEF Next, Begin, Proceed, vars, Create, ApproveReads, RejectReads, Probe,
           Admit, Initialise, AskApproval, ApproveCommits, RejectCommits, Advance,
           Execute, Submit, Settle, Suspend, Reflect, Complete, Conclude, Crash,
           Cancel, RecordSignal, RouteDecides, Expire, RecoverAbandoned, effectVars
  <2> QED
    BY <1>1, <2>1 DEF Resolve, IInv, JournalFollows
<1>2. IInv /\ [Next]_vars =>
        [attempt = "unknown" /\ attempt' # "unknown" => Latest = "probe_blocked"]_vars
  BY <1>1
<1> QED
  BY <1>2, InitKeeps, StepKeeps, PTL DEF Spec, VerdictFollowsReport

(***************************************************************************)
(* A conflict of journal and rows has a cause.                             *)
(***************************************************************************)

\* A call that begins has no effect yet.
LEMMA BeginCauses ==
    ASSUME IInv, CauseInv, NEW c \in Calls,
           Create(c) \/ ApproveReads(c) \/ RejectReads(c) \/ Probe(c)
    PROVE  CauseInv'
<1> SUFFICES OneAdvance' /\ RowsFollow' /\ EffectsInHand'
  BY DEF CauseInv
<1>0. /\ IInv /\ OneAdvance /\ RowsFollow /\ EffectsInHand
      /\ Latest' = Latest /\ UNCHANGED journal
  BY DEF CauseInv, Latest, Create, ApproveReads, RejectReads, Probe
<1> USE CallAssumption
        DEF TypeOK, ActsApproved, JournalFollows, OneAdvance, RowsFollow,
            EffectsInHand, Advancing, Effecting, Acting, GoTo
<1>1. CASE Create(c)
  BY <1>0, <1>1 DEF Create, IInv, approvalVars, effectVars, callVars
<1>2. CASE ApproveReads(c)
  BY <1>0, <1>2 DEF ApproveReads, IInv, approvalVars, effectVars, callVars
<1>3. CASE RejectReads(c)
  BY <1>0, <1>3 DEF RejectReads, IInv, approvalVars, effectVars, callVars
<1>4. CASE Probe(c)
  BY <1>0, <1>4 DEF Probe, IInv, approvalVars, effectVars, callVars
<1> HIDE DEF OneAdvance, RowsFollow, EffectsInHand
<1> QED
  BY <1>1, <1>2, <1>3, <1>4

\* An effect stays in the hands of the call that has it until it is reported,
\* or the attempt has failed.
LEMMA EffectCauses ==
    ASSUME IInv, CauseInv, NEW c \in Calls,
           \/ Advance(c) \/ Execute(c) \/ Submit(c) \/ Settle(c)
           \/ Suspend(c) \/ Resolve(c) \/ Complete(c)
    PROVE  CauseInv'
<1> SUFFICES OneAdvance' /\ RowsFollow' /\ EffectsInHand'
  BY DEF CauseInv
<1>0. /\ IInv /\ OneAdvance /\ RowsFollow /\ EffectsInHand
      /\ Latest' = Latest /\ UNCHANGED journal
  BY DEF CauseInv, Latest, Advance, Execute, Submit, Settle, Suspend, Resolve,
         Complete
<1> USE CallAssumption
        DEF TypeOK, ActsApproved, JournalFollows, OneAdvance, RowsFollow,
            EffectsInHand, Advancing, Effecting, Acting, GoTo
<1>1. CASE Advance(c)
  BY <1>0, <1>1 DEF Advance, IInv, approvalVars, effectVars, callVars
<1>2. CASE Execute(c)
  BY <1>0, <1>2 DEF Execute, IInv, approvalVars, effectVars, callVars
<1>3. CASE Submit(c)
  BY <1>0, <1>3 DEF Submit, IInv, approvalVars, effectVars, callVars
<1>4. CASE Settle(c)
  BY <1>0, <1>4 DEF Settle, IInv, approvalVars, effectVars, callVars
<1>5. CASE Suspend(c)
  BY <1>0, <1>5 DEF Suspend, IInv, SuspendedAs, approvalVars, effectVars, callVars
<1>6. CASE Resolve(c)
  BY <1>0, <1>6 DEF Resolve, IInv, approvalVars, effectVars, callVars
<1>7. CASE Complete(c)
  BY <1>0, <1>7 DEF Complete, IInv, approvalVars, effectVars, callVars
<1> HIDE DEF OneAdvance, RowsFollow, EffectsInHand
<1> QED
  BY <1>1, <1>2, <1>3, <1>4, <1>5, <1>6, <1>7

\* A call that dies is a cause itself.
LEMMA EndCauses ==
    ASSUME IInv, CauseInv, NEW c \in Calls,
           Admit(c) \/ Crash(c)
    PROVE  CauseInv'
<1> SUFFICES OneAdvance' /\ RowsFollow' /\ EffectsInHand'
  BY DEF CauseInv
<1>0. /\ IInv /\ OneAdvance /\ RowsFollow /\ EffectsInHand
      /\ Latest' = Latest /\ UNCHANGED journal
  BY DEF CauseInv, Latest, Admit, Crash
<1> USE CallAssumption
        DEF TypeOK, ActsApproved, JournalFollows, OneAdvance, RowsFollow,
            EffectsInHand, Advancing, Effecting, Acting, GoTo
<1>1. CASE Admit(c)
  BY <1>0, <1>1 DEF Admit, IInv, approvalVars, effectVars, callVars
<1>2. CASE Crash(c)
  BY <1>0, <1>2 DEF Crash, IInv, approvalVars, effectVars, callVars
<1> HIDE DEF OneAdvance, RowsFollow, EffectsInHand
<1> QED
  BY <1>1, <1>2

\* A signal is a cause itself; the scan and the generic route are where they fail
\* an attempt or reject the approval.
LEMMA EnvironmentCauses ==
    ASSUME IInv, CauseInv,
           \/ \E cancel \in BOOLEAN : RecordSignal(cancel)
           \/ \E outcome \in {"approved", "rejected"} : RouteDecides(outcome)
           \/ Expire \/ RecoverAbandoned \/ UNCHANGED vars
    PROVE  CauseInv'
<1> SUFFICES OneAdvance' /\ RowsFollow' /\ EffectsInHand'
  BY DEF CauseInv
<1>0. /\ IInv /\ OneAdvance /\ RowsFollow /\ EffectsInHand
      /\ Latest' = Latest /\ UNCHANGED journal
  BY DEF CauseInv, Latest, RecordSignal, RouteDecides, Expire, RecoverAbandoned,
         vars
<1> USE CallAssumption
        DEF TypeOK, ActsApproved, JournalFollows, OneAdvance, RowsFollow,
            EffectsInHand, Advancing, Effecting, Acting, GoTo
<1>1. CASE \E cancel \in BOOLEAN : RecordSignal(cancel)
  BY <1>0, <1>1
     DEF RecordSignal, NoSignal, IInv, approvalVars, effectVars, callVars
<1>2. CASE \E outcome \in {"approved", "rejected"} : RouteDecides(outcome)
  BY <1>0, <1>2 DEF RouteDecides, IInv, approvalVars, effectVars, callVars
<1>3. CASE Expire
  BY <1>0, <1>3 DEF Expire, IInv, approvalVars, effectVars, callVars
<1>4. CASE RecoverAbandoned
  BY <1>0, <1>4 DEF RecoverAbandoned, IInv, approvalVars, effectVars, callVars
<1>5. CASE UNCHANGED vars
  BY <1>0, <1>5 DEF vars, IInv, approvalVars, effectVars, callVars
<1> HIDE DEF OneAdvance, RowsFollow, EffectsInHand
<1> QED
  BY <1>1, <1>2, <1>3, <1>4, <1>5

\* An approval is asked for before anything has an effect.
LEMMA AskCauses ==
    ASSUME IInv, CauseInv, NEW c \in Calls, AskApproval(c)
    PROVE  CauseInv'
<1> SUFFICES OneAdvance' /\ RowsFollow' /\ EffectsInHand'
  BY DEF CauseInv
<1>0. IInv /\ OneAdvance /\ RowsFollow /\ EffectsInHand
  BY DEF CauseInv
<1>1. CASE journal' = Append(journal, "approval_required") /\ Replayable
  <2>1. journal # <<>> /\ journal' # <<>> /\ Latest' = "approval_required"
    BY <1>1, RecordFacts DEF IInv, TypeOK, Transitions, Terminal, Replayable
  <2> USE CallAssumption
          DEF TypeOK, ActsApproved, JournalFollows, OneAdvance, RowsFollow,
              EffectsInHand, Advancing, Effecting, Acting, GoTo
  <2> QED
    BY <1>0, <1>1, <2>1
       DEF AskApproval, Pausable, IInv, approvalVars, effectVars, callVars
<1>2. CASE UNCHANGED <<pair, journal, action, approval>>
  <2>1. Latest' = Latest
    BY <1>2 DEF Latest
  <2> USE CallAssumption
          DEF TypeOK, ActsApproved, JournalFollows, OneAdvance, RowsFollow,
              EffectsInHand, Advancing, Effecting, Acting, GoTo
  <2> QED
    BY <1>0, <1>2, <2>1 DEF AskApproval, IInv, approvalVars, effectVars, callVars
<1> QED
  BY <1>1, <1>2 DEF AskApproval, Record, approvalVars

\* An approve that commits finds no advance: the approval is not spent yet.
LEMMA ApproveCauses ==
    ASSUME IInv, CauseInv, NEW c \in Calls, ApproveCommits(c)
    PROVE  CauseInv'
<1> SUFFICES OneAdvance' /\ RowsFollow' /\ EffectsInHand'
  BY DEF CauseInv
<1>0. IInv /\ OneAdvance /\ RowsFollow /\ EffectsInHand
  BY DEF CauseInv
<1>1. CASE journal' = Append(journal, "approval_resumed") /\ Replayable
  <2>1. journal # <<>> /\ journal' # <<>> /\ Latest' = "approval_resumed"
    BY <1>1, RecordFacts DEF IInv, TypeOK, Transitions, Terminal, Replayable
  <2> USE CallAssumption
          DEF TypeOK, ActsApproved, JournalFollows, OneAdvance, RowsFollow,
              EffectsInHand, Advancing, Effecting, Acting, GoTo
  <2> QED
    BY <1>0, <1>1, <2>1
       DEF ApproveCommits, Resumable, IInv, DecisionsRead, Granted, approvalVars,
           effectVars, callVars
<1>2. CASE GoTo(c, "idle") /\ UNCHANGED <<pair, journal, action, approval>>
  <2>1. Latest' = Latest
    BY <1>2 DEF Latest
  <2> USE CallAssumption
          DEF TypeOK, ActsApproved, JournalFollows, OneAdvance, RowsFollow,
              EffectsInHand, Advancing, Effecting, Acting, GoTo
  <2> QED
    BY <1>0, <1>2, <2>1 DEF ApproveCommits, IInv, approvalVars, effectVars, callVars
<1> QED
  BY <1>1, <1>2 DEF ApproveCommits, Record, approvalVars

\* A reject leaves the rows as the journal says.
LEMMA RejectCauses ==
    ASSUME IInv, CauseInv, NEW c \in Calls, RejectCommits(c)
    PROVE  CauseInv'
<1> SUFFICES OneAdvance' /\ RowsFollow' /\ EffectsInHand'
  BY DEF CauseInv
<1>0. IInv /\ OneAdvance /\ RowsFollow /\ EffectsInHand
  BY DEF CauseInv
<1>1. CASE journal' = Append(journal, "approval_rejected") /\ Replayable
  <2>1. journal # <<>> /\ journal' # <<>> /\ Latest' = "approval_rejected"
    BY <1>1, RecordFacts DEF IInv, TypeOK, Transitions, Terminal, Replayable
  <2> USE CallAssumption
          DEF TypeOK, ActsApproved, JournalFollows, OneAdvance, RowsFollow,
              EffectsInHand, Advancing, Effecting, Acting, GoTo
  <2> QED
    BY <1>0, <1>1, <2>1
       DEF RejectCommits, IInv, DecisionsRead, approvalVars, effectVars, callVars
<1>2. CASE UNCHANGED <<pair, journal, action, approval>>
  <2>1. Latest' = Latest
    BY <1>2 DEF Latest
  <2> USE CallAssumption
          DEF TypeOK, ActsApproved, JournalFollows, OneAdvance, RowsFollow,
              EffectsInHand, Advancing, Effecting, Acting, GoTo
  <2> QED
    BY <1>0, <1>2, <2>1 DEF RejectCommits, IInv, approvalVars, effectVars, callVars
<1> QED
  BY <1>1, <1>2 DEF RejectCommits, Record, approvalVars

\* A cancel finds no effect.
LEMMA CancelCauses ==
    ASSUME IInv, CauseInv, Cancel
    PROVE  CauseInv'
<1> SUFFICES OneAdvance' /\ RowsFollow' /\ EffectsInHand'
  BY DEF CauseInv
<1>0. IInv /\ OneAdvance /\ RowsFollow /\ EffectsInHand
  BY DEF CauseInv
<1>1. CASE journal' = Append(journal, "run_cancelled") /\ Replayable
  <2>1. journal # <<>> /\ journal' # <<>> /\ Latest' = "run_cancelled"
    BY <1>1, RecordFacts DEF IInv, TypeOK, Transitions, Terminal, Replayable
  <2> USE CallAssumption
          DEF TypeOK, ActsApproved, JournalFollows, OneAdvance, RowsFollow,
              EffectsInHand, Advancing, Effecting, Acting, GoTo
  <2> QED
    BY <1>0, <1>1, <2>1
       DEF Cancel, CancelLegal, EffectMayHaveStarted, Running, Paused, Unpaused,
           Readable, NoSignal, IInv, approvalVars, effectVars, callVars
<1> QED
  BY <1>1 DEF Cancel, Record

\* The call that advanced reports the uncertain attempt, unless the journal cannot
\* be replayed.
LEMMA ReflectCauses ==
    ASSUME IInv, CauseInv, NEW c \in Calls, Reflect(c)
    PROVE  CauseInv'
<1> SUFFICES OneAdvance' /\ RowsFollow' /\ EffectsInHand'
  BY DEF CauseInv
<1>0. IInv /\ OneAdvance /\ RowsFollow /\ EffectsInHand
  BY DEF CauseInv
<1>1. CASE journal' = Append(journal, "probe_blocked") /\ Replayable
  <2>1. journal # <<>> /\ journal' # <<>> /\ Latest' = "probe_blocked"
    BY <1>1, RecordFacts DEF IInv, TypeOK, Transitions, Terminal, Replayable
  <2> USE CallAssumption
          DEF TypeOK, ActsApproved, JournalFollows, OneAdvance, RowsFollow,
              EffectsInHand, Advancing, Effecting, Acting, GoTo
  <2> QED
    BY <1>0, <1>1, <2>1
       DEF Reflect, Record, Verified, IInv, approvalVars, effectVars, callVars
<1>2. CASE UNCHANGED <<pair, journal, action, approval>>
  <2>1. Latest' = Latest
    BY <1>2 DEF Latest
  <2>2. crashes = 0 /\ signal = NoSignal /\ journal # <<>> => FALSE
    <3>1. journal' = journal => ~(Replayable /\ Verified("probe_blocked", pair))
      <4>1. journal \in Seq(Transitions) => Append(journal, "probe_blocked") # journal
        OBVIOUS
      <4> QED
        BY <1>0, <4>1 DEF Reflect, Record, IInv, TypeOK
    <3> QED
      BY <1>0, <1>2, <3>1 DEF Reflect, Verified, IInv, Unsignalled,
         UnsignalledJournalReplays, OneAdvance
  <2> USE CallAssumption
          DEF TypeOK, ActsApproved, JournalFollows, OneAdvance, RowsFollow,
              EffectsInHand, Advancing, Effecting, Acting, GoTo
  <2> QED
    BY <1>0, <1>2, <2>1, <2>2 DEF Reflect, IInv, approvalVars, effectVars, callVars
<1> QED
  BY <1>1, <1>2 DEF Reflect, Record, approvalVars

\* The probe that confirmed the attempt, or another one, ends the plan.
LEMMA ConcludeCauses ==
    ASSUME IInv, CauseInv, NEW c \in Calls, Conclude(c)
    PROVE  CauseInv'
<1> SUFFICES OneAdvance' /\ RowsFollow' /\ EffectsInHand'
  BY DEF CauseInv
<1>0. IInv /\ OneAdvance /\ RowsFollow /\ EffectsInHand
  BY DEF CauseInv
<1>1. CASE journal' = Append(journal, "plan_completed") /\ Replayable
  <2>1. journal # <<>> /\ journal' # <<>> /\ Latest' = "plan_completed"
    BY <1>1, RecordFacts DEF IInv, TypeOK, Transitions, Terminal, Replayable
  <2> USE CallAssumption
          DEF TypeOK, ActsApproved, JournalFollows, OneAdvance, RowsFollow,
              EffectsInHand, Advancing, Effecting, Acting, GoTo
  <2> QED
    BY <1>0, <1>1, <2>1
       DEF Conclude, Concludes, Record, Verified, IInv, approvalVars, effectVars,
           callVars
<1>2. CASE UNCHANGED <<pair, journal, action, approval>>
  <2>1. Latest' = Latest
    BY <1>2 DEF Latest
  <2>2. signal = NoSignal /\ journal # <<>> => ~(Latest = "probe_blocked" /\ attempt = "confirmed")
    <3>1. journal' = journal => ~Concludes
      <4>1. journal \in Seq(Transitions) => Append(journal, "plan_completed") # journal
        OBVIOUS
      <4> QED
        BY <1>0, <4>1 DEF Conclude, Record, IInv, TypeOK
    <3> QED
      BY <1>0, <1>2, <3>1 DEF Conclude, Concludes, Verified, IInv, Unsignalled,
         UnsignalledJournalReplays, OneAdvance
  <2> USE CallAssumption
          DEF TypeOK, ActsApproved, JournalFollows, OneAdvance, RowsFollow,
              EffectsInHand, Advancing, Effecting, Acting, GoTo
  <2> QED
    BY <1>0, <1>2, <2>1, <2>2 DEF Conclude, IInv, approvalVars, effectVars, callVars
<1> QED
  BY <1>1, <1>2 DEF Conclude, Concludes, Record, approvalVars

\* The first transition finds no call that advances.
LEMMA InitialiseCauses ==
    ASSUME IInv, CauseInv, NEW c \in Calls, Initialise(c)
    PROVE  CauseInv'
<1>1. journal' = <<"admitted">> /\ Latest' = "admitted" /\ pair' = "running"
  BY DEF Initialise, Latest
<1>2. pair = "none" /\ action = "none" /\ attempt = "none"
  BY DEF Initialise, IInv, CallsExclude, ActsApproved
<1>3. \A d \in Calls : pc[d] \notin Advancing \cup {"complete", "conclude"}
  BY <1>2 DEF IInv, ActsApproved, Acting, Advancing, Effecting
<1>4. \A d \in Calls : pc'[d] \notin Advancing \cup {"complete", "conclude"}
  BY <1>3, CallAssumption DEF Initialise, GoTo, IInv, TypeOK, Advancing, Effecting
<1>5. OneAdvance'
  BY <1>4 DEF OneAdvance, Advancing, Effecting
<1>6. RowsFollow' /\ EffectsInHand'
  BY <1>1, <1>2 DEF Initialise, RowsFollow, EffectsInHand, approvalVars, effectVars
<1> QED
  BY <1>5, <1>6 DEF CauseInv

LEMMA CauseStep == IInv /\ CauseInv /\ [Next]_vars => CauseInv'
<1> SUFFICES ASSUME IInv, CauseInv, [Next]_vars PROVE CauseInv'
  OBVIOUS
<1>1. ASSUME NEW c \in Calls, Begin(c) PROVE CauseInv'
  BY <1>1, BeginCauses DEF Begin
<1>2. ASSUME NEW c \in Calls, Crash(c) PROVE CauseInv'
  BY <1>2, EndCauses
<1>3. ASSUME NEW c \in Calls, Proceed(c) PROVE CauseInv'
  BY <1>3, EffectCauses, EndCauses, InitialiseCauses, AskCauses, ApproveCauses,
     RejectCauses, ReflectCauses, ConcludeCauses DEF Proceed
<1>4. CASE Cancel
  BY <1>4, CancelCauses
<1> QED
  BY <1>1, <1>2, <1>3, <1>4, EnvironmentCauses DEF Next

\* Every projection that is readable and has none of the causes is one of the
\* legal ones, by what the journal says last.
LEMMA CausesSuffice ==
    ASSUME IInv, CauseInv, Readable, signal = NoSignal, crashes = 0, ~Busy,
           approval # "rejected", attempt # "failed"
    PROVE  \/ Succeeded \/ Unknown \/ Cancelled
           \/ AwaitingApproval \/ ApprovalRecorded \/ Running
<1>1. Unpaused /\ journal # <<>> /\ Replayable
  BY DEF Readable, Unpaused, Replayable, NoSignal
<1>2. InJournal(Latest) /\ Latest \in Transitions
  <2>1. journal \in Seq(Transitions)
    BY DEF IInv, TypeOK
  <2>2. Len(journal) \in 1 .. Len(journal)
    BY <1>1, <2>1
  <2> QED
    BY <1>1, <2>1, <2>2, LatestInJournal DEF Latest
<1> USE <1>1 DEF CauseInv, RowsFollow, EffectsInHand
<1>3. CASE Latest = "admitted"
  BY <1>3 DEF Running, Active, IInv, ActsApproved
<1>4. CASE Latest = "approval_required"
  <2>1. action \in {"pending", "approved"} /\ attempt = "none" /\ pair = "pending_approval"
    BY <1>4 DEF IInv, ActsApproved
  <2> QED
    BY <1>4, <2>1 DEF AwaitingApproval, ApprovalRecorded
<1>5. CASE Latest = "approval_resumed"
  <2>1. attempt = "none"
    BY <1>5 DEF Busy, Effecting
  <2> QED
    BY <1>5, <2>1 DEF Running, Active
<1>6. CASE Latest = "probe_blocked"
  <2>1. attempt = "unknown" /\ pair = "pending_result_probe"
    BY <1>6 DEF Busy
  <2> QED
    BY <1>6, <2>1 DEF Unknown
<1>7. CASE Latest = "approval_rejected"
  BY <1>7
<1>8. CASE Latest = "run_cancelled"
  BY <1>2, <1>8 DEF Cancelled, IInv, Unsignalled
<1>9. CASE Latest = "plan_completed"
  BY <1>9 DEF Succeeded
<1> QED
  BY <1>2, <1>3, <1>4, <1>5, <1>6, <1>7, <1>8, <1>9 DEF Transitions, Terminal

\* A projection is a STATE_CONFLICT only while some call is between two of its
\* transactions, or for a cause the journal has no transition for
\* (_project_locked against the commands of the service).
THEOREM ConflictsHaveCauses == Spec => []ConflictHasCause
<1>1. Init => CauseInv
  BY DEF Init, CauseInv, OneAdvance, RowsFollow, EffectsInHand, Advancing, Effecting
<1>2. IInv /\ CauseInv => ConflictHasCause
  <2> SUFFICES ASSUME IInv, CauseInv, Conflict, ~Busy, ~(crashes > 0),
                      approval # "rejected", attempt # "failed", signal = NoSignal
               PROVE  FALSE
    BY DEF ConflictHasCause
  <2>1. crashes = 0
    BY DEF IInv, TypeOK
  <2> QED
    BY <2>1, CausesSuffice DEF Conflict
<1> QED
  BY <1>1, <1>2, InitKeeps, StepKeeps, CauseStep, PTL DEF Spec

(***************************************************************************)
(* The refinement of RunLifecycle.                                         *)
(***************************************************************************)

\* The phase after a transition is that transition.
LEMMA Recorded ==
    ASSUME IInv, Replayable, NEW t \in Transitions, journal' = Append(journal, t)
    PROVE  /\ journal # <<>> /\ journal' # <<>>
           /\ Phase = Latest /\ Latest' = t /\ Phase' = t
<1>1. journal # <<>> /\ journal \in Seq(Transitions)
  BY DEF Replayable, IInv, TypeOK
<1> QED
  BY <1>1, RecordFacts DEF Phase

\* What keeps the journal keeps the phase.
LEMMA Unrecorded ==
    ASSUME journal' = journal
    PROVE  Phase' = Phase /\ Latest' = Latest /\ (journal' # <<>> <=> journal # <<>>)
  BY DEF Phase, Latest

\* A step that keeps journal, attempt, submission and signal is none of the
\* lifecycle.
LEMMA Stutters ==
    ASSUME UNCHANGED <<journal, attempt, submitted, signal>>
    PROVE  UNCHANGED Lifecycle!vars
  BY Unrecorded DEF Effect, Lifecycle!vars

\* The start of a call and its end keep what the refinement needs.
LEMMA CallLifecycle ==
    ASSUME IInv, LifecycleInv, NEW c \in Calls,
           Begin(c) \/ Admit(c) \/ Crash(c)
    PROVE  LifecycleInv' /\ [Lifecycle!Next]_(Lifecycle!vars)
<1>1. UNCHANGED <<journal, pair, attempt, submitted, signal>>
  BY DEF Begin, Create, ApproveReads, RejectReads, Probe, Admit, Crash, effectVars
<1>2. \A d \in Calls : pc'[d] \in Advancing => pc[d] = pc'[d]
  BY DEF Begin, Create, ApproveReads, RejectReads, Probe, Admit, Crash, GoTo,
         Advancing, Effecting, IInv, TypeOK
<1>3. LifecycleInv'
  BY <1>1, <1>2, Unrecorded
     DEF LifecycleInv, PairPhase, AdvanceUnderway, SubmitsOnce, Advancing, Effecting
<1> QED
  BY <1>1, <1>3, Stutters

\* The environment: a signal is one of the lifecycle, and the scan gives up
\* what has not been submitted or loses sight of the rest.
LEMMA EnvironmentLifecycle ==
    ASSUME IInv, CauseInv, LifecycleInv,
           \/ \E cancel \in BOOLEAN : RecordSignal(cancel)
           \/ \E outcome \in {"approved", "rejected"} : RouteDecides(outcome)
           \/ Expire \/ RecoverAbandoned \/ UNCHANGED vars
    PROVE  LifecycleInv' /\ [Lifecycle!Next]_(Lifecycle!vars)
<1>1. UNCHANGED <<journal, pair, submitted, pc>>
  BY DEF RecordSignal, RouteDecides, Expire, RecoverAbandoned, effectVars, callVars, vars
<1>2. signal # NoSignal => signal' # NoSignal
  BY DEF RecordSignal, RouteDecides, Expire, RecoverAbandoned, vars
<1>3. attempt' \in {"none", "authorized"} => attempt' = attempt
  BY DEF RecordSignal, RouteDecides, Expire, RecoverAbandoned, effectVars, vars
<1>4. LifecycleInv'
  BY <1>1, <1>2, <1>3, Unrecorded
     DEF LifecycleInv, PairPhase, AdvanceUnderway, SubmitsOnce
<1>5. CASE \E cancel \in BOOLEAN : RecordSignal(cancel)
  <2>1. journal # <<>> /\ signal = NoSignal /\ UNCHANGED <<journal, attempt, submitted>>
    BY <1>5 DEF RecordSignal, Readable, Replayable, effectVars
  <2>2. signal' # NoSignal
    <3>1. Len(journal) # 0
      BY <2>1 DEF IInv, TypeOK
    <3> QED
      BY <1>5, <3>1 DEF RecordSignal, NoSignal
  <2>3. Phase # "new" /\ Effect' = Effect /\ Phase' = Phase
    <3>1. Latest \in Transitions
      BY <2>1 DEF IInv, TypeOK, Latest
    <3> QED
      BY <2>1, <3>1, Unrecorded DEF Phase, Effect, Transitions, Terminal
  <2> QED
    BY <1>4, <2>1, <2>2, <2>3 DEF Lifecycle!Next, Lifecycle!Signal
<1>6. CASE RecoverAbandoned
  <2>1. Phase' = Phase /\ UNCHANGED <<submitted, signal>>
    BY <1>1, <1>6, Unrecorded DEF RecoverAbandoned
  <2>2. CASE attempt = "authorized"
    <3>1. Effect = "begun" /\ Effect' = "failed" /\ ~submitted
      BY <1>6, <2>2 DEF RecoverAbandoned, Effect, LifecycleInv, SubmitsOnce
    <3> QED
      BY <1>4, <2>1, <3>1 DEF Lifecycle!Next, Lifecycle!GiveUp, Lifecycle!Becomes
  <2>3. CASE attempt = "executing"
    <3>1. Effect = "begun" /\ Effect' = "unknown"
      BY <1>6, <2>3 DEF RecoverAbandoned, Effect
    <3> QED
      BY <1>4, <2>1, <3>1 DEF Lifecycle!Next, Lifecycle!LoseSight, Lifecycle!Becomes
  <2> QED
    BY <1>6, <2>2, <2>3 DEF RecoverAbandoned
<1>7. CASE \/ \E outcome \in {"approved", "rejected"} : RouteDecides(outcome)
           \/ Expire \/ UNCHANGED vars
  <2>1. UNCHANGED <<journal, attempt, submitted, signal>>
    BY <1>7 DEF RouteDecides, Expire, effectVars, vars
  <2> QED
    BY <1>4, <2>1, Stutters
<1> QED
  BY <1>5, <1>6, <1>7

\* The steps of an advance take place while the effect may.
LEMMA EffectLifecycle ==
    ASSUME IInv, CauseInv, LifecycleInv, NEW c \in Calls,
           Advance(c) \/ Execute(c) \/ Submit(c) \/ Settle(c) \/ Suspend(c)
    PROVE  LifecycleInv' /\ [Lifecycle!Next]_(Lifecycle!vars)
<1>1. /\ UNCHANGED <<journal, signal>>
      /\ pair' = pair \/ pair' = "pending_result_probe"
  BY DEF Advance, Execute, Submit, Settle, Suspend, SuspendedAs
<1>2. /\ pc[c] \in Advancing
      /\ \A d \in Calls : pc'[d] \in Advancing => pc[d] \in Advancing
  BY DEF Advance, Execute, Submit, Settle, Suspend, GoTo, Advancing, Effecting,
         IInv, TypeOK
<1>3. PairPhase' /\ AdvanceUnderway'
  BY <1>1, <1>2, Unrecorded DEF LifecycleInv, PairPhase, AdvanceUnderway
<1>4. \A d \in Calls \ {c} : pc[d] \notin Advancing /\ pc'[d] = pc[d]
  BY <1>2 DEF CauseInv, OneAdvance, Advance, Execute, Submit, Settle, Suspend, GoTo,
              IInv, TypeOK
<1>5. Lifecycle!Underway
  BY <1>2 DEF LifecycleInv, AdvanceUnderway, Phase, Lifecycle!Underway
<1>6. /\ pc[c] = "advance" => attempt = "none"
      /\ pc[c] = "execute" => attempt \in {"authorized", "failed"}
      /\ pc[c] \in {"submit", "settle"} => attempt \in {"executing", "unknown"}
      /\ pc[c] \in {"advance", "execute", "submit"} => ~submitted
  BY DEF CauseInv, OneAdvance, LifecycleInv, SubmitsOnce
<1>7. Phase' = Phase
  BY <1>1, Unrecorded
<1>8. pc'[c] \in Steps /\ \A step : GoTo(c, step) => pc'[c] = step
  BY DEF Advance, Execute, Submit, Settle, Suspend, GoTo, Steps, IInv, TypeOK
<1>9. ASSUME SubmitsOnce', Effect' = Effect, submitted' = submitted
      PROVE  LifecycleInv' /\ UNCHANGED Lifecycle!vars
  BY <1>1, <1>3, <1>7, <1>9 DEF LifecycleInv, Lifecycle!vars
<1>10. CASE Advance(c)
  <2>1. SubmitsOnce' /\ submitted' = submitted
    BY <1>4, <1>6, <1>8, <1>10 DEF Advance, SubmitsOnce, Advancing, Effecting
  <2>2. CASE attempt' = attempt
    BY <1>9, <2>1, <2>2 DEF Effect
  <2>3. CASE attempt = "none" /\ attempt' = "authorized"
    <3>1. Effect = "none" /\ Effect' = "begun"
      BY <2>3 DEF Effect
    <3> QED
      BY <1>1, <1>3, <1>5, <1>7, <2>1, <3>1
         DEF LifecycleInv, Lifecycle!Next, Lifecycle!BeginEffect, Lifecycle!Becomes
  <2> QED
    BY <1>10, <2>2, <2>3 DEF Advance
<1>11. CASE Execute(c)
  <2>1. SubmitsOnce' /\ submitted' = submitted
    BY <1>4, <1>6, <1>8, <1>11 DEF Execute, SubmitsOnce, Advancing, Effecting
  <2>2. Effect' = Effect
    BY <1>11 DEF Execute, Effect
  <2> QED
    BY <1>9, <2>1, <2>2
<1>12. CASE Submit(c)
  <2>1. SubmitsOnce'
    BY <1>4, <1>6, <1>8, <1>12 DEF Submit, SubmitsOnce, Advancing, Effecting
  <2>2. Effect \in {"begun", "unknown"} /\ Effect' = Effect
    BY <1>6, <1>12 DEF Submit, Effect
  <2>3. ~submitted /\ submitted' = TRUE
    BY <1>6, <1>12 DEF Submit
  <2> QED
    BY <1>1, <1>3, <1>5, <1>7, <2>1, <2>2, <2>3
       DEF LifecycleInv, Lifecycle!Next, Lifecycle!Submit
<1>13. CASE Settle(c)
  <2>1. SubmitsOnce' /\ submitted' = submitted
    BY <1>4, <1>6, <1>8, <1>13 DEF Settle, SubmitsOnce, Advancing, Effecting
  <2>2. CASE attempt = "unknown"
    <3>1. Effect' = Effect
      BY <1>13, <2>2 DEF Settle, Effect
    <3> QED
      BY <1>9, <2>1, <3>1
  <2>3. CASE attempt = "executing"
    <3>1. Effect = "begun" /\ Effect' = "unknown"
      BY <1>13, <2>3 DEF Settle, Effect
    <3> QED
      BY <1>1, <1>3, <1>7, <2>1, <3>1
         DEF LifecycleInv, Lifecycle!Next, Lifecycle!LoseSight, Lifecycle!Becomes
  <2> QED
    BY <1>13, <2>2, <2>3 DEF Settle
<1>14. CASE Suspend(c)
  <2>1. SubmitsOnce' /\ UNCHANGED <<attempt, submitted>>
    BY <1>4, <1>8, <1>14
       DEF Suspend, SubmitsOnce, LifecycleInv, Advancing, Effecting, effectVars
  <2> QED
    BY <1>9, <2>1 DEF Effect
<1> QED
  BY <1>10, <1>11, <1>12, <1>13, <1>14

\* A probe judges the effect after the phase that reported it.
LEMMA ProbeLifecycle ==
    ASSUME IInv, CauseInv, LifecycleInv, NEW c \in Calls, Resolve(c) \/ Complete(c)
    PROVE  LifecycleInv' /\ [Lifecycle!Next]_(Lifecycle!vars)
<1>1. /\ UNCHANGED <<journal, signal, submitted>>
      /\ pair' = pair \/ pair' = "completed"
  BY DEF Resolve, Complete, effectVars
<1>2. \A d \in Calls : pc'[d] \in Advancing => pc[d] = pc'[d]
  BY DEF Resolve, Complete, GoTo, Advancing, Effecting, IInv, TypeOK
<1>3. attempt' = attempt \/ attempt' \in {"confirmed", "failed"}
  BY DEF Resolve, Complete, effectVars
<1>4. LifecycleInv'
  BY <1>1, <1>2, <1>3, Unrecorded
     DEF LifecycleInv, PairPhase, AdvanceUnderway, SubmitsOnce, Advancing, Effecting
<1>5. CASE attempt' = attempt
  BY <1>1, <1>4, <1>5, Stutters
<1>6. CASE attempt' # attempt
  <2>1. /\ pc[c] = "probe"
        /\ attempt' \in {"confirmed", "failed"}
    BY <1>6 DEF Resolve, Complete, effectVars
  <2>2. /\ attempt \in {"unknown", "confirmed", "failed"}
        /\ \/ Phase = "probe_blocked"
           \/ Phase = "plan_completed" /\ attempt # "unknown"
    BY <2>1 DEF IInv, JournalFollows, Phase
  <2>3. Phase' = Phase
    BY <1>1, Unrecorded
  <2>4. Effect = attempt /\ Effect' = attempt'
    BY <2>1, <2>2 DEF Effect
  <2>5. CASE attempt = "unknown"
    BY <1>1, <1>4, <2>1, <2>2, <2>3, <2>4, <2>5
       DEF Lifecycle!Next, Lifecycle!Judge, Lifecycle!Becomes
  <2>6. CASE attempt # "unknown"
    BY <1>1, <1>4, <2>1, <2>2, <2>3, <2>4, <2>6
       DEF Lifecycle!Next, Lifecycle!Revise, Lifecycle!Becomes
  <2> QED
    BY <2>5, <2>6
<1> QED
  BY <1>5, <1>6 DEF Resolve, Complete, effectVars

\* The first transition.
LEMMA InitialiseLifecycle ==
    ASSUME IInv, LifecycleInv, NEW c \in Calls, Initialise(c)
    PROVE  LifecycleInv' /\ [Lifecycle!Next]_(Lifecycle!vars)
<1>1. journal = <<>> /\ attempt = "none"
  BY DEF Initialise, IInv, CallsExclude, ActsApproved
<1>2. \A d \in Calls : pc'[d] \notin Advancing
  BY <1>1 DEF Initialise, GoTo, Advancing, Effecting, LifecycleInv, AdvanceUnderway,
              IInv, TypeOK
<1>3. journal' # <<>> /\ Latest' = "admitted" /\ Phase' = "admitted" /\ Phase = "new"
  BY <1>1 DEF Initialise, Latest, Phase
<1>4. LifecycleInv'
  BY <1>2, <1>3 DEF Initialise, LifecycleInv, PairPhase, AdvanceUnderway, SubmitsOnce,
                    Advancing, Effecting, effectVars
<1>5. UNCHANGED <<Effect, submitted, signal>>
  BY DEF Initialise, Effect, effectVars
<1> QED
  BY <1>3, <1>4, <1>5 DEF Lifecycle!Next, Lifecycle!Admit, Lifecycle!Moves

\* An approval is asked for in the first phase.
LEMMA AskLifecycle ==
    ASSUME IInv, CauseInv, LifecycleInv, NEW c \in Calls, AskApproval(c)
    PROVE  LifecycleInv' /\ [Lifecycle!Next]_(Lifecycle!vars)
<1>1. UNCHANGED <<attempt, submitted, signal>> /\ Effect' = Effect
  BY DEF AskApproval, effectVars, Effect
<1>2. \A d \in Calls : pc'[d] \in Advancing => pc[d] = pc'[d]
  BY DEF AskApproval, GoTo, Advancing, Effecting, IInv, TypeOK
<1>3. SubmitsOnce'
  BY <1>1, <1>2 DEF LifecycleInv, SubmitsOnce, Advancing, Effecting
<1>4. CASE Pausable /\ Record("approval_required", "pending_approval")
           /\ pair' = "pending_approval"
  <2>1. /\ journal # <<>> /\ journal' # <<>> /\ Phase = Latest
        /\ Latest' = "approval_required" /\ Phase' = "approval_required"
    BY <1>4, Recorded DEF Record, Transitions, Terminal
  <2>2. Latest = "admitted"
    BY <1>4, <2>1 DEF Pausable, LifecycleInv, PairPhase
  <2>3. \A d \in Calls : pc'[d] \notin Advancing
    BY <1>2, <1>4, <2>2 DEF LifecycleInv, AdvanceUnderway
  <2>4. LifecycleInv'
    BY <1>3, <1>4, <2>1, <2>3 DEF LifecycleInv, PairPhase, AdvanceUnderway
  <2> QED
    BY <1>1, <2>1, <2>2, <2>4
       DEF Lifecycle!Next, Lifecycle!AskApproval, Lifecycle!Moves
<1>5. CASE UNCHANGED <<pair, journal>>
  <2>1. LifecycleInv'
    BY <1>1, <1>2, <1>3, <1>5, Unrecorded DEF LifecycleInv, PairPhase, AdvanceUnderway
  <2> QED
    BY <1>1, <1>5, <2>1, Stutters
<1> QED
  BY <1>4, <1>5 DEF AskApproval

\* An approve that commits finds a pair that waits, and nothing submitted.
LEMMA ApproveLifecycle ==
    ASSUME IInv, CauseInv, LifecycleInv, NEW c \in Calls, ApproveCommits(c)
    PROVE  LifecycleInv' /\ [Lifecycle!Next]_(Lifecycle!vars)
<1>1. UNCHANGED <<attempt, submitted, signal>> /\ Effect' = Effect
  BY DEF ApproveCommits, effectVars, Effect
<1>2. \A d \in Calls \ {c} : pc'[d] = pc[d]
  BY DEF ApproveCommits, GoTo, IInv, TypeOK
<1>3. CASE /\ Resumable(c) /\ Record("approval_resumed", "resuming")
           /\ pair' = "resuming" /\ GoTo(c, "advance")
  <2>1. /\ journal # <<>> /\ journal' # <<>> /\ Phase = Latest
        /\ Latest' = "approval_resumed" /\ Phase' = "approval_resumed"
    BY <1>3, Recorded DEF Record, Transitions, Terminal
  <2>2. Latest = "approval_required"
    BY <1>3, <2>1 DEF Resumable, LifecycleInv, PairPhase
  <2>3. ~submitted
    BY DEF ApproveCommits, IInv, DecisionsRead, Granted, ActsApproved
  <2>4. LifecycleInv'
    BY <1>1, <1>3, <2>1, <2>3 DEF LifecycleInv, PairPhase, AdvanceUnderway, SubmitsOnce
  <2> QED
    BY <1>1, <2>1, <2>2, <2>4 DEF Lifecycle!Next, Lifecycle!Approve, Lifecycle!Moves
<1>4. CASE GoTo(c, "idle") /\ UNCHANGED <<pair, journal>>
  <2>1. pc'[c] = "idle"
    BY <1>4 DEF GoTo, IInv, TypeOK
  <2>2. LifecycleInv'
    BY <1>1, <1>2, <1>4, <2>1, Unrecorded
       DEF LifecycleInv, PairPhase, AdvanceUnderway, SubmitsOnce, Advancing, Effecting
  <2> QED
    BY <1>1, <1>4, <2>2, Stutters
<1> QED
  BY <1>3, <1>4 DEF ApproveCommits

\* A reject finds the decision it read still open.
LEMMA RejectLifecycle ==
    ASSUME IInv, CauseInv, LifecycleInv, NEW c \in Calls, RejectCommits(c)
    PROVE  LifecycleInv' /\ [Lifecycle!Next]_(Lifecycle!vars)
<1>1. UNCHANGED <<attempt, submitted, signal>> /\ Effect' = Effect
  BY DEF RejectCommits, effectVars, Effect
<1>2. \A d \in Calls : pc'[d] \in Advancing => pc[d] = pc'[d]
  BY DEF RejectCommits, GoTo, Advancing, Effecting, IInv, TypeOK
<1>3. SubmitsOnce'
  BY <1>1, <1>2 DEF LifecycleInv, SubmitsOnce, Advancing, Effecting
<1>4. CASE Record("approval_rejected", "canceled") /\ pair' = "canceled"
  <2>1. /\ journal # <<>> /\ journal' # <<>> /\ Phase = Latest
        /\ Latest' = "approval_rejected" /\ Phase' = "approval_rejected"
    BY <1>4, Recorded DEF Record, Transitions, Terminal
  <2>2. Latest = "approval_required"
    BY DEF RejectCommits, IInv, DecisionsRead
  <2>3. \A d \in Calls : pc'[d] \notin Advancing
    BY <1>2, <2>2 DEF LifecycleInv, AdvanceUnderway
  <2>4. LifecycleInv'
    BY <1>3, <1>4, <2>1, <2>3 DEF LifecycleInv, PairPhase, AdvanceUnderway
  <2> QED
    BY <1>1, <2>1, <2>2, <2>4 DEF Lifecycle!Next, Lifecycle!Reject, Lifecycle!Moves
<1>5. CASE UNCHANGED <<pair, journal>>
  <2>1. LifecycleInv'
    BY <1>1, <1>2, <1>3, <1>5, Unrecorded DEF LifecycleInv, PairPhase, AdvanceUnderway
  <2> QED
    BY <1>1, <1>5, <2>1, Stutters
<1> QED
  BY <1>4, <1>5 DEF RejectCommits

\* A cancel finds the first phase, or a signal, and no effect.
LEMMA CancelLifecycle ==
    ASSUME IInv, CauseInv, LifecycleInv, Cancel
    PROVE  LifecycleInv' /\ [Lifecycle!Next]_(Lifecycle!vars)
<1>1. UNCHANGED <<attempt, submitted, pc>> /\ Effect' = Effect
  BY DEF Cancel, effectVars, callVars, Effect
<1>2. /\ journal # <<>> /\ journal' # <<>> /\ Phase = Latest
      /\ Latest' = "run_cancelled" /\ Phase' = "run_cancelled" /\ pair' = "canceled"
  BY Recorded DEF Cancel, Record, Transitions, Terminal
<1>3. (signal' # NoSignal) = (signal # NoSignal)
  <2>1. signal' = [at |-> signal.at, cancel |-> signal.cancel, open |-> FALSE]
    BY DEF Cancel
  <2>2. CASE signal = NoSignal
    BY <2>1, <2>2 DEF NoSignal
  <2>3. CASE signal.at # 0
    BY <2>1, <2>3 DEF NoSignal
  <2> QED
    BY <2>2, <2>3 DEF IInv, Unsignalled
<1>4. attempt = "none" /\ Effect = "none"
  BY DEF Cancel, EffectMayHaveStarted, Effect
<1>5. Latest = "admitted" \/ signal # NoSignal
  BY <1>2 DEF Cancel, CancelLegal, Paused, Running, NoSignal, LifecycleInv, PairPhase
<1>6. Phase # "new"
  <2>1. Latest \in Transitions
    BY <1>2 DEF IInv, TypeOK, Latest
  <2> QED
    BY <1>2, <2>1 DEF Transitions, Terminal
<1>7. LifecycleInv'
  BY <1>1, <1>2, <1>3, <1>5 DEF LifecycleInv, PairPhase, AdvanceUnderway, SubmitsOnce
<1> QED
  BY <1>1, <1>2, <1>3, <1>4, <1>5, <1>6, <1>7 DEF Lifecycle!Next, Lifecycle!Cancel

\* The one call that advances reports what has become of the effect.
LEMMA ReflectLifecycle ==
    ASSUME IInv, CauseInv, LifecycleInv, NEW c \in Calls, Reflect(c)
    PROVE  LifecycleInv' /\ [Lifecycle!Next]_(Lifecycle!vars)
<1>1. UNCHANGED <<pair, attempt, submitted, signal>> /\ Effect' = Effect
  BY DEF Reflect, effectVars, Effect
<1>2. \A d \in Calls : pc'[d] \notin Advancing
  BY DEF Reflect, GoTo, CauseInv, OneAdvance, Advancing, Effecting, IInv, TypeOK
<1>3. SubmitsOnce' /\ AdvanceUnderway'
  BY <1>1, <1>2
     DEF LifecycleInv, SubmitsOnce, AdvanceUnderway, Advancing, Effecting
<1>4. CASE Record("probe_blocked", pair)
  <2>1. /\ journal # <<>> /\ journal' # <<>> /\ Phase = Latest
        /\ Latest' = "probe_blocked" /\ Phase' = "probe_blocked"
    BY <1>4, Recorded DEF Record, Transitions, Terminal
  <2>2. attempt = "unknown" /\ pair = "pending_result_probe" /\ Effect = "unknown"
    BY <1>4 DEF Record, Verified, Effect
  <2>3. Lifecycle!Underway
    BY <2>1 DEF Reflect, LifecycleInv, AdvanceUnderway, Advancing, Effecting,
                Lifecycle!Underway
  <2>4. LifecycleInv'
    BY <1>1, <1>3, <2>2 DEF LifecycleInv, PairPhase
  <2> QED
    BY <1>1, <2>1, <2>2, <2>3, <2>4 DEF Lifecycle!Next, Lifecycle!Report
<1>5. CASE journal' = journal
  <2>1. LifecycleInv'
    BY <1>1, <1>3, <1>5, Unrecorded DEF LifecycleInv, PairPhase
  <2> QED
    BY <1>1, <1>5, <2>1, Stutters
<1> QED
  BY <1>4, <1>5 DEF Reflect

\* A plan ends on a confirmed effect that was reported.
LEMMA ConcludeLifecycle ==
    ASSUME IInv, CauseInv, LifecycleInv, NEW c \in Calls, Conclude(c)
    PROVE  LifecycleInv' /\ [Lifecycle!Next]_(Lifecycle!vars)
<1>1. UNCHANGED <<pair, attempt, submitted, signal>> /\ Effect' = Effect
  BY DEF Conclude, effectVars, Effect
<1>2. \A d \in Calls : pc'[d] \in Advancing => pc[d] = pc'[d]
  BY DEF Conclude, GoTo, Advancing, Effecting, IInv, TypeOK
<1>3. SubmitsOnce'
  BY <1>1, <1>2 DEF LifecycleInv, SubmitsOnce, Advancing, Effecting
<1>4. CASE Concludes /\ Record("plan_completed", pair)
  <2>1. /\ journal # <<>> /\ journal' # <<>> /\ Phase = Latest
        /\ Latest' = "plan_completed" /\ Phase' = "plan_completed"
    BY <1>4, Recorded DEF Record, Transitions, Terminal
  <2>2. /\ Latest = "probe_blocked" /\ pair = "completed" /\ Effect = "confirmed"
    BY <1>4 DEF Concludes, Verified, Effect
  <2>3. \A d \in Calls : pc'[d] \notin Advancing
    BY <1>2, <2>2 DEF LifecycleInv, AdvanceUnderway
  <2>4. LifecycleInv'
    BY <1>1, <1>3, <2>2, <2>3 DEF LifecycleInv, PairPhase, AdvanceUnderway
  <2> QED
    BY <1>1, <2>1, <2>2, <2>4 DEF Lifecycle!Next, Lifecycle!Complete, Lifecycle!Moves
<1>5. CASE journal' = journal
  <2>1. LifecycleInv'
    BY <1>1, <1>2, <1>3, <1>5, Unrecorded DEF LifecycleInv, PairPhase, AdvanceUnderway
  <2> QED
    BY <1>1, <1>5, <2>1, Stutters
<1> QED
  BY <1>4, <1>5 DEF Conclude

\* An Agent Run implements RunLifecycle, for any number of concurrent calls
\* and crashes, and with pause signals as without.
THEOREM Refinement == Spec => LifecycleSpec
<1>1. Init => Lifecycle!Init /\ LifecycleInv
  BY DEF Init, Lifecycle!Init, Phase, Effect, LifecycleInv, PairPhase, AdvanceUnderway,
         SubmitsOnce, Advancing, Effecting
<1>2. ASSUME IInv, CauseInv, LifecycleInv, [Next]_vars
      PROVE  LifecycleInv' /\ [Lifecycle!Next]_(Lifecycle!vars)
  <2>1. CASE \E c \in Calls : Begin(c) \/ Crash(c)
    BY <1>2, <2>1, CallLifecycle
  <2>2. ASSUME NEW c \in Calls, Proceed(c)
        PROVE  LifecycleInv' /\ [Lifecycle!Next]_(Lifecycle!vars)
    BY <1>2, <2>2, CallLifecycle, InitialiseLifecycle, AskLifecycle, ApproveLifecycle,
       RejectLifecycle, EffectLifecycle, ProbeLifecycle, ReflectLifecycle,
       ConcludeLifecycle
       DEF Proceed
  <2>3. CASE Cancel
    BY <1>2, <2>3, CancelLifecycle
  <2> QED
    BY <1>2, <2>1, <2>2, <2>3, EnvironmentLifecycle DEF Next
<1>3. Init => CauseInv
  BY DEF Init, CauseInv, OneAdvance, RowsFollow, EffectsInHand, Advancing, Effecting
<1> QED
  BY <1>1, <1>2, <1>3, InitKeeps, StepKeeps, CauseStep, PTL
     DEF Spec, LifecycleSpec, Lifecycle!Spec

==============================================================================
