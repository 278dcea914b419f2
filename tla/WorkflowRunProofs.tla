--------------------------- MODULE WorkflowRunProofs ---------------------------
(***************************************************************************)
(* Proofs about one workflow run, for every workflow and every number of   *)
(* stop and continue requests.                                             *)
(***************************************************************************)
EXTENDS WorkflowRun, FiniteSetTheorems, TLAPS

(***************************************************************************)
(* Types.                                                                  *)
(***************************************************************************)

LEMMA TypeInit == Init => TypeOK
<1> SUFFICES ASSUME Init PROVE TypeOK
  OBVIOUS
<1>1. kind \in [Labels -> Kinds \cup {"none"}] /\ lenient \in [Labels -> BOOLEAN]
  BY DEF Init
<1>2. block \in Labels
  BY BoundsAssumption DEF Init, Labels
<1>3. loop \in Loops
  BY BoundsAssumption DEF Init, NoLoop, Loops
<1> QED
  BY <1>1, <1>2, <1>3 DEF Init, TypeOK, RunStatus, Places, BlockStatus

\* What a block returns leaves a place and a result behind, and no loop.
LEMMA ReturnTypes ==
    ASSUME TypeOK, NEW r \in BlockStatus, Return(r)
    PROVE  /\ pc' \in {"judge", "finalize"}
           /\ outcome' \in BlockStatus \cup {"none"}
           /\ loop' \in Loops
<1>1. NoLoop \in Loops
  BY BoundsAssumption DEF NoLoop, Loops
<1> QED
  BY <1>1 DEF Return

LEMMA LoopResultTypes == ASSUME NEW r PROVE LoopResult(r) \in BlockStatus
BY DEF LoopResult, BlockStatus

\* The position in a loop stays within its bounds.
LEMMA NextIterationTypes ==
    ASSUME TypeOK, NEW r \in BlockStatus, NextIteration(r)
    PROVE  /\ pc' \in Places /\ outcome' \in BlockStatus \cup {"none", "raised"}
           /\ loop' \in Loops
<1>1. CASE loop.i + 1 = loop.values
  BY <1>1, ReturnTypes, LoopResultTypes DEF NextIteration, Places
<1>2. CASE loop.i + 1 # loop.values /\ loop.i + 1 >= MaxIterations
  BY <1>2, ReturnTypes, LoopResultTypes DEF NextIteration, Places, BlockStatus
<1>3. CASE loop.i + 1 # loop.values /\ ~(loop.i + 1 >= MaxIterations)
  <2>1. loop' = [loop EXCEPT !.i = @ + 1, !.p = 1] /\ pc' = "looping" /\ UNCHANGED outcome
    BY <1>3 DEF NextIteration
  <2>2. loop \in Loops
    BY DEF TypeOK
  <2>3. loop.i + 1 \in 0 .. MaxIterations /\ 1 \in 0 .. MaxBody
    BY <1>3, <2>2, BoundsAssumption DEF Loops
  <2>4. loop' \in Loops
    BY <2>1, <2>2, <2>3 DEF Loops
  <2> QED
    BY <2>1, <2>4 DEF TypeOK, Places
<1> QED
  BY <1>1, <1>2, <1>3

LEMMA LoopGoesOnTypes ==
    ASSUME TypeOK, NEW r \in BlockStatus, LoopGoesOn(r)
    PROVE  /\ pc' \in Places /\ outcome' \in BlockStatus \cup {"none", "raised"}
           /\ loop' \in Loops
<1>1. ASSUME NEW s \in BlockStatus, Return(s) \/ NextIteration(s)
      PROVE  /\ pc' \in Places /\ outcome' \in BlockStatus \cup {"none", "raised"}
             /\ loop' \in Loops
  BY <1>1, ReturnTypes, NextIterationTypes DEF Places
<1>2. ASSUME loop.p < loop.body, loop' = [loop EXCEPT !.p = @ + 1], pc' = "looping",
             UNCHANGED outcome
      PROVE  /\ pc' \in Places /\ outcome' \in BlockStatus \cup {"none", "raised"}
             /\ loop' \in Loops
  <2>1. loop \in Loops
    BY DEF TypeOK
  <2>2. loop.p + 1 \in 0 .. MaxBody
    BY <1>2, <2>1, BoundsAssumption DEF Loops
  <2>3. loop' \in Loops
    BY <1>2, <2>1, <2>2 DEF Loops
  <2> QED
    BY <1>2, <2>3 DEF TypeOK, Places
<1>3. "failed" \in BlockStatus /\ "canceled" \in BlockStatus
      /\ LoopResult(r) \in BlockStatus /\ LoopResult("failed") \in BlockStatus
  BY LoopResultTypes DEF BlockStatus
<1> QED
  BY <1>1, <1>2, <1>3 DEF LoopGoesOn

LEMMA LoopReturnTypes ==
    ASSUME TypeOK, NEW r \in BlockStatus, LoopReturn(r)
    PROVE  /\ pc' \in Places /\ outcome' \in BlockStatus \cup {"none", "raised"}
           /\ loop' \in Loops /\ results' \subseteq BlockStatus
<1>1. results' \subseteq BlockStatus
  BY DEF LoopReturn, TypeOK
<1> QED
  BY <1>1, LoopGoesOnTypes DEF LoopReturn

LEMMA TypeStep == TypeOK /\ [Next]_vars => TypeOK'
<1> SUFFICES ASSUME TypeOK, [Next]_vars PROVE TypeOK'
  OBVIOUS
<1> USE DEF TypeOK, RunStatus, Places, BlockStatus, definition, requests
<1>1. CASE Start
  BY <1>1 DEF Start
<1>2. CASE SetUp
  <2>1. pc' \in Places /\ status' \in RunStatus /\ results' \subseteq BlockStatus
    BY <1>2 DEF SetUp
  <2>2. escaped' \in BOOLEAN
    BY <1>2, Zenon DEF SetUp
  <2> QED
    BY <1>2, <2>1, <2>2 DEF SetUp
<1>3. CASE Prepare
  <2>1. /\ pc' \in Places /\ outcome' \in BlockStatus \cup {"none", "raised"}
        /\ status' \in RunStatus
    BY <1>3 DEF Prepare
  <2>2. escaped' \in BOOLEAN
    BY <1>3, Zenon DEF Prepare
  <2> QED
    BY <1>3, <2>1, <2>2 DEF Prepare
<1>4. CASE Enter
  BY <1>4 DEF Enter
<1>5. CASE Begin
  <2>1. block' \in Labels
    BY <1>5, BoundsAssumption DEF Begin, Finally, Labels
  <2>2. loop' \in Loops
    <3>1. CASE UNCHANGED loop
      BY <3>1
    <3>2. CASE \E values \in 0 .. MaxValues, body \in 0 .. MaxBody, l, n \in BOOLEAN :
                 loop' = [values |-> values, body |-> body, lenient |-> l, next |-> n,
                          i |-> 0, p |-> 1]
      BY <3>2, BoundsAssumption DEF Loops
    <3> QED
      BY <1>5, <3>1, <3>2 DEF Begin
  <2>3. /\ pc' \in Places /\ outcome' \in BlockStatus \cup {"none", "raised"}
        /\ status' \in RunStatus
    BY <1>5 DEF Begin
  <2>4. late' \subseteq Labels
    BY <1>5, <2>1 DEF Begin, Started
  <2> QED
    BY <1>5, <2>1, <2>2, <2>3, <2>4 DEF Begin
<1>6. CASE Work
  BY <1>6, ReturnTypes DEF Work
<1>7. CASE WaitForHuman
  BY <1>7, ReturnTypes DEF WaitForHuman
<1>8. CASE EmptyLoop
  BY <1>8, ReturnTypes DEF EmptyLoop
<1>9. CASE LoopBlock \/ LoopHuman
  <2>1. /\ pc' \in Places /\ outcome' \in BlockStatus \cup {"none", "raised"}
        /\ loop' \in Loops /\ results' \subseteq BlockStatus
    <3>1. ASSUME NEW r \in BlockStatus, LoopReturn(r)
          PROVE  /\ pc' \in Places /\ outcome' \in BlockStatus \cup {"none", "raised"}
                 /\ loop' \in Loops /\ results' \subseteq BlockStatus
      BY <3>1, LoopReturnTypes
    <3> QED
      BY <1>9, <3>1 DEF LoopBlock, LoopHuman
  <2>2. status' \in RunStatus
    BY <1>9 DEF LoopBlock, LoopHuman
  <2>3. late' \subseteq Labels
    BY <1>9 DEF LoopBlock, LoopHuman, Started
  <2> QED
    BY <1>9, <2>1, <2>2, <2>3 DEF LoopBlock, LoopHuman
<1>10. CASE Judge
  <2>1. \A b \in Following(block) : b \in Labels
    BY BoundsAssumption DEF Following, Labels, Finally
  <2>2. results' \subseteq BlockStatus
    BY <1>10 DEF Judge
  <2> QED
    BY <1>10, <2>1, <2>2 DEF Judge
<1>11. CASE After
  BY <1>11 DEF After
<1>12. CASE Reopen
  BY <1>12 DEF Reopen
<1>13. CASE Finalize
  BY <1>13 DEF Finalize, NotCompleted
<1>14. CASE CleanUp
  BY <1>14 DEF CleanUp
<1>15. CASE Send
  BY <1>15 DEF Send
<1>16. CASE Stop
  BY <1>16 DEF Stop
<1>17. CASE RequestContinue
  BY <1>17 DEF RequestContinue
<1>18. CASE WriteContinue
  BY <1>18 DEF WriteContinue
<1>19. CASE UNCHANGED vars
  BY <1>19 DEF vars
<1> QED
  BY <1>1, <1>2, <1>3, <1>4, <1>5, <1>6, <1>7, <1>8, <1>9, <1>10, <1>11, <1>12, <1>13,
     <1>14, <1>15, <1>16, <1>17, <1>18, <1>19 DEF Next, Executor

\* Every variable keeps its type (execute_workflow and its requests).
THEOREM Typing == Spec => []TypeOK
BY TypeInit, TypeStep, PTL DEF Spec

(***************************************************************************)
(* A stop request is heeded.                                               *)
(***************************************************************************)

\* The block that execute_workflow is at, or is about to be at.
Here == IF pc = "finally" THEN Finally ELSE block

\* Between the check of _execute_single_block and the end of the block, and
\* before the finally block, something may start there although the run was
\* stopped after the check.
Open == {"begin", "looping", "asking", "finally"}

\* Those blocks in which something has started, and the one in which something
\* still may.
Counted == IF pc \in Open /\ Stopped(status) THEN late \cup {Here} ELSE late

StopsInv == Cardinality(Counted) <= stops

\* Finite sets of blocks, and one block more.
LEMMA CountFacts ==
    ASSUME TypeOK
    PROVE  /\ IsFiniteSet(late) /\ Cardinality(late) \in Nat
           /\ \A b : /\ IsFiniteSet(late \cup {b}) /\ Cardinality(late \cup {b}) \in Nat
                    /\ Cardinality(late \cup {b}) <= Cardinality(late) + 1
                    /\ Cardinality(late) <= Cardinality(late \cup {b})
<1>1. IsFiniteSet(Labels)
  BY FS_Interval, BoundsAssumption DEF Labels
<1>2. IsFiniteSet(late)
  BY <1>1, FS_Subset DEF TypeOK
<1>3. ASSUME NEW b
      PROVE  /\ IsFiniteSet(late \cup {b}) /\ Cardinality(late \cup {b}) \in Nat
             /\ Cardinality(late \cup {b}) <= Cardinality(late) + 1
             /\ Cardinality(late) <= Cardinality(late \cup {b})
  <2>1. /\ IsFiniteSet(late \cup {b})
        /\ Cardinality(late \cup {b}) = IF b \in late THEN Cardinality(late) ELSE Cardinality(late) + 1
    BY <1>2, FS_AddElement
  <2>2. Cardinality(late) \in Nat
    BY <1>2, FS_CardinalityType
  <2> QED
    BY <2>1, <2>2
<1> QED
  BY <1>2, <1>3, FS_CardinalityType

LEMMA LoopReturnPlaces ==
    ASSUME NEW r, LoopReturn(r)
    PROVE  /\ pc' \in {"looping", "judge", "finalize"}
           /\ pc' = "judge" => block # Finally
BY DEF LoopReturn, LoopGoesOn, NextIteration, Return

LEMMA StopsStep == TypeOK /\ StopsInv /\ [Next]_vars => StopsInv'
<1> SUFFICES ASSUME TypeOK, StopsInv, [Next]_vars PROVE StopsInv'
  OBVIOUS
<1> USE DEF requests
<1>1. /\ stops \in Nat
      /\ Cardinality(late) <= stops
      /\ pc \in Open /\ Stopped(status) => Cardinality(late \cup {Here}) <= stops
  BY CountFacts DEF TypeOK, StopsInv, Counted
<1>2. ASSUME stops' = stops, late' = late,
             pc' \in Open /\ Stopped(status') => pc \in Open /\ Stopped(status) /\ Here' = Here
      PROVE  StopsInv'
  BY <1>1, <1>2 DEF StopsInv, Counted
<1>3. ASSUME stops' = stops, pc \in Open, Here' = Here, late' = Started(Here),
             Stopped(status') => Stopped(status)
      PROVE  StopsInv'
  <2>1. CASE Stopped(status)
    <3>1. late' = late \cup {Here} /\ Counted' = late'
      BY <1>3, <2>1 DEF Started, Counted
    <3> QED
      BY <1>1, <1>3, <2>1, <3>1 DEF StopsInv
  <2>2. CASE ~Stopped(status)
    BY <1>1, <1>3, <2>2 DEF Started, Counted, StopsInv
  <2> QED
    BY <2>1, <2>2
<1>4. CASE Begin
  <2>1. /\ pc \in {"begin", "finally"} /\ stops' = stops /\ block' = Here
        /\ pc' \in {"finalize", "judge", "working", "waiting", "looping"}
        /\ Stopped(status') => Stopped(status)
    BY <1>4 DEF Begin, Here, Stopped
  <2>2. Here' = Here /\ pc \in Open
    BY <2>1 DEF Here, Open
  <2>3. (late' = late /\ pc' \notin Open) \/ late' = Started(Here)
    BY <1>4, <2>1 DEF Begin, Open
  <2> QED
    BY <1>2, <1>3, <2>1, <2>2, <2>3
<1>5. CASE LoopBlock
  <2>1. pc = "looping" /\ block' = block /\ stops' = stops /\ late' = Started(block)
    BY <1>5 DEF LoopBlock
  <2>2. pc' \in {"looping", "asking", "judge", "finalize"} /\ (Stopped(status') => Stopped(status))
    BY <1>5, LoopReturnPlaces DEF LoopBlock, Stopped
  <2> QED
    BY <1>3, <2>1, <2>2 DEF Here, Open
<1>6. CASE LoopHuman
  <2>1. pc = "asking" /\ UNCHANGED <<block, status, stops, late>>
    BY <1>6 DEF LoopHuman
  <2>2. pc' \in {"looping", "judge", "finalize"}
    BY <1>6, LoopReturnPlaces DEF LoopHuman
  <2> QED
    BY <1>2, <2>1, <2>2 DEF Here, Open
<1>7. CASE Stop
  <2>1. stops' = stops + 1 /\ late' = late
    BY <1>7 DEF Stop
  <2>2. Counted' = late \/ \E b : Counted' = late \cup {b}
    BY <2>1 DEF Counted
  <2>3. Cardinality(Counted)' <= Cardinality(late) + 1 /\ Cardinality(Counted)' \in Nat
    <3>1. CASE Counted' = late
      BY <3>1, CountFacts
    <3>2. ASSUME NEW b, Counted' = late \cup {b}
          PROVE  Cardinality(Counted)' <= Cardinality(late) + 1 /\ Cardinality(Counted)' \in Nat
      BY <3>2, CountFacts
    <3> QED
      BY <2>2, <3>1, <3>2
  <2> QED
    BY <1>1, <2>1, <2>3, CountFacts DEF StopsInv
<1>8. CASE Enter
  BY <1>2, <1>8 DEF Enter, Stopped, Open
<1>9. CASE WriteContinue \/ Reopen
  BY <1>2, <1>9 DEF WriteContinue, Reopen, Stopped
<1>10. CASE After
  <2>1. pc' = "finally" => ~Stopped(status)
    BY <1>10 DEF After, Stopped, NotCompleted
  <2>2. pc' \in {"cleanup", "finalize", "reopen", "finally"} /\ UNCHANGED <<status, late, stops>>
    BY <1>10 DEF After
  <2> QED
    BY <1>2, <2>1, <2>2 DEF Open
<1>11. ASSUME pc' \notin Open, UNCHANGED <<late, stops>> PROVE StopsInv'
  BY <1>2, <1>11
<1>12. ASSUME Start \/ SetUp \/ Prepare \/ Judge \/ Finalize \/ CleanUp \/ Send
       PROVE  StopsInv'
  BY <1>11, <1>12 DEF Start, SetUp, Prepare, Judge, Finalize, CleanUp, Send, Open
<1>13. ASSUME Work \/ WaitForHuman \/ EmptyLoop PROVE StopsInv'
  BY <1>11, <1>13 DEF Work, WaitForHuman, EmptyLoop, Return, Open
<1>14. CASE RequestContinue \/ UNCHANGED vars
  BY <1>2, <1>14 DEF RequestContinue, vars, Here
<1> QED
  BY <1>4, <1>5, <1>6, <1>7, <1>8, <1>9, <1>10, <1>12, <1>13, <1>14 DEF Next, Executor

\* While a stop stands, it leaves one block in which anything still starts
\* (_execute_single_block).
THEOREM StopsAreHeeded == Spec => []StopsHeeded
<1>1. Init => StopsInv
  <2> SUFFICES ASSUME Init PROVE StopsInv
    OBVIOUS
  <2>1. late = {} /\ stops = 0 /\ pc = "start"
    BY DEF Init
  <2> QED
    BY <2>1, FS_EmptySet DEF StopsInv, Counted, Open
<1>2. TypeOK /\ StopsInv => StopsHeeded
  BY CountFacts DEF StopsInv, StopsHeeded, Counted, TypeOK
<1> QED
  BY <1>1, <1>2, Typing, StopsStep, PTL DEF Spec

(***************************************************************************)
(* The results decide the final status.                                    *)
(***************************************************************************)

\* Nothing that counts was returned so far but "completed".
Clear == results \subseteq {"completed"}

Live == status \in {"running", "paused"}

\* s is the status that the results call for, before the run is finalized.
Agrees(s) ==
    \/ Clear /\ s \in {"running", "paused"}
    \/ s = Verdict /\ s \in NotCompleted

\* The finally block is only entered after the others, and is no loop.
Shape ==
    /\ kind[Finally] \in {"none", "work", "human"}
    /\ pc \in {"start", "setup", "prepare", "enter", "begin", "judge"} => block # Finally
    /\ pc \in {"looping", "asking"} => kind[block] = "loop"
    /\ pc # "done" => reports = {}

\* What holds at each place of execute_workflow while nobody wrote over it.
AtPlace ==
    /\ pc = "start" => results = {} /\ status = "created"
    /\ pc \in {"setup", "prepare"} => results = {} /\ status = "running"
    /\ pc \in {"enter", "begin"} => Clear /\ Live
    /\ pc \in {"working", "waiting", "looping", "asking"} /\ block # Finally => Clear /\ Live
    /\ pc = "judge" => Live /\ (Clear \/ (outcome = "canceled" /\ "canceled" \in results))
    /\ pc = "after" => Agrees(status)
    /\ pc = "reopen" => Agrees(pre)
    /\ pc = "finally" \/ (pc \in {"working", "waiting", "looping", "asking"} /\ block = Finally) =>
         Agrees(pre) /\ (pre \in NotCompleted => seen = "running")
    /\ pc = "finalize" =>
         Agrees(pre) /\ (pre \in NotCompleted => seen = "running" \/ status = pre)
    /\ pc \in {"cleanup", "send", "done"} => status = Verdict
    /\ pc = "done" => reports \subseteq {Verdict}

DecideInv == Shape /\ (~disturbed /\ ~escaped => AtPlace)

LEMMA ClearVerdict == ASSUME Clear PROVE Verdict = "completed"
BY DEF Clear, Verdict

LEMMA ShapeStep == TypeOK /\ Shape /\ [Next]_vars => Shape'
<1> SUFFICES ASSUME TypeOK, Shape, [Next]_vars PROVE Shape'
  OBVIOUS
<1> USE DEF Shape, requests, definition
<1>1. CASE Start \/ SetUp \/ Prepare \/ Enter \/ After \/ Reopen \/ Finalize
  BY <1>1 DEF Start, SetUp, Prepare, Enter, After, Reopen, Finalize
<1>2. CASE CleanUp \/ Send \/ Stop \/ RequestContinue \/ WriteContinue \/ UNCHANGED vars
  BY <1>2 DEF CleanUp, Send, Stop, RequestContinue, WriteContinue, vars
<1>3. CASE Begin
  <2>1. /\ UNCHANGED <<kind, reports>> /\ pc \in {"begin", "finally"}
        /\ block' = IF pc = "finally" THEN Finally ELSE block
    BY <1>3 DEF Begin
  <2>2. pc' = "looping" => kind'[block'] = "loop"
    BY <1>3 DEF Begin
  <2>3. pc' = "judge" => pc = "begin"
    BY <1>3 DEF Begin
  <2>4. pc' \in {"finalize", "judge", "working", "waiting", "looping"}
    BY <1>3 DEF Begin
  <2> QED
    BY <2>1, <2>2, <2>3, <2>4
<1>4. CASE Work \/ WaitForHuman \/ EmptyLoop
  BY <1>4 DEF Work, WaitForHuman, EmptyLoop, Return
<1>5. CASE LoopBlock \/ LoopHuman
  <2>1. /\ pc' \in {"looping", "asking", "judge", "finalize"}
        /\ pc' = "judge" => block # Finally
    BY <1>5, LoopReturnPlaces DEF LoopBlock, LoopHuman
  <2> QED
    BY <1>5, <2>1 DEF LoopBlock, LoopHuman
<1>6. CASE Judge
  BY <1>6 DEF Judge
<1> QED
  BY <1>1, <1>2, <1>3, <1>4, <1>5, <1>6 DEF Next, Executor

\* A loop that returns canceled was left with a canceled block, or its last one
\* did not count.
LEMMA LoopBlockReturns ==
    ASSUME TypeOK, Clear, block # Finally, NEW r \in BlockStatus, LoopReturn(r)
    PROVE  \/ pc' = "looping" /\ Clear'
           \/ pc' = "judge" /\ (Clear' \/ (outcome' = "canceled" /\ "canceled" \in results'))
<1> USE DEF LoopReturn
<1>1. CASE r = "canceled" /\ loop.p < MaxStepsPerIteration
  <2>1. loop.p \in Nat
    BY DEF TypeOK, Loops
  <2>2. ~(loop.p >= MaxStepsPerIteration)
    BY <1>1, <2>1, BoundsAssumption
  <2>3. Return("canceled")
    BY <1>1, <2>2 DEF LoopGoesOn
  <2> QED
    BY <1>1, <2>3 DEF Return
<1>2. CASE ~(r = "canceled" /\ loop.p < MaxStepsPerIteration)
  <2>1. Clear'
    BY <1>2 DEF Clear
  <2>2. pc' \in {"looping", "judge"}
    BY DEF LoopGoesOn, NextIteration, Return
  <2> QED
    BY <2>1, <2>2
<1> QED
  BY <1>1, <1>2

LEMMA PlaceStep ==
    ASSUME TypeOK, DecideInv, [Next]_vars, ~disturbed', ~escaped'
    PROVE  AtPlace'
<1> USE DEF requests, definition
<1>1. ~disturbed /\ ~escaped
  <2>1. disturbed => disturbed'
    BY Zenon DEF Next, Executor, Start, SetUp, Prepare, Enter, Begin, Work, WaitForHuman, EmptyLoop,
       LoopBlock, LoopHuman, Judge, After, Reopen, Finalize, CleanUp, Send, Stop, RequestContinue,
       WriteContinue, vars
  <2>2. escaped => escaped'
    BY Zenon DEF Next, Executor, Start, SetUp, Prepare, Enter, Begin, Work, WaitForHuman, EmptyLoop,
       LoopBlock, LoopHuman, Judge, After, Reopen, Finalize, CleanUp, Send, Stop, RequestContinue,
       WriteContinue, vars
  <2> QED
    BY <2>1, <2>2
<1>2. AtPlace /\ Shape
  BY <1>1 DEF DecideInv
<1>3. CASE Start
  BY <1>2, <1>3 DEF Start, AtPlace, Clear, Live
<1>4. CASE SetUp
  BY <1>2, <1>4 DEF SetUp, AtPlace, Verdict
<1>5. CASE Prepare
  <2>1. pc' # "cleanup"
    BY <1>5 DEF Prepare
  <2> QED
    BY <1>2, <1>5, <2>1 DEF Prepare, AtPlace, Clear, Live
<1>6. CASE Enter
  BY <1>2, <1>6 DEF Enter, AtPlace, Clear, Live, Stopped
<1>7. CASE Begin
  <2>1. CASE pc = "begin"
    <3>1. Clear' /\ Live' /\ block' # Finally
      BY <1>2, <1>7, <2>1 DEF Begin, AtPlace, Clear, Live, Shape
    <3>2. pc' \in {"judge", "working", "waiting", "looping"}
      BY <1>7, <2>1 DEF Begin
    <3> QED
      BY <3>1, <3>2 DEF AtPlace
  <2>2. CASE pc = "finally"
    <3>1. Agrees(pre)' /\ (pre' \in NotCompleted => seen' = "running") /\ block' = Finally
      BY <1>2, <1>7, <2>2 DEF Begin, AtPlace, Agrees, Clear, Verdict
    <3>2. pc' \in {"finalize", "working", "waiting", "looping"}
      BY <1>7, <2>2 DEF Begin
    <3> QED
      BY <3>1, <3>2 DEF AtPlace
  <2> QED
    BY <1>7, <2>1, <2>2 DEF Begin
<1>8. CASE Work \/ WaitForHuman \/ EmptyLoop
  <2>1. \E r : Return(r)
    BY <1>8 DEF Work, WaitForHuman, EmptyLoop
  <2>2. pc \in {"working", "waiting", "looping"} /\ UNCHANGED <<status, block, pre, seen, results>>
    BY <1>8 DEF Work, WaitForHuman, EmptyLoop
  <2>3. CASE block = Finally
    <3>1. pc' = "finalize"
      BY <2>1, <2>3 DEF Return
    <3>2. Agrees(pre)' /\ (pre' \in NotCompleted => seen' = "running")
      BY <1>2, <2>2, <2>3 DEF AtPlace, Agrees, Clear, Verdict
    <3> QED
      BY <3>1, <3>2 DEF AtPlace
  <2>4. CASE block # Finally
    <3>1. pc' = "judge"
      BY <2>1, <2>4 DEF Return
    <3>2. Clear' /\ Live'
      BY <1>2, <2>2, <2>4 DEF AtPlace, Clear, Live
    <3> QED
      BY <3>1, <3>2 DEF AtPlace
  <2> QED
    BY <2>3, <2>4
<1>9. CASE LoopBlock \/ LoopHuman
  <2>1. block # Finally /\ pc \in {"looping", "asking"}
    BY <1>2, <1>9 DEF LoopBlock, LoopHuman, Shape
  <2>2. Clear /\ Live
    BY <1>2, <2>1 DEF AtPlace
  <2>3. \/ pc' \in {"looping", "asking"} /\ Clear'
        \/ pc' = "judge" /\ (Clear' \/ (outcome' = "canceled" /\ "canceled" \in results'))
    <3>1. CASE \E r \in BlockStatus : LoopReturn(r)
      BY <2>1, <2>2, <3>1, LoopBlockReturns
    <3>2. CASE pc' = "asking" /\ UNCHANGED results
      BY <2>2, <3>2 DEF Clear
    <3> QED
      BY <1>9, <3>1, <3>2 DEF LoopBlock, LoopHuman, BlockStatus
  <2>4. block' = block /\ Live'
    BY <1>9, <2>2 DEF LoopBlock, LoopHuman, Live
  <2> QED
    BY <2>1, <2>3, <2>4 DEF AtPlace
<1>10. CASE Judge
  <2>1. Live /\ (Clear \/ (outcome = "canceled" /\ "canceled" \in results))
    BY <1>2, <1>10 DEF Judge, AtPlace
  <2>2. CASE outcome = "canceled"
    BY <1>10, <2>2 DEF Judge, AtPlace, Agrees, Verdict, NotCompleted
  <2>3. CASE outcome # "canceled" /\ pc' = "after" /\ status' # status
    <3>1. /\ Clear
          /\ \/ status' = "failed" /\ outcome = "raised" /\ results' = results \cup {"failed"}
             \/ /\ status' = "failed" /\ outcome \in {"failed", "timed_out"}
                /\ results' = results \cup {outcome}
             \/ /\ status' = "terminated" /\ outcome = "terminated"
                /\ results' = results \cup {outcome}
      BY <1>10, <2>1, <2>3 DEF Judge
    <3> QED
      BY <2>3, <3>1 DEF AtPlace, Agrees, Verdict, Clear, NotCompleted
  <2>4. CASE outcome # "canceled" /\ status' = status
    <3>1. outcome = "completed" \/ (outcome \in {"failed", "timed_out", "terminated"} /\ lenient[block])
      BY <1>10, <2>1, <2>4 DEF Judge, Live
    <3>2. Clear' /\ Live'
      BY <1>10, <2>1, <2>4, <3>1 DEF Judge, Clear, Live
    <3>3. pc' \in {"after", "enter"}
      BY <1>10 DEF Judge
    <3> QED
      BY <3>2, <3>3 DEF AtPlace, Agrees, Live
  <2>5. pc' = "after" \/ status' = status
    BY <1>10 DEF Judge
  <2> QED
    BY <2>2, <2>3, <2>4, <2>5
<1>11. CASE After
  <2>1. Agrees(status) /\ pc' # "cleanup"
    BY <1>2, <1>11 DEF After, AtPlace
  <2>2. /\ pre' = status /\ seen' = status /\ UNCHANGED <<status, results>>
        /\ pc' \in {"finalize", "reopen", "finally"}
        /\ pc' = "finally" => status \notin NotCompleted
    BY <1>11, <2>1 DEF After
  <2>3. Agrees(pre)'
    BY <2>1, <2>2 DEF Agrees, Clear, Verdict
  <2> QED
    BY <2>2, <2>3 DEF AtPlace
<1>12. CASE Reopen
  <2>1. Agrees(pre)' /\ seen' = "running"
    BY <1>2, <1>12 DEF Reopen, AtPlace, Agrees, Clear, Verdict
  <2> QED
    BY <1>12, <2>1 DEF Reopen, AtPlace
<1>13. CASE Finalize
  <2>1. Agrees(pre) /\ (pre \in NotCompleted => seen = "running" \/ status = pre)
    BY <1>2, <1>13 DEF Finalize, AtPlace
  <2>2. status' = Verdict
    BY <1>13, <2>1, ClearVerdict DEF Finalize, Agrees, NotCompleted
  <2>3. Verdict' = Verdict /\ pc' = "cleanup"
    BY <1>13 DEF Finalize, Verdict
  <2> QED
    BY <2>2, <2>3 DEF AtPlace
<1>14. CASE CleanUp
  <2>1. reports' = {} /\ status' = Verdict' /\ pc' \in {"send", "done"}
    BY <1>2, <1>14 DEF CleanUp, AtPlace, Shape, Verdict
  <2> QED
    BY <2>1 DEF AtPlace
<1>15. CASE Send
  <2>1. reports' = {status} /\ status' = Verdict' /\ status' = status /\ pc' = "done"
    BY <1>2, <1>15 DEF Send, AtPlace, Shape, Verdict
  <2> QED
    BY <2>1 DEF AtPlace
<1>16. CASE Stop
  BY <1>16 DEF Stop
<1>17. CASE WriteContinue
  <2>1. status = "paused" /\ status' = "running"
    BY <1>17, Zenon DEF WriteContinue
  <2>2. /\ UNCHANGED <<pc, block, outcome, pre, seen, reports, results>>
    BY <1>17 DEF WriteContinue
  <2>3. Verdict # "paused" /\ Verdict' = Verdict
    BY <2>2 DEF Verdict
  <2>4. /\ pc \notin {"start", "setup", "prepare", "cleanup", "send", "done"}
    BY <1>2, <2>1, <2>3 DEF AtPlace
  <2>5. Clear' = Clear /\ Live'
    BY <2>1, <2>2 DEF Clear, Live
  <2>6. Agrees(pre)' = Agrees(pre) /\ (Agrees(status) => Agrees(status)')
    BY <2>1, <2>2, <2>3, Zenon DEF Agrees, Clear, NotCompleted
  <2>7. pre' \in NotCompleted /\ status = pre => FALSE
    BY <2>1, <2>2 DEF NotCompleted
  <2> QED
    BY <1>2, <2>2, <2>4, <2>5, <2>6, <2>7 DEF AtPlace
<1>18. CASE RequestContinue \/ UNCHANGED vars
  <2>1. UNCHANGED <<pc, status, block, outcome, pre, seen, reports, results>>
    BY <1>18 DEF RequestContinue, vars
  <2> QED
    BY <1>2, <2>1 DEF AtPlace, Agrees, Clear, Live, Verdict
<1> QED
  BY <1>3, <1>4, <1>5, <1>6, <1>7, <1>8, <1>9, <1>10, <1>11, <1>12, <1>13, <1>14, <1>15,
     <1>16, <1>17, <1>18 DEF Next, Executor

\* The status at the end is what the results call for, unless somebody wrote
\* over it or an exception left execute_workflow
\* (_finalize_workflow_run_status).
THEOREM ResultsDecide == Spec => []BlocksDecide
<1>1. Init => DecideInv
  BY BoundsAssumption DEF Init, DecideInv, Shape, AtPlace, Finally
<1>2. TypeOK /\ DecideInv /\ [Next]_vars => DecideInv'
  BY ShapeStep, PlaceStep DEF DecideInv
<1>3. DecideInv => BlocksDecide
  BY DEF DecideInv, AtPlace, BlocksDecide
<1> QED
  BY <1>1, <1>2, <1>3, Typing, PTL DEF Spec

=============================================================================
