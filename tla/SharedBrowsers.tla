---------------------------- MODULE SharedBrowsers ----------------------------
(***************************************************************************)
(* RealBrowserManager.pages: the table by which the workflow runs of a     *)
(* process, their tasks, and the runs that a trigger block or a task-v2    *)
(* block starts inside them share browsers.  A fetch that is given a       *)
(* persistent session takes the browser of the session; any other fetch    *)
(* takes the browser of the run above, or creates one.  The cleanup of a   *)
(* run without a session closes a browser when no other entry of the table *)
(* has it, a run with a session closes none, and the run of a task-v2      *)
(* block is not cleaned up at all.                                         *)
(*                                                                         *)
(* A browser is named by the session or the run that launched it.  Closing *)
(* a browser succeeds, and close_browser_on_completion is TRUE, its        *)
(* default.  The life of the sessions is BrowserSessions' concern: here    *)
(* the browser of one may appear and be closed at any time.                *)
(***************************************************************************)
EXTENDS Naturals

CONSTANTS
    SessionIds, \* persistent sessions
    NumRuns,    \* bound: workflow runs
    NumTasks    \* bound: tasks of a run that have an entry of their own

ASSUME RunsAssumption ==
    /\ NumRuns \in Nat /\ NumTasks \in Nat
    /\ SessionIds \cap Nat = {}

Runs == 1 .. NumRuns
Browsers == Runs \cup SessionIds
None == 0

\* Entry 0 of a run is its own, the others are its tasks'.
Keys == Runs \X (0 .. NumTasks)

VARIABLES
    pages,       \* the table
    registered,  \* the browser registered for each session
    live,        \* the browsers that are open
    own,         \* the browsers created by a fetch without a session
    parent,      \* the run that started a run inside it, None for the others
    session,     \* the session a run was given, or None
    taskV2,      \* the runs of task-v2 blocks
    at,          \* where a run is
    hand,        \* the browser a run fetched, or has to close
    popped       \* number of entries its cleanup has taken out

sharedVars == <<pages, registered, live, own, parent, session, taskV2, at, hand, popped>>
given == <<parent, session, taskV2>>

SharedInit ==
    /\ pages = [k \in Keys |-> None]
    /\ registered = [s \in SessionIds |-> None]
    /\ live = {} /\ own = {} /\ taskV2 = {}
    /\ parent = [r \in Runs |-> None]
    /\ session = [r \in Runs |-> None]
    /\ at = [r \in Runs |-> "idle"]
    /\ hand = [r \in Runs |-> None]
    /\ popped = [r \in Runs |-> 0]

(***************************************************************************)
(* Sessions.                                                               *)
(***************************************************************************)

\* ACTION: LaunchSession ---------------------------------------------------
LaunchSession(s) ==
    /\ s \notin live
    /\ registered' = [registered EXCEPT ![s] = s]
    /\ live' = live \cup {s}
    /\ UNCHANGED <<pages, own, given, at, hand, popped>>

\* ACTION: CloseSession ----------------------------------------------------
CloseSession(s) ==
    /\ registered[s] # None
    /\ registered' = [registered EXCEPT ![s] = None]
    /\ live' = live \ {registered[s]}
    /\ UNCHANGED <<pages, own, given, at, hand, popped>>

(***************************************************************************)
(* A run begins, by itself or inside a block of another, which waits for   *)
(* it.                                                                     *)
(***************************************************************************)

\* ACTION: BeginRun --------------------------------------------------------
BeginRun(r, s) ==
    /\ at[r] = "idle"
    /\ session' = [session EXCEPT ![r] = s]
    /\ at' = [at EXCEPT ![r] = "working"]
    /\ UNCHANGED <<pages, registered, live, own, parent, taskV2, hand, popped>>

\* What a block of run p does to start run r inside it.
Nested(p, r) ==
    /\ at[p] = "working" /\ p \notin taskV2
    /\ at[r] = "idle"
    /\ r # p
    /\ parent' = [parent EXCEPT ![r] = p]
    /\ at' = [at EXCEPT ![r] = "working", ![p] = "waiting"]
    /\ UNCHANGED <<pages, registered, live, own, hand, popped>>

\* ACTION: Trigger ---------------------------------------------------------
\* The child has the session the block names or creates, or the parent's:
\* none only if the parent has none.
Trigger(p, r) ==
    /\ Nested(p, r)
    /\ \E s \in SessionIds \cup {session[p]} : session' = [session EXCEPT ![r] = s]
    /\ UNCHANGED taskV2

\* ACTION: StartTaskV2 -----------------------------------------------------
\* The run of a task-v2 block; its own blocks start no run.
StartTaskV2(p, r) ==
    /\ Nested(p, r)
    /\ session' = [session EXCEPT ![r] = session[p]]
    /\ taskV2' = taskV2 \cup {r}

(***************************************************************************)
(* get_or_create_for_workflow_run and get_for_task.  A run with a session  *)
(* passes it to the fetch, but the record of a fallback and a login by a   *)
(* saved profile fetch without it (service.py:1319, 1665).                 *)
(***************************************************************************)

\* ACTION: Inherit ---------------------------------------------------------
\* A fetch without a session takes the entry of the run above.
Inherit(r) ==
    /\ at[r] = "working"
    /\ pages[<<r, 0>>] = None
    /\ parent[r] # None
    /\ pages[<<parent[r], 0>>] # None
    /\ pages' = [pages EXCEPT ![<<r, 0>>] = pages[<<parent[r], 0>>]]
    /\ UNCHANGED <<registered, live, own, given, at, hand, popped>>

\* ACTION: Look ------------------------------------------------------------
\* A fetch with the session reads the browser of the session.
Look(r) ==
    /\ at[r] = "working"
    /\ pages[<<r, 0>>] = None
    /\ session[r] # None
    /\ at' = [at EXCEPT ![r] = "fetching"]
    /\ hand' = [hand EXCEPT ![r] = registered[session[r]]]
    /\ UNCHANGED <<pages, registered, live, own, given, popped>>

\* ACTION: FindNone --------------------------------------------------------
\* A fetch without a session finds no entry above.
FindNone(r) ==
    /\ at[r] = "working"
    /\ pages[<<r, 0>>] = None
    /\ parent[r] # None => pages[<<parent[r], 0>>] = None
    /\ at' = [at EXCEPT ![r] = "creating"]
    /\ UNCHANGED <<pages, registered, live, own, given, hand, popped>>

\* MUTANT of Entered: the entry above follows whatever session was passed.
EnteredAll(r, b) ==
    [pages EXCEPT ![<<r, 0>>] = b,
                  ![<<IF parent[r] # None THEN parent[r] ELSE r, 0>>] = b]

\* The entries after run r has come by browser b: after a fetch without a
\* session, the entry of the run above follows its own.
Entered(r, b) ==
    LET follower == IF at[r] = "creating" /\ parent[r] # None THEN parent[r] ELSE r
    IN  [pages EXCEPT ![<<r, 0>>] = b, ![<<follower, 0>>] = b]

\* ACTION: TakeFound -------------------------------------------------------
TakeFound(r) ==
    /\ at[r] = "fetching"
    /\ hand[r] # None
    /\ pages' = Entered(r, hand[r])
    /\ at' = [at EXCEPT ![r] = "working"]
    /\ hand' = [hand EXCEPT ![r] = None]
    /\ UNCHANGED <<registered, live, own, given, popped>>

\* ACTION: CreateForSession ------------------------------------------------
\* The session has no browser: set_browser_state registers the new one, over
\* what is there by now.
CreateForSession(r) ==
    /\ at[r] = "fetching"
    /\ hand[r] = None
    /\ live' = live \cup {r}
    /\ registered' = [registered EXCEPT ![session[r]] = r]
    /\ pages' = Entered(r, r)
    /\ at' = [at EXCEPT ![r] = "working"]
    /\ UNCHANGED <<own, given, hand, popped>>

\* ACTION: CreateOwn -------------------------------------------------------
CreateOwn(r) ==
    /\ at[r] = "creating"
    /\ live' = live \cup {r}
    /\ own' = own \cup {r}
    /\ pages' = Entered(r, r)
    /\ at' = [at EXCEPT ![r] = "working"]
    /\ UNCHANGED <<registered, given, hand, popped>>

\* ACTION: FetchFails ------------------------------------------------------
\* The page, the navigation or the creation fails, and the block with it.
FetchFails(r) ==
    /\ at[r] \in {"fetching", "creating"}
    /\ at' = [at EXCEPT ![r] = "working"]
    /\ hand' = [hand EXCEPT ![r] = None]
    /\ UNCHANGED <<pages, registered, live, own, given, popped>>

\* ACTION: EnterTask -------------------------------------------------------
EnterTask(r, i) ==
    /\ at[r] = "working"
    /\ pages[<<r, i>>] = None
    /\ pages[<<r, 0>>] # None
    /\ pages' = [pages EXCEPT ![<<r, i>>] = pages[<<r, 0>>]]
    /\ UNCHANGED <<registered, live, own, given, at, hand, popped>>

(***************************************************************************)
(* The end of a run: cleanup_for_workflow_run, or nothing.                 *)
(***************************************************************************)

\* MUTANT of InUse: the table is searched before the entry is taken out.
InUseBefore(k) == \E other \in Keys : pages[other] = pages[k]

\* Another entry than k has the same browser.
InUse(k) == \E other \in Keys \ {k} : pages[other] = pages[k]

\* Run r is over, and the run that waits for it goes on.
Ended(r) ==
    at' = [q \in Runs |-> IF q = r THEN "done"
                          ELSE IF q = parent[r] THEN "working" ELSE at[q]]

\* ACTION: EndTaskV2 -------------------------------------------------------
\* The run of a task-v2 block returns with its entries left in the table.
EndTaskV2(r) ==
    /\ at[r] = "working" /\ r \in taskV2
    /\ Ended(r)
    /\ UNCHANGED <<pages, registered, live, own, given, hand, popped>>

\* ACTION: CleanUpEntry ----------------------------------------------------
\* The close of the browser in hand returns.  The next entry, the run's own
\* first, is taken out, and its browser is the next to close, unless the run
\* has a session or the browser is in use.
CleanUpEntry(r) ==
    /\ \/ at[r] = "working" /\ r \notin taskV2 /\ popped[r] = 0
       \/ at[r] = "cleaning" /\ popped[r] <= NumTasks
    /\ LET k == <<r, popped[r]>>
       IN  /\ pages' = [pages EXCEPT ![k] = None]
           /\ hand' = [hand EXCEPT ![r] =
                    IF session[r] = None /\ ~InUse(k) THEN pages[k] ELSE None]
    /\ live' = live \ {hand[r]}
    /\ popped' = [popped EXCEPT ![r] = @ + 1]
    /\ at' = [at EXCEPT ![r] = "cleaning"]
    /\ UNCHANGED <<registered, own, given>>

\* ACTION: EndRun ----------------------------------------------------------
\* The last close returns.
EndRun(r) ==
    /\ at[r] = "cleaning"
    /\ popped[r] = NumTasks + 1
    /\ live' = live \ {hand[r]}
    /\ hand' = [hand EXCEPT ![r] = None]
    /\ Ended(r)
    /\ UNCHANGED <<pages, registered, own, given, popped>>

SharedNext ==
    \/ \E s \in SessionIds : LaunchSession(s) \/ CloseSession(s)
    \/ \E r \in Runs :
        \/ \E s \in SessionIds \cup {None} : BeginRun(r, s)
        \/ \E p \in Runs : Trigger(p, r) \/ StartTaskV2(p, r)
        \/ \E i \in 1 .. NumTasks : EnterTask(r, i)
        \/ Inherit(r) \/ Look(r) \/ FindNone(r)
        \/ TakeFound(r) \/ CreateForSession(r) \/ CreateOwn(r) \/ FetchFails(r)
        \/ EndTaskV2(r) \/ CleanUpEntry(r) \/ EndRun(r)

SharedSpec == SharedInit /\ [][SharedNext]_sharedVars

------------------------------------------------------------------------------
(***************************************************************************)
(* Properties.                                                             *)
(***************************************************************************)

\* Types of the state.
SharedTypeOK ==
    /\ pages \in [Keys -> Browsers \cup {None}]
    /\ registered \in [SessionIds -> Browsers \cup {None}]
    /\ live \subseteq Browsers
    /\ own \subseteq Runs
    /\ taskV2 \subseteq Runs
    /\ parent \in [Runs -> Runs \cup {None}]
    /\ session \in [Runs -> SessionIds \cup {None}]
    /\ at \in [Runs -> {"idle", "working", "waiting", "fetching", "creating", "cleaning", "done"}]
    /\ hand \in [Runs -> Browsers \cup {None}]
    /\ popped \in [Runs -> 0 .. NumTasks + 1]

\* The code leaves browser b open for ever: a run with a session created it
\* by a fetch without one, and no run that may close it got it (cleanup with
\* close_browser_on_completion FALSE, service.py:1319, 1665); or the run of a
\* task-v2 block ended with it in the table (task_v2_service.py:500).
Unclosable(b) == session[b] # None /\ (parent[b] # None => session[parent[b]] # None)
LeftOpen(b) ==
    \/ Unclosable(b)
    \/ \E k \in Keys : pages[k] = b /\ k[1] \in taskV2 /\ at[k[1]] = "done"

\* Runs above and below a run, and all their tasks, may share the browser it
\* created.  No cleanup closes it under an entry that has it; and it is open
\* only as long as a run that goes on has an entry with it or its last close
\* is under way, but for the two ways the code leaves it open for ever
\* (cleanup_for_workflow_run, "skip closing the browser so the parent can
\* continue using it").
OwnBrowserLives ==
    \A b \in own :
        /\ (\E k \in Keys : pages[k] = b) => b \in live
        /\ b \in live =>
              \/ \E k \in Keys : pages[k] = b /\ at[k[1]] # "done"
              \/ \E r \in Runs : at[r] = "cleaning" /\ hand[r] = b
              \/ LeftOpen(b)

\* A run keeps its browser until its own cleanup, whatever the runs it
\* triggers do ("overwriting the parent's entry would break subsequent parent
\* blocks", real_browser_manager.py:229-231).
KeepsBrowser ==
    [][\A r \in Runs :
        pages[<<r, 0>>] # None =>
            pages'[<<r, 0>>] = pages[<<r, 0>>] \/ at'[r] = "cleaning"]_sharedVars

(***************************************************************************)
(* The inductive invariants of BrowserProofs.                              *)
(***************************************************************************)

Alive == {"working", "waiting", "fetching", "creating", "cleaning"}

\* A run that has not begun has nothing, a run waits for one run at most, and a
\* run inside one with a session has a session.
RunTree ==
    \A r \in Runs :
        /\ at[r] = "idle" =>
              /\ parent[r] = None /\ session[r] = None
              /\ \A i \in 0 .. NumTasks : pages[<<r, i>>] = None
        /\ at[r] = "fetching" => session[r] # None
        /\ parent[r] # None =>
              /\ at[parent[r]] # "idle"
              /\ session[r] = None => session[parent[r]] = None
        /\ parent[r] # None /\ at[r] \in Alive =>
              /\ at[parent[r]] = "waiting"
              /\ \A q \in Runs : at[q] \in Alive /\ parent[q] = parent[r] => q = r

\* Nobody enters a browser for a run that fetches one, nor, when the fetch has
\* no session, for the run above.
FetchesFirst ==
    \A r \in Runs :
        /\ at[r] \in {"fetching", "creating"} => pages[<<r, 0>>] = None
        /\ at[r] = "creating" /\ parent[r] # None => pages[<<parent[r], 0>>] = None

\* A run creates one browser at most: before its first it has none of its own.
Fresh ==
    \A r \in Runs :
        pages[<<r, 0>>] = None /\ at[r] \notin {"cleaning", "done"} =>
            /\ r \notin own /\ r \notin live
            /\ \A s \in SessionIds : registered[s] # r
            /\ \A q \in Runs : hand[q] # r
            /\ \A k \in Keys : pages[k] # r

\* A browser created without a session is no session's, and is in no run's
\* hand but to be closed, when it has no entry any more.
OwnApart ==
    /\ \A s \in SessionIds : registered[s] \notin own
    /\ \A r \in Runs : hand[r] \in own =>
          at[r] = "cleaning" /\ \A k \in Keys : pages[k] # hand[r]

\* A run with a session shares it with the run above, which may close it.
HeldAbove ==
    \A r \in Runs, i \in 0 .. NumTasks :
        session[r] # None /\ at[r] \in Alive
            /\ pages[<<r, i>>] \in own /\ ~Unclosable(pages[<<r, i>>]) =>
                /\ parent[r] # None
                /\ pages[<<parent[r], 0>>] = pages[<<r, i>>]

\* The cleanup takes out every entry of a run.
Emptied ==
    \A r \in Runs :
        /\ at[r] = "cleaning" => r \notin taskV2
        /\ at[r] = "done" /\ r \notin taskV2 => popped[r] = NumTasks + 1
        /\ at[r] \in {"cleaning", "done"} =>
              \A i \in 0 .. NumTasks : i < popped[r] => pages[<<r, i>>] = None
        /\ at[r] \notin {"cleaning", "done"} \/ r \in taskV2 => popped[r] = 0

=============================================================================
