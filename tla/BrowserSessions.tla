---------------------------- MODULE BrowserSessions ----------------------------
(***************************************************************************)
(* The persistent browser sessions of one Skyvern process:                 *)
(* DefaultPersistentSessionsManager launches a browser for each on a CDP   *)
(* port and keeps it in memory and in a table, while close requests, runs  *)
(* and restarts of the process come at any time.  ENV is "local", its      *)
(* default: addresses are archived, and the sessions of a dead process are *)
(* closed at startup.                                                      *)
(*                                                                         *)
(* A session has at most two browsers, that of its launch and one that a   *)
(* run created because it found none.  Closing a browser succeeds, and the *)
(* database fails nowhere but in a launch, where an exception may come at  *)
(* any point.  The occupant of a session, which no step here reads, is     *)
(* left out.                                                               *)
(***************************************************************************)
EXTENDS Naturals, FiniteSets

CONSTANTS
    Sessions,    \* sessions that may be created
    Closers,     \* calls of close_session that may be in flight at once
    MaxRuns,     \* bound: browsers of runs, open or being created
    NumPorts,    \* _CDP_PORT_RANGE_END - _CDP_PORT_RANGE_START + 1
    MaxRestarts  \* bound: restarts of the process

ASSUME SessionsAssumption == NumPorts \in Nat /\ MaxRestarts \in Nat /\ MaxRuns \in Nat

Ports == 1 .. NumPorts
Archived == NumPorts + 1
Launchers == {"launch", "run"}

VARIABLES
    row,        \* the persistent_browser_sessions table
    memory,     \* _browser_sessions: the browser registered for a session
    open,       \* the browsers of a session that are open, by who launched them
    allocated,  \* _allocated_ports
    port,       \* the port of a session's launch, 0 when there was none
    launch,     \* where the launch of a session is
    closer,     \* the calls of close_session in flight
    fetch,      \* where a run that was given the session is
    stale,      \* what cleanup_stale_sessions has yet to close
    lost,       \* sessions whose port somebody else released while they used it
    restarts

vars == <<row, memory, open, allocated, port, launch, closer, fetch, stale, lost, restarts>>
process == <<stale, restarts>>

NoRow == [status |-> "none", completed |-> FALSE, address |-> 0]
Idle == [at |-> "idle"]

Init ==
    /\ row = [s \in Sessions |-> NoRow]
    /\ memory = [s \in Sessions |-> "none"]
    /\ open = [s \in Sessions |-> {}]
    /\ allocated = {}
    /\ port = [s \in Sessions |-> 0]
    /\ launch = [s \in Sessions |-> "none"]
    /\ closer = [c \in Closers |-> Idle]
    /\ fetch = [s \in Sessions |-> "none"]
    /\ stale = {}
    /\ lost = {}
    /\ restarts = 0

\* The process serves: cleanup_stale_sessions has returned.
Serving == stale = {}

Exists(s) == row[s].status # "none"

(***************************************************************************)
(* Ports.                                                                  *)
(***************************************************************************)

\* Session s is bringing up a browser on its port, or has one there.
Uses(s) == launch[s] = "starting" \/ "launch" \in open[s]

Listening(p) == \E s \in Sessions : "launch" \in open[s] /\ port[s] = p

\* MUTANT of Allocatable: the port is not bound to see that it is free.
AllocatableUnbound(p) == p \notin allocated

Allocatable(p) == p \notin allocated /\ ~Listening(p)

\* The port of s goes back to the pool, whoever holds it by now.
ReleasePort(s) ==
    /\ allocated' = allocated \ {port[s]}
    /\ lost' = lost \cup {t \in Sessions \ {s} : Uses(t) /\ port[t] = port[s]}

(***************************************************************************)
(* create_session and _launch_browser_for_session.                         *)
(***************************************************************************)

\* ACTION: CreateSession ---------------------------------------------------
CreateSession(s) ==
    /\ Serving
    /\ ~Exists(s)
    /\ row' = [row EXCEPT ![s].status = "created"]
    /\ launch' = [launch EXCEPT ![s] = "allocate"]
    /\ UNCHANGED <<memory, open, allocated, port, closer, lost, fetch, process>>

\* MUTANT of Free: the range begins one port early.
FreeEarly == {p \in 0 .. NumPorts : Allocatable(p)}

\* The ports _allocate_cdp_port can return.
Free == {p \in Ports : Allocatable(p)}

\* ACTION: Allocate --------------------------------------------------------
\* The first port that is free; without one the session has no browser.
Allocate(s) ==
    /\ launch[s] = "allocate"
    /\ \/ \E p \in Free :
            /\ \A q \in Free : p <= q
            /\ port' = [port EXCEPT ![s] = p]
            /\ allocated' = allocated \cup {p}
            /\ launch' = [launch EXCEPT ![s] = "starting"]
       \/ /\ Free = {}
          /\ launch' = [launch EXCEPT ![s] = "ended"]
          /\ UNCHANGED <<port, allocated>>
    /\ UNCHANGED <<row, memory, open, closer, lost, fetch, process>>

\* ACTION: Open ------------------------------------------------------------
Open(s) ==
    /\ launch[s] = "starting"
    /\ open' = [open EXCEPT ![s] = @ \cup {"launch"}]
    /\ launch' = [launch EXCEPT ![s] = "opened"]
    /\ UNCHANGED <<row, memory, allocated, port, closer, lost, fetch, process>>

\* ACTION: Register --------------------------------------------------------
Register(s) ==
    /\ launch[s] = "opened"
    /\ memory' = [memory EXCEPT ![s] = "launch"]
    /\ launch' = [launch EXCEPT ![s] = "registered"]
    /\ UNCHANGED <<row, open, allocated, port, closer, lost, fetch, process>>

\* ACTION: SetAddress ------------------------------------------------------
\* The column is unique: another row that has the address makes it fail.
SetAddress(s) ==
    /\ launch[s] = "registered"
    /\ \A t \in Sessions : row[t].address # port[s]
    /\ row' = [row EXCEPT ![s].address = port[s]]
    /\ launch' = [launch EXCEPT ![s] = "addressed"]
    /\ UNCHANGED <<memory, open, allocated, port, closer, lost, fetch, process>>

\* ACTION: MarkRunning -----------------------------------------------------
\* The commit of update_persistent_browser_session.  The status is written
\* whatever the row has become.
MarkRunning(s) ==
    /\ launch[s] = "addressed"
    /\ row' = [row EXCEPT ![s].status = "running"]
    /\ launch' = [launch EXCEPT ![s] = "marked"]
    /\ UNCHANGED <<memory, open, allocated, port, closer, lost, fetch, process>>

\* ACTION: EndLaunch -------------------------------------------------------
\* The row was refreshed after the commit, and the launch returns.
EndLaunch(s) ==
    /\ launch[s] = "marked"
    /\ launch' = [launch EXCEPT ![s] = "ended"]
    /\ UNCHANGED <<row, memory, open, allocated, port, closer, lost, fetch, process>>

\* ACTION: FailLaunch ------------------------------------------------------
\* An exception, or the cancellation of the launch, after the commit of the
\* status too: the port is released, then the browser is closed; what has been
\* registered and written stays so.
FailLaunch(s) ==
    /\ launch[s] \in {"starting", "opened", "registered", "addressed", "marked"}
    /\ ReleasePort(s)
    /\ launch' = [launch EXCEPT ![s] = "failing"]
    /\ UNCHANGED <<row, memory, open, port, closer, fetch, process>>

\* ACTION: EndFailedLaunch -------------------------------------------------
EndFailedLaunch(s) ==
    /\ launch[s] = "failing"
    /\ open' = [open EXCEPT ![s] = @ \ {"launch"}]
    /\ launch' = [launch EXCEPT ![s] = "failed"]
    /\ UNCHANGED <<row, memory, allocated, port, closer, lost, fetch, process>>

(***************************************************************************)
(* close_session.  It is called by the close request, by the renewal loop  *)
(* of a run and a debug session for a session that cannot be renewed, by a *)
(* new debug session for the old ones, by the trigger block for the        *)
(* session it created, and at shutdown: at any time, and more than once.   *)
(***************************************************************************)

\* ACTION: StartClose ------------------------------------------------------
\* The browser is read; its profile and videos are then exported.
StartClose(c, s) ==
    /\ Serving
    /\ closer[c].at = "idle"
    /\ Exists(s)
    /\ closer' = [closer EXCEPT ![c] =
            [at |-> IF memory[s] = "none" THEN "marking" ELSE "exporting",
             session |-> s, browser |-> memory[s]]]
    /\ UNCHANGED <<row, memory, open, allocated, port, launch, lost, fetch, process>>

\* ACTION: Forget ----------------------------------------------------------
\* What is registered by now is dropped; the port is that of the browser
\* read before, and goes back while that browser is still open.
Forget(c) ==
    /\ closer[c].at = "exporting"
    /\ memory' = [memory EXCEPT ![closer[c].session] = "none"]
    /\ \/ closer[c].browser = "launch" /\ ReleasePort(closer[c].session)
       \/ closer[c].browser = "run" /\ UNCHANGED <<allocated, lost>>
    /\ closer' = [closer EXCEPT ![c].at = "stopping"]
    /\ UNCHANGED <<row, open, port, launch, fetch, process>>

\* ACTION: StopBrowser -----------------------------------------------------
StopBrowser(c) ==
    /\ closer[c].at = "stopping"
    /\ open' = [open EXCEPT ![closer[c].session] = @ \ {closer[c].browser}]
    /\ closer' = [closer EXCEPT ![c].at = "marking", ![c].browser = "none"]
    /\ UNCHANGED <<row, memory, allocated, port, launch, lost, fetch, process>>

\* ACTION: MarkClosed ------------------------------------------------------
\* A row that is completed already is left as it is.
MarkClosed(c) ==
    /\ closer[c].at = "marking"
    /\ row' = IF row[closer[c].session].completed THEN row
              ELSE [row EXCEPT ![closer[c].session].completed = TRUE,
                               ![closer[c].session].status = "completed"]
    /\ closer' = [closer EXCEPT ![c].at = "archiving"]
    /\ UNCHANGED <<memory, open, allocated, port, launch, lost, fetch, process>>

\* archive_browser_session_address: the address is free for other rows.
ArchivedRow(s) ==
    [row EXCEPT ![s].address = IF @ \in Ports THEN Archived ELSE @]

\* ACTION: Archive ---------------------------------------------------------
Archive(c) ==
    /\ closer[c].at = "archiving"
    /\ row' = ArchivedRow(closer[c].session)
    /\ closer' = [closer EXCEPT ![c] = Idle]
    /\ UNCHANGED <<memory, open, allocated, port, launch, lost, fetch, process>>

(***************************************************************************)
(* A run that was given a session.                                         *)
(***************************************************************************)

RunBrowsers == {s \in Sessions : fetch[s] # "none" \/ "run" \in open[s]}

\* ACTION: UseSession ------------------------------------------------------
\* begin_session asks only whether the row exists; the run takes the browser
\* that is registered when it first needs one, or else creates one.
UseSession(s) ==
    /\ Serving
    /\ Exists(s)
    /\ memory[s] = "none"
    /\ s \notin RunBrowsers /\ Cardinality(RunBrowsers) < MaxRuns
    /\ fetch' = [fetch EXCEPT ![s] = "creating"]
    /\ UNCHANGED <<row, memory, open, allocated, port, launch, closer, lost, process>>

\* ACTION: RegisterOwn -----------------------------------------------------
\* set_browser_state replaces whatever has been registered meanwhile, without
\* a port.
RegisterOwn(s) ==
    /\ fetch[s] = "creating"
    /\ open' = [open EXCEPT ![s] = @ \cup {"run"}]
    /\ memory' = [memory EXCEPT ![s] = "run"]
    /\ fetch' = [fetch EXCEPT ![s] = "none"]
    /\ UNCHANGED <<row, allocated, port, launch, closer, lost, process>>

\* ACTION: FailRun ---------------------------------------------------------
\* The browser cannot be created and the run fails.
FailRun(s) ==
    /\ fetch[s] = "creating"
    /\ fetch' = [fetch EXCEPT ![s] = "none"]
    /\ UNCHANGED <<row, memory, open, allocated, port, launch, closer, lost, process>>

(***************************************************************************)
(* The process ends and starts again.                                      *)
(***************************************************************************)

\* MUTANT of Uncompleted: the rows of sessions that run are missed.
UncompletedCreated == {s \in Sessions : row[s].status = "created"}

\* The rows get_uncompleted_persistent_browser_sessions returns.
Uncompleted == {s \in Sessions : Exists(s) /\ ~row[s].completed}

\* ACTION: Restart ---------------------------------------------------------
\* The browsers die with the process; cleanup_stale_sessions reads the rows
\* that are not completed.
Restart ==
    /\ restarts < MaxRestarts
    /\ restarts' = restarts + 1
    /\ stale' = Uncompleted
    /\ memory' = [s \in Sessions |-> "none"]
    /\ open' = [s \in Sessions |-> {}]
    /\ allocated' = {}
    /\ launch' = [s \in Sessions |-> IF launch[s] = "none" THEN "none" ELSE "ended"]
    /\ closer' = [c \in Closers |-> Idle]
    /\ fetch' = [s \in Sessions |-> "none"]
    /\ port' = [s \in Sessions |-> 0]
    /\ lost' = {}
    /\ UNCHANGED row

\* ACTION: CompleteStale ---------------------------------------------------
\* cleanup_stale_sessions closes one row after the other, each in two
\* transactions.
CompleteStale(s) ==
    /\ s \in stale
    /\ \A t \in stale : ~row[t].completed
    /\ row' = [row EXCEPT ![s].completed = TRUE, ![s].status = "completed"]
    /\ UNCHANGED <<memory, open, allocated, port, launch, closer, lost, fetch, process>>

\* ACTION: ArchiveStale ----------------------------------------------------
ArchiveStale(s) ==
    /\ s \in stale /\ row[s].completed
    /\ row' = ArchivedRow(s)
    /\ stale' = stale \ {s}
    /\ UNCHANGED <<memory, open, allocated, port, launch, closer, lost, fetch, restarts>>

Next ==
    \/ \E s \in Sessions :
        \/ CreateSession(s) \/ Allocate(s) \/ Open(s) \/ Register(s)
        \/ SetAddress(s) \/ MarkRunning(s) \/ EndLaunch(s)
        \/ FailLaunch(s) \/ EndFailedLaunch(s)
        \/ UseSession(s) \/ RegisterOwn(s) \/ FailRun(s)
        \/ CompleteStale(s) \/ ArchiveStale(s)
        \/ \E c \in Closers : StartClose(c, s)
    \/ \E c \in Closers : Forget(c) \/ StopBrowser(c) \/ MarkClosed(c) \/ Archive(c)
    \/ Restart

Spec == Init /\ [][Next]_vars

------------------------------------------------------------------------------
(***************************************************************************)
(* Properties.                                                             *)
(***************************************************************************)

\* Types of the state.
TypeOK ==
    /\ row \in [Sessions -> [status : {"none", "created", "running", "completed"},
                             completed : BOOLEAN, address : 0 .. Archived]]
    /\ memory \in [Sessions -> Launchers \cup {"none"}]
    /\ open \in [Sessions -> SUBSET Launchers]
    /\ allocated \subseteq Ports
    /\ port \in [Sessions -> 0 .. NumPorts]
    /\ launch \in [Sessions -> {"none", "allocate", "starting", "opened", "registered",
                                "addressed", "marked", "failing", "failed", "ended"}]
    /\ closer \in [Closers -> {Idle} \cup
            [at : {"exporting", "stopping", "marking", "archiving"}, session : Sessions,
             browser : Launchers \cup {"none"}]]
    /\ fetch \in [Sessions -> {"none", "creating"}]
    /\ stale \subseteq Sessions
    /\ lost \subseteq Sessions
    /\ restarts \in 0 .. MaxRestarts

\* Two sessions never use one CDP port, although close_session gives a port
\* back before its browser has left it (default_persistent_sessions_manager.py
\* :464-469); the exception are sessions whose port a second close, or a close
\* after a failed launch, released for them.
PortsApart ==
    \A s, t \in Sessions :
        s # t /\ Uses(s) /\ Uses(t) /\ port[s] = port[t] => s \in lost \/ t \in lost

BeingClosed(s) == \E c \in Closers : closer[c].at # "idle" /\ closer[c].session = s

\* An exception came after the launch had committed the status, or while it
\* was not yet there.
LaunchFailed(s) == launch[s] \in {"failing", "failed"}

\* A session whose row says running and is not completed has an open browser
\* in memory, unless a close of it is under way or its own launch failed after
\* it had committed that status (update_persistent_browser_session awaits a
\* refresh after the commit).  Whatever runs registered over the launch's
\* browser, whatever several closes did to each other, and a restart, leave no
\* other such row.  Of completed rows nothing is said: a launch that a close
\* overtook leaves one that says running, with or without a browser
\* (_launch_browser_for_session writes the status whatever the row has become).
RunningHasBrowser ==
    \A s \in Sessions :
        Serving /\ row[s].status = "running" /\ ~row[s].completed =>
            memory[s] \in open[s] \/ BeingClosed(s) \/ LaunchFailed(s)

(***************************************************************************)
(* The inductive invariants of BrowserProofs.                              *)
(***************************************************************************)

\* A session whose port nobody else released still has it in the pool's
\* books, or its browser listens on it.
PortHeld ==
    \A s \in Sessions :
        Uses(s) /\ s \notin lost => port[s] \in allocated \/ "launch" \in open[s]

Launched == {"registered", "addressed", "marked", "failing", "failed", "ended"}

\* A launch happens once and in order: what memory, a closer, the process and
\* the row have of it tells how far it has come.
LaunchOrder ==
    /\ \A s \in Sessions :
          /\ memory[s] = "launch" => launch[s] \in Launched
          /\ "launch" \in open[s] => launch[s] \in Launched \cup {"opened"}
          /\ launch[s] = "opened" => "launch" \in open[s]
          /\ row[s].status = "none" => launch[s] = "none"
          /\ row[s].status = "running" =>
                launch[s] \in {"marked", "failing", "failed", "ended"}
    /\ \A c \in Closers :
          closer[c].at # "idle" /\ closer[c].browser = "launch" =>
             launch[closer[c].session] \in Launched

Promised(s) ==
    /\ row[s].status = "running" \/ launch[s] \in {"registered", "addressed", "marked"}
    /\ ~row[s].completed /\ ~LaunchFailed(s)
    /\ s \notin stale

\* A row that is running, or is about to be, has its browser until a close
\* that completes it.
RowsBacked ==
    /\ \A s \in Sessions : Promised(s) => memory[s] \in open[s] \/ BeingClosed(s)
    /\ \A c \in Closers :
          closer[c].at = "archiving" => row[closer[c].session].completed

=============================================================================
