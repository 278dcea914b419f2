----------------------------- MODULE BrowserProofs -----------------------------
(***************************************************************************)
(* Proofs about the browsers of a Skyvern process: its persistent sessions *)
(* (BrowserSessions), for every set of sessions and of calls that close    *)
(* them, every range of ports and any number of restarts, and the table by *)
(* which its runs share browsers (SharedBrowsers), further below.          *)
(***************************************************************************)
EXTENDS BrowserSessions, SharedBrowsers, TLAPS

(***************************************************************************)
(* Types, and the order of a launch.                                       *)
(***************************************************************************)

Tables == [Sessions -> [status : {"none", "created", "running", "completed"},
                        completed : BOOLEAN, address : 0 .. Archived]]

\* A row keeps its type when its address is archived.
LEMMA ArchivedType ==
    ASSUME TypeOK, NEW s \in Sessions
    PROVE  /\ ArchivedRow(s) \in Tables
           /\ \A t \in Sessions : /\ ArchivedRow(s)[t].status = row[t].status
                                  /\ ArchivedRow(s)[t].completed = row[t].completed
  BY SessionsAssumption DEF ArchivedRow, Archived, Ports, Tables, TypeOK

Completed(table, s) ==
    [table EXCEPT ![s].completed = TRUE, ![s].status = "completed"]

\* A table keeps its type when a row is completed, and the other rows stay.
LEMMA CompletedType ==
    ASSUME NEW table \in Tables, NEW s \in Sessions
    PROVE  /\ Completed(table, s) \in Tables
           /\ Completed(table, s)[s].completed = TRUE
           /\ \A t \in Sessions :
                 /\ Completed(table, s)[t].status \in {table[t].status, "completed"}
                 /\ table[t].completed => Completed(table, s)[t].completed
  BY DEF Completed, Tables

\* What the startup does to the rows: the status stays or becomes completed,
\* and no row is opened again.
LEMMA StaleRows ==
    ASSUME TypeOK, NEW s \in Sessions, CompleteStale(s) \/ ArchiveStale(s)
    PROVE  /\ row'[s].completed
           /\ \A t \in Sessions : /\ row'[t].status \in {row[t].status, "completed"}
                                  /\ row[t].completed => row'[t].completed
<1>1. CASE CompleteStale(s)
  <2>1. row' = Completed(row, s) /\ row \in Tables
    BY <1>1 DEF CompleteStale, Completed, TypeOK, Tables
  <2> QED
    BY <2>1, CompletedType
<1>2. CASE ArchiveStale(s)
  BY <1>2, ArchivedType DEF ArchiveStale
<1> QED
  BY <1>1, <1>2

Calls == [at : {"exporting", "stopping", "marking", "archiving"},
          session : Sessions, browser : Launchers \cup {"none"}]

\* A call that is under way is about a session.
LEMMA CloserOf ==
    ASSUME TypeOK, NEW c \in Closers, closer[c].at # "idle"
    PROVE  closer[c] \in Calls /\ closer[c].session \in Sessions
<1>1. closer[c] \in {Idle} \cup Calls
  BY DEF TypeOK, Calls
<1>2. closer[c] \in Calls
  BY <1>1 DEF Idle
<1> QED
  BY <1>2 DEF Calls

\* A call keeps its type when it goes on, and the other calls theirs.
LEMMA CallTypes ==
    ASSUME TypeOK, NEW c \in Closers, closer'[c] \in {Idle} \cup Calls,
           closer' = [closer EXCEPT ![c] = closer'[c]]
    PROVE  closer' \in [Closers -> {Idle} \cup Calls]
  BY DEF TypeOK, Calls

\* The steps of a launch keep the types.
LEMMA LaunchTypes ==
    ASSUME TypeOK, NEW s \in Sessions,
           \/ CreateSession(s) \/ Allocate(s) \/ Open(s) \/ Register(s)
           \/ SetAddress(s) \/ MarkRunning(s) \/ EndLaunch(s)
           \/ FailLaunch(s) \/ EndFailedLaunch(s)
    PROVE  TypeOK'
<1> USE SessionsAssumption DEF process
<1>1. CASE CreateSession(s)
  BY <1>1 DEF CreateSession, TypeOK
<1>2. CASE Allocate(s)
  <2>1. CASE Free = {}
    BY <1>2, <2>1 DEF Allocate, TypeOK
  <2>2. ASSUME NEW p \in Ports,
               port' = [port EXCEPT ![s] = p], allocated' = allocated \cup {p},
               launch' = [launch EXCEPT ![s] = "starting"]
        PROVE  TypeOK'
    BY <1>2, <2>2 DEF Allocate, Ports, TypeOK
  <2> QED
    BY <1>2, <2>1, <2>2 DEF Allocate, Free
<1>3. CASE Open(s)
  BY <1>3 DEF Open, Launchers, TypeOK
<1>4. CASE Register(s)
  BY <1>4 DEF Register, Launchers, TypeOK
<1>5. CASE SetAddress(s)
  <2>1. port[s] \in 0 .. Archived
    BY DEF TypeOK, Archived
  <2> QED
    BY <1>5, <2>1 DEF SetAddress, TypeOK
<1>6. CASE MarkRunning(s) \/ EndLaunch(s)
  BY <1>6 DEF MarkRunning, EndLaunch, TypeOK
<1>7. CASE FailLaunch(s)
  BY <1>7 DEF FailLaunch, ReleasePort, TypeOK
<1>8. CASE EndFailedLaunch(s)
  BY <1>8 DEF EndFailedLaunch, TypeOK
<1> QED
  BY <1>1, <1>2, <1>3, <1>4, <1>5, <1>6, <1>7, <1>8

\* The steps of close_session keep the types.
LEMMA CloseTypes ==
    ASSUME TypeOK, NEW c \in Closers,
           \/ \E s \in Sessions : StartClose(c, s)
           \/ Forget(c) \/ StopBrowser(c) \/ MarkClosed(c) \/ Archive(c)
    PROVE  TypeOK'
<1> USE DEF process
<1>1. ASSUME NEW s \in Sessions, StartClose(c, s)
      PROVE  TypeOK'
  BY <1>1 DEF StartClose, TypeOK
<1>2. CASE Forget(c)
  <2>1. closer[c] \in Calls /\ closer[c].session \in Sessions
    BY <1>2, CloserOf DEF Forget
  <2>2. closer'[c] \in Calls /\ closer' = [closer EXCEPT ![c] = closer'[c]]
    BY <1>2, <2>1 DEF Forget, Calls, TypeOK
  <2> QED
    BY <1>2, <2>1, <2>2, CallTypes DEF Forget, ReleasePort, Calls, TypeOK
<1>3. CASE StopBrowser(c)
  <2>1. closer[c] \in Calls /\ closer[c].session \in Sessions
    BY <1>3, CloserOf DEF StopBrowser
  <2>2. closer'[c] \in Calls /\ closer' = [closer EXCEPT ![c] = closer'[c]]
    BY <1>3, <2>1 DEF StopBrowser, Calls, TypeOK
  <2> QED
    BY <1>3, <2>1, <2>2, CallTypes DEF StopBrowser, Calls, TypeOK
<1>4. CASE MarkClosed(c)
  <2>1. closer[c] \in Calls /\ closer[c].session \in Sessions
    BY <1>4, CloserOf DEF MarkClosed
  <2>2. closer'[c] \in Calls /\ closer' = [closer EXCEPT ![c] = closer'[c]]
    BY <1>4, <2>1 DEF MarkClosed, Calls, TypeOK
  <2>3. row \in Tables
    BY DEF TypeOK, Tables
  <2>4. row' \in Tables
    <3>1. row' \in {row, Completed(row, closer[c].session)}
      BY <1>4 DEF MarkClosed, Completed
    <3> QED
      BY <2>1, <2>3, <3>1, CompletedType
  <2>5. closer' \in [Closers -> {Idle} \cup Calls]
    BY <2>2, CallTypes
  <2> QED
    BY <1>4, <2>4, <2>5 DEF MarkClosed, Calls, Tables, TypeOK
<1>5. CASE Archive(c)
  <2>1. closer[c].session \in Sessions
    BY <1>5, CloserOf DEF Archive
  <2>2. row' \in Tables
    BY <1>5, <2>1, ArchivedType DEF Archive
  <2> QED
    BY <1>5, <2>2 DEF Archive, Tables, TypeOK
<1> QED
  BY <1>1, <1>2, <1>3, <1>4, <1>5

\* Every state has its type.
THEOREM SessionTypes == Spec => []TypeOK
<1> USE SessionsAssumption DEF process
<1>1. Init => TypeOK
  BY DEF Init, TypeOK, NoRow, Archived, Launchers, Idle
<1>2. ASSUME TypeOK, [Next]_vars
      PROVE  TypeOK'
  <2>1. CASE UNCHANGED vars
    BY <1>2, <2>1 DEF vars, TypeOK
  <2>2. ASSUME NEW s \in Sessions,
               UseSession(s) \/ RegisterOwn(s) \/ FailRun(s)
        PROVE  TypeOK'
    <3>1. CASE UseSession(s)
      BY <1>2, <3>1 DEF UseSession, TypeOK
    <3>2. CASE RegisterOwn(s)
      BY <1>2, <3>2 DEF RegisterOwn, Launchers, TypeOK
    <3>3. CASE FailRun(s)
      BY <1>2, <3>3 DEF FailRun, TypeOK
    <3> QED
      BY <2>2, <3>1, <3>2, <3>3
  <2>3. CASE Restart
    BY <1>2, <2>3 DEF Restart, Uncompleted, TypeOK
  <2>4. ASSUME NEW s \in Sessions, CompleteStale(s) \/ ArchiveStale(s)
        PROVE  TypeOK'
    <3>1. row \in Tables
      BY <1>2 DEF TypeOK, Tables
    <3>2. row' \in Tables
      <4>1. CASE CompleteStale(s)
        BY <3>1, <4>1, CompletedType DEF CompleteStale, Completed
      <4>2. CASE ArchiveStale(s)
        BY <1>2, <4>2, ArchivedType DEF ArchiveStale
      <4> QED
        BY <2>4, <4>1, <4>2
    <3> QED
      BY <1>2, <2>4, <3>2 DEF CompleteStale, ArchiveStale, TypeOK, Tables
  <2> QED
    BY <1>2, <2>1, <2>2, <2>3, <2>4, LaunchTypes, CloseTypes DEF Next
<1> QED
  BY <1>1, <1>2, PTL DEF Spec

(***************************************************************************)
(* The order of a launch.                                                  *)
(***************************************************************************)

\* What a step that is not of session s's launch, nor registers a browser,
\* leaves alone.
LEMMA OrderKept ==
    ASSUME TypeOK, LaunchOrder, UNCHANGED launch,
           \A s \in Sessions :
              /\ memory'[s] = "launch" => memory[s] = "launch"
              /\ "launch" \in open'[s] <=> "launch" \in open[s]
              /\ \A x \in {"none", "running"} :
                    row'[s].status = x => row[s].status = x,
           \A c \in Closers :
              closer'[c].at # "idle" /\ closer'[c].browser = "launch" =>
                 /\ closer[c].at # "idle" /\ closer[c].browser = "launch"
                 /\ closer'[c].session = closer[c].session
    PROVE  LaunchOrder'
  BY DEF LaunchOrder

\* A launch goes through its steps in order.
LEMMA LaunchOrderStep ==
    ASSUME TypeOK, LaunchOrder, NEW s \in Sessions,
           \/ CreateSession(s) \/ Allocate(s) \/ Open(s) \/ Register(s)
           \/ SetAddress(s) \/ MarkRunning(s) \/ EndLaunch(s)
           \/ FailLaunch(s) \/ EndFailedLaunch(s)
    PROVE  LaunchOrder'
<1> USE DEF LaunchOrder, Launched, TypeOK
<1>1. CASE CreateSession(s)
  BY <1>1 DEF CreateSession, Exists
<1>2. CASE Allocate(s)
  <2>1. /\ UNCHANGED <<row, memory, open, closer>> /\ launch[s] = "allocate"
        /\ \E x \in {"starting", "ended"} : launch' = [launch EXCEPT ![s] = x]
    BY <1>2 DEF Allocate
  <2> QED
    BY <2>1
<1>3. CASE Open(s)
  BY <1>3 DEF Open
<1>4. CASE Register(s)
  BY <1>4 DEF Register
<1>5. CASE SetAddress(s)
  BY <1>5 DEF SetAddress
<1>6. CASE MarkRunning(s)
  BY <1>6 DEF MarkRunning
<1>7. CASE FailLaunch(s)
  BY <1>7 DEF FailLaunch
<1>8. CASE EndFailedLaunch(s)
  BY <1>8 DEF EndFailedLaunch
<1>9. CASE EndLaunch(s)
  BY <1>9 DEF EndLaunch
<1> QED
  BY <1>1, <1>2, <1>3, <1>4, <1>5, <1>6, <1>7, <1>8, <1>9

\* A close works on a browser it read from memory.
LEMMA CloseOrderStep ==
    ASSUME TypeOK, LaunchOrder, NEW c \in Closers,
           \/ \E s \in Sessions : StartClose(c, s)
           \/ Forget(c) \/ StopBrowser(c) \/ MarkClosed(c) \/ Archive(c)
    PROVE  LaunchOrder'
<1>1. ASSUME NEW s \in Sessions, StartClose(c, s)
      PROVE  LaunchOrder'
  <2>1. /\ closer'[c].session = s /\ closer'[c].browser = memory[s]
        /\ \A d \in Closers \ {c} : closer'[d] = closer[d]
        /\ UNCHANGED <<row, memory, open, launch>>
    BY <1>1 DEF StartClose, TypeOK
  <2> QED
    BY <2>1 DEF LaunchOrder
<1>2. CASE Forget(c)
  <2>1. /\ closer[c] \in Calls /\ closer[c].session \in Sessions
        /\ closer' = [closer EXCEPT ![c].at = "stopping"]
        /\ UNCHANGED <<row, open, launch>>
        /\ memory' = [memory EXCEPT ![closer[c].session] = "none"]
    BY <1>2, CloserOf DEF Forget
  <2> QED
    BY <1>2, <2>1, OrderKept DEF Forget, TypeOK, Calls
<1>3. CASE StopBrowser(c)
  <2>1. /\ closer[c] \in Calls /\ closer[c].session \in Sessions
        /\ closer[c].at = "stopping"
        /\ closer'[c].browser = "none"
        /\ \A d \in Closers \ {c} : closer'[d] = closer[d]
        /\ UNCHANGED <<row, memory, launch>>
        /\ open' = [open EXCEPT ![closer[c].session] = @ \ {closer[c].browser}]
    BY <1>3, CloserOf DEF StopBrowser, TypeOK, Calls
  <2>2. closer[c].browser = "launch" => launch[closer[c].session] # "opened"
    BY <2>1 DEF LaunchOrder, Launched
  <2> QED
    BY <2>1, <2>2 DEF LaunchOrder, TypeOK
<1>4. CASE MarkClosed(c)
  <2>1. /\ closer[c] \in Calls /\ closer[c].session \in Sessions
        /\ closer' = [closer EXCEPT ![c].at = "archiving"]
        /\ UNCHANGED <<memory, open, launch>>
    BY <1>4, CloserOf DEF MarkClosed
  <2>2. \A t \in Sessions : row'[t].status \in {row[t].status, "completed"}
    <3>1. row' \in {row, Completed(row, closer[c].session)} /\ row \in Tables
      BY <1>4 DEF MarkClosed, Completed, TypeOK, Tables
    <3> QED
      BY <2>1, <3>1, CompletedType
  <2> QED
    BY <2>1, <2>2, OrderKept DEF TypeOK, Calls
<1>5. CASE Archive(c)
  <2>1. /\ closer[c].session \in Sessions
        /\ closer' = [closer EXCEPT ![c] = Idle]
        /\ UNCHANGED <<memory, open, launch>>
        /\ \A t \in Sessions : row'[t].status = row[t].status
    BY <1>5, CloserOf, ArchivedType DEF Archive
  <2> QED
    BY <2>1, OrderKept DEF TypeOK, Idle
<1> QED
  BY <1>1, <1>2, <1>3, <1>4, <1>5

\* The other steps, and with them every step, keep the order.
LEMMA OrderStep ==
    ASSUME TypeOK, LaunchOrder, [Next]_vars
    PROVE  LaunchOrder'
<1> USE DEF process
<1>1. CASE UNCHANGED vars
  BY <1>1 DEF vars, LaunchOrder
<1>2. ASSUME NEW s \in Sessions,
             UseSession(s) \/ RegisterOwn(s) \/ FailRun(s)
      PROVE  LaunchOrder'
  <2>1. /\ UNCHANGED <<row, launch, closer>>
        /\ \A t \in Sessions : /\ memory'[t] \in {memory[t], "run"}
                               /\ "launch" \in open'[t] <=> "launch" \in open[t]
    BY <1>2 DEF UseSession, RegisterOwn, FailRun, TypeOK
  <2> QED
    BY <2>1, OrderKept
<1>3. CASE Restart
  BY <1>3 DEF Restart, LaunchOrder, Launched, TypeOK, Idle
<1>4. ASSUME NEW s \in Sessions, CompleteStale(s) \/ ArchiveStale(s)
      PROVE  LaunchOrder'
  <2>1. \A t \in Sessions : row'[t].status \in {row[t].status, "completed"}
    BY <1>4, StaleRows
  <2> QED
    BY <1>4, <2>1, OrderKept DEF CompleteStale, ArchiveStale, TypeOK
<1> QED
  BY <1>1, <1>2, <1>3, <1>4, LaunchOrderStep, CloseOrderStep DEF Next

(***************************************************************************)
(* Ports.                                                                  *)
(***************************************************************************)

PortsInv == TypeOK /\ LaunchOrder /\ PortHeld /\ PortsApart

\* A step in which no session starts or stops to use a port.
LEMMA PortsKept ==
    ASSUME PortsInv, UNCHANGED <<port, allocated, lost>>,
           \A s \in Sessions :
              /\ "launch" \in open'[s] <=> "launch" \in open[s]
              /\ launch'[s] = "starting" <=> launch[s] = "starting"
    PROVE  PortHeld' /\ PortsApart'
  BY DEF PortsInv, PortHeld, PortsApart, Uses

\* A step in which a session stops to use its port.
LEMMA PortLeft ==
    ASSUME PortsInv, NEW s \in Sessions, UNCHANGED <<port, allocated, lost>>,
           "launch" \notin open'[s], launch'[s] # "starting",
           \A t \in Sessions \ {s} :
              open'[t] = open[t] /\ launch'[t] = launch[t]
    PROVE  PortHeld' /\ PortsApart'
  BY DEF PortsInv, PortHeld, PortsApart, Uses

\* A port that goes back to the pool is lost for the sessions that use it
\* now, but for the one that gives it back, whose browser listens on it or is
\* gone.
LEMMA PortReleased ==
    ASSUME PortsInv, NEW s \in Sessions, ReleasePort(s), UNCHANGED <<port, open>>,
           launch'[s] # "starting",
           \A t \in Sessions \ {s} : launch'[t] = launch[t]
    PROVE  PortHeld' /\ PortsApart'
<1>1. \A t \in Sessions : Uses(t)' => Uses(t)
  BY DEF Uses
<1>2. PortHeld'
  BY <1>1 DEF PortsInv, PortHeld, ReleasePort, Uses
<1>3. PortsApart'
  BY <1>1 DEF PortsInv, PortsApart, ReleasePort
<1> QED
  BY <1>2, <1>3

\* The port a session is given is neither in the books nor listened on, so
\* that whoever uses it has lost it.
LEMMA PortAllocated ==
    ASSUME PortsInv, NEW s \in Sessions, Allocate(s)
    PROVE  PortHeld' /\ PortsApart'
<1>0. /\ launch[s] = "allocate" /\ "launch" \notin open[s]
      /\ UNCHANGED <<open, lost>>
  BY DEF Allocate, process, PortsInv, LaunchOrder, Launched
<1>1. CASE launch' = [launch EXCEPT ![s] = "ended"] /\ UNCHANGED <<port, allocated>>
  BY <1>0, <1>1, PortLeft DEF PortsInv, TypeOK
<1>2. ASSUME NEW p \in Free, port' = [port EXCEPT ![s] = p],
             allocated' = allocated \cup {p},
             launch' = [launch EXCEPT ![s] = "starting"]
      PROVE  PortHeld' /\ PortsApart'
  <2>1. port'[s] = p /\ \A t \in Sessions \ {s} : port'[t] = port[t]
    BY <1>2 DEF PortsInv, TypeOK
  <2>2. \A t \in Sessions \ {s} : Uses(t)' <=> Uses(t)
    BY <1>0, <1>2 DEF PortsInv, TypeOK, Uses
  <2>3. \A t \in Sessions \ {s} : Uses(t) /\ port[t] = p => t \in lost
    BY <1>2 DEF PortsInv, PortHeld, Free, Allocatable, Listening
  <2>4. PortHeld'
    BY <1>0, <1>2, <2>1, <2>2 DEF PortsInv, PortHeld
  <2>5. PortsApart'
    BY <1>0, <2>1, <2>2, <2>3 DEF PortsInv, PortsApart
  <2> QED
    BY <2>4, <2>5
<1> QED
  BY <1>1, <1>2 DEF Allocate

\* Two sessions never use one port, but for those whose port somebody else
\* released.
THEOREM PortsStayApart == Spec => [](LaunchOrder /\ PortHeld /\ PortsApart)
<1> USE DEF process
<1>1. Init => LaunchOrder /\ PortHeld /\ PortsApart
  BY DEF Init, LaunchOrder, PortHeld, PortsApart, Uses, NoRow, Idle
<1>2. ASSUME PortsInv, [Next]_vars
      PROVE  PortHeld' /\ PortsApart'
  <2>1. CASE UNCHANGED vars
    BY <1>2, <2>1, PortsKept DEF vars
  <2>2. ASSUME NEW s \in Sessions,
               \/ CreateSession(s) \/ Register(s) \/ SetAddress(s)
               \/ MarkRunning(s) \/ EndLaunch(s)
               \/ UseSession(s) \/ RegisterOwn(s) \/ FailRun(s)
               \/ CompleteStale(s) \/ ArchiveStale(s)
               \/ \E c \in Closers : StartClose(c, s)
        PROVE  PortHeld' /\ PortsApart'
    <3>1. CreateSession(s) => launch[s] # "starting"
      BY <1>2 DEF CreateSession, Exists, PortsInv, LaunchOrder
    <3> QED
      BY <1>2, <2>2, <3>1, PortsKept
         DEF CreateSession, Register, SetAddress, MarkRunning, EndLaunch, UseSession,
             RegisterOwn, FailRun, CompleteStale, ArchiveStale, StartClose, PortsInv, TypeOK
  <2>3. ASSUME NEW s \in Sessions, Allocate(s)
        PROVE  PortHeld' /\ PortsApart'
    BY <1>2, <2>3, PortAllocated
  <2>4. ASSUME NEW s \in Sessions, Open(s)
        PROVE  PortHeld' /\ PortsApart'
    BY <1>2, <2>4 DEF Open, PortsInv, PortHeld, PortsApart, Uses, TypeOK
  <2>5. ASSUME NEW s \in Sessions, FailLaunch(s)
        PROVE  PortHeld' /\ PortsApart'
    BY <1>2, <2>5, PortReleased DEF FailLaunch, PortsInv, TypeOK
  <2>6. ASSUME NEW s \in Sessions, EndFailedLaunch(s)
        PROVE  PortHeld' /\ PortsApart'
    BY <1>2, <2>6, PortLeft DEF EndFailedLaunch, PortsInv, TypeOK
  <2>7. ASSUME NEW c \in Closers, Forget(c)
        PROVE  PortHeld' /\ PortsApart'
    <3>1. closer[c].session \in Sessions
      BY <1>2, <2>7, CloserOf DEF Forget, PortsInv
    <3>2. CASE closer[c].browser = "launch" /\ ReleasePort(closer[c].session)
      <4>1. launch[closer[c].session] # "starting"
        BY <1>2, <2>7, <3>2 DEF Forget, PortsInv, LaunchOrder, Launched
      <4> QED
        BY <1>2, <2>7, <3>1, <3>2, <4>1, PortReleased DEF Forget
    <3>3. CASE UNCHANGED <<allocated, lost>>
      BY <1>2, <2>7, <3>3, PortsKept DEF Forget
    <3> QED
      BY <2>7, <3>2, <3>3 DEF Forget
  <2>8. ASSUME NEW c \in Closers, StopBrowser(c)
        PROVE  PortHeld' /\ PortsApart'
    <3> DEFINE s == closer[c].session
    <3>1. /\ s \in Sessions /\ UNCHANGED <<port, allocated, lost, launch>>
          /\ open' = [open EXCEPT ![s] = @ \ {closer[c].browser}]
      BY <1>2, <2>8, CloserOf DEF StopBrowser, PortsInv
    <3>2. CASE closer[c].browser = "launch"
      <4>1. launch[s] # "starting"
        BY <1>2, <2>8, <3>2 DEF StopBrowser, PortsInv, LaunchOrder, Launched
      <4> HIDE DEF s
      <4> QED
        BY <1>2, <3>1, <3>2, <4>1, PortLeft DEF PortsInv, TypeOK
    <3>3. CASE closer[c].browser # "launch"
      <4> HIDE DEF s
      <4> QED
        BY <1>2, <3>1, <3>3, PortsKept DEF PortsInv, TypeOK
    <3> QED
      BY <3>2, <3>3
  <2>9. ASSUME NEW c \in Closers, MarkClosed(c) \/ Archive(c)
        PROVE  PortHeld' /\ PortsApart'
    BY <1>2, <2>9, PortsKept DEF MarkClosed, Archive
  <2>10. CASE Restart
    BY <2>10 DEF Restart, PortHeld, PortsApart, Uses
  <2> QED
    BY <1>2, <2>1, <2>2, <2>3, <2>4, <2>5, <2>6, <2>7, <2>8, <2>9, <2>10 DEF Next
<1>3. TypeOK /\ LaunchOrder /\ PortHeld /\ PortsApart /\ [Next]_vars
         => (LaunchOrder /\ PortHeld /\ PortsApart)'
  BY <1>2, OrderStep DEF PortsInv
<1> QED
  BY <1>1, <1>3, SessionTypes, PTL DEF Spec

(***************************************************************************)
(* Rows.                                                                   *)
(***************************************************************************)

BackedInv == TypeOK /\ LaunchOrder /\ RowsBacked

\* A step of no closer that promises nothing new and takes no promised
\* browser.
LEMMA BackedKept ==
    ASSUME BackedInv, UNCHANGED closer,
           \A s \in Sessions :
              /\ Promised(s)' => /\ Promised(s)
                                 /\ memory[s] \in open[s] => memory'[s] \in open'[s]
              /\ row[s].completed => row'[s].completed
    PROVE  RowsBacked'
<1>1. \A s \in Sessions : BeingClosed(s)' <=> BeingClosed(s)
  BY DEF BeingClosed
<1>2. \A c \in Closers : closer[c].at = "archiving" => closer[c].session \in Sessions
  BY CloserOf DEF BackedInv
<1> QED
  BY <1>1, <1>2 DEF BackedInv, RowsBacked

\* The steps of a launch: the browser is open when it is registered, and a
\* failed launch promises nothing.
LEMMA LaunchBacked ==
    ASSUME BackedInv, NEW s \in Sessions,
           \/ CreateSession(s) \/ Allocate(s) \/ Open(s) \/ Register(s)
           \/ SetAddress(s) \/ MarkRunning(s) \/ EndLaunch(s)
           \/ FailLaunch(s) \/ EndFailedLaunch(s)
    PROVE  RowsBacked'
<1> USE DEF process
<1>1. CASE CreateSession(s) \/ Allocate(s) \/ FailLaunch(s)
  <2>1. /\ UNCHANGED <<memory, open, closer, stale>>
        /\ \A t \in Sessions :
              /\ row'[t].status = "running" => row[t].status = "running"
              /\ row'[t].completed = row[t].completed
              /\ launch'[t] \in {"registered", "addressed", "marked"} =>
                    launch'[t] = launch[t]
              /\ LaunchFailed(t) => LaunchFailed(t)'
    BY <1>1 DEF CreateSession, Allocate, FailLaunch, LaunchFailed, Exists, BackedInv,
                LaunchOrder, TypeOK
  <2> QED
    BY <2>1, BackedKept DEF Promised, LaunchFailed
<1>2. CASE Open(s)
  BY <1>2, BackedKept DEF Open, Promised, LaunchFailed, BackedInv, TypeOK
<1>3. CASE Register(s)
  <2>1. /\ "launch" \in open'[s] /\ memory'[s] = "launch"
        /\ UNCHANGED <<row, open, closer, stale>>
        /\ \A t \in Sessions \ {s} : memory'[t] = memory[t] /\ launch'[t] = launch[t]
    BY <1>3 DEF Register, BackedInv, LaunchOrder, TypeOK
  <2> QED
    BY <2>1 DEF BackedInv, RowsBacked, Promised, LaunchFailed, BeingClosed
<1>4. CASE SetAddress(s)
  <2>1. /\ UNCHANGED <<memory, open, closer, stale>>
        /\ \A t \in Sessions : /\ row'[t].status = row[t].status
                               /\ row'[t].completed = row[t].completed
        /\ \A t \in Sessions :
              /\ launch'[t] \in {"registered", "addressed", "marked"} =>
                    launch[t] \in {"registered", "addressed", "marked"}
              /\ LaunchFailed(t) => LaunchFailed(t)'
    BY <1>4 DEF SetAddress, LaunchFailed, BackedInv, TypeOK
  <2> QED
    BY <2>1, BackedKept DEF Promised, LaunchFailed
<1>5. CASE MarkRunning(s) \/ EndLaunch(s)
  <2>1. /\ launch[s] \in {"addressed", "marked"} /\ launch'[s] \in {"marked", "ended"}
        /\ UNCHANGED <<memory, open, closer, stale>>
        /\ \A t \in Sessions : row'[t].completed = row[t].completed
        /\ \A t \in Sessions \ {s} : row'[t] = row[t] /\ launch'[t] = launch[t]
    <3>1. CASE MarkRunning(s)
      BY <3>1 DEF MarkRunning, BackedInv, TypeOK
    <3>2. CASE EndLaunch(s)
      BY <3>2 DEF EndLaunch, BackedInv, TypeOK
    <3> QED
      BY <1>5, <3>1, <3>2
  <2> QED
    BY <2>1, BackedKept DEF Promised, LaunchFailed
<1>6. CASE EndFailedLaunch(s)
  <2>1. /\ ~Promised(s)'
        /\ UNCHANGED <<row, memory, closer, stale>>
        /\ \A t \in Sessions \ {s} : open'[t] = open[t] /\ launch'[t] = launch[t]
    BY <1>6 DEF EndFailedLaunch, Promised, LaunchFailed, BackedInv, TypeOK
  <2> QED
    BY <2>1, BackedKept DEF Promised, LaunchFailed
<1> QED
  BY <1>1, <1>2, <1>3, <1>4, <1>5, <1>6

\* The steps of a close: it takes the browser of the session it is about, and
\* ends when the row is completed.
LEMMA CloseBacked ==
    ASSUME BackedInv, NEW c \in Closers,
           \/ \E s \in Sessions : StartClose(c, s)
           \/ Forget(c) \/ StopBrowser(c) \/ MarkClosed(c) \/ Archive(c)
    PROVE  RowsBacked'
<1> USE DEF process
<1>0. \A d \in Closers : closer[d].at = "archiving" => closer[d].session \in Sessions
  BY CloserOf DEF BackedInv
<1>1. ASSUME NEW s \in Sessions, StartClose(c, s)
      PROVE  RowsBacked'
  <2>1. /\ closer[c].at = "idle" /\ closer'[c].at \in {"marking", "exporting"}
        /\ \A d \in Closers \ {c} : closer'[d] = closer[d]
        /\ UNCHANGED <<row, memory, open, launch, stale>>
    BY <1>1 DEF StartClose, BackedInv, TypeOK
  <2>2. \A t \in Sessions : BeingClosed(t) => BeingClosed(t)'
    BY <2>1 DEF BeingClosed
  <2> QED
    BY <2>1, <2>2 DEF BackedInv, RowsBacked, Promised, LaunchFailed
<1>2. CASE Forget(c) \/ StopBrowser(c)
  <2>0. PICK s \in Sessions : s = closer[c].session
    BY <1>2, CloserOf DEF Forget, StopBrowser, BackedInv
  <2>1. closer[c] \in Calls /\ UNCHANGED <<row, launch, stale>>
    BY <1>2, CloserOf DEF Forget, StopBrowser, BackedInv
  <2>2. /\ closer'[c].at \in {"stopping", "marking"} /\ closer'[c].session = s
        /\ \A d \in Closers \ {c} : closer'[d] = closer[d]
        /\ \A t \in Sessions \ {s} : memory'[t] = memory[t] /\ open'[t] = open[t]
    BY <1>2, <2>0, <2>1 DEF Forget, StopBrowser, Calls, BackedInv, TypeOK
  <2>3. BeingClosed(s)' /\ \A t \in Sessions : BeingClosed(t) => BeingClosed(t)'
    BY <2>0, <2>2 DEF BeingClosed
  <2>4. \A t \in Sessions : Promised(t)' => Promised(t)
    BY <2>1 DEF Promised, LaunchFailed
  <2>5. \A t \in Sessions : Promised(t)' => memory'[t] \in open'[t] \/ BeingClosed(t)'
    BY <2>2, <2>3, <2>4 DEF BackedInv, RowsBacked
  <2>6. \A d \in Closers :
           closer'[d].at = "archiving" => row'[closer'[d].session].completed
    BY <2>1, <2>2 DEF BackedInv, RowsBacked
  <2> QED
    BY <2>5, <2>6 DEF RowsBacked
<1>3. CASE MarkClosed(c)
  <2> DEFINE s == closer[c].session
  <2>1. /\ closer[c] \in Calls /\ s \in Sessions /\ row \in Tables
        /\ UNCHANGED <<memory, open, launch, stale>>
    BY <1>3, CloserOf DEF MarkClosed, BackedInv, TypeOK, Tables
  <2>2. /\ closer'[c].at = "archiving" /\ closer'[c].session = s
        /\ \A d \in Closers \ {c} : closer'[d] = closer[d]
    BY <1>3, <2>1 DEF MarkClosed, Calls, BackedInv, TypeOK
  <2>3. row' = IF row[s].completed THEN row ELSE Completed(row, s)
    BY <1>3 DEF MarkClosed, Completed
  <2> HIDE DEF s
  <2>4. /\ row'[s].completed
        /\ \A t \in Sessions : /\ row[t].completed => row'[t].completed
                               /\ row'[t].status \in {row[t].status, "completed"}
    BY <2>1, <2>3, CompletedType
  <2>5. \A t \in Sessions : BeingClosed(t) => BeingClosed(t)'
    BY <1>3, <2>2 DEF BeingClosed, s
  <2> QED
    BY <1>0, <2>1, <2>2, <2>4, <2>5 DEF BackedInv, RowsBacked, Promised, LaunchFailed
<1>4. CASE Archive(c)
  <2> DEFINE s == closer[c].session
  <2>1. /\ s \in Sessions /\ row[s].completed
        /\ UNCHANGED <<memory, open, launch, stale>>
        /\ \A t \in Sessions : /\ row'[t].status = row[t].status
                               /\ row'[t].completed = row[t].completed
    BY <1>4, CloserOf, ArchivedType DEF Archive, BackedInv, RowsBacked
  <2>2. closer'[c].at = "idle" /\ \A d \in Closers \ {c} : closer'[d] = closer[d]
    BY <1>4 DEF Archive, Idle, BackedInv, TypeOK
  <2> HIDE DEF s
  <2>3. \A t \in Sessions \ {s} : BeingClosed(t) => BeingClosed(t)'
    BY <2>2 DEF BeingClosed, s
  <2> QED
    BY <1>0, <2>1, <2>2, <2>3 DEF BackedInv, RowsBacked, Promised, LaunchFailed
<1> QED
  BY <1>1, <1>2, <1>3, <1>4

\* An uncompleted session the table says is running has an open browser in
\* memory, unless a close of it is under way or its launch failed after the
\* commit of that status.
THEOREM RunningBacked == Spec => []RunningHasBrowser
<1> USE DEF process
<1>1. Init => RowsBacked
  BY DEF Init, RowsBacked, Promised, LaunchFailed, NoRow, Idle
<1>2. ASSUME BackedInv, [Next]_vars
      PROVE  RowsBacked'
  <2>1. CASE UNCHANGED vars
    BY <1>2, <2>1, BackedKept DEF vars, Promised, LaunchFailed
  <2>2. ASSUME NEW s \in Sessions,
               UseSession(s) \/ RegisterOwn(s) \/ FailRun(s)
        PROVE  RowsBacked'
    <3>1. /\ UNCHANGED <<row, launch, closer, stale>>
          /\ \A t \in Sessions : memory[t] \in open[t] => memory'[t] \in open'[t]
      BY <1>2, <2>2 DEF UseSession, RegisterOwn, FailRun, BackedInv, TypeOK
    <3> QED
      BY <1>2, <3>1, BackedKept DEF Promised, LaunchFailed
  <2>3. CASE Restart
    BY <1>2, <2>3
       DEF Restart, Uncompleted, Exists, RowsBacked, Promised, LaunchFailed, Idle, BackedInv, TypeOK
  <2>4. ASSUME NEW s \in Sessions, CompleteStale(s) \/ ArchiveStale(s)
        PROVE  RowsBacked'
    <3>1. /\ row'[s].completed
          /\ \A t \in Sessions : /\ row'[t].status \in {row[t].status, "completed"}
                                 /\ row[t].completed => row'[t].completed
      BY <1>2, <2>4, StaleRows DEF BackedInv
    <3>2. UNCHANGED <<memory, open, launch, closer>> /\ stale' \in {stale, stale \ {s}}
      BY <2>4 DEF CompleteStale, ArchiveStale
    <3> QED
      BY <1>2, <3>1, <3>2, BackedKept DEF Promised, LaunchFailed
  <2> QED
    BY <1>2, <2>1, <2>2, <2>3, <2>4, LaunchBacked, CloseBacked DEF Next
<1>3. TypeOK /\ LaunchOrder /\ RowsBacked /\ [Next]_vars => RowsBacked'
  BY <1>2 DEF BackedInv
<1>4. RowsBacked => RunningHasBrowser
  BY DEF RowsBacked, Promised, LaunchFailed, RunningHasBrowser, Serving, BeingClosed
<1> QED
  BY <1>1, <1>3, <1>4, SessionTypes, PortsStayApart, PTL DEF Spec

(***************************************************************************)
(* The table of shared browsers (SharedBrowsers), for every set of         *)
(* sessions and any number of runs and of tasks of a run.                  *)
(***************************************************************************)

SharedInv ==
    /\ SharedTypeOK /\ RunTree /\ FetchesFirst
    /\ Fresh /\ OwnApart /\ HeldAbove /\ Emptied /\ OwnBrowserLives

\* The keys of the table, and the three kinds of values in it.
LEMMA KeyFacts ==
    /\ \A r \in Runs, i \in 0 .. NumTasks : <<r, i>> \in Keys
    /\ \A r \in Runs : <<r, 0>> \in Keys
    /\ \A k \in Keys : k[1] \in Runs /\ k[2] \in 0 .. NumTasks
                       /\ k = <<k[1], k[2]>>
    /\ None \notin Browsers /\ None \notin Runs /\ Runs \cap SessionIds = {}
    /\ Runs \subseteq Browsers
  BY RunsAssumption DEF Keys, Runs, None, Browsers

\* Every state has its type.
THEOREM SharedTypes == SharedSpec => []SharedTypeOK
<1> USE RunsAssumption DEF given
<1>1. SharedInit => SharedTypeOK
  BY DEF SharedInit, SharedTypeOK, Browsers, None
<1>2. ASSUME SharedTypeOK, [SharedNext]_sharedVars
      PROVE  SharedTypeOK'
  <2>1. CASE UNCHANGED sharedVars
    BY <1>2, <2>1 DEF sharedVars, SharedTypeOK
  <2>2. ASSUME NEW s \in SessionIds, LaunchSession(s) \/ CloseSession(s)
        PROVE  SharedTypeOK'
    BY <1>2, <2>2 DEF LaunchSession, CloseSession, Browsers, SharedTypeOK
  <2>3. ASSUME NEW r \in Runs, NEW s \in SessionIds \cup {None}, BeginRun(r, s)
        PROVE  SharedTypeOK'
    BY <1>2, <2>3 DEF BeginRun, SharedTypeOK
  <2>4. ASSUME NEW r \in Runs, NEW p \in Runs, Trigger(p, r) \/ StartTaskV2(p, r)
        PROVE  SharedTypeOK'
    BY <1>2, <2>4 DEF Trigger, StartTaskV2, Nested, SharedTypeOK
  <2>5. ASSUME NEW r \in Runs, NEW i \in 1 .. NumTasks, EnterTask(r, i)
        PROVE  SharedTypeOK'
    <3>1. <<r, i>> \in Keys /\ <<r, 0>> \in Keys
      BY RunsAssumption DEF Keys
    <3> QED
      BY <1>2, <2>5, <3>1 DEF EnterTask, SharedTypeOK
  <2>6. ASSUME NEW r \in Runs,
               \/ Inherit(r) \/ Look(r) \/ FindNone(r)
               \/ TakeFound(r) \/ CreateForSession(r) \/ CreateOwn(r)
               \/ FetchFails(r) \/ EndTaskV2(r) \/ CleanUpEntry(r) \/ EndRun(r)
        PROVE  SharedTypeOK'
    <3>0. /\ <<r, 0>> \in Keys
          /\ parent[r] # None => parent[r] \in Runs /\ <<parent[r], 0>> \in Keys
      BY <1>2, KeyFacts DEF SharedTypeOK
    <3>1. CASE Inherit(r)
      BY <1>2, <3>0, <3>1 DEF Inherit, SharedTypeOK
    <3>2. CASE Look(r) \/ FindNone(r)
      <4>1. session[r] # None => registered[session[r]] \in Browsers \cup {None}
        BY <1>2 DEF SharedTypeOK
      <4> QED
        BY <1>2, <3>2, <4>1 DEF Look, FindNone, SharedTypeOK
    <3>3. CASE TakeFound(r)
      BY <1>2, <3>0, <3>3 DEF TakeFound, Entered, SharedTypeOK
    <3>4. CASE CreateForSession(r) \/ CreateOwn(r)
      BY <1>2, <3>0, <3>4 DEF CreateForSession, CreateOwn, Entered, Browsers, SharedTypeOK
    <3>5. CASE FetchFails(r)
      BY <1>2, <3>5 DEF FetchFails, SharedTypeOK
    <3>6. CASE CleanUpEntry(r)
      <4>1. <<r, popped[r]>> \in Keys /\ popped[r] + 1 \in 0 .. NumTasks + 1
        BY <1>2, <3>6 DEF CleanUpEntry, SharedTypeOK, Keys
      <4> QED
        BY <1>2, <3>6, <4>1 DEF CleanUpEntry, SharedTypeOK
    <3>7. CASE EndRun(r) \/ EndTaskV2(r)
      BY <1>2, <3>7 DEF EndRun, EndTaskV2, Ended, SharedTypeOK
    <3> QED
      BY <2>6, <3>1, <3>2, <3>3, <3>4, <3>5, <3>6, <3>7
  <2> QED
    BY <1>2, <2>1, <2>2, <2>3, <2>4, <2>5, <2>6 DEF SharedNext
<1> QED
  BY <1>1, <1>2, PTL DEF SharedSpec

\* The steps of the sessions leave the browsers created without one alone.
LEMMA SessionSteps ==
    ASSUME SharedInv, SharedTypeOK', NEW s \in SessionIds,
           LaunchSession(s) \/ CloseSession(s)
    PROVE  SharedInv'
<1> USE DEF given
<1>1. UNCHANGED <<pages, own, parent, session, taskV2, at, hand, popped>>
  BY DEF LaunchSession, CloseSession
<1>2. RunTree' /\ FetchesFirst' /\ HeldAbove' /\ Emptied'
  BY <1>1 DEF SharedInv, RunTree, FetchesFirst, HeldAbove, Emptied, Unclosable
<1>3. /\ \A b \in own : b \in live' <=> b \in live
      /\ live' \subseteq live \cup {s}
  BY KeyFacts DEF LaunchSession, CloseSession, SharedInv, OwnApart, SharedTypeOK
<1>4. OwnBrowserLives'
  <2>1. \A b \in own : LeftOpen(b)' <=> LeftOpen(b)
    BY <1>1 DEF LeftOpen, Unclosable
  <2> QED
    BY <1>1, <1>3, <2>1 DEF SharedInv, OwnBrowserLives
<1>5. \A x \in SessionIds : registered'[x] \in {registered[x], s, None}
  BY DEF LaunchSession, CloseSession, SharedInv, SharedTypeOK
<1>6. s \notin Runs /\ None \notin Runs /\ own \subseteq Runs
  BY KeyFacts DEF SharedInv, SharedTypeOK
<1>7. OwnApart' /\ Fresh'
  BY <1>1, <1>3, <1>5, <1>6 DEF SharedInv, OwnApart, Fresh
<1> QED
  BY <1>2, <1>4, <1>7 DEF SharedInv

\* A run that has not begun has created nothing, and nothing of it is above a
\* run.
LEMMA IdleFacts ==
    ASSUME SharedInv, NEW r \in Runs, at[r] = "idle"
    PROVE  /\ r \notin own /\ parent[r] = None /\ session[r] = None
           /\ \A i \in 0 .. NumTasks : pages[<<r, i>>] = None
           /\ \A q \in Runs : parent[q] # r
<1>1. /\ parent[r] = None /\ session[r] = None
      /\ \A i \in 0 .. NumTasks : pages[<<r, i>>] = None
  BY DEF SharedInv, RunTree
<1>2. pages[<<r, 0>>] = None
  BY <1>1, RunsAssumption
<1>3. r \notin own
  BY <1>2 DEF SharedInv, Fresh
<1>4. \A q \in Runs : parent[q] # r
  BY KeyFacts DEF SharedInv, RunTree
<1> QED
  BY <1>1, <1>3, <1>4

\* A run that begins has no entry, no browser and no run that waits for it.
LEMMA BeginSteps ==
    ASSUME SharedInv, SharedTypeOK', NEW r \in Runs,
           \/ \E s \in SessionIds \cup {None} : BeginRun(r, s)
           \/ \E p \in Runs : Trigger(p, r) \/ StartTaskV2(p, r)
    PROVE  SharedInv'
<1> USE DEF given
<1>1. /\ at[r] = "idle" /\ at'[r] = "working"
      /\ UNCHANGED <<pages, registered, live, own, hand, popped>>
      /\ \A q \in Runs \ {r} : session'[q] = session[q] /\ parent'[q] = parent[q]
      /\ taskV2 \subseteq taskV2' /\ taskV2' \subseteq taskV2 \cup {r}
  BY DEF BeginRun, Trigger, StartTaskV2, Nested, SharedInv, SharedTypeOK
<1>2. /\ r \notin own /\ parent[r] = None /\ session[r] = None
      /\ \A i \in 0 .. NumTasks : pages[<<r, i>>] = None
      /\ \A q \in Runs : parent[q] # r
  BY <1>1, IdleFacts
<1>3. /\ \A q \in Runs : \A c \in {"fetching", "creating", "cleaning", "done"} :
            at'[q] = c <=> at[q] = c
      /\ \A q \in Runs \ {r} : at'[q] \in Alive <=> at[q] \in Alive
  BY <1>1 DEF BeginRun, Trigger, StartTaskV2, Nested, Alive, SharedInv, SharedTypeOK
<1>4. \A b \in own : Unclosable(b)' <=> Unclosable(b)
  BY <1>1, <1>2 DEF Unclosable, SharedInv, SharedTypeOK
<1>5. FetchesFirst'
  BY <1>1, <1>3 DEF SharedInv, FetchesFirst
<1>6. Fresh' /\ OwnApart'
  BY <1>1, <1>3 DEF SharedInv, Fresh, OwnApart
<1>7. HeldAbove'
  <2>1. None \notin own
    BY KeyFacts DEF SharedInv, SharedTypeOK
  <2> QED
    BY <1>1, <1>2, <1>3, <1>4, <2>1 DEF SharedInv, HeldAbove
<1>8. Emptied'
  BY <1>1, <1>3 DEF SharedInv, Emptied
<1>9. OwnBrowserLives'
  <2>1. \A k \in Keys : at'[k[1]] = "done" <=> at[k[1]] = "done"
    BY <1>3, KeyFacts
  <2>2. \A b \in own : LeftOpen(b) => LeftOpen(b)'
    BY <1>1, <1>4, <2>1 DEF LeftOpen
  <2> QED
    BY <1>1, <1>3, <2>1, <2>2 DEF SharedInv, OwnBrowserLives
<1>10. RunTree'
  <2>1. ASSUME NEW s \in SessionIds \cup {None}, BeginRun(r, s)
        PROVE  RunTree'
    BY <1>1, <1>2, <2>1 DEF BeginRun, SharedInv, RunTree, Alive, SharedTypeOK
  <2>2. ASSUME NEW p \in Runs, Trigger(p, r) \/ StartTaskV2(p, r)
        PROVE  RunTree'
    <3>1. /\ at[p] = "working" /\ at' = [at EXCEPT ![r] = "working", ![p] = "waiting"]
          /\ parent' = [parent EXCEPT ![r] = p] /\ p # r
          /\ session'[r] = None => session'[p] = None
      <4>1. PICK s \in SessionIds \cup {session[p]} : session' = [session EXCEPT ![r] = s]
        BY <2>2 DEF Trigger, StartTaskV2
      <4>2. None \notin SessionIds
        BY KeyFacts DEF Browsers
      <4> QED
        BY <2>2, <4>1, <4>2 DEF Trigger, StartTaskV2, Nested, SharedInv, SharedTypeOK
    <3>2. at'[r] = "working" /\ at'[p] = "waiting" /\ parent'[r] = p
      BY <3>1 DEF SharedInv, SharedTypeOK
    <3>3. \A q \in Runs \ {r, p} : at'[q] = at[q]
      BY <3>1 DEF SharedInv, SharedTypeOK
    <3>4. \A q \in Runs : at[q] \in Alive => parent[q] # p
      BY <3>1, KeyFacts DEF SharedInv, RunTree
    <3>5. \A q \in Runs : at[q] = "idle" <=> at'[q] = "idle" \/ q = r
      BY <1>1, <3>1, <3>2, <3>3
    <3>6. \A q \in Runs \ {r} : at'[q] \in Alive <=> at[q] \in Alive
      BY <1>3
    <3>7. ASSUME NEW q \in Runs \ {r}, parent[q] # None
          PROVE  /\ at'[parent[q]] # "idle"
                 /\ session[q] = None => session'[parent[q]] = None
                 /\ at[q] \in Alive => at'[parent[q]] = "waiting"
      <4>1. parent[q] \in Runs \ {r}
        BY <1>2, <3>7 DEF SharedInv, SharedTypeOK
      <4>2. /\ at[parent[q]] # "idle"
            /\ session[q] = None => session[parent[q]] = None
            /\ at[q] \in Alive => at[parent[q]] = "waiting"
        BY <3>7 DEF SharedInv, RunTree
      <4> QED
        BY <1>1, <3>1, <3>2, <3>3, <4>1, <4>2
    <3>8. ASSUME NEW q \in Runs, NEW v \in Runs,
                 at'[q] \in Alive, at'[v] \in Alive,
                 parent'[q] # None, parent'[v] = parent'[q]
          PROVE  v = q
      <4>1. CASE q = r \/ v = r
        BY <1>1, <3>2, <3>4, <3>6, <3>8, <4>1
      <4>2. CASE q # r /\ v # r
        BY <1>1, <3>6, <3>8, <4>2 DEF SharedInv, RunTree
      <4> QED
        BY <4>1, <4>2
    <3>9. \A q \in Runs : /\ at'[q] = "idle" =>
                                /\ parent'[q] = None /\ session'[q] = None
                                /\ \A i \in 0 .. NumTasks : pages'[<<q, i>>] = None
                          /\ at'[q] = "fetching" => session'[q] # None
      BY <1>1, <1>3, <3>5 DEF SharedInv, RunTree
    <3>10. ASSUME NEW q \in Runs, parent'[q] # None
           PROVE  /\ at'[parent'[q]] # "idle"
                  /\ session'[q] = None => session'[parent'[q]] = None
                  /\ at'[q] \in Alive => at'[parent'[q]] = "waiting"
      <4>1. CASE q = r
        BY <3>1, <3>2, <4>1
      <4>2. CASE q # r
        BY <1>1, <3>6, <3>7, <3>10, <4>2
      <4> QED
        BY <4>1, <4>2
    <3> QED
      BY <3>8, <3>9, <3>10 DEF RunTree, Alive
  <2> QED
    BY <2>1, <2>2
<1> QED
  BY <1>5, <1>6, <1>7, <1>8, <1>9, <1>10 DEF SharedInv

\* A step that begins, ends and resumes no run and enters nothing for a run
\* that has not begun.
LEMMA TreeKept ==
    ASSUME SharedInv, UNCHANGED <<parent, session>>,
           \A q \in Runs : /\ at'[q] = "idle" <=> at[q] = "idle"
                           /\ at'[q] = "waiting" <=> at[q] = "waiting"
                           /\ at'[q] \in Alive <=> at[q] \in Alive
                           /\ at'[q] = "fetching" => session[q] # None,
           \A k \in Keys : pages'[k] # None => pages[k] # None \/ at[k[1]] # "idle"
    PROVE  RunTree'
<1>1. ASSUME NEW q \in Runs, at[q] = "idle", NEW i \in 0 .. NumTasks
      PROVE  pages'[<<q, i>>] = None
  <2>1. <<q, i>> \in Keys /\ <<q, i>>[1] = q /\ pages[<<q, i>>] = None
    BY <1>1 DEF SharedInv, RunTree, Keys
  <2> QED
    BY <1>1, <2>1
<1>2. \A q \in Runs : parent[q] # None => parent[q] \in Runs
  BY DEF SharedInv, SharedTypeOK
<1> QED
  BY <1>1, <1>2 DEF SharedInv, RunTree, Alive

\* A run or a task that takes over the browser of another entry: the browsers
\* that are in the table stay the same.
LEMMA CopySteps ==
    ASSUME SharedInv, SharedTypeOK', NEW r \in Runs,
           Inherit(r) \/ \E i \in 1 .. NumTasks : EnterTask(r, i)
    PROVE  SharedInv'
<1> USE DEF given
\* The entry copied is the run's own, or that of the run above.
<1>1. PICK k \in Keys, j \in Keys :
         /\ k[1] = r /\ pages[k] = None /\ pages[j] # None
         /\ pages' = [pages EXCEPT ![k] = pages[j]]
         /\ j = <<r, 0>> \/ (parent[r] # None /\ j = <<parent[r], 0>>)
  <2>1. CASE Inherit(r)
    <3>1. <<r, 0>> \in Keys /\ <<parent[r], 0>> \in Keys
      BY <2>1, KeyFacts DEF Inherit, SharedInv, SharedTypeOK
    <3> QED
      BY <2>1, <3>1 DEF Inherit
  <2>2. ASSUME NEW i \in 1 .. NumTasks, EnterTask(r, i)
        PROVE  \E k \in Keys, j \in Keys :
                  /\ k[1] = r /\ pages[k] = None /\ pages[j] # None
                  /\ pages' = [pages EXCEPT ![k] = pages[j]]
                  /\ j = <<r, 0>> \/ (parent[r] # None /\ j = <<parent[r], 0>>)
    <3>1. <<r, i>> \in Keys /\ <<r, 0>> \in Keys
      BY RunsAssumption DEF Keys
    <3> QED
      BY <2>2, <3>1 DEF EnterTask
  <2> QED
    BY <2>1, <2>2
<1>2. UNCHANGED <<registered, live, own, parent, session, taskV2, at, hand, popped>>
  BY DEF Inherit, EnterTask
<1>3. /\ at[r] = "working"
      /\ \A x \in Keys \ {k} : pages'[x] = pages[x]
      /\ pages'[k] = pages[j]
  BY <1>1 DEF Inherit, EnterTask, SharedInv, SharedTypeOK
<1>4. RunTree'
  <2>1. \A q \in Runs : at'[q] = "fetching" => session[q] # None
    BY <1>2 DEF SharedInv, RunTree
  <2> QED
    BY <1>1, <1>2, <1>3, <2>1, TreeKept
<1>5. FetchesFirst'
  <2>1. \A q \in Runs : at[q] \in {"fetching", "creating"} => q # r
    BY <1>3
  <2>2. \A q \in Runs : at[q] = "creating" /\ parent[q] # None =>
           parent[q] \in Runs /\ parent[q] # r
    BY <1>3 DEF SharedInv, RunTree, Alive, SharedTypeOK
  <2>3. ASSUME NEW q \in Runs \ {r}
        PROVE  pages'[<<q, 0>>] = pages[<<q, 0>>]
    <3>1. <<q, 0>> \in Keys /\ <<q, 0>>[1] = q
      BY KeyFacts
    <3>2. <<q, 0>> # k
      BY <1>1, <3>1
    <3> QED
      BY <1>3, <3>1, <3>2
  <2> QED
    BY <1>2, <2>1, <2>2, <2>3 DEF SharedInv, FetchesFirst
<1>6. \A x \in Keys : \E y \in Keys : pages'[x] = pages[y]
  BY <1>1, <1>3
<1>7. \A x \in Keys : pages[x] # None => pages'[x] = pages[x]
  BY <1>1, <1>3
<1>8. None \notin own
  BY KeyFacts DEF SharedInv, SharedTypeOK
<1>9. Fresh'
  BY <1>2, <1>6, <1>7, KeyFacts DEF SharedInv, Fresh
<1>10. OwnApart'
  BY <1>2, <1>6 DEF SharedInv, OwnApart
<1>11. HeldAbove'
  <2>1. ASSUME NEW q \in Runs, NEW i \in 0 .. NumTasks,
               session[q] # None, at[q] \in Alive,
               pages'[<<q, i>>] \in own, ~Unclosable(pages'[<<q, i>>])
        PROVE  /\ parent[q] # None
               /\ pages'[<<parent[q], 0>>] = pages'[<<q, i>>]
    <3>1. <<q, i>> \in Keys /\ <<q, 0>> \in Keys /\ <<q, i>>[1] = q
      BY KeyFacts
    <3>2. parent[q] # None => parent[q] \in Runs /\ <<parent[q], 0>> \in Keys
      BY KeyFacts DEF SharedInv, SharedTypeOK
    <3>3. /\ parent[q] # None
          /\ pages[<<parent[q], 0>>] = pages'[<<q, i>>]
      <4>1. CASE <<q, i>> # k
        BY <1>3, <2>1, <3>1, <4>1 DEF SharedInv, HeldAbove
      <4>2. CASE <<q, i>> = k
        <5>1. q = r /\ pages'[<<q, i>>] = pages[j]
          BY <1>1, <1>3, <3>1, <4>2
        <5>2. CASE j = <<r, 0>>
          <6>1. 0 \in 0 .. NumTasks
            BY RunsAssumption
          <6> QED
            BY <2>1, <5>1, <5>2, <6>1 DEF SharedInv, HeldAbove
        <5>3. CASE parent[r] # None /\ j = <<parent[r], 0>>
          BY <5>1, <5>3
        <5> QED
          BY <1>1, <5>2, <5>3
      <4> QED
        BY <4>1, <4>2
    <3> QED
      BY <1>7, <1>8, <2>1, <3>2, <3>3
  <2> QED
    BY <1>2, <2>1 DEF HeldAbove, Unclosable
<1>12. Emptied'
  <2>1. \A q \in Runs : at[q] \in {"cleaning", "done"} =>
           \A i \in 0 .. NumTasks : pages'[<<q, i>>] = pages[<<q, i>>]
    BY <1>1, <1>3, KeyFacts
  <2> QED
    BY <1>2, <2>1 DEF SharedInv, Emptied
<1>13. OwnBrowserLives'
  <2>1. ASSUME NEW b \in own
        PROVE  /\ (\E x \in Keys : pages'[x] = b) => \E x \in Keys : pages[x] = b
               /\ \A x \in Keys : pages[x] = b => pages'[x] = b
    BY <1>6, <1>7, <1>8
  <2>2. \A b \in own : LeftOpen(b) => LeftOpen(b)'
    BY <1>2, <2>1 DEF LeftOpen, Unclosable
  <2> QED
    BY <1>2, <2>1, <2>2 DEF SharedInv, OwnBrowserLives
<1> QED
  BY <1>4, <1>5, <1>9, <1>10, <1>11, <1>12, <1>13 DEF SharedInv

\* A run that looks for a browser, or gives up, holds none of these.
LEMMA LookSteps ==
    ASSUME SharedInv, SharedTypeOK', NEW r \in Runs,
           Look(r) \/ FindNone(r) \/ FetchFails(r)
    PROVE  SharedInv'
<1> USE DEF given
<1>1. /\ UNCHANGED <<pages, registered, live, own, parent, session, taskV2, popped>>
      /\ \A q \in Runs \ {r} : at'[q] = at[q] /\ hand'[q] = hand[q]
      /\ {at[r], at'[r]} \subseteq {"working", "fetching", "creating"}
      /\ at'[r] = "fetching" => session[r] # None
  BY DEF Look, FindNone, FetchFails, SharedInv, SharedTypeOK
<1>2. None \notin own /\ None \notin Runs /\ own \subseteq Runs
  BY KeyFacts DEF SharedInv, SharedTypeOK
<1>3. hand'[r] \in {None, hand[r]} \/ \E s \in SessionIds : hand'[r] = registered[s]
  BY DEF Look, FindNone, FetchFails, SharedInv, SharedTypeOK
<1>4. hand[r] \notin own /\ hand'[r] \notin own
  BY <1>1, <1>2, <1>3 DEF SharedInv, OwnApart
<1>5. RunTree'
  <2>1. \A q \in Runs : at'[q] = "fetching" => session[q] # None
    BY <1>1 DEF SharedInv, RunTree
  <2> QED
    BY <1>1, <2>1, TreeKept DEF Alive
<1>6. FetchesFirst'
  <2>1. /\ at'[r] \in {"fetching", "creating"} => pages[<<r, 0>>] = None
        /\ at'[r] = "creating" /\ parent[r] # None => pages[<<parent[r], 0>>] = None
    BY DEF Look, FindNone, FetchFails, SharedInv, SharedTypeOK
  <2> QED
    BY <1>1, <2>1 DEF SharedInv, FetchesFirst
<1>7. Fresh'
  <2>1. \A q \in Runs : at'[q] \notin {"cleaning", "done"} => at[q] \notin {"cleaning", "done"}
    BY <1>1
  <2>2. \A q \in Runs, v \in Runs :
           hand'[q] = v => hand[q] = v \/ \E s \in SessionIds : registered[s] = v
    BY <1>1, <1>2, <1>3
  <2> QED
    BY <1>1, <2>1, <2>2 DEF SharedInv, Fresh
<1>8. OwnApart'
  BY <1>1, <1>4 DEF SharedInv, OwnApart
<1>9. HeldAbove' /\ Emptied'
  BY <1>1 DEF SharedInv, HeldAbove, Emptied, Unclosable, Alive
<1>10. OwnBrowserLives'
  <2>1. \A q \in Runs : /\ at'[q] = "cleaning" <=> at[q] = "cleaning"
                        /\ at'[q] = "done" <=> at[q] = "done"
    BY <1>1
  <2>2. \A q \in Runs : at[q] = "cleaning" => hand'[q] = hand[q]
    BY <1>1
  <2>3. \A b \in own : LeftOpen(b) => LeftOpen(b)'
    BY <1>1, <2>1, KeyFacts DEF LeftOpen, Unclosable
  <2> QED
    BY <1>1, <2>1, <2>2, <2>3, KeyFacts DEF SharedInv, OwnBrowserLives
<1> QED
  BY <1>5, <1>6, <1>7, <1>8, <1>9, <1>10 DEF SharedInv

\* Run r, and the run above it if it fetches without a session, are the only
\* ones whose entry becomes browser b.
EntersFor(r, p, b) ==
    /\ at[r] = "creating" /\ parent[r] # None => p = parent[r]
    /\ at[r] = "fetching" \/ parent[r] = None => p = r
    /\ pages[<<r, 0>>] = None /\ pages[<<p, 0>>] = None
    /\ p # r => at[p] = "waiting"
    /\ \A k \in Keys : pages'[k] = IF k \in {<<r, 0>>, <<p, 0>>} THEN b ELSE pages[k]
    /\ \A q \in Runs \ {r} : at[q] \in {"fetching", "creating"} =>
          q # p /\ (parent[q] # None => parent[q] \notin {r, p})

\* A run that fetches enters a browser where there is none, for runs that no
\* other run that fetches counts on.
LEMMA EnteredFacts ==
    ASSUME SharedInv, NEW r \in Runs, NEW b \in Browsers,
           at[r] \in {"fetching", "creating"}, pages' = Entered(r, b)
    PROVE  \E p \in Runs : EntersFor(r, p, b)
<1> DEFINE p == IF at[r] = "creating" /\ parent[r] # None THEN parent[r] ELSE r
<1>1. p \in Runs /\ (p # r => at[p] = "waiting")
  BY DEF SharedInv, RunTree, Alive, SharedTypeOK
<1>2. pages[<<r, 0>>] = None /\ pages[<<p, 0>>] = None
  BY DEF SharedInv, FetchesFirst
<1>3. \A k \in Keys : pages'[k] = IF k \in {<<r, 0>>, <<p, 0>>} THEN b ELSE pages[k]
  BY <1>1, KeyFacts DEF Entered, SharedInv, SharedTypeOK
<1>4. ASSUME NEW q \in Runs \ {r}, at[q] \in {"fetching", "creating"}
      PROVE  q # p /\ (parent[q] # None => parent[q] \notin {r, p})
  BY <1>1, <1>4 DEF SharedInv, RunTree, Alive
<1> QED
  BY <1>1, <1>2, <1>3, <1>4 DEF EntersFor

\* What entering browser b for a run that fetches keeps, whatever b is.
LEMMA EnterTree ==
    ASSUME SharedInv, NEW r \in Runs, NEW b \in Browsers,
           at[r] \in {"fetching", "creating"},
           pages' = Entered(r, b), UNCHANGED <<parent, session, taskV2, popped>>,
           at' = [at EXCEPT ![r] = "working"]
    PROVE  RunTree' /\ FetchesFirst' /\ Emptied'
<1>0. PICK p \in Runs : EntersFor(r, p, b)
  BY EnteredFacts
<1>1. /\ p # r => at[p] = "waiting"
      /\ \A k \in Keys : pages'[k] = IF k \in {<<r, 0>>, <<p, 0>>} THEN b ELSE pages[k]
      /\ \A q \in Runs \ {r} : at[q] \in {"fetching", "creating"} =>
            q # p /\ (parent[q] # None => parent[q] \notin {r, p})
  BY <1>0 DEF EntersFor
<1>2. at'[r] = "working" /\ \A q \in Runs \ {r} : at'[q] = at[q]
  BY DEF SharedInv, SharedTypeOK
<1>3. RunTree'
  <2>1. \A k \in Keys : pages'[k] # None => pages[k] # None \/ at[k[1]] # "idle"
    BY <1>1
  <2>2. \A q \in Runs : at'[q] = "fetching" => session[q] # None
    BY <1>2 DEF SharedInv, RunTree
  <2> QED
    BY <1>2, <2>1, <2>2, TreeKept DEF Alive
<1>4. FetchesFirst'
  <2>1. ASSUME NEW q \in Runs \ {r}, at[q] \in {"fetching", "creating"}
        PROVE  /\ pages'[<<q, 0>>] = None
               /\ at[q] = "creating" /\ parent[q] # None => pages'[<<parent[q], 0>>] = None
    <3>1. /\ pages[<<q, 0>>] = None
          /\ at[q] = "creating" /\ parent[q] # None => pages[<<parent[q], 0>>] = None
      BY <2>1 DEF SharedInv, FetchesFirst
    <3>2. parent[q] # None => parent[q] \in Runs
      BY DEF SharedInv, SharedTypeOK
    <3> QED
      BY <1>1, <2>1, <3>1, <3>2, KeyFacts
  <2> QED
    BY <1>2, <2>1 DEF FetchesFirst
<1>5. Emptied'
  <2>1. \A q \in Runs : at[q] \in {"cleaning", "done"} =>
           \A i \in 0 .. NumTasks : pages'[<<q, i>>] = pages[<<q, i>>]
    BY <1>1, KeyFacts
  <2> QED
    BY <1>2, <2>1 DEF SharedInv, Emptied
<1> QED
  BY <1>3, <1>4, <1>5

\* A fetch with the session enters the browser of the session, or a new one
\* that is registered for it.
LEMMA EnterSteps ==
    ASSUME SharedInv, SharedTypeOK', NEW r \in Runs,
           TakeFound(r) \/ CreateForSession(r)
    PROVE  SharedInv'
<1> USE DEF given
<1>1. /\ at[r] = "fetching" /\ pages[<<r, 0>>] = None /\ session[r] \in SessionIds
      /\ at' = [at EXCEPT ![r] = "working"]
      /\ UNCHANGED <<own, parent, session, taskV2, popped>>
  BY DEF TakeFound, CreateForSession, SharedInv, RunTree, FetchesFirst, SharedTypeOK
<1>2. PICK b \in Browsers :
         /\ pages' = Entered(r, b)
         /\ b = hand[r] \/ b = r
         /\ live' \in {live, live \cup {r}}
         /\ \A s \in SessionIds : registered'[s] \in {registered[s], r}
  BY KeyFacts DEF TakeFound, CreateForSession, SharedInv, SharedTypeOK
<1>3. /\ \A k \in Keys \ {<<r, 0>>} : pages'[k] = pages[k]
      /\ pages'[<<r, 0>>] = b
  <2>1. at[r] # "creating" /\ at[r] \in {"fetching", "creating"}
    BY <1>1
  <2>2. PICK p \in Runs : EntersFor(r, p, b)
    BY <1>2, <2>1, EnteredFacts
  <2> QED
    BY <1>1, <2>2, KeyFacts DEF EntersFor
<1>4. /\ at'[r] = "working" /\ \A q \in Runs \ {r} : at'[q] = at[q]
      /\ hand'[r] = None /\ \A q \in Runs \ {r} : hand'[q] = hand[q]
  BY <1>1 DEF TakeFound, CreateForSession, SharedInv, SharedTypeOK
<1>5. None \notin own /\ None \notin Browsers /\ own \subseteq Runs /\ None \notin Runs
  BY KeyFacts DEF SharedInv, SharedTypeOK
<1>6. r \notin own /\ b \notin own
  BY <1>1, <1>2 DEF SharedInv, Fresh, OwnApart
<1>7. RunTree' /\ FetchesFirst' /\ Emptied'
  BY <1>1, <1>2, EnterTree
<1>8. Fresh'
  <2>1. ASSUME NEW q \in Runs, pages'[<<q, 0>>] = None, at'[q] \notin {"cleaning", "done"}
        PROVE  /\ q \notin own' /\ q \notin live'
               /\ \A s \in SessionIds : registered'[s] # q
               /\ \A v \in Runs : hand'[v] # q
               /\ \A k \in Keys : pages'[k] # q
    <3>1. q # r /\ pages[<<q, 0>>] = None /\ at[q] \notin {"cleaning", "done"}
      BY <1>3, <1>4, <1>5, <2>1, KeyFacts
    <3>2. /\ q \notin own /\ q \notin live
          /\ \A s \in SessionIds : registered[s] # q
          /\ \A v \in Runs : hand[v] # q
          /\ \A k \in Keys : pages[k] # q
      BY <3>1 DEF SharedInv, Fresh
    <3>3. b # q
      BY <1>2, <3>1, <3>2
    <3> QED
      BY <1>1, <1>2, <1>3, <1>4, <1>5, <3>1, <3>2, <3>3
  <2> QED
    BY <2>1 DEF Fresh
\* What of the table is about the browsers created without a session.
<1>9. \A x \in own, k \in Keys : pages'[k] = x <=> pages[k] = x
  BY <1>1, <1>3, <1>5, <1>6
<1>10. OwnApart'
  <2>1. \A s \in SessionIds : registered'[s] \notin own
    BY <1>2, <1>6 DEF SharedInv, OwnApart
  <2>2. \A q \in Runs : hand'[q] \in own => q # r /\ hand'[q] = hand[q] /\ at'[q] = at[q]
    BY <1>4, <1>5
  <2> QED
    BY <1>1, <1>9, <2>1, <2>2 DEF SharedInv, OwnApart
<1>11. HeldAbove'
  <2>1. ASSUME NEW q \in Runs, NEW i \in 0 .. NumTasks,
               session[q] # None, at'[q] \in Alive,
               pages'[<<q, i>>] \in own, ~Unclosable(pages'[<<q, i>>])
        PROVE  /\ parent[q] # None
               /\ pages'[<<parent[q], 0>>] = pages'[<<q, i>>]
    <3>1. pages[<<q, i>>] = pages'[<<q, i>>]
      BY <1>9, <2>1, KeyFacts
    <3>2. at[q] \in Alive
      BY <1>1, <1>4, <2>1 DEF Alive
    <3>3. parent[q] # None /\ pages[<<parent[q], 0>>] = pages[<<q, i>>]
      BY <2>1, <3>1, <3>2 DEF SharedInv, HeldAbove
    <3>4. <<parent[q], 0>> \in Keys
      BY <3>3, KeyFacts DEF SharedInv, SharedTypeOK
    <3> QED
      BY <1>9, <2>1, <3>1, <3>3, <3>4
  <2> QED
    BY <1>1, <2>1 DEF HeldAbove, Unclosable
<1>12. OwnBrowserLives'
  <2>1. \A q \in Runs : /\ at'[q] = "cleaning" <=> at[q] = "cleaning"
                        /\ at'[q] = "done" <=> at[q] = "done"
                        /\ at[q] = "cleaning" => hand'[q] = hand[q]
    BY <1>1, <1>4
  <2>2. \A x \in own : x \in live' <=> x \in live
    BY <1>2, <1>6
  <2>3. \A x \in own : LeftOpen(x) => LeftOpen(x)'
    BY <1>1, <1>9, <2>1, KeyFacts DEF LeftOpen, Unclosable
  <2> QED
    BY <1>1, <1>9, <2>1, <2>2, <2>3, KeyFacts DEF SharedInv, OwnBrowserLives
<1> QED
  BY <1>7, <1>8, <1>10, <1>11, <1>12 DEF SharedInv

\* A fetch without a session enters a new browser, for the run and the one
\* above it.
LEMMA CreateSteps ==
    ASSUME SharedInv, SharedTypeOK', NEW r \in Runs, CreateOwn(r)
    PROVE  SharedInv'
<1> USE DEF given
<1>1. /\ at[r] = "creating"
      /\ at' = [at EXCEPT ![r] = "working"]
      /\ live' = live \cup {r} /\ own' = own \cup {r}
      /\ UNCHANGED <<registered, hand, parent, session, taskV2, popped>>
      /\ pages' = Entered(r, r) /\ r \in Browsers
  BY KeyFacts DEF CreateOwn
<1>0. PICK p \in Runs : EntersFor(r, p, r)
  <2>1. at[r] \in {"fetching", "creating"} /\ pages' = Entered(r, r) /\ r \in Browsers
    BY <1>1
  <2> QED
    BY <2>1, EnteredFacts
<1>2. /\ parent[r] # None => p = parent[r]
      /\ parent[r] = None => p = r
      /\ pages[<<r, 0>>] = None /\ pages[<<p, 0>>] = None
      /\ p # r => at[p] = "waiting"
      /\ \A k \in Keys : pages'[k] = IF k \in {<<r, 0>>, <<p, 0>>} THEN r ELSE pages[k]
  BY <1>0, <1>1 DEF EntersFor
<1>3. at'[r] = "working" /\ \A q \in Runs \ {r} : at'[q] = at[q]
  BY <1>1 DEF SharedInv, SharedTypeOK
<1>4. None \notin own' /\ own' \subseteq Runs /\ None \notin Runs
  BY <1>1, KeyFacts DEF SharedTypeOK
<1>5. /\ r \notin own /\ r \notin live
      /\ \A s \in SessionIds : registered[s] # r
      /\ \A q \in Runs : hand[q] # r
      /\ \A k \in Keys : pages[k] # r
  BY <1>1, <1>2 DEF SharedInv, Fresh
<1>6. RunTree' /\ FetchesFirst' /\ Emptied'
  BY <1>1, EnterTree
<1>7. Fresh'
  <2>1. \A q \in Runs : pages'[<<q, 0>>] = None => q # r /\ pages[<<q, 0>>] = None
    BY <1>2, <1>4, KeyFacts
  <2>2. \A q \in Runs : at'[q] \notin {"cleaning", "done"} => at[q] \notin {"cleaning", "done"}
    BY <1>1, <1>3
  <2> QED
    BY <1>1, <1>2, <2>1, <2>2 DEF SharedInv, Fresh
<1>8. \A x \in own, k \in Keys : pages'[k] = x <=> pages[k] = x
  BY <1>2, <1>4, <1>5, <1>1
<1>9. OwnApart'
  <2>1. \A q \in Runs : hand'[q] \in own' => hand[q] \in own /\ at'[q] = at[q]
    <3>1. \A q \in Runs : hand'[q] \in own' => hand[q] \in own
      BY <1>1, <1>5
    <3>2. hand[r] \notin own
      BY <1>1 DEF SharedInv, OwnApart
    <3> QED
      BY <1>3, <3>1, <3>2
  <2> QED
    BY <1>1, <1>5, <1>8, <2>1 DEF SharedInv, OwnApart
<1>10. HeldAbove'
  <2>1. ASSUME NEW q \in Runs, NEW i \in 0 .. NumTasks,
               session[q] # None, at'[q] \in Alive,
               pages'[<<q, i>>] \in own', ~Unclosable(pages'[<<q, i>>])
        PROVE  /\ parent[q] # None
               /\ pages'[<<parent[q], 0>>] = pages'[<<q, i>>]
    <3>1. <<q, i>> \in Keys
      BY KeyFacts
    <3>2. CASE pages'[<<q, i>>] # r
      <4>1. pages[<<q, i>>] = pages'[<<q, i>>] /\ pages[<<q, i>>] \in own
        BY <1>1, <1>2, <2>1, <3>1, <3>2
      <4>2. at[q] \in Alive
        BY <1>1, <1>3, <2>1 DEF Alive
      <4>3. parent[q] # None /\ pages[<<parent[q], 0>>] = pages[<<q, i>>]
        BY <2>1, <4>1, <4>2 DEF SharedInv, HeldAbove
      <4>4. <<parent[q], 0>> \in Keys
        BY <4>3, KeyFacts DEF SharedInv, SharedTypeOK
      <4> QED
        BY <1>8, <4>1, <4>3, <4>4
    <3>3. CASE pages'[<<q, i>>] = r
      <4>1. <<q, i>> \in {<<r, 0>>, <<p, 0>>}
        BY <1>2, <1>5, <3>1, <3>3
      <4>2. session[r] = None \/ (parent[r] # None /\ session[parent[r]] = None)
        BY <2>1, <3>3 DEF Unclosable
      <4>3. parent[r] # None /\ session[r] = None => session[parent[r]] = None
        BY DEF SharedInv, RunTree
      <4>4. q = r /\ parent[r] # None /\ p = parent[r]
        BY <1>2, <2>1, <4>1, <4>2, <4>3
      <4> QED
        BY <1>2, <3>3, <4>4, KeyFacts
    <3> QED
      BY <3>2, <3>3
  <2> QED
    BY <1>1, <2>1 DEF HeldAbove, Unclosable
<1>11. OwnBrowserLives'
  <2>1. \A q \in Runs : /\ at'[q] = "cleaning" <=> at[q] = "cleaning"
                        /\ at'[q] = "done" <=> at[q] = "done"
    BY <1>1, <1>3
  <2>2. \A x \in own : LeftOpen(x) => LeftOpen(x)'
    BY <1>1, <1>8, <2>1, KeyFacts DEF LeftOpen, Unclosable
  <2>3. ASSUME NEW x \in own
        PROVE  /\ (\E k \in Keys : pages'[k] = x) => x \in live'
               /\ x \in live' =>
                     \/ \E k \in Keys : pages'[k] = x /\ at'[k[1]] # "done"
                     \/ \E q \in Runs : at'[q] = "cleaning" /\ hand'[q] = x
                     \/ LeftOpen(x)'
    BY <1>1, <1>5, <1>8, <2>1, <2>2, KeyFacts DEF SharedInv, OwnBrowserLives
  <2>4. \E k \in Keys : pages'[k] = r /\ at'[k[1]] # "done"
    <3>1. <<r, 0>> \in Keys /\ pages'[<<r, 0>>] = r /\ at'[<<r, 0>>[1]] # "done"
      BY <1>2, <1>3, KeyFacts
    <3> QED
      BY <3>1
  <2> QED
    BY <1>1, <2>3, <2>4 DEF OwnBrowserLives
<1> QED
  BY <1>6, <1>7, <1>9, <1>10, <1>11 DEF SharedInv

\* A cleanup takes an entry out and has its browser to close if that was the
\* last entry with it; the browser it had to close is closed.
LEMMA CleanSteps ==
    ASSUME SharedInv, SharedTypeOK', NEW r \in Runs, CleanUpEntry(r)
    PROVE  SharedInv'
<1> USE DEF given
<1>1. PICK k \in Keys :
         /\ k = <<r, popped[r]>> /\ k[1] = r
         /\ pages' = [pages EXCEPT ![k] = None]
         /\ hand' = [hand EXCEPT ![r] =
               IF session[r] = None /\ ~InUse(k) THEN pages[k] ELSE None]
  <2>1. <<r, popped[r]>> \in Keys
    BY RunsAssumption DEF CleanUpEntry, SharedInv, SharedTypeOK, Keys
  <2> QED
    BY <2>1 DEF CleanUpEntry
<1>2. /\ at[r] \in {"working", "cleaning"} /\ at'[r] = "cleaning"
      /\ \A q \in Runs \ {r} : at'[q] = at[q] /\ hand'[q] = hand[q]
      /\ UNCHANGED <<registered, own, parent, session, taskV2>>
      /\ live' = live \ {hand[r]} /\ r \notin taskV2
      /\ popped' = [popped EXCEPT ![r] = @ + 1]
  <2>1. r \notin taskV2
    BY DEF CleanUpEntry, SharedInv, Emptied
  <2> QED
    BY <1>1, <2>1 DEF CleanUpEntry, SharedInv, SharedTypeOK
<1>3. /\ pages'[k] = None /\ \A j \in Keys \ {k} : pages'[j] = pages[j]
      /\ hand'[r] = IF session[r] = None /\ ~InUse(k) THEN pages[k] ELSE None
  BY <1>1 DEF SharedInv, SharedTypeOK
<1>4. None \notin own /\ own \subseteq Runs /\ None \notin Runs
  BY KeyFacts DEF SharedInv, SharedTypeOK
<1>5. RunTree'
  <2>1. \A j \in Keys : pages'[j] # None => pages[j] # None \/ at[j[1]] # "idle"
    BY <1>3
  <2>2. \A q \in Runs : at'[q] = "fetching" => session[q] # None
    BY <1>2 DEF SharedInv, RunTree
  <2> QED
    BY <1>2, <2>1, <2>2, TreeKept DEF Alive
<1>6. FetchesFirst'
  <2>1. \A q \in Runs : at'[q] \in {"fetching", "creating"} => at'[q] = at[q]
    BY <1>2
  <2>2. \A j \in Keys : pages[j] = None => pages'[j] = None
    BY <1>3
  <2>3. \A q \in Runs : parent[q] # None => <<parent[q], 0>> \in Keys
    BY KeyFacts DEF SharedInv, SharedTypeOK
  <2> QED
    BY <1>2, <2>1, <2>2, <2>3, KeyFacts DEF SharedInv, FetchesFirst
\* A browser that is to be closed next has no other entry.
<1>7. hand'[r] # None => hand'[r] = pages[k] /\ \A j \in Keys : pages'[j] # hand'[r]
  BY <1>3 DEF InUse
<1>8. Fresh'
  <2>1. ASSUME NEW q \in Runs, pages'[<<q, 0>>] = None, at'[q] \notin {"cleaning", "done"}
        PROVE  /\ q \notin own' /\ q \notin live'
               /\ \A s \in SessionIds : registered'[s] # q
               /\ \A v \in Runs : hand'[v] # q
               /\ \A j \in Keys : pages'[j] # q
    <3>1. q # r /\ at[q] \notin {"cleaning", "done"} /\ pages[<<q, 0>>] = None
      BY <1>1, <1>2, <1>3, <2>1, KeyFacts
    <3>2. /\ q \notin own /\ q \notin live
          /\ \A s \in SessionIds : registered[s] # q
          /\ \A v \in Runs : hand[v] # q
          /\ \A j \in Keys : pages[j] # q
      BY <3>1 DEF SharedInv, Fresh
    <3> QED
      BY <1>2, <1>3, <1>4, <1>7, <3>2
  <2> QED
    BY <2>1 DEF Fresh
<1>9. OwnApart'
  <2>1. ASSUME NEW q \in Runs, hand'[q] \in own
        PROVE  at'[q] = "cleaning" /\ \A j \in Keys : pages'[j] # hand'[q]
    BY <1>2, <1>3, <1>4, <1>7, <2>1 DEF SharedInv, OwnApart
  <2> QED
    BY <1>2, <2>1 DEF SharedInv, OwnApart
\* The runs inside another that waits for them are not cleaned up by it.
<1>10. \A q \in Runs : parent[q] # None /\ at'[q] \in Alive =>
          /\ at[q] \in Alive /\ parent[q] \in Runs \ {r}
          /\ pages'[<<parent[q], 0>>] = pages[<<parent[q], 0>>]
  <2>1. \A q \in Runs : parent[q] # None /\ at'[q] \in Alive =>
           at[q] \in Alive /\ parent[q] \in Runs \ {r}
    BY <1>2 DEF Alive, SharedInv, RunTree, SharedTypeOK
  <2> QED
    BY <1>1, <1>3, <2>1, KeyFacts
<1>11. HeldAbove'
  <2>1. ASSUME NEW q \in Runs, NEW i \in 0 .. NumTasks,
               session[q] # None, at'[q] \in Alive,
               pages'[<<q, i>>] \in own, ~Unclosable(pages'[<<q, i>>])
        PROVE  /\ parent[q] # None
               /\ pages'[<<parent[q], 0>>] = pages'[<<q, i>>]
    <3>1. at[q] \in Alive /\ pages'[<<q, i>>] = pages[<<q, i>>]
      BY <1>2, <1>3, <1>4, <2>1, KeyFacts DEF Alive
    <3>2. parent[q] # None /\ pages[<<parent[q], 0>>] = pages[<<q, i>>]
      BY <2>1, <3>1 DEF SharedInv, HeldAbove
    <3> QED
      BY <1>10, <2>1, <3>1, <3>2
  <2> QED
    BY <1>2, <2>1 DEF HeldAbove, Unclosable
<1>12. Emptied'
  <2>1. ASSUME NEW i \in 0 .. NumTasks, i < popped'[r]
        PROVE  pages'[<<r, i>>] = None
    <3>1. popped[r] \in Nat /\ popped'[r] = popped[r] + 1
      BY <1>2, RunsAssumption DEF SharedInv, SharedTypeOK
    <3>2. CASE i = popped[r]
      BY <1>1, <1>3, <3>2
    <3>3. CASE i # popped[r]
      <4>1. i < popped[r]
        BY <2>1, <3>1, <3>3, RunsAssumption
      <4>2. at[r] = "cleaning"
        BY <4>1 DEF CleanUpEntry
      <4>3. pages[<<r, i>>] = None
        BY <4>1, <4>2 DEF SharedInv, Emptied
      <4> QED
        BY <1>3, <4>3, KeyFacts
    <3> QED
      BY <3>2, <3>3
  <2>2. \A q \in Runs \ {r} : popped'[q] = popped[q]
                              /\ \A i \in 0 .. NumTasks : pages'[<<q, i>>] = pages[<<q, i>>]
    BY <1>1, <1>2, <1>3, KeyFacts DEF SharedInv, SharedTypeOK
  <2> QED
    BY <1>2, <2>1, <2>2 DEF SharedInv, Emptied
<1>13. OwnBrowserLives'
  <2> DEFINE Taken(x) == \E j \in Keys : pages[j] = x /\ at[j[1]] # "done"
             Held(x) == \E q \in Runs : at[q] = "cleaning" /\ hand[q] = x
  <2>1. \A j \in Keys : at'[j[1]] = "done" <=> at[j[1]] = "done"
    BY <1>2, KeyFacts
  <2>2. \A x \in own : LeftOpen(x) => LeftOpen(x)'
    <3>1. ASSUME NEW x \in own, NEW j \in Keys,
                 pages[j] = x, j[1] \in taskV2, at[j[1]] = "done"
          PROVE  pages'[j] = x /\ at'[j[1]] = "done"
      BY <1>1, <1>2, <1>3, <2>1, <3>1
    <3> QED
      BY <1>2, <3>1 DEF LeftOpen, Unclosable
  <2>3. ASSUME NEW x \in own, \E j \in Keys : pages'[j] = x
        PROVE  x \in live'
    <3>1. PICK j \in Keys : pages[j] = x
      BY <1>3, <1>4, <2>3
    <3>2. x \in live /\ hand[r] # x
      BY <2>3, <3>1 DEF SharedInv, OwnBrowserLives, OwnApart
    <3> QED
      BY <1>2, <3>2
  <2>4. ASSUME NEW x \in own, x \in live'
        PROVE  Taken(x)' \/ Held(x)' \/ LeftOpen(x)'
    <3>1. x # hand[r] /\ (Taken(x) \/ Held(x) \/ LeftOpen(x))
      BY <1>2, <2>4 DEF SharedInv, OwnBrowserLives
    <3>2. CASE LeftOpen(x)
      BY <2>2, <3>2
    <3>3. CASE Held(x)
      BY <1>2, <3>1, <3>3
    <3>4. CASE Taken(x) /\ pages[k] # x
      BY <1>3, <2>1, <3>4
    <3>5. CASE pages[k] = x /\ session[r] = None /\ ~InUse(k)
      BY <1>2, <1>3, <3>5
    <3>6. CASE pages[k] = x /\ InUse(k)
      <4>1. PICK j \in Keys \ {k} : pages[j] = x
        BY <3>6 DEF InUse
      <4>2. pages'[j] = x
        BY <1>3, <4>1
      <4>3. CASE at[j[1]] # "done"
        BY <2>1, <4>2, <4>3
      <4>4. CASE at[j[1]] = "done"
        <5>1. j[1] \in Runs /\ j[2] \in 0 .. NumTasks /\ pages[<<j[1], j[2]>>] # None
          BY <1>4, <2>4, <4>1, KeyFacts
        <5>2. j[2] < NumTasks + 1
          BY <5>1, RunsAssumption
        <5>3. j[1] \in taskV2
          BY <4>4, <5>1, <5>2 DEF SharedInv, Emptied
        <5> QED
          BY <1>2, <2>1, <4>2, <4>4, <5>3 DEF LeftOpen
      <4> QED
        BY <4>3, <4>4
    <3>7. CASE pages[k] = x /\ session[r] # None
      <4>1. CASE Unclosable(x)
        BY <1>2, <4>1 DEF LeftOpen, Unclosable
      <4>2. CASE ~Unclosable(x)
        <5>1. k[2] \in 0 .. NumTasks /\ pages[<<r, k[2]>>] = x
          BY <1>1, <3>7, KeyFacts
        <5>2. at[r] \in Alive
          BY <1>2 DEF Alive
        <5>3. parent[r] # None /\ pages[<<parent[r], 0>>] = x
          BY <2>4, <3>7, <4>2, <5>1, <5>2 DEF SharedInv, HeldAbove
        <5>4. at[parent[r]] = "waiting" /\ parent[r] \in Runs \ {r}
          BY <1>2, <5>2, <5>3 DEF SharedInv, RunTree, SharedTypeOK
        <5>5. /\ <<parent[r], 0>> \in Keys \ {k} /\ <<parent[r], 0>>[1] = parent[r]
              /\ pages'[<<parent[r], 0>>] = x /\ at'[parent[r]] # "done"
          BY <1>1, <1>2, <1>3, <5>3, <5>4, KeyFacts
        <5> QED
          BY <5>5
      <4> QED
        BY <4>1, <4>2
    <3> QED
      BY <3>1, <3>2, <3>3, <3>4, <3>5, <3>6, <3>7
  <2> QED
    BY <1>2, <2>3, <2>4 DEF OwnBrowserLives
<1> QED
  BY <1>5, <1>6, <1>8, <1>9, <1>11, <1>12, <1>13 DEF SharedInv

\* The end of a run, after the last close of its cleanup or without one, and
\* the run that waits goes on.
LEMMA EndSteps ==
    ASSUME SharedInv, SharedTypeOK', NEW r \in Runs, EndRun(r) \/ EndTaskV2(r)
    PROVE  SharedInv'
<1> USE DEF given
<1>1. /\ at[r] \in {"cleaning", "working"} /\ at'[r] = "done"
      /\ \A q \in Runs \ {r} : at'[q] = IF q = parent[r] THEN "working" ELSE at[q]
      /\ hand'[r] \in {None, hand[r]} /\ \A q \in Runs \ {r} : hand'[q] = hand[q]
      /\ UNCHANGED <<pages, registered, own, parent, session, taskV2, popped>>
  BY DEF EndRun, EndTaskV2, Ended, SharedInv, SharedTypeOK
<1>2. /\ None \notin own /\ None \notin Runs /\ own \subseteq Runs
      /\ \A q \in Runs : q = parent[r] => at[q] = "waiting"
  BY <1>1, KeyFacts DEF SharedInv, RunTree, Alive, SharedTypeOK
<1>3. \A q \in Runs : /\ at'[q] = "fetching" => at[q] = "fetching"
                      /\ at'[q] = "creating" => at[q] = "creating"
                      /\ at'[q] = "cleaning" <=> at[q] = "cleaning" /\ q # r
                      /\ at'[q] = "done" <=> at[q] = "done" \/ q = r
                      /\ at'[q] = "idle" <=> at[q] = "idle"
                      /\ at'[q] \in Alive => at[q] \in Alive /\ q # r
  BY <1>1, <1>2 DEF Alive
<1>4. /\ r \in taskV2 => live' = live /\ hand' = hand /\ at[r] = "working"
      /\ r \notin taskV2 => /\ live' = live \ {hand[r]} /\ hand'[r] = None
                            /\ at[r] = "cleaning" /\ popped[r] = NumTasks + 1
  <2>1. NumTasks + 1 # 0
    BY RunsAssumption
  <2>2. r \in taskV2 => popped[r] = 0
    BY DEF SharedInv, Emptied
  <2> QED
    BY <2>1, <2>2 DEF EndRun, EndTaskV2, SharedInv, SharedTypeOK
<1>5. RunTree'
  <2>1. ASSUME NEW q \in Runs, parent[q] # None
        PROVE  /\ at'[parent[q]] # "idle"
               /\ at'[q] \in Alive => at'[parent[q]] = "waiting"
    <3>1. parent[q] \in Runs /\ at[parent[q]] # "idle"
      BY <2>1 DEF SharedInv, RunTree, SharedTypeOK
    <3>2. ASSUME at'[q] \in Alive
          PROVE  at'[parent[q]] = "waiting"
      <4>1. at[parent[q]] = "waiting" /\ q # r
        BY <1>3, <2>1, <3>2 DEF SharedInv, RunTree
      <4>2. parent[q] # parent[r]
        BY <1>1, <1>3, <2>1, <3>2, <4>1 DEF SharedInv, RunTree, Alive
      <4> QED
        BY <1>1, <3>1, <4>1, <4>2
    <3> QED
      BY <1>3, <3>1, <3>2
  <2> QED
    BY <1>1, <1>3, <2>1 DEF SharedInv, RunTree, Alive
<1>6. FetchesFirst'
  BY <1>1, <1>3 DEF SharedInv, FetchesFirst
<1>7. \A q \in Runs : hand'[q] \in Runs => hand'[q] = hand[q]
  BY <1>1, <1>2
<1>8. Fresh'
  BY <1>1, <1>3, <1>4, <1>7 DEF SharedInv, Fresh
<1>9. OwnApart'
  <2>1. \A q \in Runs : hand'[q] \in own => hand'[q] = hand[q] /\ at'[q] = "cleaning"
    BY <1>2, <1>3, <1>4, <1>7 DEF SharedInv, OwnApart
  <2> QED
    BY <1>1, <2>1 DEF SharedInv, OwnApart
<1>10. HeldAbove'
  BY <1>1, <1>3 DEF SharedInv, HeldAbove, Unclosable
<1>11. Emptied'
  <2>1. \A i \in 0 .. NumTasks : i < popped[r] => pages[<<r, i>>] = None
    <3>1. popped[r] = 0 \/ at[r] = "cleaning"
      BY <1>1 DEF SharedInv, Emptied
    <3>2. \A i \in 0 .. NumTasks : ~(i < 0)
      BY RunsAssumption
    <3> QED
      BY <3>1, <3>2 DEF SharedInv, Emptied
  <2>2. \A q \in Runs \ {r} : at'[q] \in {"cleaning", "done"} <=> at[q] \in {"cleaning", "done"}
    BY <1>3
  <2> QED
    BY <1>1, <1>3, <1>4, <2>1, <2>2 DEF SharedInv, Emptied
<1>12. OwnBrowserLives'
  <2> DEFINE Taken(x) == \E j \in Keys : pages[j] = x /\ at[j[1]] # "done"
             Held(x) == \E q \in Runs : at[q] = "cleaning" /\ hand[q] = x
  <2>1. \A x \in own : LeftOpen(x) => LeftOpen(x)'
    BY <1>1, <1>3, KeyFacts DEF LeftOpen, Unclosable
  <2>2. ASSUME NEW x \in own, \E j \in Keys : pages'[j] = x
        PROVE  x \in live'
    BY <1>1, <1>4, <2>2 DEF SharedInv, OwnBrowserLives, OwnApart
  <2>3. ASSUME NEW x \in own, x \in live'
        PROVE  Taken(x)' \/ Held(x)' \/ LeftOpen(x)'
    <3>1. x \in live /\ (r \notin taskV2 => x # hand[r])
      BY <1>4, <2>3
    <3>2. Taken(x) \/ Held(x) \/ LeftOpen(x)
      BY <3>1 DEF SharedInv, OwnBrowserLives
    <3>3. CASE Held(x)
      <4>1. PICK q \in Runs : at[q] = "cleaning" /\ hand[q] = x
        BY <3>3
      <4>2. q # r
        BY <1>4, <3>1, <4>1
      <4> QED
        BY <1>1, <1>3, <4>1, <4>2
    <3>4. CASE Taken(x)
      <4>1. PICK j \in Keys : pages[j] = x /\ at[j[1]] # "done"
        BY <3>4
      <4>2. CASE j[1] # r
        BY <1>1, <1>3, <4>1, <4>2, KeyFacts
      <4>3. CASE j[1] = r /\ r \in taskV2
        BY <1>1, <4>1, <4>3 DEF LeftOpen
      <4>4. CASE j[1] = r /\ r \notin taskV2
        <5>1. j[2] \in 0 .. NumTasks /\ j = <<r, j[2]>>
          BY <4>4, KeyFacts
        <5>2. j[2] < popped[r]
          BY <1>4, <4>4, <5>1, RunsAssumption
        <5>3. pages[j] = None
          BY <1>4, <4>4, <5>1, <5>2 DEF SharedInv, Emptied
        <5> QED
          BY <1>2, <2>3, <4>1, <5>3
      <4> QED
        BY <4>2, <4>3, <4>4
    <3> QED
      BY <2>1, <3>2, <3>3, <3>4
  <2> QED
    BY <1>1, <2>2, <2>3 DEF OwnBrowserLives
<1> QED
  BY <1>5, <1>6, <1>8, <1>9, <1>10, <1>11, <1>12 DEF SharedInv

\* Every step keeps the invariant.
LEMMA SharedStep ==
    ASSUME SharedInv, SharedTypeOK', [SharedNext]_sharedVars
    PROVE  SharedInv'
<1>1. CASE UNCHANGED sharedVars
  <2>1. /\ RunTree' /\ FetchesFirst' /\ Fresh' /\ OwnApart' /\ HeldAbove' /\ Emptied'
    BY <1>1 DEF sharedVars, SharedInv, RunTree, FetchesFirst, Fresh, OwnApart,
                HeldAbove, Unclosable, Emptied
  <2>2. OwnBrowserLives'
    BY <1>1 DEF sharedVars, SharedInv, OwnBrowserLives, LeftOpen, Unclosable
  <2> QED
    BY <2>1, <2>2 DEF SharedInv
<1> QED
  BY <1>1, SessionSteps, BeginSteps, CopySteps, LookSteps, EnterSteps,
     CreateSteps, CleanSteps, EndSteps DEF SharedNext

\* The table, the tree of the runs and the browsers in their hands are
\* inductive together.
THEOREM SharedInvariance == SharedSpec => []SharedInv
<1> DEFINE Rest == /\ RunTree /\ FetchesFirst /\ Fresh /\ OwnApart
                   /\ HeldAbove /\ Emptied /\ OwnBrowserLives
<1>1. SharedInit => Rest
  BY KeyFacts, RunsAssumption
     DEF SharedInit, RunTree, FetchesFirst, Fresh, OwnApart, HeldAbove,
         Emptied, OwnBrowserLives, Browsers
<1>2. SharedTypeOK /\ SharedTypeOK' /\ Rest /\ [SharedNext]_sharedVars => Rest'
  BY SharedStep DEF SharedInv
<1>3. SharedTypeOK /\ Rest => SharedInv
  BY DEF SharedInv
<1> HIDE DEF Rest
<1> QED
  BY <1>1, <1>2, <1>3, SharedTypes, PTL DEF SharedSpec

\* A browser created without a session is open under every entry that has it,
\* and no longer than a run that goes on has it or closes it, except for the two
\* kinds the code leaves open.
THEOREM OwnBrowsersLive == SharedSpec => []OwnBrowserLives
<1>1. SharedInv => OwnBrowserLives
  BY DEF SharedInv
<1> QED
  BY <1>1, SharedInvariance, PTL

\* A run keeps its browser until its own cleanup.
THEOREM BrowserKept == SharedSpec => KeepsBrowser
<1> USE DEF given
<1> DEFINE Keeps == \A r \in Runs :
              pages[<<r, 0>>] # None =>
                 pages'[<<r, 0>>] = pages[<<r, 0>>] \/ at'[r] = "cleaning"
<1>1. ASSUME SharedInv, [SharedNext]_sharedVars
      PROVE  Keeps
  <2>1. CASE UNCHANGED pages
    BY <2>1
  <2>2. ASSUME NEW r \in Runs, NEW k \in Keys, NEW b,
               pages[k] = None, pages' = [pages EXCEPT ![k] = b]
        PROVE  Keeps
    BY <1>1, <2>2, KeyFacts DEF SharedInv, SharedTypeOK
  <2>3. ASSUME NEW r \in Runs, TakeFound(r) \/ CreateForSession(r) \/ CreateOwn(r)
        PROVE  Keeps
    <3>1. at[r] \in {"fetching", "creating"} /\ \E b \in Browsers : pages' = Entered(r, b)
      BY <1>1, <2>3, KeyFacts DEF TakeFound, CreateForSession, CreateOwn, SharedInv, SharedTypeOK
    <3>2. PICK b \in Browsers, p \in Runs : EntersFor(r, p, b)
      BY <1>1, <3>1, EnteredFacts
    <3>3. \A k \in Keys : pages[k] # None => pages'[k] = pages[k]
      BY <3>2 DEF EntersFor
    <3> QED
      BY <3>3, KeyFacts
  <2>4. ASSUME NEW r \in Runs, CleanUpEntry(r)
        PROVE  Keeps
    <3>1. /\ at'[r] = "cleaning"
          /\ pages' = [pages EXCEPT ![<<r, popped[r]>>] = None]
      BY <1>1, <2>4 DEF CleanUpEntry, SharedInv, SharedTypeOK
    <3> QED
      BY <1>1, <3>1, KeyFacts DEF SharedInv, SharedTypeOK
  <2>5. ASSUME NEW r \in Runs, Inherit(r)
        PROVE  Keeps
    BY <1>1, <2>2, <2>5, KeyFacts DEF Inherit
  <2>6. ASSUME NEW r \in Runs, NEW i \in 1 .. NumTasks, EnterTask(r, i)
        PROVE  Keeps
    <3>1. <<r, i>> \in Keys
      BY RunsAssumption DEF Keys
    <3> QED
      BY <1>1, <2>2, <2>6, <3>1 DEF EnterTask
  <2>7. ASSUME NEW r \in Runs,
               \/ \E s \in SessionIds \cup {None} : BeginRun(r, s)
               \/ \E p \in Runs : Trigger(p, r) \/ StartTaskV2(p, r)
               \/ Look(r) \/ FindNone(r) \/ FetchFails(r) \/ EndTaskV2(r) \/ EndRun(r)
        PROVE  Keeps
    BY <2>1, <2>7 DEF BeginRun, Trigger, StartTaskV2, Nested, Look, FindNone,
                      FetchFails, EndTaskV2, EndRun
  <2>8. CASE \/ \E s \in SessionIds : LaunchSession(s) \/ CloseSession(s)
             \/ UNCHANGED sharedVars
    BY <2>1, <2>8 DEF LaunchSession, CloseSession, sharedVars
  <2> HIDE DEF Keeps
  <2> QED
    BY <1>1, <2>3, <2>4, <2>5, <2>6, <2>7, <2>8 DEF SharedNext
<1>2. SharedInv /\ [SharedNext]_sharedVars => [Keeps]_sharedVars
  BY <1>1
<1> QED
  BY <1>2, SharedInvariance, PTL DEF SharedSpec, KeepsBrowser

=============================================================================
