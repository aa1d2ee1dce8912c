------------------------------ MODULE HlsServer ------------------------------
(***************************************************************************)
(* The HTTP server thread of the HLS output (serveHlsHttp in worker.cpp),  *)
(* started by startHLS, stopped by stopHLS, by the next startHLS when a    *)
(* run died, and by ~Worker, at the level of descriptors.  The number of   *)
(* the listening socket is closed by whoever stops the thread and again by *)
(* the thread itself; in between another thread of the worker may be given *)
(* the same number.  FFmpeg processes inherit what is open when they are   *)
(* forked, and a port is taken as long as anybody holds a socket that      *)
(* listens on it.                                                          *)
(*                                                                         *)
(* What is served is in HlsPlayback, how flags, handles and states of the  *)
(* streams interleave in StreamLifecycle.  The playback port is the same   *)
(* in every run that has one, and no other program wants it.               *)
(***************************************************************************)
EXTENDS Naturals, FiniteSets

CONSTANTS
  NumFds,        \* descriptors beside those open all the time
  Others,        \* threads of the worker that open and close descriptors
  Outputs,       \* streams other than HLS
  KilledAtExit,  \* those whose FFmpeg ~Worker kills: AAC and MP3, not SRT
  MaxStarts      \* bound on the starts of HLS

ASSUME ServerAssumption ==
  /\ NumFds \in Nat /\ MaxStarts \in Nat
  /\ KilledAtExit \subseteq Outputs /\ "hls" \notin Outputs

Fds     == 1..NumFds
NoFd    == 0
Starts  == 1..MaxStarts
Ffmpegs == Outputs \cup {"hls"}
Closers == {"command", "main"}

\* What a descriptor refers to; the listening socket of a start has its number.
Closed      == [kind |-> "closed", of |-> 0]
WebClient   == [kind |-> "client", of |-> 0]
Listener(g) == [kind |-> "server", of |-> g]
Thing(o)    == [kind |-> "other", of |-> o]
Theirs      == {Thing(o) : o \in Others}
Things      == {Closed, WebClient} \cup {Listener(g) : g \in Starts} \cup Theirs

VARIABLES
  fdTable,                 \* of the worker
  holds,                   \* of each other thread: the descriptor it takes for its own
  alive, inherits,         \* FFmpeg processes, listening sockets each has a copy of
  listening,               \* the sockets that got the port
  httpRunning, httpSocket, \* m_hlsHttpRunning, m_hlsHttpSocket
  serverPc, owner,         \* server thread ("none": not joinable), the start it belongs to
  sfd, cfd,                \* its descriptors
  hlsRun, start,           \* m_hlsRunning and m_hlsProc; number of the last start
  withPort,                \* whether hls.json of that start has a playback port
  closerPc, closerFd,      \* the thread with m_streamMutex, the main thread
  goal,                    \* what the former is doing
  lastCommand,             \* a command began after SIGTERM
  refused,                 \* history: who had the port when the last bind failed
  died,                    \* history: the HLS FFmpeg died, no Stop since
  lateStart,               \* history: a server was started after SIGTERM
  disturbed,               \* history: another thread closed what was not its own
  foreign,                 \* history: descriptors of others closed here, until disturbed,
  shutdowns,               \* and stops that closed the number, since the server was started
  answers                  \* history: clients answered since the flag was cleared

tableVars  == <<fdTable, foreign>>
otherVars  == <<holds, disturbed>>
childVars  == <<alive, inherits, died>>
serverVars == <<serverPc, owner, sfd, cfd, answers>>
cellVars   == <<httpRunning, httpSocket>>
portVars   == <<listening, refused>>
startVars  == <<hlsRun, start, withPort, goal, lastCommand, lateStart>>
closerVars == <<closerPc, closerFd, shutdowns>>
hlsVars    == <<tableVars, otherVars, childVars, serverVars, cellVars, portVars, startVars, closerVars>>

HlsInit ==
  /\ fdTable = [f \in Fds |-> Closed] /\ holds = [o \in Others |-> NoFd]
  /\ alive = {} /\ inherits = [c \in Ffmpegs |-> {}] /\ died = FALSE
  /\ listening = {} /\ refused = {}
  /\ httpRunning = FALSE /\ httpSocket = NoFd
  /\ serverPc = "none" /\ owner = 0 /\ sfd = NoFd /\ cfd = NoFd /\ answers = 0
  /\ hlsRun = FALSE /\ start = 0 /\ withPort = FALSE
  /\ closerPc = [t \in Closers |-> IF t = "command" THEN "idle" ELSE "run"]
  /\ closerFd = [t \in Closers |-> NoFd]
  /\ goal = "none" /\ lastCommand = FALSE /\ lateStart = FALSE
  /\ disturbed = FALSE /\ foreign = 0 /\ shutdowns = 0

-----------------------------------------------------------------------------
(* The kernel.                                                              *)

\* A new descriptor gets the lowest free number.
Lowest(f) == fdTable[f] = Closed /\ \A e \in 1..(f - 1) : fdTable[e] # Closed

FdsLeft == \E f \in Fds : fdTable[f] = Closed

\* close(f) by the code of this module; on a free number it does nothing.
Close(f) ==
  /\ fdTable' = [fdTable EXCEPT ![f] = Closed]
  /\ foreign' = IF fdTable[f] \in Theirs /\ ~disturbed THEN foreign + 1 ELSE foreign

OpenSockets == {g \in Starts : \E f \in Fds : fdTable[f] = Listener(g)}

\* Processes other than the worker with a socket that has the port.
PortHolders == {c \in alive : inherits[c] \cap listening # {}}

PortTaken == PortHolders # {} \/ OpenSockets \cap listening # {}

Forks(c) ==
  /\ alive' = alive \cup {c}
  /\ inherits' = [inherits EXCEPT ![c] = OpenSockets]

Gone(cs) ==
  /\ alive' = alive \ cs
  /\ inherits' = [c \in Ffmpegs |-> IF c \in cs THEN {} ELSE inherits[c]]

Up == closerPc["main"] # "exited"

-----------------------------------------------------------------------------
(* Other threads of the worker, other streams.                              *)

\* A file or a socket; clients come only if it listens.
OtherOpens(o) ==
  /\ Up /\ holds[o] = NoFd
  /\ \E f \in Fds : /\ Lowest(f)
                    /\ fdTable' = [fdTable EXCEPT ![f] = Thing(o)]
                    /\ holds' = [holds EXCEPT ![o] = f]
  /\ UNCHANGED <<foreign, disturbed, childVars, serverVars, cellVars, portVars, startVars, closerVars>>

OtherCloses(o) ==
  /\ Up /\ holds[o] # NoFd
  /\ disturbed' = (disturbed \/ fdTable[holds[o]] \notin {Thing(o), Closed})
  /\ fdTable' = [fdTable EXCEPT ![holds[o]] = Closed]
  /\ holds' = [holds EXCEPT ![o] = NoFd]
  /\ UNCHANGED <<foreign, childVars, serverVars, cellVars, portVars, startVars, closerVars>>

\* The main thread leaves run(); a command that was already waiting for the
\* mutex or in the control port still runs.
Begins ==
  /\ closerPc["command"] = "idle" /\ Up
  /\ closerPc["main"] = "run" \/ ~lastCommand
  /\ lastCommand' = (closerPc["main"] # "run")

OutputStarts(c) ==
  /\ Begins /\ c \notin alive
  /\ Forks(c)
  /\ UNCHANGED <<died, tableVars, otherVars, serverVars, cellVars, portVars, hlsRun, start, withPort,
                 goal, lateStart, closerVars>>

\* Stopped, restarted or dead.
OutputEnds(c) ==
  /\ Up /\ c \in alive
  /\ Gone({c})
  /\ UNCHANGED <<died, tableVars, otherVars, serverVars, cellVars, portVars, startVars, closerVars>>

HlsDies ==
  /\ Up /\ "hls" \in alive
  /\ Gone({"hls"}) /\ died' = TRUE
  /\ UNCHANGED <<tableVars, otherVars, serverVars, cellVars, portVars, startVars, closerVars>>

\* pollSinkProcesses leaves the server alone.
PollHls ==
  /\ closerPc["main"] = "run" /\ hlsRun /\ "hls" \notin alive
  /\ hlsRun' = FALSE
  /\ UNCHANGED <<tableVars, otherVars, childVars, serverVars, cellVars, portVars, start, withPort,
                 goal, lastCommand, lateStart, closerVars>>

-----------------------------------------------------------------------------
(* startHLS and stopHLS, under m_streamMutex.                               *)

At(t, place) == closerPc' = [closerPc EXCEPT ![t] = place]

\* FFmpeg first; a launch that fails changes nothing here.
StartForks(p) ==
  /\ Begins /\ ~hlsRun /\ start < MaxStarts
  /\ Forks("hls")
  /\ start' = start + 1 /\ withPort' = p
  /\ goal' = "start"
  /\ At("command", IF p THEN "forked" ELSE "started")
  /\ UNCHANGED <<died, tableVars, otherVars, serverVars, cellVars, portVars, hlsRun, lateStart,
                 closerFd, shutdowns>>

\* Mutant: the socket is closed under a thread that is still told to run.
StopSkipsFlag ==
  /\ Begins
  /\ goal' = "stop"
  /\ At("command", IF httpRunning THEN "read" ELSE "kill")
  /\ UNCHANGED <<tableVars, otherVars, childVars, serverVars, cellVars, portVars, hlsRun, start,
                 withPort, lateStart, closerFd, shutdowns>>

\* Is the thread of an earlier run joinable?
StartTests ==
  /\ closerPc["command"] = "forked"
  /\ At("command", IF serverPc = "none" THEN "spawn" ELSE "flag")
  /\ UNCHANGED <<tableVars, otherVars, childVars, serverVars, cellVars, portVars, startVars, closerFd,
                 shutdowns>>

\* Mutant: the server is left at work.
StopLeavesServer ==
  /\ Begins
  /\ goal' = "stop"
  /\ At("command", "kill")
  /\ UNCHANGED <<tableVars, otherVars, childVars, serverVars, cellVars, portVars, hlsRun, start,
                 withPort, lateStart, closerFd, shutdowns>>

StopTests ==
  /\ Begins
  /\ goal' = "stop"
  /\ At("command", IF httpRunning THEN "flag" ELSE "kill")
  /\ UNCHANGED <<tableVars, otherVars, childVars, serverVars, cellVars, portVars, hlsRun, start,
                 withPort, lateStart, closerFd, shutdowns>>

\* Three statements that startHLS, stopHLS and ~Worker share.
ClearsFlag(t) ==
  /\ closerPc[t] = "flag"
  /\ httpRunning' = FALSE
  /\ At(t, "read")
  /\ UNCHANGED <<httpSocket, tableVars, otherVars, childVars, serverVars, portVars, startVars,
                 closerFd, shutdowns>>

ReadsSocket(t) ==
  /\ closerPc[t] = "read"
  /\ closerFd' = [closerFd EXCEPT ![t] = httpSocket]
  /\ At(t, IF httpSocket = NoFd THEN "join" ELSE "close")
  /\ UNCHANGED <<shutdowns, tableVars, otherVars, childVars, serverVars, cellVars, portVars, startVars>>

ClosesSocket(t) ==
  /\ closerPc[t] = "close"
  /\ Close(closerFd[t])
  /\ closerFd' = [closerFd EXCEPT ![t] = NoFd]
  /\ shutdowns' = shutdowns + 1
  /\ At(t, "join")
  /\ UNCHANGED <<otherVars, childVars, serverVars, cellVars, portVars, startVars>>

\* join returns when the thread has ended; a thread that is not joinable is skipped.
Joins(t, next) ==
  /\ closerPc[t] = "join" /\ serverPc \in {"ended", "none"}
  /\ serverPc' = "none" /\ sfd' = NoFd /\ answers' = 0
  /\ At(t, next)
  /\ UNCHANGED <<owner, cfd, closerFd, shutdowns, tableVars, otherVars, childVars,
                 cellVars, portVars, startVars>>

CommandJoins == Joins("command", IF goal = "start" THEN "spawn" ELSE "kill")

StartSpawns ==
  /\ closerPc["command"] = "spawn"
  /\ httpRunning' = TRUE /\ serverPc' = "socket" /\ owner' = start
  /\ refused' = {} /\ foreign' = 0 /\ shutdowns' = 0
  /\ lateStart' = (lateStart \/ closerPc["main"] # "run")
  /\ At("command", "started")
  /\ UNCHANGED <<httpSocket, sfd, cfd, answers, listening, fdTable, otherVars, childVars,
                 hlsRun, start, withPort, goal, lastCommand, closerFd>>

StartEnds ==
  /\ closerPc["command"] = "started"
  /\ hlsRun' = TRUE /\ goal' = "none"
  /\ At("command", "idle")
  /\ UNCHANGED <<start, withPort, lastCommand, lateStart, tableVars, otherVars, childVars, serverVars,
                 cellVars, portVars, closerFd, shutdowns>>

StopEnds ==
  /\ closerPc["command"] = "kill"
  /\ Gone({"hls"}) /\ died' = FALSE /\ refused' = {}
  /\ hlsRun' = FALSE /\ goal' = "none"
  /\ At("command", "idle")
  /\ UNCHANGED <<start, withPort, lastCommand, lateStart, tableVars, otherVars, serverVars,
                 cellVars, listening, closerFd, shutdowns>>

-----------------------------------------------------------------------------
(* ~Worker, without the mutex.                                              *)

MainKills ==
  /\ closerPc["main"] = "run"
  /\ Gone(KilledAtExit \cup {"hls"})
  /\ At("main", "test")
  /\ UNCHANGED <<died, tableVars, otherVars, serverVars, cellVars, portVars, startVars, closerFd,
                 shutdowns>>

\* Mutant: the server is joined without being stopped.
MainJoinsOnly ==
  /\ closerPc["main"] = "test"
  /\ At("main", "join")
  /\ UNCHANGED <<tableVars, otherVars, childVars, serverVars, cellVars, portVars, startVars, closerFd,
                 shutdowns>>

MainTests ==
  /\ closerPc["main"] = "test"
  /\ At("main", IF httpRunning THEN "flag" ELSE "join")
  /\ UNCHANGED <<tableVars, otherVars, childVars, serverVars, cellVars, portVars, startVars, closerFd,
                 shutdowns>>

MainJoins == Joins("main", "last")

\* The process ends: its threads and descriptors are gone.
Exit ==
  /\ At("main", "exited")
  /\ fdTable' = [f \in Fds |-> Closed] /\ serverPc' = "none"
  /\ UNCHANGED <<foreign, otherVars, childVars, owner, sfd, cfd, answers, cellVars, portVars,
                 startVars, closerFd, shutdowns>>

\* The control thread is joined between two commands.  A server started since
\* is a joinable thread destroyed: std::terminate, the same end.
MainExits ==
  /\ closerPc["main"] = "last" /\ closerPc["command"] = "idle"
  /\ Exit

\* Two threads in join of one std::thread: the second gets an error, which
\* ends the process.
JoinedTwice ==
  /\ \A t \in Closers : closerPc[t] = "join"
  /\ serverPc # "none"
  /\ Exit

-----------------------------------------------------------------------------
(* serveHlsHttp.                                                            *)

ServerGoes(place) == serverPc' = place

NoSocket ==
  /\ serverPc = "socket" /\ ~FdsLeft
  /\ httpRunning' = FALSE
  /\ ServerGoes("ended")
  /\ UNCHANGED <<httpSocket, owner, sfd, cfd, answers, tableVars, otherVars, childVars, portVars,
                 startVars, closerVars>>

OpensSocket ==
  /\ serverPc = "socket"
  /\ \E f \in Fds : /\ Lowest(f)
                    /\ fdTable' = [fdTable EXCEPT ![f] = Listener(owner)]
                    /\ sfd' = f
  /\ ServerGoes("bind")
  /\ UNCHANGED <<foreign, owner, cfd, answers, otherVars, childVars, cellVars, portVars, startVars,
                 closerVars>>

BindsAndListens ==
  /\ serverPc = "bind" /\ ~PortTaken /\ fdTable[sfd] = Listener(owner)
  /\ listening' = listening \cup {owner}
  /\ ServerGoes("publish")
  /\ UNCHANGED <<refused, owner, sfd, cfd, answers, tableVars, otherVars, childVars, cellVars,
                 startVars, closerVars>>

\* Mutant: the socket that got no port stays open.
BindRefusedLeaks ==
  /\ serverPc = "bind" /\ (PortTaken \/ fdTable[sfd] # Listener(owner))
  /\ refused' = PortHolders
  /\ ServerGoes("refused")
  /\ UNCHANGED <<listening, owner, sfd, cfd, answers, tableVars, otherVars, childVars, cellVars,
                 startVars, closerVars>>

BindRefused ==
  /\ serverPc = "bind" /\ (PortTaken \/ fdTable[sfd] # Listener(owner))
  /\ Close(sfd)
  /\ refused' = PortHolders
  /\ ServerGoes("refused")
  /\ UNCHANGED <<listening, owner, sfd, cfd, answers, otherVars, childVars, cellVars, startVars,
                 closerVars>>

\* Mutant: on to the end of the function, which closes the socket.
GivesUpCloses ==
  /\ serverPc = "refused"
  /\ Close(sfd)
  /\ httpRunning' = FALSE
  /\ ServerGoes("ended")
  /\ UNCHANGED <<httpSocket, owner, sfd, cfd, answers, otherVars, childVars, portVars,
                 startVars, closerVars>>

GivesUp ==
  /\ serverPc = "refused"
  /\ httpRunning' = FALSE
  /\ ServerGoes("ended")
  /\ UNCHANGED <<httpSocket, owner, sfd, cfd, answers, tableVars, otherVars, childVars, portVars,
                 startVars, closerVars>>

PublishesSocket ==
  /\ serverPc = "publish"
  /\ httpSocket' = sfd
  /\ ServerGoes("test")
  /\ UNCHANGED <<httpRunning, owner, sfd, cfd, answers, tableVars, otherVars, childVars, portVars,
                 startVars, closerVars>>

TestsFlag ==
  /\ serverPc = "test"
  /\ ServerGoes(IF httpRunning THEN "select" ELSE "close")
  /\ UNCHANGED <<owner, sfd, cfd, answers, tableVars, otherVars, childVars, cellVars, portVars,
                 startVars, closerVars>>

\* Half a second without a client, or the number is closed or no socket.
NothingReady ==
  /\ serverPc = "select"
  /\ ServerGoes("test")
  /\ UNCHANGED <<owner, sfd, cfd, answers, tableVars, otherVars, childVars, cellVars, portVars,
                 startVars, closerVars>>

ClientReady ==
  /\ serverPc = "select" /\ fdTable[sfd].kind \in {"server", "other"}
  /\ ServerGoes("accept")
  /\ UNCHANGED <<owner, sfd, cfd, answers, tableVars, otherVars, childVars, cellVars, portVars,
                 startVars, closerVars>>

\* The number may refer to something else by now; a listening socket has
\* clients, sooner or later.
AcceptsClient ==
  /\ serverPc = "accept" /\ fdTable[sfd].kind \in {"server", "other"}
  /\ \E f \in Fds : Lowest(f) /\ fdTable' = [fdTable EXCEPT ![f] = WebClient] /\ cfd' = f
  /\ ServerGoes("recv")
  /\ UNCHANGED <<foreign, owner, sfd, answers, otherVars, childVars, cellVars, portVars, startVars, closerVars>>

\* Mutant: the result of accept is not looked at.
AcceptUnchecked ==
  /\ serverPc = "accept"
  /\ cfd' = NoFd
  /\ ServerGoes("recv")
  /\ UNCHANGED <<owner, sfd, answers, tableVars, otherVars, childVars, cellVars, portVars,
                 startVars, closerVars>>

AcceptFails ==
  /\ serverPc = "accept"
  /\ ServerGoes("test")
  /\ UNCHANGED <<owner, sfd, cfd, answers, tableVars, otherVars, childVars, cellVars, portVars,
                 startVars, closerVars>>

\* Mutant: the next client is waited for without a look at the flag.
AnswersClientAndSelects ==
  /\ serverPc = "recv"
  /\ Close(cfd) /\ cfd' = NoFd
  /\ answers' = IF httpRunning THEN 0 ELSE answers + 1
  /\ ServerGoes("select")
  /\ UNCHANGED <<owner, sfd, otherVars, childVars, cellVars, portVars, startVars, closerVars>>

\* The client sends a request, closes or is cut off; recv has no time limit.
AnswersClient ==
  /\ serverPc = "recv"
  /\ Close(cfd) /\ cfd' = NoFd
  /\ answers' = IF httpRunning THEN 0 ELSE answers + 1
  /\ ServerGoes("test")
  /\ UNCHANGED <<owner, sfd, otherVars, childVars, cellVars, portVars, startVars, closerVars>>

ServerCloses ==
  /\ serverPc = "close"
  /\ Close(sfd)
  /\ ServerGoes("clear")
  /\ UNCHANGED <<owner, sfd, cfd, answers, otherVars, childVars, cellVars, portVars, startVars,
                 closerVars>>

ClearsSocket ==
  /\ serverPc = "clear"
  /\ httpSocket' = NoFd
  /\ ServerGoes("ended")
  /\ UNCHANGED <<httpRunning, owner, sfd, cfd, answers, tableVars, otherVars, childVars, portVars,
                 startVars, closerVars>>

-----------------------------------------------------------------------------
Environment ==
  \/ \E o \in Others : OtherOpens(o) \/ OtherCloses(o)
  \/ \E c \in Outputs : OutputStarts(c) \/ OutputEnds(c)
  \/ HlsDies \/ PollHls

Shutdown(t) == Up /\ (ClearsFlag(t) \/ ReadsSocket(t) \/ ClosesSocket(t))

Command == Up /\ \/ \E p \in BOOLEAN : StartForks(p)
                 \/ StartTests \/ StopTests \/ CommandJoins \/ StartSpawns \/ StartEnds \/ StopEnds

MainExit == MainKills \/ MainTests \/ MainJoins \/ MainExits \/ JoinedTwice

Server == \/ NoSocket \/ OpensSocket \/ BindsAndListens \/ BindRefused \/ GivesUp \/ PublishesSocket
          \/ TestsFlag \/ NothingReady \/ ClientReady \/ AcceptsClient \/ AcceptFails \/ AnswersClient
          \/ ServerCloses \/ ClearsSocket

HlsNext == Environment \/ (\E t \in Closers : Shutdown(t)) \/ Command \/ MainExit \/ Server

\* The worker is gone.
HlsRest == ~Up /\ UNCHANGED hlsVars

HlsSpec == HlsInit /\ [][HlsNext]_hlsVars

-----------------------------------------------------------------------------
(* Properties.                                                              *)

ServerPlaces == {"none", "socket", "bind", "refused", "publish", "test", "select", "accept", "recv",
                 "close", "clear", "ended"}

CommandPlaces == {"idle", "forked", "flag", "read", "close", "join", "spawn", "started", "kill"}
MainPlaces    == {"run", "test", "flag", "read", "close", "join", "last", "exited"}

TableOK ==
  /\ fdTable \in [Fds -> Things] /\ holds \in [Others -> Fds \cup {NoFd}]
  /\ disturbed \in BOOLEAN /\ foreign \in Nat /\ shutdowns \in Nat

ChildOK ==
  /\ alive \subseteq Ffmpegs /\ inherits \in [Ffmpegs -> SUBSET Starts]
  /\ \A c \in Ffmpegs \ alive : inherits[c] = {}
  /\ listening \subseteq Starts /\ refused \subseteq Ffmpegs
  /\ died \in BOOLEAN

StartOK ==
  /\ start \in 0..MaxStarts /\ owner \in 0..start
  /\ closerPc["command"] \in {"forked", "flag", "read", "close", "join", "spawn"} /\ goal = "start"
       => start \in Starts
  /\ hlsRun \in BOOLEAN /\ withPort \in BOOLEAN
  /\ goal \in {"none", "start", "stop"} /\ lastCommand \in BOOLEAN /\ lateStart \in BOOLEAN

ServerOK ==
  /\ httpRunning \in BOOLEAN /\ httpSocket \in Fds \cup {NoFd}
  /\ serverPc \in ServerPlaces /\ sfd \in Fds \cup {NoFd} /\ cfd \in Fds \cup {NoFd}
  /\ serverPc \notin {"none", "socket", "ended"} => sfd \in Fds /\ owner \in Starts
  /\ serverPc = "socket" => owner \in Starts
  /\ serverPc = "recv" => cfd \in Fds
  /\ answers \in Nat

CloserOK ==
  /\ closerPc \in [Closers -> CommandPlaces \cup MainPlaces]
  /\ closerPc["command"] \in CommandPlaces /\ closerPc["main"] \in MainPlaces
  /\ closerPc["command"] \in {"forked", "spawn"} => goal = "start"
  /\ closerFd \in [Closers -> Fds \cup {NoFd}]
  /\ \A t \in Closers : closerPc[t] = "close" => closerFd[t] \in Fds

HlsTypeOK == TableOK /\ ChildOK /\ StartOK /\ ServerOK /\ CloserOK

(* However stops, dead runs, failed binds and reused numbers come together, *)
(* the worker has at most one socket for the playback port open, that of    *)
(* the thread now at work: its own descriptors never stand in the way of a  *)
(* later start.                                                             *)
OneServerSocket ==
  \A f \in Fds : fdTable[f].kind = "server" =>
    /\ f = sfd /\ fdTable[f] = Listener(owner)
    /\ serverPc \notin {"none", "socket", "refused", "clear", "ended"}

(* A server thread that is meant to run has its socket, unless another      *)
(* thread, itself robbed of a descriptor by an earlier stop, closed it by   *)
(* number, or a start overlapped with the end of the worker.  (Without its  *)
(* socket the thread spins, select fails at once; or it answers clients     *)
(* that came for the socket that has the number now.)                       *)
DeafExplained ==
  httpRunning /\ serverPc \in {"publish", "test", "select", "accept", "recv"}
    => fdTable[sfd] = Listener(owner) \/ disturbed \/ lateStart

(* Once stopHLS (or the next startHLS, or ~Worker) has cleared the flag,    *)
(* the thread answers at most one more client: what the stop waits for,     *)
(* with m_streamMutex, is one silent client and not a queue of them.        *)
OneMoreAnswer == answers <= 1

(* The number is closed twice.  For one server thread no more descriptors   *)
(* of other threads are closed than there were stops that closed the        *)
(* number, and none without a stop.                                         *)
ForeignBound == foreign <= shutdowns

(* startHLS logs "HLS HTTP server listening on port" and publishes the URL  *)
(* whatever becomes of the thread.  At rest HLS runs without its server     *)
(* only because an FFmpeg process of the worker holds the port: one of      *)
(* another output that was started while an earlier server was at work, or, *)
(* if the last HLS FFmpeg died, its successor, which startHLS forks before  *)
(* it stops the old server.                                                 *)
ServedUnlessInherited ==
  /\ (/\ closerPc["command"] = "idle" /\ closerPc["main"] = "run"
      /\ hlsRun /\ withPort /\ ~httpRunning /\ ~disturbed) => refused # {}
  /\ "hls" \in refused => died

(* ~Worker waits for the server thread with the flag cleared, unless        *)
(* startHLS set it again after the destructor's test: then the wait never   *)
(* ends.                                                                    *)
ExitWaitsForLateStart == closerPc["main"] = "join" /\ httpRunning => lateStart

(* However often stopper and thread close the same number: one socket, that *)
(* of the thread at work, and nobody else's beyond one per stop.            *)
DescriptorsKept == OneServerSocket /\ DeafExplained /\ ForeignBound

(* A stop waits for one client at most, and for a thread that was told.     *)
StopsWaitForOne == OneMoreAnswer /\ ExitWaitsForLateStart
=============================================================================
