---------------------------- MODULE WorkerLaunch ----------------------------
(***************************************************************************)
(* One encoder seen from the supervisor (supervisor_api.cpp): how its      *)
(* connection threads launch the worker process, how they command it over  *)
(* the control port, and what becomes of the worker when the supervisor    *)
(* stops, crashes or starts again.  Linux build.                           *)
(*                                                                         *)
(* Sockets are inherited by fork and nothing closes them on exec: a worker *)
(* keeps the supervisor's HTTP socket open, an FFmpeg process the worker's *)
(* control socket.  The control socket takes connections as long as any    *)
(* process holds it, but only the worker that bound it answers them.       *)
(*                                                                         *)
(* Epochs are abstracted to "fresh" or not; runtime_state.json changes in  *)
(* one step here (its writers are the subject of RuntimeStateFile).  Every *)
(* sender without auto-start (Stop, gain, cue, disconnect) is a "stop".    *)
(***************************************************************************)
EXTENDS Naturals, Sequences, FiniteSets

CONSTANTS
  Kinds,       \* what they ask for
  Requests,    \* HTTP requests, each with its connection thread
  Pids,        \* worker processes that can be forked
  NoPid,
  MaxOpen,     \* bound on the requests served at a time
  MaxTries,    \* attempts after an auto-start (40 in the code)
  MaxRestarts  \* bound on the restarts of the supervisor

ASSUME LaunchAssumption ==
  /\ Kinds \subseteq {"connect", "connectSrt", "start", "stop"} /\ "stop" \in Kinds
  /\ NoPid \notin Pids
  /\ MaxOpen \in Nat /\ MaxTries \in Nat \ {0} /\ MaxRestarts \in Nat

VARIABLES
  svpc,      \* the supervisor: serving, in stop_supervisor_api, after it, gone, without API
  tracked,   \* g_workerPids[encoder]
  file,      \* runtime_state.json: is workerHeartbeatEpoch, workerLaunchEpoch fresh?
  pc, kind, tries, copy, forked, resp,  \* of each request: place, kind, attempt, object read, child, answer
  worker,    \* what each worker process does
  ffmpeg,    \* the FFmpeg processes of each worker: its streams, its SRT input relay
  owner,     \* the worker that bound the control port, while the socket is open
  queue, busy,  \* connections to the control port; is the first one being served?
  replied,   \* requests whose present connection got its ACK, or was reset
  restarts,  \* counter behind the bound
  executed,  \* history: the requests whose command was executed
  lost,      \* history: live workers whose table entry was overwritten
  late,      \* history: workers forked, or not yet in the table, when the supervisor was stopping
  deserted,  \* history: workers that lost their supervisor by a crash
  inherits   \* workers that hold the supervisor's HTTP socket

reqVars  == <<pc, kind, tries, copy, forked, resp>>
portVars == <<owner, queue, busy>>
sockVars == <<portVars, replied>>
procVars == <<worker, ffmpeg>>
svVars   == <<svpc, tracked, restarts>>
histVars == <<lost, late, deserted, inherits>>
vars     == <<svVars, file, reqVars, procVars, sockVars, executed, histVars>>

Live == {p \in Pids : worker[p] \in {"booting", "listening", "mute"}}
NoEpochs == [beat |-> FALSE, mark |-> FALSE]

Init ==
  /\ svpc = "run" /\ tracked = NoPid /\ restarts = 0
  /\ file = NoEpochs
  /\ pc = [r \in Requests |-> "idle"]
  /\ kind = [r \in Requests |-> "stop"]
  /\ tries = [r \in Requests |-> 0]
  /\ copy = [r \in Requests |-> NoEpochs]
  /\ forked = [r \in Requests |-> NoPid]
  /\ resp = [r \in Requests |-> "none"]
  /\ worker = [p \in Pids |-> "none"]
  /\ ffmpeg = [p \in Pids |-> {}]
  /\ owner = NoPid /\ queue = <<>> /\ busy = FALSE
  /\ replied = [r \in Requests |-> "none"]
  /\ executed = {}
  /\ lost = {} /\ late = {} /\ deserted = {} /\ inherits = {}

Goto(r, from, to) ==
  /\ pc[r] = from
  /\ pc' = [pc EXCEPT ![r] = to]

\* The same where an alternative answers: no other local changes.
Goes(r, from, to) ==
  /\ Goto(r, from, to)
  /\ UNCHANGED <<tries, copy, resp, replied>>

\* The thread sends its HTTP response and ends, and its locals with it.
Answer(r, from, answer) ==
  /\ Goto(r, from, "done")
  /\ resp' = [resp EXCEPT ![r] = answer]
  /\ tries' = [tries EXCEPT ![r] = 0]
  /\ copy' = [copy EXCEPT ![r] = NoEpochs]
  /\ replied' = [replied EXCEPT ![r] = "none"]

-----------------------------------------------------------------------------
(* POST input/connect.                                                      *)

\* accept and handleClient: a thread per connection.
Arrive(r, k) ==
  /\ svpc = "run"
  /\ Cardinality({q \in Requests : pc[q] \notin {"idle", "done", "killed"}}) < MaxOpen
  /\ Goto(r, "idle", IF k \in {"start", "stop"} THEN "send" ELSE "read")
  /\ kind' = [kind EXCEPT ![r] = k]
  /\ UNCHANGED <<svVars, file, tries, copy, forked, resp, procVars, sockVars, executed, histVars>>

ReadState(r) ==
  /\ Goto(r, "read", "write")
  /\ copy' = [copy EXCEPT ![r] = file]
  /\ UNCHANGED <<svVars, file, kind, tries, forked, resp, procVars, sockVars, executed, histVars>>

\* The session goes into the file, the rest of the object as it was read.
WriteState(r) ==
  /\ Goto(r, "write", IF kind[r] = "connectSrt" THEN "send" ELSE "fresh")
  /\ file' = copy[r]
  /\ UNCHANGED <<svVars, kind, tries, copy, forked, resp, procVars, sockVars, executed, histVars>>

\* workerFresh, from the object read at the beginning.
FreshEnough(r) ==
  /\ copy[r].beat \/ copy[r].mark
  /\ Answer(r, "fresh", "ok")
  /\ UNCHANGED <<svVars, file, kind, forked, procVars, portVars, executed, histVars>>

\* The launch epoch is stamped before spawning.
Stamp(r) ==
  /\ ~(copy[r].beat \/ copy[r].mark)
  /\ Goto(r, "fresh", "launch")
  /\ copy' = [copy EXCEPT ![r].mark = TRUE]
  /\ file' = [copy[r] EXCEPT !.mark = TRUE]
  /\ UNCHANGED <<svVars, kind, tries, forked, resp, procVars, sockVars, executed, histVars>>

-----------------------------------------------------------------------------
(* launchWorkerProcess.  g_workerPidsMutex is held during each of its two   *)
(* critical sections, and by stop_supervisor_api while it waits.            *)

TableFree == svpc # "waiting"

\* A launch returned true: connect answers, start begins its attempts.
Launched(r, from) ==
  IF kind[r] = "start"
  THEN /\ Goto(r, from, "send")
       /\ tries' = [tries EXCEPT ![r] = 1]
       /\ UNCHANGED <<copy, resp, replied>>
  ELSE Answer(r, from, "ok")

\* First section: reapTrackedWorkerUnlocked, then is the tracked process alive?
LaunchCheck(r) ==
  LET reapable == tracked # NoPid /\ worker[tracked] = "zombie" IN
  /\ TableFree
  /\ IF tracked \in Live THEN Launched(r, "launch")
     ELSE Goes(r, "launch", "fork")
  /\ tracked' = IF tracked \in Live THEN tracked ELSE NoPid
  /\ worker' = IF reapable THEN [worker EXCEPT ![tracked] = "gone"] ELSE worker
  /\ UNCHANGED <<svpc, restarts, file, kind, forked, ffmpeg, portVars, executed, histVars>>

\* No binary, or fork() fails; connect only logs it.
LaunchFails(r) ==
  /\ Answer(r, "fork", IF kind[r] = "start" THEN "failed" ELSE "ok")
  /\ UNCHANGED <<svVars, file, kind, forked, procVars, portVars, executed, histVars>>

\* fork and exec, outside the mutex.
Fork(r, p) ==
  /\ worker[p] = "none"
  /\ Goto(r, "fork", "record")
  /\ worker' = [worker EXCEPT ![p] = "booting"]
  /\ forked' = [forked EXCEPT ![r] = p]
  /\ inherits' = IF svpc = "run" THEN inherits \cup {p} ELSE inherits
  /\ late' = IF svpc = "run" THEN late ELSE late \cup {p}
  /\ UNCHANGED <<svVars, file, kind, tries, copy, resp, ffmpeg, sockVars, executed, lost, deserted>>

\* Second section: g_workerPids[encoder] = pid.
Record(r) ==
  /\ TableFree
  /\ Launched(r, "record")
  /\ tracked' = forked[r]
  /\ lost' = IF tracked \in Live THEN lost \cup {tracked} ELSE lost
  /\ forked' = [forked EXCEPT ![r] = NoPid]
  /\ UNCHANGED <<svpc, restarts, file, kind, procVars, portVars, executed, late, deserted, inherits>>

-----------------------------------------------------------------------------
(* sendWorkerControlCommand and sendWorkerControlWithAutoStart.             *)

\* Mutant: one attempt too many.
NotSentOnceMore(r, from, refused) ==
  \/ /\ kind[r] = "connectSrt"
     /\ Goes(r, from, "fresh")
  \/ /\ kind[r] = "start" /\ tries[r] = 0 /\ refused
     /\ Goes(r, from, "launch")
  \/ /\ kind[r] = "start" /\ tries[r] \in 1..MaxTries
     /\ Goto(r, from, "send")
     /\ tries' = [tries EXCEPT ![r] = @ + 1]
     /\ UNCHANGED <<copy, resp, replied>>
  \/ /\ \/ kind[r] = "stop"
        \/ kind[r] = "start" /\ tries[r] = 0 /\ ~refused
        \/ kind[r] = "start" /\ tries[r] > MaxTries
     /\ Answer(r, from, "failed")

\* The command did not get its ACK; refused: the connection was refused.
NotSent(r, from, refused) ==
  \/ /\ kind[r] = "connectSrt"
     /\ Goes(r, from, "fresh")
  \/ /\ kind[r] = "start" /\ tries[r] = 0 /\ refused
     /\ Goes(r, from, "launch")
  \/ /\ kind[r] = "start" /\ tries[r] \in 1..(MaxTries - 1)
     /\ Goto(r, from, "send")
     /\ tries' = [tries EXCEPT ![r] = @ + 1]
     /\ UNCHANGED <<copy, resp, replied>>
  \/ /\ \/ kind[r] = "stop"
        \/ kind[r] = "start" /\ tries[r] = 0 /\ ~refused
        \/ kind[r] = "start" /\ tries[r] = MaxTries
     /\ Answer(r, from, "failed")

Refused(r) ==
  /\ owner = NoPid
  /\ NotSent(r, "send", TRUE)
  /\ UNCHANGED <<svVars, file, kind, forked, procVars, portVars, executed, histVars>>

\* Connected, the command is sent.
Send(r) ==
  /\ owner # NoPid
  /\ Goto(r, "send", "wait")
  /\ queue' = Append(queue, [req |-> r, try |-> tries[r]])
  /\ replied' = [replied EXCEPT ![r] = "none"]
  /\ UNCHANGED <<svVars, file, kind, tries, copy, forked, resp, procVars, owner, busy, executed, histVars>>

Acked(r) ==
  /\ replied[r] = "ack"
  /\ IF kind[r] = "connectSrt" THEN Goes(r, "wait", "fresh") ELSE Answer(r, "wait", "ok")
  /\ UNCHANGED <<svVars, file, kind, forked, procVars, portVars, executed, histVars>>

\* Mutant: silence counts as success.
NoAckIsOk(r) ==
  /\ replied[r] # "ack"
  /\ Answer(r, "wait", "ok")
  /\ UNCHANGED <<svVars, file, kind, forked, procVars, portVars, executed, histVars>>

\* Mutant: no time limit.
NoAckUntilReset(r) ==
  /\ replied[r] = "reset"
  /\ NotSent(r, "wait", FALSE)
  /\ UNCHANGED <<svVars, file, kind, forked, procVars, portVars, executed, histVars>>

\* Nothing within 8 s, or the connection was closed.
NoAck(r) ==
  /\ replied[r] # "ack"
  /\ NotSent(r, "wait", FALSE)
  /\ UNCHANGED <<svVars, file, kind, forked, procVars, portVars, executed, histVars>>

-----------------------------------------------------------------------------
(* The worker process.                                                      *)

\* listenControlPort: a port that is held leaves the worker without listener.
Boot(p) ==
  /\ worker[p] = "booting"
  /\ worker' = [worker EXCEPT ![p] = IF owner = NoPid THEN "listening" ELSE "mute"]
  /\ owner' = IF owner = NoPid THEN p ELSE owner
  /\ UNCHANGED <<svVars, file, reqVars, ffmpeg, queue, busy, replied, executed, histVars>>

Heartbeat(p) ==
  /\ worker[p] \in {"listening", "mute"}
  /\ file' = [file EXCEPT !.beat = TRUE]
  /\ UNCHANGED <<svVars, reqVars, procVars, sockVars, executed, histVars>>

\* What a command may leave running: a start can fail, and is acknowledged.
After(p, k) ==
  CASE k = "start"      -> {ffmpeg[p], ffmpeg[p] \cup {"stream"}}
    [] k = "connectSrt" -> {ffmpeg[p], ffmpeg[p] \cup {"relay"}}
    [] OTHER            -> {ffmpeg[p], ffmpeg[p] \ {"stream"}}

\* One connection at a time; the sender may have given up on it.
Execute(p) ==
  /\ p = owner /\ worker[p] = "listening"
  /\ queue # <<>> /\ ~busy
  /\ busy' = TRUE
  /\ executed' = executed \cup {Head(queue).req}
  /\ \E left \in After(p, kind[Head(queue).req]) : ffmpeg' = [ffmpeg EXCEPT ![p] = left]
  /\ UNCHANGED <<svVars, file, reqVars, worker, owner, queue, replied, histVars>>

Acknowledge(p) ==
  LET c == Head(queue) IN
  /\ p = owner /\ worker[p] = "listening" /\ busy
  /\ busy' = FALSE
  /\ queue' = Tail(queue)
  /\ replied' = IF pc[c.req] = "wait" /\ tries[c.req] = c.try
                THEN [replied EXCEPT ![c.req] = "ack"] ELSE replied
  /\ UNCHANGED <<svVars, file, reqVars, procVars, owner, executed, histVars>>

\* p and its FFmpeg processes are as given from now on; when none of them is
\* left to hold the control socket, its connections are reset.
Leave(p, state, left) ==
  LET closed == p = owner /\ state \in {"zombie", "gone"} /\ left = {} IN
  /\ worker' = [worker EXCEPT ![p] = state]
  /\ ffmpeg' = [ffmpeg EXCEPT ![p] = left]
  /\ owner' = IF closed THEN NoPid ELSE owner
  /\ queue' = IF closed THEN <<>> ELSE queue
  /\ busy' = IF p = owner THEN FALSE ELSE busy
  /\ replied' = IF closed
                THEN [r \in Requests |-> IF pc[r] = "wait" /\ replied[r] = "none"
                                         THEN "reset" ELSE replied[r]]
                ELSE replied

\* A dead child is a zombie until its parent reaps it; init does at once.
Dead == IF svpc = "exited" THEN "gone" ELSE "zombie"

\* The worker crashes; its FFmpeg processes live on.
WorkerCrashes(p) ==
  /\ p \in Live
  /\ Leave(p, Dead, ffmpeg[p])
  /\ UNCHANGED <<svVars, file, reqVars, executed, histVars>>

\* SIGTERM from stop_supervisor_api: ~Worker ends all but an SRT stream.
WorkerEnds(p) ==
  /\ svpc = "waiting" /\ p = tracked /\ p \in Live
  /\ ~(p = owner /\ busy)
  /\ \E left \in SUBSET (ffmpeg[p] \cap {"stream"}) : Leave(p, Dead, left)
  /\ UNCHANGED <<svVars, file, reqVars, executed, histVars>>

\* The FFmpeg processes of a dead worker end by themselves.
OrphansEnd(p) ==
  /\ worker[p] \in {"zombie", "gone"} /\ ffmpeg[p] # {}
  /\ Leave(p, worker[p], {})
  /\ UNCHANGED <<svVars, file, reqVars, executed, histVars>>

\* Time passes: an epoch becomes too old, in the file or in an object read.
FileAges(f) ==
  /\ file[f]
  /\ file' = [file EXCEPT ![f] = FALSE]
  /\ UNCHANGED <<svVars, reqVars, procVars, sockVars, executed, histVars>>

CopyAges(r, f) ==
  /\ pc[r] \in {"write", "send", "wait", "fresh"} /\ copy[r][f]
  /\ copy' = [copy EXCEPT ![r][f] = FALSE]
  /\ UNCHANGED <<svVars, file, pc, kind, tries, forked, resp, procVars, sockVars, executed, histVars>>

-----------------------------------------------------------------------------
(* The supervisor process.                                                  *)

\* SIGTERM: the HTTP socket is closed, the mutex taken, the worker signalled.
StopBegin ==
  /\ svpc \in {"run", "deaf"}
  /\ svpc' = "waiting"
  /\ UNCHANGED <<tracked, restarts, file, reqVars, procVars, sockVars, executed, histVars>>

\* The table is cleared and the mutex released.
TableCleared ==
  /\ svpc = "waiting"
  /\ svpc' = "stopped"
  /\ tracked' = NoPid
  /\ late' = late \cup {forked[r] : r \in {q \in Requests : pc[q] = "record"}}
  /\ UNCHANGED <<restarts, file, reqVars, executed, lost, deserted, inherits>>

\* The tracked worker is gone, or there is none.
StopReaps ==
  /\ tracked \notin Live
  /\ TableCleared
  /\ worker' = IF tracked = NoPid THEN worker ELSE [worker EXCEPT ![tracked] = "gone"]
  /\ UNCHANGED <<ffmpeg, sockVars>>

\* Mutant: a worker that does not end in 3 s is left alone.
StopGivesUp ==
  /\ tracked \in Live
  /\ TableCleared
  /\ UNCHANGED <<procVars, sockVars>>

\* Mutant: no limit for the wait.
StopWaitsOn == svpc = "waiting" /\ tracked \in Live /\ UNCHANGED vars

\* It did not end in 3 s: SIGKILL.
StopKills ==
  /\ tracked \in Live
  /\ TableCleared
  /\ Leave(tracked, "gone", ffmpeg[tracked])

\* main returns, or the process is killed: its threads end with it.
SvGone ==
  LET ends == {r \in Requests : pc[r] \notin {"idle", "done"}} IN
  /\ svpc' = "exited"
  /\ tracked' = NoPid
  /\ pc' = [r \in Requests |-> IF r \in ends THEN "killed" ELSE pc[r]]
  /\ forked' = [r \in Requests |-> NoPid]
  /\ tries' = [r \in Requests |-> 0]
  /\ copy' = [r \in Requests |-> NoEpochs]
  /\ replied' = [r \in Requests |-> "none"]
  /\ worker' = [p \in Pids |-> IF worker[p] = "zombie" THEN "gone" ELSE worker[p]]
  /\ UNCHANGED <<restarts, file, kind, resp, ffmpeg, portVars, executed, lost, late, inherits>>

SvExits ==
  /\ svpc = "stopped"
  /\ SvGone
  /\ UNCHANGED deserted

SvCrashes ==
  /\ svpc # "exited"
  /\ SvGone
  /\ deserted' = deserted \cup Live

\* start_supervisor_api: bind fails while a process holds the old socket, and
\* main goes on without API.
SvStarts ==
  /\ svpc = "exited"
  /\ restarts < MaxRestarts
  /\ restarts' = restarts + 1
  /\ svpc' = IF \E p \in inherits : p \in Live \/ ffmpeg[p] # {} THEN "deaf" ELSE "run"
  /\ UNCHANGED <<tracked, file, reqVars, procVars, sockVars, executed, histVars>>

-----------------------------------------------------------------------------
RequestStep(r) ==
  \/ ReadState(r) \/ WriteState(r) \/ FreshEnough(r) \/ Stamp(r)
  \/ LaunchCheck(r) \/ LaunchFails(r) \/ (\E p \in Pids : Fork(r, p)) \/ Record(r)
  \/ Refused(r) \/ Send(r) \/ Acked(r) \/ NoAck(r)
WorkerStep(p) == Boot(p) \/ Execute(p) \/ Acknowledge(p)
StopStep      == StopReaps \/ StopKills \/ SvExits

\* The supervisor is gone for good.
Ended == svpc = "exited" /\ restarts = MaxRestarts /\ UNCHANGED vars

Next ==
  \/ \E r \in Requests : \/ \E k \in Kinds : Arrive(r, k)
                         \/ RequestStep(r)
                         \/ \E f \in {"beat", "mark"} : CopyAges(r, f)
  \/ \E p \in Pids : WorkerStep(p) \/ Heartbeat(p) \/ WorkerCrashes(p) \/ WorkerEnds(p) \/ OrphansEnd(p)
  \/ \E f \in {"beat", "mark"} : FileAges(f)
  \/ StopBegin \/ StopStep \/ SvCrashes \/ SvStarts
  \/ Ended

Spec == Init /\ [][Next]_vars

(* Threads and processes are scheduled, and the loops with a time limit (8 s *)
(* for an ACK, 3 s for a worker to end) end.  Requests, crashes, signals and *)
(* the end of an orphaned FFmpeg may or may not come.                        *)
Fairness ==
  /\ \A r \in Requests : WF_vars(RequestStep(r))
  /\ \A p \in Pids : WF_vars(WorkerStep(p))
  /\ WF_vars(StopStep)

FairSpec == Spec /\ Fairness

-----------------------------------------------------------------------------
(* Properties.                                                              *)

Epochs == [beat : BOOLEAN, mark : BOOLEAN]

Places == {"idle", "read", "write", "send", "wait", "fresh", "launch", "fork", "record", "done", "killed"}

SupervisorOK ==
  /\ svpc \in {"run", "waiting", "stopped", "exited", "deaf"}
  /\ tracked \in Pids \cup {NoPid} /\ restarts \in 0..MaxRestarts
  /\ file \in Epochs

LocalsOK ==
  /\ pc \in [Requests -> Places] /\ tries \in [Requests -> 0..MaxTries]
  /\ copy \in [Requests -> Epochs]
  /\ resp \in [Requests -> {"none", "ok", "failed"}]
  /\ replied \in [Requests -> {"none", "ack", "reset"}]

ForksOK ==
  /\ kind \in [Requests -> Kinds] /\ forked \in [Requests -> Pids \cup {NoPid}]
  /\ \A r \in Requests : pc[r] = "record" => forked[r] \in Pids

ProcessesOK ==
  /\ worker \in [Pids -> {"none", "booting", "listening", "mute", "zombie", "gone"}]
  /\ ffmpeg \in [Pids -> SUBSET {"stream", "relay"}]

PortOK ==
  /\ owner \in Pids \cup {NoPid}
  /\ queue \in Seq([req : Requests, try : 0..MaxTries]) /\ busy \in BOOLEAN
  /\ busy => queue # <<>>

HistoryOK ==
  /\ executed \subseteq Requests
  /\ lost \subseteq Pids /\ late \subseteq Pids /\ deserted \subseteq Pids /\ inherits \subseteq Pids

TypeOK == SupervisorOK /\ LocalsOK /\ ForksOK /\ ProcessesOK /\ PortOK /\ HistoryOK

\* A thread has forked p and not entered it in the table yet.
Unrecorded(p) == \E r \in Requests : pc[r] = "record" /\ forked[r] = p

(* The supervisor loses sight of a worker in few ways.  While it       *)
(* serves, also after a crash and a restart, a live worker is in its table, *)
(* about to be entered, was overwritten there by an overlapping launch, or  *)
(* was forked while an earlier supervisor was stopping.  No others than the *)
(* last two kinds, and the workers a crashed supervisor deserted, outlive   *)
(* stop_supervisor_api.                                                     *)
SurvivorsExplained ==
  /\ svpc = "run" => \A p \in Live : p = tracked \/ p \in lost \cup late \/ Unrecorded(p)
  /\ svpc = "stopped" => Live \subseteq lost \cup late \cup deserted

(* An ok for a Start or Stop is never given for a command the worker did    *)
(* not execute: not by a stale ACK of an earlier attempt, and not by a      *)
(* connection to a socket that only an FFmpeg process holds.                *)
AckMeansExecuted ==
  \A r \in Requests : resp[r] = "ok" /\ kind[r] \in {"start", "stop"} =>
    r \in executed

(* input/connect: the launch epoch is stamped "so that rapid clicks see the *)
(* marker and skip launching a second process": an encoder has one worker   *)
(* process (those forked while the supervisor was stopping aside).          *)
OneWorker == Cardinality(Live \ late) <= 1

(* Every request is answered or ends with the supervisor, also when nobody  *)
(* answers on the control port and when stop_supervisor_api holds the mutex.*)
RequestEnds == \A r \in Requests : pc[r] = "send" ~> pc[r] \in {"done", "killed"}

(* stop_supervisor_api ends, whatever the worker does.                      *)
SupervisorStops == svpc = "waiting" ~> svpc = "exited"

(* Requests and the end of the supervisor do not wait for each other for    *)
(* ever, nor for a worker.                                                  *)
NobodyWaitsForEver == RequestEnds /\ SupervisorStops
=============================================================================
