--------------------------- MODULE StreamLifecycle ---------------------------
(***************************************************************************)
(* The output streams of one worker process (worker.cpp): AAC, MP3, HLS    *)
(* and SRT, each an FFmpeg child process with a handle, a running flag and *)
(* a lifecycle state.  Three kinds of thread work on them:                 *)
(*                                                                         *)
(*   - the commanders (control listener, cue listener) execute Start and   *)
(*     Stop commands under m_streamMutex;                                  *)
(*   - the gain monitor restarts the running streams, also under the       *)
(*     mutex, when the session gain has settled on a new value;            *)
(*   - the main thread polls the processes and marks dead streams failed,  *)
(*     and runs the destructor, WITHOUT the mutex.                         *)
(*                                                                         *)
(* One step is one access to the shared handle, flag or state.  Time is    *)
(* abstracted: the 600 ms debounce of the gain monitor may or may not have *)
(* elapsed at an iteration.  The child processes are modelled by the set   *)
(* of live pids of each stream; a pid is never reused.                     *)
(***************************************************************************)
EXTENDS Naturals, Sequences, FiniteSets

CONSTANTS
  Order,          \* the streams in the order poll and gain monitor visit them
  ExitOrder,      \* the streams whose handle ~Worker kills, in its order
  Commanders,     \* the threads that execute control commands
  Gain,           \* the gain monitor thread
  Main,           \* the main thread
  NoThread,       \* "nobody holds m_streamMutex"
  Gains,          \* values of the session gain, further apart than kTol
  InitGain,       \* the gain in the files when the worker starts
  MaxPids,        \* bound on the FFmpeg processes launched
  MaxCommands,    \* bound on the commands received
  MaxGainChanges  \* bound on the changes of the session gain

Streams      == {Order[i] : i \in DOMAIN Order}
KilledOnExit == {ExitOrder[i] : i \in DOMAIN ExitOrder}
Threads      == Commanders \cup {Gain}
Pids         == 1..MaxPids
NoProc       == 0
LifeStates   == {"Stopped", "Starting", "Running", "Stopping", "Failed"}

ASSUME OrderAssumption ==
  /\ Order \in Seq(Streams) /\ Len(Order) > 0
  /\ ExitOrder \in Seq(Streams) /\ Len(ExitOrder) > 0
ASSUME ThreadAssumption ==
  /\ Gain \notin Commanders
  /\ Main \notin Threads
  /\ NoThread \notin Threads \cup {Main}
ASSUME BoundAssumption ==
  /\ MaxPids \in Nat /\ MaxCommands \in Nat /\ MaxGainChanges \in Nat
  /\ InitGain \in Gains

VARIABLES
  running,     \* m_aacRunning, ... per stream
  state,       \* m_aacState, ... per stream
  proc,        \* m_aacProc, ... per stream: a pid or NoProc
  alive,       \* the live FFmpeg processes of each stream
  ffGain,      \* the gain each pid was launched with
  lock,        \* owner of m_streamMutex
  pc, strm, op, seenGain,  \* of each thread: place, stream, operation, gain read
  pending,     \* threads whose next step is publishStreamHealth
  published,   \* stream health in runtime_state.json
  mpc, idx,    \* place of the main thread and its position in (Exit)Order
  shutdown,    \* g_workerShutdown
  mRunning,    \* m_running
  gain,        \* sessionGainDb / rtpGain in the files
  gpc, gidx, lastApplied, lastSeen,  \* locals of monitorGainChanges
  nextPid, commands, gainChanges,    \* counters behind the bounds
  droppedBy,   \* history: <<t, s>> when t cleared the handle of a live process of s
  late,        \* history: streams launched after m_running was reset
  intent       \* history: the last command completed on each stream

procVars == <<proc, alive, ffGain, nextPid, droppedBy, late>>
jobVars  == <<lock, pc, strm, op, seenGain>>
pubVars  == <<pending, published>>
mainVars == <<mpc, idx, shutdown, mRunning>>
gainVars == <<gain, gpc, gidx, lastApplied, lastSeen, gainChanges>>
cmdVars  == <<commands, intent>>
vars     == <<running, state, procVars, jobVars, pubVars, mainVars, gainVars, cmdVars>>

Snapshot == [s \in Streams |-> [running |-> running[s], state |-> state[s]]]

Init ==
  /\ running = [s \in Streams |-> FALSE]
  /\ state = [s \in Streams |-> "Stopped"]
  /\ proc = [s \in Streams |-> NoProc]
  /\ alive = [s \in Streams |-> {}]
  /\ ffGain = [p \in Pids |-> InitGain]
  /\ lock = NoThread
  /\ pc = [t \in Threads |-> "idle"]
  /\ strm = [t \in Threads |-> Order[1]]
  /\ op = [t \in Threads |-> "stop"]
  /\ seenGain = [t \in Threads |-> InitGain]
  /\ pending = {}
  /\ published = Snapshot
  /\ mpc = "top" /\ idx = 1
  /\ shutdown = FALSE /\ mRunning = TRUE
  /\ gain = InitGain
  /\ gpc = "top" /\ gidx = 1 /\ lastApplied = InitGain /\ lastSeen = InitGain
  /\ nextPid = 1 /\ commands = 0 /\ gainChanges = 0
  /\ droppedBy = {} /\ late = {}
  /\ intent = [s \in Streams |-> "stop"]

-----------------------------------------------------------------------------
(* Helpers: a thread's step from one place to the next, the three shared    *)
(* cells of a stream.                                                       *)

\* Thread t, with no publication outstanding, moves on.
Goto(t, from, to) ==
  /\ pc[t] = from
  /\ t \notin pending
  /\ pc' = [pc EXCEPT ![t] = to]

\* Mutant: the publication is forgotten.
SetStateOnly(t, s, new) ==
  /\ state' = [state EXCEPT ![s] = new]
  /\ UNCHANGED <<pending, published>>

\* setStreamState followed by publishStreamHealth: the state is written now,
\* the publication is the thread's next step.
SetStateAndPublish(t, s, new) ==
  /\ state' = [state EXCEPT ![s] = new]
  /\ pending' = pending \cup {t}
  /\ UNCHANGED published

\* m_xProc = nullptr, noting whether the process behind the handle is alive.
ClearHandle(t, s) ==
  /\ proc' = [proc EXCEPT ![s] = NoProc]
  /\ droppedBy' = IF proc[s] \in alive[s] THEN droppedBy \cup {<<t, s>>} ELSE droppedBy
  /\ UNCHANGED <<alive, ffGain, nextPid, late>>

\* Mutant: no SIGKILL for a process that ignores SIGTERM.
KillIgnored(s) == UNCHANGED <<proc, alive, ffGain, nextPid, droppedBy, late>>

\* SIGTERM, up to 2 s of polling, SIGKILL and reaping: the process is gone.
KillProcess(s) ==
  /\ alive' = [alive EXCEPT ![s] = @ \ {proc[s]}]
  /\ UNCHANGED <<proc, ffGain, nextPid, droppedBy, late>>

-----------------------------------------------------------------------------
(* Commands and the mutex.                                                  *)

\* A client connects to a commander, whose loop tests m_running.
Connect(t) ==
  /\ mRunning
  /\ commands < MaxCommands
  /\ Goto(t, "idle", "recv")
  /\ commands' = commands + 1
  /\ UNCHANGED <<running, state, procVars, lock, strm, op, seenGain, pubVars, mainVars, gainVars, intent>>

\* recv() has no timeout: it returns when the client sends a Start or Stop ...
Command(t, s, o) ==
  /\ Goto(t, "recv", "lock")
  /\ strm' = [strm EXCEPT ![t] = s]
  /\ op' = [op EXCEPT ![t] = o]
  /\ UNCHANGED <<running, state, procVars, lock, seenGain, pubVars, mainVars, gainVars, cmdVars>>

\* ... or another command, or closes the connection.
HangUp(t) ==
  /\ Goto(t, "recv", "idle")
  /\ UNCHANGED <<running, state, procVars, lock, strm, op, seenGain, pubVars, mainVars, gainVars, cmdVars>>

\* lock_guard<recursive_mutex> lk(m_streamMutex).
Acquire(t) ==
  /\ lock = NoThread
  /\ Goto(t, "lock", IF op[t] = "start" THEN "check" ELSE "stopping")
  /\ lock' = t
  /\ UNCHANGED <<running, state, procVars, strm, op, seenGain, pubVars, mainVars, gainVars, cmdVars>>

\* Mutant: an exit path that keeps the mutex.
UnlockForgotten(t) ==
  /\ Goto(t, "unlock", "idle")
  /\ UNCHANGED <<running, state, procVars, lock, strm, op, seenGain, pubVars, mainVars, gainVars, cmdVars>>

\* End of the scope of lk: the operation is complete.
Unlock(t) ==
  /\ Goto(t, "unlock", "idle")
  /\ lock' = NoThread
  /\ intent' = IF t = Gain THEN intent ELSE [intent EXCEPT ![strm[t]] = op[t]]
  /\ UNCHANGED <<running, state, procVars, strm, op, seenGain, pubVars, mainVars, gainVars, commands>>

\* publishStreamHealth: under m_rtMutex, flags and states go to the file.
Publish(t) ==
  /\ t \in pending
  /\ published' = Snapshot
  /\ pending' = pending \ {t}
  /\ UNCHANGED <<running, state, procVars, jobVars, mainVars, gainVars, cmdVars>>

-----------------------------------------------------------------------------
(* stopAAC, stopMP3, stopHLS, stopSRT.                                      *)

Stopping(t) ==
  /\ Goto(t, "stopping", "kill")
  /\ SetStateAndPublish(t, strm[t], "Stopping")
  /\ UNCHANGED <<running, procVars, lock, strm, op, seenGain, mainVars, gainVars, cmdVars>>

Kill(t) ==
  /\ Goto(t, "kill", "clear")
  /\ KillProcess(strm[t])
  /\ UNCHANGED <<running, state, lock, strm, op, seenGain, pubVars, mainVars, gainVars, cmdVars>>

Clear(t) ==
  /\ Goto(t, "clear", "flagOff")
  /\ ClearHandle(t, strm[t])
  /\ UNCHANGED <<running, state, lock, strm, op, seenGain, pubVars, mainVars, gainVars, cmdVars>>

FlagOff(t) ==
  /\ Goto(t, "flagOff", "stopped")
  /\ running' = [running EXCEPT ![strm[t]] = FALSE]
  /\ UNCHANGED <<state, procVars, lock, strm, op, seenGain, pubVars, mainVars, gainVars, cmdVars>>

\* The gain monitor's restart goes on to the start, still holding the mutex.
Stopped(t) ==
  /\ Goto(t, "stopped", IF op[t] = "restart" THEN "check" ELSE "unlock")
  /\ SetStateAndPublish(t, strm[t], "Stopped")
  /\ UNCHANGED <<running, procVars, lock, strm, op, seenGain, mainVars, gainVars, cmdVars>>

-----------------------------------------------------------------------------
(* startAAC, startMP3, startHLS, startSRT.                                  *)

\* Mutant: the mutex is not recursive, startX waits for itself.
CheckNotRecursive(t) ==
  /\ lock = NoThread
  /\ Goto(t, "check", "config")
  /\ SetStateAndPublish(t, strm[t], "Starting")
  /\ UNCHANGED <<running, procVars, lock, strm, op, seenGain, mainVars, gainVars, cmdVars>>

\* The mutex is recursive: t may hold it already.
Check(t) ==
  LET s == strm[t] busy == running[s] \/ proc[s] # NoProc IN
  /\ lock = t
  /\ Goto(t, "check", IF busy THEN "unlock" ELSE "config")
  /\ SetStateAndPublish(t, s, IF busy THEN "Running" ELSE "Starting")
  /\ UNCHANGED <<running, procVars, lock, strm, op, seenGain, mainVars, gainVars, cmdVars>>

\* The configuration has no usable URL, host, port or transport.
ConfigInvalid(t) ==
  /\ Goto(t, "config", "unlock")
  /\ SetStateAndPublish(t, strm[t], "Failed")
  /\ UNCHANGED <<running, procVars, lock, strm, op, seenGain, mainVars, gainVars, cmdVars>>

\* The configuration is usable; getInputGainDb reads the gain for the filter.
ReadGain(t) ==
  /\ Goto(t, "config", "launch")
  /\ seenGain' = [seenGain EXCEPT ![t] = gain]
  /\ UNCHANGED <<running, state, procVars, lock, strm, op, pubVars, mainVars, gainVars, cmdVars>>

\* launchFfmpeg: fork and exec, the handle takes the new pid.
Launch(t) ==
  LET s == strm[t] IN
  /\ nextPid \in Pids
  /\ Goto(t, "launch", "flagOn")
  /\ proc' = [proc EXCEPT ![s] = nextPid]
  /\ alive' = [alive EXCEPT ![s] = @ \cup {nextPid}]
  /\ ffGain' = [ffGain EXCEPT ![nextPid] = seenGain[t]]
  /\ nextPid' = nextPid + 1
  /\ late' = IF mRunning THEN late ELSE late \cup {s}
  /\ UNCHANGED <<running, state, droppedBy, lock, strm, op, seenGain, pubVars, mainVars, gainVars, cmdVars>>

LaunchFails(t) ==
  /\ Goto(t, "launch", "unlock")
  /\ SetStateAndPublish(t, strm[t], "Failed")
  /\ UNCHANGED <<running, procVars, lock, strm, op, seenGain, mainVars, gainVars, cmdVars>>

FlagOn(t) ==
  /\ Goto(t, "flagOn", "started")
  /\ running' = [running EXCEPT ![strm[t]] = TRUE]
  /\ UNCHANGED <<state, procVars, lock, strm, op, seenGain, pubVars, mainVars, gainVars, cmdVars>>

Started(t) ==
  /\ Goto(t, "started", "unlock")
  /\ SetStateAndPublish(t, strm[t], "Running")
  /\ UNCHANGED <<running, procVars, lock, strm, op, seenGain, mainVars, gainVars, cmdVars>>

-----------------------------------------------------------------------------
(* monitorGainChanges.                                                      *)

GainIdle(at, next) ==
  /\ pc[Gain] = "idle"
  /\ gpc = at
  /\ gpc' = next

\* One iteration begins: is any stream running?
GainTop ==
  /\ mRunning /\ ~shutdown
  /\ GainIdle("top", IF \E s \in Streams : running[s] THEN "compare" ELSE "sync")
  /\ UNCHANGED <<running, state, procVars, jobVars, pubVars, mainVars, cmdVars>>
  /\ UNCHANGED <<gain, gidx, lastApplied, lastSeen, gainChanges>>

\* No stream active: follow the gain.
GainSync ==
  /\ GainIdle("sync", "top")
  /\ lastApplied' = gain
  /\ lastSeen' = gain
  /\ UNCHANGED <<running, state, procVars, jobVars, pubVars, mainVars, cmdVars>>
  /\ UNCHANGED <<gain, gidx, gainChanges>>

\* Mutant: the value seen while settling counts as applied.
GainSettlingApplied ==
  /\ GainIdle("compare", "top")
  /\ lastSeen' = gain /\ lastApplied' = gain
  /\ UNCHANGED <<running, state, procVars, jobVars, pubVars, mainVars, cmdVars>>
  /\ UNCHANGED <<gain, gidx, gainChanges>>

\* The value moved, is still settling, or is the one applied: go round again.
GainSettling ==
  /\ GainIdle("compare", "top")
  /\ lastSeen' = gain
  /\ UNCHANGED <<running, state, procVars, jobVars, pubVars, mainVars, cmdVars>>
  /\ UNCHANGED <<gain, gidx, lastApplied, gainChanges>>

\* The value was stable for the debounce time and differs from the applied one.
GainApply ==
  /\ gain = lastSeen /\ gain # lastApplied
  /\ GainIdle("compare", "pass")
  /\ lastApplied' = gain
  /\ gidx' = 1
  /\ UNCHANGED <<running, state, procVars, jobVars, pubVars, mainVars, cmdVars>>
  /\ UNCHANGED <<gain, lastSeen, gainChanges>>

\* if (m_xRunning) { lock; stopX(); startX(); }: the test precedes the lock.
GainPass ==
  LET s == Order[gidx] IN
  /\ GainIdle("pass", IF gidx = Len(Order) THEN "top" ELSE "pass")
  /\ gidx' = IF gidx = Len(Order) THEN 1 ELSE gidx + 1
  /\ IF running[s]
     THEN /\ pc' = [pc EXCEPT ![Gain] = "lock"]
          /\ strm' = [strm EXCEPT ![Gain] = s]
          /\ op' = [op EXCEPT ![Gain] = "restart"]
     ELSE UNCHANGED <<pc, strm, op>>
  /\ UNCHANGED <<running, state, procVars, lock, seenGain, pubVars, mainVars, cmdVars>>
  /\ UNCHANGED <<gain, lastApplied, lastSeen, gainChanges>>

-----------------------------------------------------------------------------
(* The main thread: run, pollSinkProcesses, ~Worker.                        *)

MainGoto(from, to) == mpc = from /\ mpc' = to

\* Mutant: the walk runs one stream too far.
PollAdvanceTooFar ==
  IF idx <= Len(Order)
  THEN mpc' = "running" /\ idx' = idx + 1
  ELSE mpc' = "publish" /\ idx' = 1

\* The next stream to poll, or the publication of what changed.
PollAdvance ==
  IF idx < Len(Order)
  THEN mpc' = "running" /\ idx' = idx + 1
  ELSE mpc' = "publish" /\ idx' = 1

PollBegin ==
  /\ ~shutdown
  /\ MainGoto("top", "running")
  /\ idx' = 1
  /\ UNCHANGED <<running, state, procVars, jobVars, pubVars, shutdown, mRunning, gainVars, cmdVars>>

\* m_xRunning.load()
PollRunning ==
  /\ mpc = "running"
  /\ IF running[Order[idx]] THEN mpc' = "alive" /\ UNCHANGED idx ELSE PollAdvance
  /\ UNCHANGED <<running, state, procVars, jobVars, pubVars, shutdown, mRunning, gainVars, cmdVars>>

\* Mutant: a handle that is not null counts as a live process.
PollHandleOnly ==
  /\ mpc = "alive"
  /\ IF proc[Order[idx]] # NoProc THEN PollAdvance ELSE mpc' = "clear" /\ UNCHANGED idx
  /\ UNCHANGED <<running, state, procVars, jobVars, pubVars, shutdown, mRunning, gainVars, cmdVars>>

\* ffmpegProcAlive(m_xProc): waitpid with WNOHANG, false for a null handle.
PollAlive ==
  LET s == Order[idx] IN
  /\ mpc = "alive"
  /\ IF proc[s] \in alive[s] THEN PollAdvance ELSE mpc' = "clear" /\ UNCHANGED idx
  /\ UNCHANGED <<running, state, procVars, jobVars, pubVars, shutdown, mRunning, gainVars, cmdVars>>

PollClear ==
  /\ MainGoto("clear", "flag")
  /\ ClearHandle(Main, Order[idx])
  /\ UNCHANGED <<running, state, jobVars, pubVars, idx, shutdown, mRunning, gainVars, cmdVars>>

PollFlag ==
  /\ MainGoto("flag", "state")
  /\ running' = [running EXCEPT ![Order[idx]] = FALSE]
  /\ UNCHANGED <<state, procVars, jobVars, pubVars, idx, shutdown, mRunning, gainVars, cmdVars>>

PollState ==
  /\ mpc = "state"
  /\ SetStateAndPublish(Main, Order[idx], "Failed")
  /\ PollAdvance
  /\ UNCHANGED <<running, procVars, jobVars, shutdown, mRunning, gainVars, cmdVars>>

\* if (changed) publishStreamHealth().
PollPublish ==
  /\ MainGoto("publish", "top")
  /\ pending' = pending \ {Main}
  /\ published' = IF Main \in pending THEN Snapshot ELSE published
  /\ UNCHANGED <<running, state, procVars, jobVars, idx, shutdown, mRunning, gainVars, cmdVars>>

\* After 60 polls: the heartbeat publication.
Heartbeat ==
  /\ ~shutdown
  /\ mpc = "top"
  /\ published' = Snapshot
  /\ UNCHANGED <<running, state, procVars, jobVars, pending, mainVars, gainVars, cmdVars>>

\* Mutant: the destructor joins without killing.
ExitWithoutKill ==
  /\ shutdown
  /\ MainGoto("top", "join")
  /\ mRunning' = FALSE
  /\ UNCHANGED <<running, state, procVars, jobVars, pubVars, idx, shutdown, gainVars, cmdVars>>

\* run() returns: m_running = false, then the destructor.
ExitBegin ==
  /\ shutdown
  /\ MainGoto("top", "exitKill")
  /\ idx' = 1
  /\ mRunning' = FALSE
  /\ UNCHANGED <<running, state, procVars, jobVars, pubVars, shutdown, gainVars, cmdVars>>

\* killFfmpegProc on the handles the destructor names, first the signal ...
ExitKill ==
  /\ MainGoto("exitKill", "exitClear")
  /\ KillProcess(ExitOrder[idx])
  /\ UNCHANGED <<running, state, jobVars, pubVars, idx, shutdown, mRunning, gainVars, cmdVars>>

\* ... then the handle.
ExitClear ==
  /\ mpc = "exitClear"
  /\ ClearHandle(Main, ExitOrder[idx])
  /\ IF idx < Len(ExitOrder)
     THEN mpc' = "exitKill" /\ idx' = idx + 1
     ELSE mpc' = "join" /\ UNCHANGED idx
  /\ UNCHANGED <<running, state, jobVars, pubVars, shutdown, mRunning, gainVars, cmdVars>>

\* Every thread has left its loop and is joined; the worker process ends.
Join ==
  /\ MainGoto("join", "exited")
  /\ \A t \in Threads : pc[t] = "idle"
  /\ gpc = "top"
  /\ UNCHANGED <<running, state, procVars, jobVars, pubVars, idx, shutdown, mRunning, gainVars, cmdVars>>

-----------------------------------------------------------------------------
(* The environment.                                                         *)

\* An FFmpeg process exits by itself (source or Icecast gone, crash).
FfmpegExits(s, p) ==
  /\ p \in alive[s]
  /\ alive' = [alive EXCEPT ![s] = @ \ {p}]
  /\ UNCHANGED <<running, state, proc, ffGain, nextPid, droppedBy, late>>
  /\ UNCHANGED <<jobVars, pubVars, mainVars, gainVars, cmdVars>>

\* The supervisor stores a new session gain.
SetGain(g) ==
  /\ g # gain
  /\ gainChanges < MaxGainChanges
  /\ gain' = g
  /\ gainChanges' = gainChanges + 1
  /\ UNCHANGED <<running, state, procVars, jobVars, pubVars, mainVars, cmdVars>>
  /\ UNCHANGED <<gpc, gidx, lastApplied, lastSeen>>

\* SIGTERM or SIGINT.
Signal ==
  /\ ~shutdown
  /\ shutdown' = TRUE
  /\ UNCHANGED <<running, state, procVars, jobVars, pubVars, mpc, idx, mRunning, gainVars, cmdVars>>

-----------------------------------------------------------------------------
Receive(t)   == HangUp(t) \/ \E s \in Streams, o \in {"start", "stop"} : Command(t, s, o)
StopStep(t)  == Stopping(t) \/ Kill(t) \/ Clear(t) \/ FlagOff(t) \/ Stopped(t)
StartStep(t) == Check(t) \/ ConfigInvalid(t) \/ ReadGain(t) \/ Launch(t)
                  \/ LaunchFails(t) \/ FlagOn(t) \/ Started(t)
JobStep(t)   == Acquire(t) \/ StopStep(t) \/ StartStep(t) \/ Publish(t) \/ Unlock(t)
PollStep     == PollBegin \/ PollRunning \/ PollAlive \/ PollClear \/ PollFlag
                  \/ PollState \/ PollPublish
ExitStep     == ExitBegin \/ ExitKill \/ ExitClear \/ Join
GainStep     == GainTop \/ GainSync \/ GainSettling \/ GainApply \/ GainPass
Environment  == \/ \E s \in Streams : \E p \in alive[s] : FfmpegExits(s, p)
                \/ \E g \in Gains : SetGain(g)
                \/ Signal

\* The worker process is gone.
Exited == mpc = "exited" /\ UNCHANGED vars

Next ==
  \/ \E t \in Commanders : Connect(t) \/ Receive(t)
  \/ \E t \in Threads : JobStep(t)
  \/ PollStep
  \/ Heartbeat
  \/ ExitStep
  \/ GainStep
  \/ Environment
  \/ Exited

Spec == Init /\ [][Next]_vars

(* Threads are scheduled, the mutex is handed over, a client that connected *)
(* sends its command or closes (the supervisor does, within 8 s), and a     *)
(* gain that stays stable does so for longer than the debounce time.        *)
(* Connections, gain changes, exits and signals may or may not come.        *)
Fairness ==
  /\ \A t \in Commanders : WF_vars(Receive(t))
  /\ \A t \in Threads : WF_vars(JobStep(t))
  /\ WF_vars(PollStep)
  /\ WF_vars(ExitStep)
  /\ WF_vars(GainStep)
  /\ SF_vars(GainApply)

FairSpec == Spec /\ Fairness

-----------------------------------------------------------------------------
(* Properties.                                                              *)

TypeOK ==
  /\ running \in [Streams -> BOOLEAN]
  /\ state \in [Streams -> LifeStates]
  /\ proc \in [Streams -> Pids \cup {NoProc}]
  /\ alive \in [Streams -> SUBSET Pids]
  /\ ffGain \in [Pids -> Gains]
  /\ lock \in Threads \cup {NoThread}
  /\ pc \in [Threads -> {"idle", "recv", "lock", "stopping", "kill", "clear", "flagOff",
                         "stopped", "check", "config", "launch", "flagOn", "started", "unlock"}]
  /\ strm \in [Threads -> Streams]
  /\ op \in [Threads -> {"start", "stop", "restart"}]
  /\ seenGain \in [Threads -> Gains]
  /\ pending \subseteq Threads \cup {Main}
  /\ published \in [Streams -> [running : BOOLEAN, state : LifeStates]]
  /\ mpc \in {"top", "running", "alive", "clear", "flag", "state", "publish",
              "exitKill", "exitClear", "join", "exited"}
  /\ idx \in Nat
  /\ mpc \in {"running", "alive", "clear", "flag", "state"} => idx \in DOMAIN Order
  /\ mpc \in {"exitKill", "exitClear"} => idx \in DOMAIN ExitOrder
  /\ shutdown \in BOOLEAN /\ mRunning \in BOOLEAN
  /\ gain \in Gains /\ lastApplied \in Gains /\ lastSeen \in Gains
  /\ gpc \in {"top", "sync", "compare", "pass"}
  /\ gidx \in DOMAIN Order
  /\ nextPid \in 1..(MaxPids + 1)
  /\ commands \in 0..MaxCommands /\ gainChanges \in 0..MaxGainChanges
  /\ droppedBy \subseteq (Threads \cup {Main}) \X Streams
  /\ late \subseteq Streams
  /\ intent \in [Streams -> {"start", "stop", "restart"}]

(* Orphans have one cause.  A live FFmpeg process of a stream that the      *)
(* stream's handle does not name (so no Stop can ever kill it, and a second *)
(* one can be launched beside it) exists only where the main thread, which  *)
(* takes no mutex, cleared the handle of a live process: the start/stop     *)
(* code of the commanders and of the gain monitor never loses a process,    *)
(* whatever the interleaving.                                               *)
OrphanOnlyFromUnlockedClear ==
  /\ \A s \in Streams : ~(alive[s] \subseteq {proc[s]}) => <<Main, s>> \in droppedBy
  /\ \A t \in Threads, s \in Streams : <<t, s>> \notin droppedBy

\* Thread t has written a flag or a state and will publish.
WillPublish(t) ==
  \/ t \in pending
  \/ t \in Threads /\ pc[t] \in {"started", "stopped"}
  \/ t = Main /\ mpc = "state"

(* What the worker last wrote to runtime_state.json is what it knows, in    *)
(* every state where no thread is between a change and its publication: no  *)
(* interleaving of its publishers leaves an old flag or state in the file.  *)
(* (The supervisor process writes the file too: see RuntimeStateFile.)      *)
PublishedWhenQuiet ==
  (\A t \in Threads \cup {Main} : ~WillPublish(t)) => published = Snapshot

(* What the destructor leaves behind.  When the worker is gone, a live      *)
(* FFmpeg process of a stream whose handle ~Worker kills was orphaned       *)
(* earlier by an unlocked clear or launched by a command that was still in  *)
(* progress when the destructor began: no other process survives.           *)
ExitLeaksExplained ==
  mpc = "exited" =>
    \A s \in KilledOnExit : alive[s] # {} => <<Main, s>> \in droppedBy \/ s \in late

(* pollSinkProcesses notices: a stream that is running without a live       *)
(* process does not stay so while the worker runs.                          *)
FailureDetected ==
  \A s \in Streams :
    (running[s] /\ proc[s] \notin alive[s])
       ~> (~running[s] \/ proc[s] \in alive[s] \/ shutdown)

(* monitorGainChanges does what it is for: a gain that is not the one it    *)
(* applied last, and stays, reaches every stream that is running when it is *)
(* set, unless the stream comes to rest without running.  Two kinds of      *)
(* change are lost for good, as in the code: one that falls between the     *)
(* monitor's look at the flags and its adoption of the gain (gpc = "sync"), *)
(* and one back to the gain applied last, for a stream that started with    *)
(* the value between (lastApplied = g).                                     *)
GainReached ==
  \A s \in Streams, g \in Gains :
    (running[s] /\ gain = g /\ lastApplied # g /\ gpc # "sync")
      ~> \/ running[s] /\ proc[s] # NoProc /\ ffGain[proc[s]] = g
         \/ ~running[s] /\ \A t \in Threads : strm[t] = s => pc[t] \in {"idle", "recv"}
         \/ gain # g \/ shutdown

(* Every command a commander received ends (its ACK can be sent), whoever   *)
(* else wants the stream mutex.                                             *)
CommandCompletes ==
  \A t \in Commanders : pc[t] = "lock" ~> pc[t] = "idle"

(* A SIGTERM ends the worker: the destructor's joins do not wait forever,   *)
(* provided the client of an accepted connection sends or closes.           *)
ShutdownCompletes == shutdown ~> mpc = "exited"

(* monitorGainChanges: "Restart each active stream under the stream mutex   *)
(* so control commands issued concurrently are serialised safely": a stream *)
(* whose last completed command is Stop is not running when nobody holds    *)
(* the mutex.                                                               *)
StopIsFinal ==
  lock = NoThread => \A s \in Streams : intent[s] = "stop" => ~running[s]

(* No FFmpeg process escapes its handle for another reason than these two,  *)
(* neither while the worker runs nor when it ends.                          *)
ProcessesAccountedFor == OrphanOnlyFromUnlockedClear /\ ExitLeaksExplained

(* Poll and gain monitor do in the end what they are there for.             *)
MonitorsWork == FailureDetected /\ GainReached

(* Everyone who asks for the stream mutex gets on: commands end, and so     *)
(* does the worker.                                                         *)
CommandsEnd == CommandCompletes /\ ShutdownCompletes
=============================================================================
