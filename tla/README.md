# MultiCoder: a TLA+ model of the supervisor and the worker

MultiCoder is a radio encoder.  A **supervisor** process (`src/src/supervisor/`) serves the
web API and launches one **worker** process per encoder (`src/src/worker/`).  A worker runs
one FFmpeg child per output stream (AAC, MP3, HLS, SRT), follows the input, the metadata and
the SCTE cues, and reports through JSON files that both processes read and write.  The modules
here model the Linux build.  Paths below are relative to the repository
(`worker.cpp` = `src/worker/worker.cpp`, `supervisor_api.cpp` = `src/supervisor/supervisor_api.cpp`).

## 1. Inventory

| Component | State it keeps | Operations | Interacts with | What is hard |
|---|---|---|---|---|
| Stream lifecycle (`worker.cpp` 2205-2702, 3065-3839) | per stream: handle, running flag, lifecycle state; `m_streamMutex`; `lastApplied` of the gain monitor | start, stop, poll, gain restart, destructor | FFmpeg children, `runtime_state.json`, control port | the main thread polls and destroys without the mutex; test-then-lock in the gain monitor; three cells per stream that change one by one |
| Asynchronous dispatch (`worker.cpp` 2275-2396, 344-471, 4638-4702) | deque, depth and drop counters, stop flag, recent sidecar keys | enqueue, pop, send, retry, stop | metadata, control and cue threads, `metadata_runtime.json`, the network | capacity per kind in one deque; notification after unlock; shutdown with work left |
| SCTE cue gate (`supervisor_api.cpp` 3317-3524, `worker.cpp` 4860-4996) | recent cue times and last time per cue, once per process | check, execute, record | control port, HTTP clients, cue thread | the supervisor checks and records in two critical sections with up to 8 s between |
| TCP cue listener (`worker.cpp` 4779-5110) | socket, port and framing in force, buffer of the client, flag in the file | open, close and change the port, accept, cut into messages | cue clients, `metadata.json`, cue gate | settings are looked at between clients only; messages cut at any byte |
| `runtime_state.json` (`supervisor_api.cpp` 891-939, `worker.cpp` 540-631, 2506-2543) | the file, two temporary names, `m_rtMutex` | read, change, write, rename | every thread of both processes | no lock spans the processes, none the supervisor's threads |
| Worker launch and control channel (`supervisor_api.cpp` 95-115, 1079-1412, 2807-2940, 3563-3743; `worker.cpp` 2714-2778, 4704-4777) | `g_workerPids`, epochs in the file, control port and its backlog | launch, auto-start, command with ACK, stop, crash, restart | worker processes, their FFmpeg children | decisions from a state read earlier; fork between two critical sections; inherited sockets; time limits |
| SCTE ranges, HLS playlist tags (`worker.cpp` 4075-4217, 4801-4807, `supervisor_api.cpp` 3424-3525) | the break in `metadata_runtime.json`, a copy in memory | update, restore, note what was received or sent | control and cue thread, other writers of the file, the HLS server as reader | file and memory under two locks, one writer with none, a handler that writes back an old copy |
| Metadata listener (`worker.cpp` 5559-5880, `supervisor_api.cpp` 3107-3155, 3548-3561) | listening or dialled socket, data read and not yet emitted | listen or dial, accept, read, emit after a second of silence, leave | metadata sources, `metadata.json`, dispatch queue | settings are rewritten in place while they are read; end of data, end of connection and change of settings in any order |
| HLS segments (`worker.cpp` 962-1043, 3490-3727, 3846-3926, 4223-4561) | segment files, playlist, anchor of the dates | write, retain, clean up, retitle, serve, stop | FFmpeg, metadata thread, stream lifecycle | FFmpeg, monitor and metadata thread work on the same files without a lock; names start at 0 again in every run; the anchor outlives a run |
| HLS HTTP server thread (`worker.cpp` 4223-4263, 4556-4561, 3658-3672, 3699-3704, 2217-2224) | listening socket, its published number, running flag | spawn, bind, accept, stop, join | other threads (descriptor numbers), every FFmpeg (inherits), destructor | the number is closed by the stopper and by the thread; children keep the port; join without time limit |
| Input session, level monitor, SRT input relay (`supervisor_api.cpp` 2807-2970, `worker.cpp` 2584-2597, 2714-2793, 5112-5553) | session in `runtime_state.json` and `input_session.json`, relay process, its flag and handle, held level | connect, disconnect, relay start, stop, poll, measure | `runtime_state.json`, control port, streams (their input) | two files written one after the other; three threads note the relay; the flag outlives the relay |
| Livewire mapping, JSON parser, administration endpoints, logs, web UI | - / files | pure functions, one file each | - | little beyond text processing |

The components meet in four places: the control port (supervisor -> worker), the two JSON
files, `m_streamMutex`, and the process table.

What makes each component correct, in one line: no FFmpeg process is lost from its handle and
what the file shows is what the worker knows (streams); what was accepted goes out once and in
order (dispatch); a cue is executed as often as rate limit and dedupe window allow (gate);
readers find a complete file with everybody's last change (file); an encoder has one worker,
which its supervisor knows and can stop, and an OK means the command was executed (launch); a
playlist that was served stays playable for a while and its dates stay put (HLS); an END closes
the break that the last START opened (ranges); what is read from a source or a cue client is
passed on once, in order and cut where the sender cut it (listeners); streams hear the source of
the session (input); the server of a running HLS output has its socket and takes nobody else's
(HLS server).

`PROJECT.json` lists under `hazards` the places in the code where these could go wrong and a
test would hardly reach, with the property that watches each.

## 2. Modules

| Module | Models | Step |
|---|---|---|
| `StreamLifecycle` | streams, commanders, gain monitor, main thread, destructor, signals | one access to a shared cell |
| `DispatchQueue` | producers, dispatcher, destructor, condition variable, dedupe of sidecar keys | one critical section, notification or network attempt |
| `EventLog` | abstract specification of the dispatch: accepted events are worked off once, in order | - |
| `CueGate` | both cue gates, clock, overlapping connections | one critical section |
| `RuntimeStateFile` | the writers of `runtime_state.json` in both processes, open streams across renames | one system call |
| `WorkerLaunch` | requests, launch, control port, worker and FFmpeg processes, crash and restart of both sides | one critical section, system call or process event |
| `HlsPlayback` | FFmpeg's segments and list, segment monitor, metadata thread, HTTP thread, start and stop | one scan, removal, list replacement, read or rename |
| `BreakRange` | the break in file and memory, its two executors, the other writers of the file | one critical section or system call |
| `InputSession` | connect and disconnect over both files, relay, poll, level monitor, end and start of the worker | one read or replacement of a file, process event or critical section |
| `MetadataListener` | the metadata thread, its sources, the requests that change its settings | one system call or look at the settings |
| `CueListener` | the cue thread over `CueGate` and the file of `MetadataListener` | one system call, look at the settings or message |
| `HlsServer` | the server thread of HLS, its three stoppers, descriptors, inheritance, port | one system call or access to a shared cell |
| `MC...` | TLC instances of these | |
| `...Proofs` | theorems and proofs (`ListenerProofs`: those of `CueGate`, `MetadataListener`, `CueListener` and `HlsServer`) | |

How state and actions correspond to the code:

* **StreamLifecycle.** `running`, `state`, `proc` are `m_xRunning`, `m_xState`, `m_xProc`.
  `alive` is the set of FFmpeg processes that really live; a process not named by its handle is
  an orphan.  A thread is at a place `pc`; `Stopping ... Stopped` are the lines of `stopX`,
  `Check ... Started` those of `startX`, and the gain monitor's restart is the one followed by
  the other under one acquisition of the recursive mutex.  `pending` makes
  `publishStreamHealth` the thread's next step after `setStreamState`.  `PollRunning ...
  PollPublish` are `pollSinkProcesses`, `ExitBegin ... Join` is `~Worker`.  The streams the
  destructor kills are a parameter (`ExitOrder`): the code leaves `m_srtProc` out.  Time is
  abstracted to "the debounce time has or has not elapsed".  `droppedBy`, `late` and `intent`
  are history.
* **DispatchQueue.** `Enqueue` is the critical section of `enqueueAsyncTask` (capacity clamped
  to at least 1), followed by `ProducerRead`, `ProducerWrite` (the metrics file) and `Notify`.
  A dedupe window of a key ends with `Expire`.  `accepted` and `handled` are history and the
  refinement mapping to `EventLog`.
* **CueGate.** Times are the clock readings the code takes.  `Check`, `Deliver`/`SendFails`
  and `Record` are the three phases of `POST cue`; `TcpAccepted`/`TcpRefused` are the worker's
  single critical section.  A cue that fails token, allowlist or format checks never reaches
  the gate and is left out.
* **RuntimeStateFile.** A file has a name ("path", ".wk.tmp", ".sv.tmp") and a stream stays on
  its file when `rename` moves it; `AfterRename` says where an open stream leads afterwards.
  The rest of the JSON object is abstracted to one field per writer with a version number.
  `Periodic` are the worker's threads that publish again what has not changed: `run` through
  `publishStreamHealth`, and `monitorInputLevels` in every round (`worker.cpp:5541`).  The others
  publish on a change only: the relay's fields (`worker.cpp:2590`, `2770`, `2787`).
* **WorkerLaunch.** Every request has its connection thread; commands without auto-start (Stop,
  gain, cue, disconnect) are one kind.  Epochs are "fresh" or not.  Sockets are inherited
  because nothing sets close-on-exec: `owner` is the worker that bound the control port, and
  the socket stays open while an FFmpeg child of it lives.  The retries after an auto-start
  (40 in the code) are `MaxTries`.
* **HlsPlayback.** `disk` maps a segment number to the run whose file has that name now, `index`
  is the playlist, `putBack` tells whether it is there although a cleanup had removed it.  `StartLaunch` is `startHLS` up to
  the launch, `StartThreads` the rest; a monitor or server left from a run that died is joined
  only there.  `MonitorScan`/`MonitorRemove` are one pass of `monitorHlsSegments`,
  `InjectRead`/`InjectWrite` are `injectHlsMetadataIntoPlaylist`, `Serve` is one answer of
  `serveHlsHttp` for the playlist, `anchor` its static variables, `TagAt` is `injectHlsScteDateRange`
  (the supervisor's proxy has a copy of it).  FFmpeg is external: from its
  arguments (`-segment_list_size`) it finishes a segment, replaces the list and opens the next.
* **BreakRange.** `Begin`, `Read`, `Rename`, `Remember` are `persistHlsScteRangeState` around
  `mutateMetadataRuntimeState`; `NoteRead`, `NoteOpen`, `NoteWrite` are `writeScteRuntime`, which
  rewrites the file in place; `OtherRead`/`OtherWrite` stand for every other use of the mutex;
  `Handler...` are the phases of `POST cue`.  `stream` says whether the cue thread's open file is
  still the one under the name.  `latest` (what the last update wrote), `causes`, `closed`,
  `both` and `emptied` are history.
* **InputSession.** A source stands for all fields of a session.  `Arrive ... End` are
  `POST input/connect` and `input/disconnect` up to the answer, `StartFinds ... StopKills` and
  `ControlRead`/`ControlWrite` are `startSRTInput`, `stopSRTInput` on the control thread,
  `PollTest ... PollWrite` the relay's part of `pollSinkProcesses`, `MonitorSample ...
  MonitorWrite` one round of `monitorInputLevels`.  `run`, `proc` are `m_srtInputRelayRunning`,
  `m_srtInputRelayProc`, `live` whether that process lives; `orphans` are relays no handle names.
  Every writer writes back the whole object it read.  `torn`, `moved`, `missed`, `kept` and
  `astray` are history: which disturbance has occurred.
* **MetadataListener.** `metaPc` is the place of the thread in `listenMetaPort`; `CheckPasses`,
  `Receive`, `Silence`, `PeerClosed`, `EmitRest` are `processSocketUntilClose`.  A packet is what one
  `recv` returns, numbered per source; the thread's two settings files are read in one step, the
  in-place rewriting of `metadata.json` is two (`ApiTruncates`, `ApiWrites`).  Requests are handled
  one at a time.
* **CueListener.** Bytes are digits to `Base`, header length, frame limit and size of a read are
  constants (4 bytes, 1 MiB and 4 KiB in the code).  `Parse` is `parseFramedMessages`; `Gate` hands a message to
  the action of `CueGate`.
* **HlsServer.** `fdTable` is the worker's descriptor table (those open all the time left out); a
  new descriptor gets the lowest free number, `Forks` gives a child the sockets open at that moment,
  because nothing sets close-on-exec.  `socket ... clear` are the lines of `serveHlsHttp`, `flag`,
  `read`, `close`, `join` the four statements that `startHLS`, `stopHLS` and `~Worker` share.  `Others`
  are the worker's other threads, with one descriptor each.  What is answered is in `HlsPlayback`.
  `refused`, `died`, `lateStart`, `disturbed`, `foreign`, `shutdowns`, `answers` are history.

## 3. Runs

| Run | Instance | Checks |
|---|---|---|
| `StreamSafety` | 2 streams (one the destructor kills, one not), 2 commanders, 2 processes, 2 commands, 1 gain change; 3.8 M states | types; orphans come only from the main thread's unlocked clears; the published health is current when nobody is about to publish; what outlives the destructor |
| `StreamLiveness` | 1 stream, 1 commander, 2 commands, 1 gain change, with fairness; 149 k states | a dead stream is noticed, a gain that stays reaches the running streams, a command ends, SIGTERM ends the worker |
| `StreamStop` (violation) | 1 stream, 2 commands, 1 gain change | a Stop can be undone by a gain restart that tested the flag before it took the mutex |
| `Dispatch` | 1 metadata producer, control and cue thread with one key, 2 tasks each, capacities 0 (clamped) and 2, 1 dedupe window, with fairness; 318 k states | order, counters, drops, implementation of `EventLog`; one task per window; no lost wake-up; the stop completes |
| `Listeners` | four parts, explored one after the other since they share no more than a file and the gate.  Gate: 2 connections, TCP cues, 2 cue values, limit 1, 4 requests, 5 instants.  Cue thread: 2 ports, both framings, streams of up to 5 bytes in any chunks, 2 clients, settings that change, budget of 5.  Metadata thread: 2 ports and a host, 2 sources of 2 packets, 2 changes of settings.  HLS server: 3 descriptors, 1 other thread, 1 other output, 2 starts.  2.96 M states in all | worker gate exact, supervisor gate within a bound; framing, late clients, the flag of the port; what is read is emitted, what a change of settings drops; one socket, its descriptor, the port and who holds it, the end |
| `FileUpdates` | 2 worker threads, one that publishes again and again (health) and one that does not (relay), 2 connection threads, one change each and unbounded heartbeats, with fairness | when the file can be empty, which changes get lost, that health fields come back |
| `LaunchSafety` | 2 overlapping requests of any kind, 2 workers, 2 attempts, 1 restart, crashes; 2.5 M states | which workers the supervisor loses sight of; an OK means executed |
| `LaunchLiveness` | 2 requests, 1 worker, with fairness | requests and `stop_supervisor_api` end |
| `LaunchTwice` (violation) | 2 overlapping connects | two workers for one encoder |
| `HlsPlayback` | windows of 1 and 2 segments, with and without failover, 2 runs of 5 segments; 6.3 M states | a served playlist stays playable; which files the monitor takes from a later run; dates of segments and the mark of a break; what is left after Stop |
| `BreakRange` | 2 executors, 1 handler, 2 events, 3 actions, 2 other updates, 1 restart, 2 instants; 10.7 M states | who can lose the break in the file; an END closes the last START; memory; order of the two ends |
| `InputSession` | 1 RTP and 2 SRT sources, 2 overlapping requests, 1 end of the worker, a relay that may die | both files agree; the relay flag is true; the relay follows the session; streams and meter use its source |

Where a run asks several things of one component, its property is a conjunction of named parts,
defined at the end of the component's module; each part is stated and commented on its own:

| Property | Parts |
|---|---|
| `ProcessesAccountedFor` | `OrphanOnlyFromUnlockedClear`, `ExitLeaksExplained` |
| `MonitorsWork` | `FailureDetected`, `GainReached` |
| `CommandsEnd` | `CommandCompletes`, `ShutdownCompletes` |
| `QueueExact` | `NothingLostOrReordered`, `DepthCountsQueue` |
| `DispatchDrains` | `AcceptedBeforeStopIsHandled`, `StopCompletes` |
| `TcpGateExact` | `TcpRate`, `TcpOnce` |
| `HttpGateBounded` | `HttpOverrun`, `HttpRepeats` |
| `NobodyWaitsForEver` | `RequestEnds`, `SupervisorStops` |
| `BreakKept` | `RangeLossExplained`, `MemoryCurrent` |
| `EndMatchesStart` | `EndClosesLastStart`, `EndNotBeforeStart` |
| `DatesRight` | `DatesKept`, `DatesAhead`, `BreakMarked` |
| `FilesTrue` | `FilesAgree`, `FlagTrue` |
| `SessionFollowed` | `RelayFollowsSession`, `StreamHearsSession`, `MeterOfSession` |
| `NothingSwallowed` | `ReadIsEmitted`, `LossIsDropping` |
| `SettingsInForce` | `KeptOnDefaultPort`, `OneLateRead` |
| `CueSettingsInForce` | `OneClientAfterOff`, `FlagNeedsSocket` |
| `DescriptorsKept` | `OneServerSocket`, `DeafExplained`, `ForeignBound` |
| `StopsWaitForOne` | `OneMoreAnswer`, `ExitWaitsForLateStart` |
| `ListenerTypes` | `TypeOK`, `MetaTypeOK`, `CueTypeOK`, `HlsTypeOK` |

What they show beyond the table:

* The start/stop code under the mutex never loses a process; the poll does, when a Stop and a
  Start fit between its test and its clear.  The handle is then null while FFmpeg runs
  (`worker.h` says "nullptr means not running"), and a second FFmpeg can be started beside it.
  Flag and lifecycle state can also disagree afterwards, at rest.
* A gain that stays reaches every running stream, with two exceptions (`GainReached`; TLC finds
  both when they are left out): a stream that starts between the monitor's look at the flags and its
  adoption of the gain keeps the old one, and so does a stream that started with a value which was
  taken back within the debounce time.
* In the instance of `Listeners` (2 connections) 3 executions do occur where 1 is allowed, by the rate
  limit and by the dedupe window.  For n connections the bounds are 2(n - 1) cues too many in a rate
  window and 1 + 2 + ... + n executions of one cue in a dedupe window: a late record with an old clock
  reading opens the window again, and each connection can be late once.  (A linear bound for the second,
  which two connections do not refute, is false for three; the proof found that.)  The worker's gate, one
  critical section, is exact.
* Two connection threads share one `.sv.tmp`: a reader can find an empty
  `runtime_state.json`, which the comment at `supervisor_api.cpp:891` excludes.  With one
  connection thread at a time it cannot, and a change is lost only to an overlapping update of
  the other process.  Health and levels come back with the next publication
  (`WorkerFieldsRepaired`); `srtRelayActive`, `srtRelayPort` and `srtRelayAddr` are published once,
  and a loss stays (with `Workers` for `Periodic` the property fails).  `InputSession` models these
  writers one by one: a file that puts an older `srtRelayActive` back makes the flag `astray`.
* A worker of a crashed supervisor keeps the HTTP socket: the next supervisor cannot bind it
  and runs without API until the worker and its FFmpeg processes are gone.
* Three windows of files cover the list a client holds for exactly two more windows when it is
  FFmpeg's latest.  One that the metadata thread put back over a newer one lasts for as many segments
  less as it is old (`Age`), and when that is two windows or more the list may be broken when the
  client gets it.  Both bounds are exact (`PlaylistStaysPlayable` fails with `<=` for `<`, also when asked of old
  lists only).  The exception is a file removed when the monitor of a run that died, or a scan from
  before a restart with failover, takes a name that the new FFmpeg has just opened.
* A segment keeps its date in the first run.  After a restart the numbers start at 0 again, and as
  long as they stay within 50 of the old anchor the old date is used for the first segment
  whatever its number is: dates then change from one answer to the next.  A list put back by the
  metadata thread does the same, and after Stop it brings the playlist file back.  Nothing else
  does: `CleanAfterStop` asks that this happened after the Stop in question (`putBack`).
* The dates are ahead of the audio, by about half a segment when the first client comes with
  the first list, and by up to a window and a segment when it comes later (`DatesAhead`, for a source in real
  time).  A break is marked that much too early in the audio (`BreakMarked`), and a break that has
  ended leaves the playlist that much earlier than its audio, since its end is then before the first
  date.  All clients of a run get the same dates.
* The break survives the file: `Base` takes it from memory, and with all writers of the file at
  work an END still closes the right break.  It does not when memory was emptied (restart, or an
  action such as LEGAL_ID, after which `m_hlsScteRange` is a default object) and the file holds an
  old copy of the handler's or of `writeScteRuntime`, or when both executors are in an update at
  once.  Each explanation in the four invariants is needed: without it TLC finds the case.
* A second SRT connect while a relay runs keeps the relay of the first ("already running"), and
  streams started then hear the old source.  A connect whose worker is launched by the request
  itself sends `StartSRTInput` before there is a worker; the comment there ("it will read
  srtRelayActive on start") is not what the worker does: nobody starts the relay later.  The second
  write of a connect can put back the `srtRelayActive` it read before the worker set it, a poll
  between the writes of a start leaves flag and handle in disagreement, and `~Worker` leaves the
  flag in the file.
* A metadata source on a port other than the default is dropped when the thread looks at
  `metadata.json` while a request that changes nothing about it rewrites the file; the same look
  closes the cue port.  A source that never pauses for a second is never emitted before it closes.
* A cue client accepted around the moment the listener is switched off is served as long as it
  stays; a silent one keeps all others waiting.  After a header beyond the limit it depends on the
  chunks what is lost.  When a new port cannot be bound the file goes on to say that a listener runs.
* After the death of an HLS FFmpeg, a Start forks the next FFmpeg while the old server still has its
  socket.  The new FFmpeg inherits it, the port stays taken as long as that FFmpeg lives, the bind
  fails, and HLS runs without its server, while the log announces one.  FFmpeg processes of other
  outputs, forked while a server is at work, do the same to the next Stop and Start
  (`ServedUnlessInherited` names exactly these two cases; it needs descriptors enough for a socket).
* Each stop can close one descriptor of another thread (never more: `ForeignBound`).  That
  thread's own close can then hit the next server, which spins on its lost socket or answers
  clients that came for somebody else.  A SIGTERM that overlaps with a start of HLS can leave
  `~Worker` in a join that never ends.

**Why the bounds are enough.** Each hazard listed needs at most two actors and one extra event:
a second process per stream (`MaxPids` 2) gives "old and new FFmpeg", two commands give
stop-then-start, one gain change gives a restart, two connections give an overlap, capacity 1
and 2 with three tasks give a full and a half-full queue, four instants with windows of two
and three give both ends of a window.  Windows of 1 and 2 segments with 5 per run fill the
retained set (3 and 6 files) in the first and leave room in the second; `ResetGap` is 2 where the
code has 50, so that both sides of it occur within a run; two runs give "old and new files of one
name".  In `BreakRange` three actions give START, a disturbance and END, and two instants an
order.  Five bytes hold a header of two, a frame of up to the limit of two and the beginning of the
next message, or two lines and an unfinished one; four requests at a limit of 1 are one more than
`HttpOverrun` allows.  Three descriptors are the socket, a client and one of another thread, two
starts give an old and a new server, one other output a child that outlives the first.  Two requests,
two SRT sources and one end of the worker give an overlap, an old relay and a stale flag.  All safety properties the passing
runs check are also proved without these bounds (section 4).  The symmetry sets (connection
threads; requests and worker pids; events) hold interchangeable values and are used only in runs
without liveness.

**Deadlock** is checked in every run: a model may stop only in its own final state (worker
exited, supervisor gone for good, all requests of the instance answered, nobody in the middle of
an update, worker gone in `Listeners`).  `HlsPlayback` and `InputSession` never stop.

**Fairness.** Threads that can take a step do (`WF` on thread steps): the code has no
priorities, and the calls it makes are bounded by timeouts.  Beyond that:

* `WF(Receive)` (streams): the client of an accepted control connection sends or closes.  The
  worker's `recv` has no timeout, so this rests on the supervisor, which does within 8 s.
* `SF(GainApply)`: a gain that stays stable does so for longer than the 600 ms debounce at some
  iteration.
* `SF(WriterStep)` (file): a thread that waits for `m_rtMutex` gets it in the end although
  others take it again and again.  `WF(Heartbeat)`, for `Periodic` threads only: the loops of
  `run` (30 s) and `monitorInputLevels` (at most 300 ms a round) publish each time round.
* `WF(RequestStep)`, `WF(StopStep)` (launch): the wait for an ACK (8 s) and for the end of a
  worker (3 s) are loops with a limit.

Requests, events, crashes, signals, gain changes, ends of orphaned FFmpeg processes and
spurious wake-ups are never assumed to happen.

## 4. Proofs

TLAPS proves, for every value of the constants that satisfies the named assumptions:

| Theorem | Statement | Argument |
|---|---|---|
| `StreamLifecycleProofs!TypeCorrect` | `TypeOK`, including that the main thread's index stays in its lists | inductive as stated, from `OrderAssumption`, `ThreadAssumption`, `BoundAssumption` |
| `OrphansExplained` | `OrphanOnlyFromUnlockedClear` | `StreamInv`, see below |
| `ExitLeaks` | `ExitLeaksExplained` | `StreamInv` |
| `PublishedCorrect` | `PublishedWhenQuiet` | inductive with types: whoever changes a flag or a state is bound to publish, and a publication writes everything |
| `DispatchQueueProofs!TypeCorrect` | `TypeOK`, including "a task in hand exactly while one is worked on" | inductive as stated |
| `NoLoss` | `NothingLostOrReordered` | inductive with types; lemmas on concatenation |
| `DepthCorrect` | `DepthCountsQueue` | inductive with types; lemmas on the cardinality of the positions of a kind under `Append` and `Tail` |
| `NoCrowdingOut` | `DropOnlyWhenKindFull` (an action property) | from `DepthCorrect` |
| `Refinement` | `Spec => ImplementsLog` | from `NoLoss`: the task finished next is the first accepted one not yet handled |
| `DedupeWorks` | `OncePerWindow` | `KeyInv`: it speaks of the tasks in the producers' hands too, since a key is taken before its task is queued |
| `ListenerProofs!WorkerDedupe` | `TcpOnce` | `CueInv`: the record of a cue is not older than any execution of it |
| `WorkerRate` | `TcpRate` | `RateInv`: the deque holds all executions of the current window and is in order, so that what `Prune` cuts off lies before a first entry; lemmas on cardinalities of sets of times |
| `GateTypes` | `TypeOK` of `CueGate` | with: pruning leaves a sequence |
| `SupervisorRate` | `HttpOverrun` | `OverrunInv`, see below |
| `SupervisorDedupe` | `HttpRepeats` | `RepeatsInv`, see below |
| `RuntimeStateFileProofs!FileTypes`, `FileComplete`, `FileLosses` | `TypeOK`, `EmptyOnlyBySupervisors`, `LossesExplained` | `FileInv`: as long as connection threads do not meet, an open stream leads to the temporary file of its own side, and a writer without an overlap carries its field through memory and temporary file |
| `WorkerLaunchProofs!LaunchTypes`, `LaunchSurvivors`, `LaunchAcks` | `TypeOK`, `SurvivorsExplained`, `AckMeansExecuted` | `LaunchInv`: every live worker was forked by a serving or a stopping supervisor and is known from the table, a thread or the history; the command of the connection served, and of every ACK on its way, was executed |
| `HlsPlaybackProofs!PlaybackTypes`, `PlaylistPlayable`, `NewFilesWiped`, `StopCleans`, `DatesHold` | `TypeOK`, `PlaylistStaysPlayable`, `WipedExplained`, `CleanAfterStop`, `DatesRight` | `PlayInv`, see below |
| `BreakRangeProofs!TypeCorrect` | `TypeOK`, including who holds the metadata mutex | inductive as stated |
| `BreakIsKept` | `BreakKept` | `LossInv`: what was read under the mutex to be written back is damaged only for a cause on record; `MemInv`: as long as updates do not overlap, memory is the last update or was emptied |
| `EndIsRight` | `EndMatchesStart` | `StartInv`: the last update holds the event of the last START; `OrderInv`: no range held anywhere starts after the clock reading of an executor that has not read the file yet |
| `InputSessionProofs!TypeCorrect` | `TypeOK`, including that a live relay has its handle | `TypeInv`: with who may hold `m_rtMutex` where |
| `FlagCorrect` | `FlagTrue` | `FlagInv`: flag and file agree whenever neither control thread nor poll is between the two |
| `FilesCorrect` | `FilesAgree` | `SessionInv`: one open request at a time, and what it has read, written and not yet written |
| `SessionHeard` | `SessionFollowed` | `FollowInv`, see below |
| `ListenerProofs!MetaTypeCorrect` | `MetaTypeOK` | inductive as stated |
| `EverythingReadIsEmitted` | `ReadIsEmitted` | inductive with types; a lemma on appending to a counted sequence |
| `LossOnlyByDropping` | `LossIsDropping` | `LossInv`: at the tail either the source was dropped or all it sent was read |
| `DefaultPortKept` | `KeptOnDefaultPort` | `KeptInv`: the endpoint in force is that of every source that all requests kept |
| `AtMostOneLateRead` | `OneLateRead` | `LateInv`: none has happened when the thread has passed its look at the settings |
| `ListenerProofs!OneMoreClient` | `OneClientAfterOff` | `AfterInv`: none yet while the thread waits in accept |
| `FlagIsTrue` | `FlagNeedsSocket` | `OpenInv`: a socket on another port than the settings' means that the port was changed |
| `FramingIsExact` | `FramingExact` | `StreamInv`, see below |
| `ListenerProofs!HlsTypeCorrect`, `OneSocket`, `NeverDeaf`, `LastAnswer`, `StolenDescriptors`, `ExitWaits` | `HlsTypeOK`, `OneServerSocket`, `DeafExplained`, `OneMoreAnswer`, `ForeignBound`, `ExitWaitsForLateStart` | one invariant, `HlsInv`, see below |
| `ServedOrInherited` | `ServedUnlessInherited`, if `Others` is finite and smaller than `NumFds` | `ServedInv`, see below |
| `PartsImplemented` | `AllSpec => Spec /\ MetaSpec /\ HlsSpec` | `AllInv`: while the cue thread runs the metadata thread keeps nobody, so that saving the cue settings is saving its own endpoint again; every message names a cue |
| `AllTypes`, `AllCorrect` | `ListenerTypes`; the safety properties of the four parts, of `AllSpec` | from `PartsImplemented`, the theorems of the parts, and `AllInv` for the cue thread |

Where a run checks a conjunction of parts, a theorem of the same module states the whole:
`ProcessesCorrect`, `QueueCorrect`, `WorkerGate`, `SupervisorGate`, `FilesTell`, `SourcesAreHeard`, `SettingsFollowed`,
`CueSettingsFollowed`, `DescriptorsCorrect` and `StopsCorrect`, each from the theorems of its parts.

`OrphanOnlyFromUnlockedClear` is not inductive: a launch must find a null handle and a clear a
dead process.  `StreamInv` adds that the thread inside an operation owns the mutex
(`MutexInv`), that a thread about to launch has seen a null handle, which only it could have
changed (`LaunchInv`), that a thread about to clear has killed (`ClearInv`), and that what lies
behind the destructor's walk is dead, lost earlier or launched late (`ExitInv`).

`HlsInv` adds to the properties: a thread about to spawn has joined the old server (`SpawnInv`); the
flag stays cleared for a stopper on its way to the join, for the destructor unless a start came
late (`FlagInv`); the one answer after the flag was cleared leads to the test (`AnswerInv`); a
client's descriptor is the one in hand and not the server's (`ClientInv`); and a stop that has closed
the number pays for at most one foreign close still to come (`ForeignInv`): the thread's own.

`ServedInv`: a cleared flag with the thread still at work means a stop on its way to the join, so that no
stop ends and no start begins with a server at work, unless FFmpeg died (`QuietInv`); what the HLS
FFmpeg inherits it has from the server of a dead one (`HeirInv`); the number is published and closed by
others only once the thread listens (`UnpublishedInv`); the sockets that got the port belong to earlier
starts until the thread gets it (`PortInv`), so that a bind is refused only by an FFmpeg
(`RefusedInv`); and every other thread has one descriptor at most (`HoldInv`), so that one is left for
the socket if there are fewer threads than descriptors.  Without that hypothesis the property is false:
`socket()` fails then.

`StreamInv`: while a client is served, the buffer holds what cutting everything read so far leaves, and
the messages processed and waiting are those it gives.  A read keeps this because cutting a part, and
then what it left with what came after, is cutting the whole (`ParseExtended`).  `Rounds`, a recursive
function on offsets, exists because no round goes back (`RoundsDefined`); that the rounds of a part are
those of the whole (`RoundsExtended`), and those of an erased buffer the ones further on
(`RoundsShifted`), follows like this by induction from the last offset down (`Downward`): over sets of
offsets, from the least number of a set (`Least`), since the library's induction theorems are out of reach.

`OverrunInv` says of every window of the supervisor's gate: as long as nobody with a later clock reading
has pruned, what it holds is in the record or about to be, and record and connections past their check
exceed the limit by fewer than the connections there are (`Accounted`); afterwards only the
connections under way can add to it, one cue each (`Closing`).  `RepeatsInv` says of every cue and dedupe
window: while the record holds the cue back, only those past their check add to it; it opens again
only by the record of a connection with a clock reading from before the window, which is then one more
that can pass, so that k such connections are worth 1 + 2 + ... + k executions (`Tri`).

`PlayInv`: numbers of segments grow with the runs (`EncoderInv`); what the monitor has listed lies three
windows back or belongs to an earlier run (`MonitorInv`); the last three windows are on disk but for
what was wiped (`KeptInv`); a list, new or put back, starts less than a window before its end and ends
before the segment that is being written (`ListInv`); in the first run the clock is the number of the segment (`ClockInv`), and the
anchor follows the list, ahead of the segments by less than a window and a segment (`DatesInv`).

`FollowInv`: what a request's place says of what it wants and has read (`WantInv`); without a worker there is
no relay to command (`WorkerInv`); the relay is that of the session, or of the last command waiting in
front of the control thread (`RelayInv`); a level held by the monitor, measured or in the file, belongs
to the key it was measured under or the session has moved since (`MeterInv`).

Only model-checked: the liveness properties `MonitorsWork`, `CommandsEnd`, `DispatchDrains`,
`WorkerFieldsRepaired` and `NobodyWaitsForEver` (fairness and `ENABLED` are out of the prover's reach).

## 5. Not modelled

* Wording, formatting, JSON and XML text, HTTP framing, authentication, logs and log rotation,
  audio levels: sequential text or signal processing without shared state of its own.
* The copies of the queue counters in `metadata_runtime.json`: they are read under `m_dispatchMutex` and
  written under the file's mutex, so an older reading can be written last and stand until the next
  task.  They are shown in the status and nothing is decided from them; `QueueExact` is about the
  counters in memory.
* The Windows build (Job Objects, WASAPI, MoveFileEx).
* Reuse of process ids, a clock that steps back, a full disk, a backlog of the control port
  that overflows.
* `README.md` of the repository describes an Icecast reconnect (12 attempts in 60 s); the worker
  has no such loop, a stream whose FFmpeg ends is marked failed by the next poll.
* The attributes of `EXT-X-DATERANGE` and the other tags; the supervisor's proxy route to HLS.
* Which field of a cue's payload names the cue, its checks before the gate; extraction of fields
  from metadata XML and their formatting per stream; preview gain and applied gain of the input.
* The components of the inventory that are not in section 2 are listed as `not_modelled` in
  `PROJECT.json`, with the reason.

## 6. Plan

Written, in this order: `StreamLifecycle` (the heart of the worker), `DispatchQueue` over
`EventLog`, `CueGate`, `RuntimeStateFile`, `WorkerLaunch`, `HlsPlayback`, `BreakRange`,
`InputSession`, `MetadataListener`, `CueListener`, `HlsServer`.  Left:

1. `LivewireMapping` as operators with a round-trip theorem.
2. Theorems: the numbering of `LivewireMapping`.
