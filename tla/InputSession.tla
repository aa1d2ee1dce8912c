---------------------------- MODULE InputSession ----------------------------
(***************************************************************************)
(* The input of one encoder: what input/connect and input/disconnect       *)
(* (supervisor_api.cpp) leave in runtime_state.json and                    *)
(* input_session.json, the SRT input relay that the worker starts and      *)
(* stops on command, polls and notes in the first of these files, and the  *)
(* level monitor that follows the session.  Linux build.                   *)
(*                                                                         *)
(* A source stands for all fields of a session.  Reading a file and        *)
(* replacing it are one step each (RuntimeStateFile looks inside); every   *)
(* writer writes back the whole object it read.  Other threads of the      *)
(* worker that update the file do to these fields what the monitor does.   *)
(* Whether the epochs a request has read are recent is left open           *)
(* (WorkerLaunch follows them).                                            *)
(***************************************************************************)
EXTENDS Naturals, Sequences, FiniteSets

CONSTANTS
  Rtp, Srt,     \* the sources a user can connect to
  ConfigSrt,    \* the SRT source of input.json
  NoSource,
  Requests,     \* HTTP requests, each with its connection thread
  MaxOpen,      \* bound on the requests served at a time
  MaxDowns      \* bound on the ends of the worker

ASSUME SessionAssumption ==
  /\ Rtp \cap Srt = {} /\ ConfigSrt \in Srt /\ NoSource \notin Rtp \cup Srt
  /\ "none" \notin Rtp /\ "relay" \notin Rtp  \* keys of the monitor begin with the kind of input
  /\ MaxOpen \in Nat /\ MaxDowns \in Nat

Sources == Rtp \cup Srt
Source0 == Sources \cup {NoSource}

VARIABLES
  rt,       \* runtime_state.json: connected, source, srtRelayActive, whose levels are shown
  ses,      \* input_session.json: connected, source
  pc, want, copy,  \* of each request: place, source to connect (none: disconnect), object read
  up,       \* is a worker running?
  queue,    \* requests whose command is at the control port
  run, proc, live,  \* m_srtInputRelayRunning; source of the relay the handle names; is it alive?
  orphans,  \* sources of relays that no handle names
  cpc, mpc, npc,    \* control thread, main thread (poll), level monitor
  level, key, held, \* the monitor: levels to write, activeSessionKey, lastMeterL and R
  holder, wcopy,    \* who is between reading and writing the file under m_rtMutex, the object read
  downs,    \* counter behind the bound
  torn,     \* history: requests overlapped, or a session was taken back
  moved,    \* history: the session has changed since the monitor read it
  missed,   \* history: a relay was not started, or has ended, without a command
  kept,     \* history: a start found a relay running for another source
  astray    \* history: what may have put the relay and what the file says of it out of step

reqVars   == <<pc, want, copy>>
relayVars == <<run, proc, live, orphans>>
monVars   == <<npc, level, key, held>>
lockVars  == <<holder, wcopy>>
histVars  == <<torn, moved, missed, kept, astray>>
vars == <<rt, ses, reqVars, up, queue, relayVars, cpc, mpc, monVars, lockVars, downs, histVars>>

NoRuntime == [conn |-> FALSE, src |-> NoSource, relay |-> FALSE, level |-> NoSource]

\* A new encoder: no worker, no session.
Init ==
  /\ up = FALSE /\ run = FALSE /\ proc = NoSource /\ live = FALSE
  /\ rt = NoRuntime /\ ses = [conn |-> FALSE, src |-> NoSource]
  /\ pc = [r \in Requests |-> "idle"] /\ want = [r \in Requests |-> NoSource]
  /\ copy = [r \in Requests |-> NoRuntime]
  /\ queue = <<>> /\ orphans = {}
  /\ cpc = "idle" /\ mpc = "idle" /\ npc = "sample"
  /\ level = NoSource /\ key = "none" /\ held = NoSource
  /\ holder = "none" /\ wcopy = NoRuntime
  /\ downs = 0 /\ torn = FALSE /\ moved = FALSE /\ missed = FALSE /\ kept = FALSE /\ astray = FALSE

Open == {r \in Requests : pc[r] \notin {"idle", "done"}}

\* No request, command or update of the file is under way.
Quiet == Open = {} /\ queue = <<>> /\ mpc = "idle" /\ holder = "none"

Goto(r, from, to) ==
  /\ pc[r] = from
  /\ pc' = [pc EXCEPT ![r] = to]

\* The response is sent; the thread and what it has read are gone.
End(r, from) ==
  /\ Goto(r, from, "done")
  /\ copy' = [copy EXCEPT ![r] = NoRuntime]
  /\ want' = [want EXCEPT ![r] = NoSource]

\* The object read as old is written back as new: it takes back a session
\* written meanwhile, or changes a relay flag that is not the writer's own.
SessionBack(old) == old.conn # rt.conn \/ old.src # rt.src
FlagBack(new)    == new.relay # rt.relay

-----------------------------------------------------------------------------
(* Requests.                                                                *)

\* A request that validation refuses reads the file and changes nothing.
Arrive(r, s) ==
  /\ Cardinality(Open) < MaxOpen
  /\ Goto(r, "idle", "read")
  /\ want' = [want EXCEPT ![r] = s]
  /\ torn' = (Open # {} \/ (torn /\ (rt.conn # ses.conn \/ rt.src # ses.src)))
  /\ astray' = (astray /\ (~Quiet \/ ~up \/ rt.relay # run))
  /\ UNCHANGED <<rt, ses, copy, up, queue, relayVars, cpc, mpc, monVars, lockVars, downs, moved, missed, kept>>

\* Mutant: a disconnect does not send StopSRTInput.
ReadRuntimeNoStop(r) ==
  /\ \/ want[r] # NoSource /\ Goto(r, "read", "write")
     \/ want[r] = NoSource /\ Goto(r, "read", "read2")
     \/ Goto(r, "read2", "flag")
     \/ Goto(r, "read3", "levels")
  /\ copy' = [copy EXCEPT ![r] = rt]
  /\ UNCHANGED <<rt, ses, want, up, queue, relayVars, cpc, mpc, monVars, lockVars, downs, histVars>>

\* readRuntimeState at the three places where the handlers do it.
ReadRuntime(r) ==
  /\ \/ want[r] # NoSource /\ Goto(r, "read", "write")
     \/ want[r] = NoSource /\ Goto(r, "read", IF rt.src \in Srt THEN "send" ELSE "read2")
     \/ Goto(r, "read2", "flag")
     \/ Goto(r, "read3", "levels")
  /\ copy' = [copy EXCEPT ![r] = rt]
  /\ UNCHANGED <<rt, ses, want, up, queue, relayVars, cpc, mpc, monVars, lockVars, downs, histVars>>

\* atomicWriteRuntimeState of the object read, changed to new.
WriteRuntime(r, new) ==
  /\ rt' = new
  /\ torn' = (torn \/ SessionBack(copy[r]))
  /\ astray' = (astray \/ FlagBack(new))
  /\ UNCHANGED <<moved, missed, kept>>

\* connect: the session goes into the file, the meters to silence.
ConnectWrite(r) ==
  LET new == [copy[r] EXCEPT !.conn = TRUE, !.src = want[r], !.level = NoSource] IN
  /\ Goto(r, "write", "session")
  /\ WriteRuntime(r, new)
  /\ copy' = [copy EXCEPT ![r] = new]
  /\ UNCHANGED <<ses, want, up, queue, relayVars, cpc, mpc, monVars, lockVars, downs>>

\* The same session goes into its own file.
ConnectSession(r) ==
  /\ Goto(r, "session", IF want[r] \in Srt THEN "send" ELSE "fresh")
  /\ ses' = [conn |-> TRUE, src |-> want[r]]
  /\ moved' = TRUE
  /\ UNCHANGED <<rt, want, copy, up, queue, relayVars, cpc, mpc, monVars, lockVars, downs, torn, missed, kept, astray>>

\* The epochs of the object read at the beginning are recent.
FreshEnough(r) ==
  /\ End(r, "fresh")
  /\ UNCHANGED <<rt, ses, up, queue, relayVars, cpc, mpc, monVars, lockVars, downs, histVars>>

\* They are not: that object is written once more, with the launch epoch, and
\* launchWorkerProcess starts a worker if there is none, or fails.
StampAndLaunch(r) ==
  /\ End(r, "fresh")
  /\ WriteRuntime(r, copy[r])
  /\ up' \in {up, TRUE}
  /\ UNCHANGED <<ses, queue, relayVars, cpc, mpc, monVars, lockVars, downs>>

\* disconnect: after StopSRTInput the relay's fields of the object read before
\* it, then setRuntimeInputConnected(false), then the meters.
DisconnectWrite(r) ==
  /\ \/ Goto(r, "relay", "read2") /\ WriteRuntime(r, [copy[r] EXCEPT !.relay = FALSE])
     \/ Goto(r, "flag", "read3") /\ WriteRuntime(r, [copy[r] EXCEPT !.conn = FALSE])
     \/ Goto(r, "levels", "sread") /\ WriteRuntime(r, [copy[r] EXCEPT !.level = NoSource])
  /\ copy' = [copy EXCEPT ![r] = NoRuntime]
  /\ UNCHANGED <<ses, want, up, queue, relayVars, cpc, mpc, monVars, lockVars, downs>>

ReadSession(r) ==
  /\ Goto(r, "sread", "swrite")
  /\ copy' = [copy EXCEPT ![r] = [NoRuntime EXCEPT !.src = ses.src]]
  /\ UNCHANGED <<rt, ses, want, up, queue, relayVars, cpc, mpc, monVars, lockVars, downs, histVars>>

\* Mutant: the second file is forgotten.
DisconnectOneFile(r) ==
  /\ End(r, "swrite")
  /\ moved' = TRUE
  /\ UNCHANGED <<rt, ses, up, queue, relayVars, cpc, mpc, monVars, lockVars, downs, torn, missed, kept, astray>>

DisconnectSession(r) ==
  /\ End(r, "swrite")
  /\ ses' = [conn |-> FALSE, src |-> copy[r].src]
  /\ moved' = TRUE
  /\ UNCHANGED <<rt, up, queue, relayVars, cpc, mpc, monVars, lockVars, downs, torn, missed, kept, astray>>

-----------------------------------------------------------------------------
(* StartSRTInput and StopSRTInput: sendWorkerControlCommand, no auto-start. *)

AfterCommand(r) == IF want[r] # NoSource THEN "fresh" ELSE "relay"

Refused(r) ==
  /\ ~up
  /\ Goto(r, "send", AfterCommand(r))
  /\ missed' = TRUE
  /\ UNCHANGED <<rt, ses, want, copy, up, queue, relayVars, cpc, mpc, monVars, lockVars, downs, torn, moved,
                 kept, astray>>

Send(r) ==
  /\ up
  /\ Goto(r, "send", "wait")
  /\ queue' = Append(queue, [req |-> r, start |-> want[r] # NoSource])
  /\ UNCHANGED <<rt, ses, want, copy, up, relayVars, cpc, mpc, monVars, lockVars, downs, histVars>>

\* 8 s are over, or the worker is gone; the command may still be executed.
GivesUp(r) ==
  /\ Goto(r, "wait", AfterCommand(r))
  /\ UNCHANGED <<rt, ses, want, copy, up, queue, relayVars, cpc, mpc, monVars, lockVars, downs, histVars>>

-----------------------------------------------------------------------------
(* The control thread: startSRTInputRelay and stopSRTInputRelay.  Updates   *)
(* of the file are critical sections of m_rtMutex, which the supervisor     *)
(* does not know of.                                                        *)

NoteRead(t) ==
  /\ holder = "none"
  /\ holder' = t
  /\ wcopy' = rt

NoteWrite(t, new) ==
  /\ holder = t
  /\ holder' = "none" /\ wcopy' = NoRuntime
  /\ rt' = new
  /\ torn' = (torn \/ SessionBack(wcopy))
  /\ UNCHANGED <<moved, missed, kept>>

\* Mutant: the settings of input.json, whatever the session says.
SrtConfigured(src) == ConfigSrt

\* The relay's settings: the session's, else those of input.json.
SrtOf(src) == IF src \in Srt THEN src ELSE ConfigSrt

\* The next command; its sender, if it still waits, gets the answer.
Command(start) == up /\ cpc = "idle" /\ queue # <<>> /\ Head(queue).start = start
Answer ==
  /\ queue' = Tail(queue)
  /\ pc' = [r \in Requests |-> IF r = Head(queue).req /\ pc[r] = "wait" THEN AfterCommand(r) ELSE pc[r]]

\* The relays without handle, once the handle is overwritten.
WithOrphan == IF live THEN orphans \cup {proc} ELSE orphans

\* "SRT input relay already running", whatever it receives.
StartFinds ==
  /\ Command(TRUE) /\ run
  /\ Answer
  /\ kept' = (kept \/ proc # SrtOf(rt.src))
  /\ UNCHANGED <<rt, ses, want, copy, up, relayVars, cpc, mpc, monVars, lockVars, downs, torn, moved, missed, astray>>

StartLaunches ==
  /\ Command(TRUE) /\ ~run
  /\ proc' = SrtOf(rt.src) /\ live' = TRUE /\ run' = TRUE /\ orphans' = WithOrphan
  /\ kept' = FALSE /\ missed' = FALSE
  /\ cpc' = "on"
  /\ UNCHANGED <<rt, ses, reqVars, up, queue, mpc, monVars, lockVars, downs, torn, moved, astray>>

StartFails ==
  /\ Command(TRUE) /\ ~run
  /\ Answer
  /\ proc' = NoSource /\ live' = FALSE /\ orphans' = WithOrphan
  /\ missed' = TRUE
  /\ UNCHANGED <<rt, ses, want, copy, up, run, cpc, mpc, monVars, lockVars, downs, torn, moved,
                 kept, astray>>

\* Mutant: the handle is dropped, the process is not killed.
StopForgets ==
  /\ Command(FALSE)
  /\ proc' = NoSource /\ run' = FALSE
  /\ cpc' = "off"
  /\ UNCHANGED <<rt, ses, reqVars, up, queue, live, orphans, mpc, monVars, lockVars, downs, histVars>>

StopKills ==
  /\ Command(FALSE)
  /\ proc' = NoSource /\ live' = FALSE /\ run' = FALSE
  /\ cpc' = "off"
  /\ UNCHANGED <<rt, ses, reqVars, up, queue, orphans, mpc, monVars, lockVars, downs, histVars>>

ControlRead ==
  /\ cpc \in {"on", "off"}
  /\ NoteRead("control")
  /\ UNCHANGED <<rt, ses, reqVars, up, queue, relayVars, cpc, mpc, monVars, downs, histVars>>

ControlWrite ==
  /\ NoteWrite("control", [wcopy EXCEPT !.relay = (cpc = "on")])
  /\ astray' = ((cpc = "on") # run)
  /\ cpc' = "idle"
  /\ Answer
  /\ UNCHANGED <<ses, want, copy, up, relayVars, mpc, monVars, downs>>

(* The main thread: pollSinkProcesses, without m_streamMutex.               *)

PollTest ==
  /\ up /\ mpc = "idle" /\ run /\ ~live
  /\ mpc' = "clear"
  /\ UNCHANGED <<rt, ses, reqVars, up, queue, relayVars, cpc, monVars, lockVars, downs, histVars>>

\* The handle becomes null.  A relay started since the test is lost from it.
PollDrop ==
  /\ mpc = "clear"
  /\ mpc' = "flag"
  /\ proc' = NoSource /\ live' = FALSE /\ orphans' = WithOrphan
  /\ UNCHANGED <<rt, ses, reqVars, up, queue, run, cpc, monVars, lockVars, downs, histVars>>

\* Mutant: the end of the relay is not noted in the file.
PollClearOnly ==
  /\ mpc = "flag"
  /\ mpc' = "idle"
  /\ run' = FALSE /\ missed' = TRUE
  /\ UNCHANGED <<rt, ses, reqVars, up, queue, proc, live, orphans, cpc, monVars, lockVars, downs, torn, moved,
                 kept, astray>>

\* The flag follows, also when a relay was started in between.
PollClear ==
  /\ mpc = "flag"
  /\ mpc' = "off"
  /\ run' = FALSE /\ missed' = TRUE
  /\ UNCHANGED <<rt, ses, reqVars, up, queue, proc, live, orphans, cpc, monVars, lockVars, downs, torn, moved,
                 kept, astray>>

PollRead ==
  /\ mpc = "off"
  /\ NoteRead("main")
  /\ UNCHANGED <<rt, ses, reqVars, up, queue, relayVars, cpc, mpc, monVars, downs, histVars>>

\* A start since the clear may have been noted before this.
PollWrite ==
  /\ NoteWrite("main", [wcopy EXCEPT !.relay = FALSE])
  /\ astray' = (astray \/ run)
  /\ mpc' = "idle"
  /\ UNCHANGED <<ses, reqVars, up, queue, relayVars, cpc, monVars, downs>>

-----------------------------------------------------------------------------
(* The level monitor: monitorInputLevels.                                   *)

\* Mutant: a new session starts from the levels of the one before.
LastKept == held

\* It takes the session from its own file and the relay flag from the other.
Relayed == ses.src \in Srt /\ rt.relay

\* The relay has one address, whatever it receives.
SessionKey == IF ~ses.conn THEN "none" ELSE IF Relayed THEN "relay" ELSE ses.src

\* Whose sound a reader of the relay's address gets.
RelaySound == orphans \cup (IF live THEN {proc} ELSE {})

\* A new session key starts from silence.
LastMeter == IF key = SessionKey THEN held ELSE NoSource

\* Levels of a packet that arrives, or the last ones for up to 800 ms, or
\* silence.
MonitorSample ==
  /\ up /\ npc = "sample"
  /\ npc' = "note"
  /\ key' = SessionKey
  /\ moved' = FALSE
  /\ \/ /\ ses.conn /\ (ses.src \in Rtp \/ Relayed)
        /\ \/ level' \in (IF Relayed THEN RelaySound ELSE {ses.src}) /\ held' = level'
           \/ level' \in {LastMeter, NoSource} /\ held' = LastMeter
     \/ /\ ~(ses.conn /\ (ses.src \in Rtp \/ Relayed))
        /\ level' = NoSource /\ held' = LastMeter
  /\ UNCHANGED <<rt, ses, reqVars, up, queue, relayVars, cpc, mpc, lockVars, downs, torn, missed, kept, astray>>

MonitorRead ==
  /\ npc = "note"
  /\ NoteRead("monitor")
  /\ UNCHANGED <<rt, ses, reqVars, up, queue, relayVars, cpc, mpc, monVars, downs, histVars>>

MonitorWrite ==
  /\ NoteWrite("monitor", [wcopy EXCEPT !.level = level])
  /\ astray' = (astray \/ FlagBack(wcopy))
  /\ npc' = "sample" /\ level' = NoSource
  /\ UNCHANGED <<ses, reqVars, up, queue, relayVars, cpc, mpc, key, held, downs>>

-----------------------------------------------------------------------------
(* Processes.                                                               *)

RelayDies ==
  /\ live
  /\ live' = FALSE
  /\ UNCHANGED <<rt, ses, reqVars, up, queue, run, proc, orphans, cpc, mpc, monVars, lockVars, downs, histVars>>

OrphanDies(s) ==
  /\ s \in orphans
  /\ orphans' = orphans \ {s}
  /\ UNCHANGED <<rt, ses, reqVars, up, queue, run, proc, live, cpc, mpc, monVars, lockVars, downs, histVars>>

\* The worker is gone: after SIGTERM with the relay (~Worker), after a crash
\* without it.  srtRelayActive stays as it is.
WorkerDown(clean) ==
  /\ up /\ downs < MaxDowns
  /\ up' = FALSE /\ downs' = downs + 1
  /\ orphans' = IF clean THEN orphans ELSE WithOrphan
  /\ run' = FALSE /\ proc' = NoSource /\ live' = FALSE
  /\ queue' = <<>>
  /\ cpc' = "idle" /\ mpc' = "idle" /\ npc' = "sample"
  /\ level' = NoSource /\ key' = "none" /\ held' = NoSource
  /\ holder' = "none" /\ wcopy' = NoRuntime
  /\ astray' = TRUE /\ moved' = TRUE /\ missed' = TRUE
  /\ UNCHANGED <<rt, ses, reqVars, torn, kept>>

\* A Start command launches the worker too (auto-start).
WorkerUp ==
  /\ ~up
  /\ up' = TRUE
  /\ UNCHANGED <<rt, ses, reqVars, queue, relayVars, cpc, mpc, monVars, lockVars, downs, histVars>>

-----------------------------------------------------------------------------
RequestStep(r) ==
  \/ ReadRuntime(r) \/ ConnectWrite(r) \/ ConnectSession(r) \/ FreshEnough(r) \/ StampAndLaunch(r)
  \/ DisconnectWrite(r) \/ ReadSession(r) \/ DisconnectSession(r)
  \/ Refused(r) \/ Send(r) \/ GivesUp(r)
ControlStep == StartFinds \/ StartLaunches \/ StartFails \/ StopKills \/ ControlRead \/ ControlWrite
PollStep    == PollTest \/ PollDrop \/ PollClear \/ PollRead \/ PollWrite
MonitorStep == MonitorSample \/ MonitorRead \/ MonitorWrite

Next ==
  \/ \E r \in Requests : (\E s \in Source0 : Arrive(r, s)) \/ RequestStep(r)
  \/ ControlStep \/ PollStep \/ MonitorStep
  \/ RelayDies \/ WorkerUp
  \/ \E s \in Sources : OrphanDies(s)
  \/ \E clean \in BOOLEAN : WorkerDown(clean)

Spec == Init /\ [][Next]_vars

-----------------------------------------------------------------------------
(* Properties.                                                              *)

Runtimes == [conn : BOOLEAN, src : Source0, relay : BOOLEAN, level : Source0]
Places   == {"idle", "read", "write", "session", "send", "wait", "fresh", "relay", "read2",
             "flag", "read3", "levels", "sread", "swrite", "done"}

FilesOK == /\ rt \in Runtimes /\ wcopy \in Runtimes /\ copy \in [Requests -> Runtimes]
           /\ ses \in [conn : BOOLEAN, src : Source0]

RequestsOK == /\ pc \in [Requests -> Places] /\ want \in [Requests -> Source0]
              /\ queue \in Seq([req : Requests, start : BOOLEAN])

RelayOK == /\ up \in BOOLEAN /\ run \in BOOLEAN /\ proc \in Source0 /\ live \in BOOLEAN
           /\ orphans \subseteq Sources
           /\ live => proc # NoSource

ThreadsOK ==
  /\ cpc \in {"idle", "on", "off"} /\ mpc \in {"idle", "clear", "flag", "off"} /\ npc \in {"sample", "note"}
  /\ level \in Source0 /\ held \in Source0 /\ key \in Source0 \cup {"none", "relay"}
  /\ holder \in {"none", "control", "main", "monitor"}
  /\ downs \in 0..MaxDowns
  /\ torn \in BOOLEAN /\ moved \in BOOLEAN /\ missed \in BOOLEAN /\ kept \in BOOLEAN
  /\ astray \in BOOLEAN

\* Every variable keeps its type, a live relay is named by its handle.
TypeOK == FilesOK /\ RequestsOK /\ RelayOK /\ ThreadsOK

\* input/connect and input/disconnect write the session to two files, one
\* after the other: both tell the same session when no request is served,
\* unless requests overlapped or someone wrote back an older session.
FilesAgree == Open = {} /\ ~torn => rt.conn = ses.conn /\ rt.src = ses.src

\* srtRelayActive, on which encoders and meter choose their input, is what the
\* worker knows of its relay, although three writers of the worker and two
\* requests note or copy it, unless something named by astray came between.
FlagTrue == Quiet /\ up /\ ~astray => rt.relay = run

\* A relay runs for a connected SRT session, unless the start was refused,
\* failed or died; none runs once an SRT session was disconnected.
RelayFollowsSession ==
  Quiet /\ up /\ ~torn =>
    /\ ses.conn /\ ses.src \in Srt => run \/ missed
    /\ ~ses.conn /\ ses.src \in Srt => ~run

\* buildFfmpegInputArgs: whose sound a stream started now gets.
EncoderInput == IF rt.src \in Srt /\ rt.relay THEN RelaySound ELSE {rt.src}

\* A stream started on a connected session hears its source and no other,
\* direct or through the relay, unless the flag is astray, the relay was kept
\* from another session, is dead and not yet noticed, or one of an earlier
\* worker still sends to the same address.
StreamHearsSession ==
  Quiet /\ up /\ ses.conn /\ ~torn /\ ~astray /\ ~kept /\ orphans = {} /\ (run => live)
    => EncoderInput = {ses.src}

\* Levels shown while nothing changes belong to the session: the meter is
\* silent after a disconnect, and a held level does not outlive a change of
\* source, although monitorInputLevels writes what it measured before.
MeterOfSession ==
  Open = {} /\ npc = "sample" /\ ~moved /\ ~torn /\ rt.level # NoSource =>
    /\ ses.conn
    /\ ses.src \in Rtp => rt.level = ses.src
    /\ ses.src \in Srt => rt.level \in Srt

(* The files tell the truth at rest: the same session twice, and whether    *)
(* the relay runs.                                                          *)
FilesTrue == FilesAgree /\ FlagTrue

(* Relay, streams and meter follow the session.                             *)
SessionFollowed == RelayFollowsSession /\ StreamHearsSession /\ MeterOfSession
=============================================================================
