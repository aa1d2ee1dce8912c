------------------------------ MODULE BreakRange ------------------------------
(***************************************************************************)
(* The SCTE break of one encoder, as the HLS playlist shows it.  It is     *)
(* kept twice: in metadata_runtime.json, which the playlist server reads,  *)
(* and in m_hlsScteRange, which the next update starts from unless it is   *)
(* empty.  The control thread and the cue thread of the worker update it;  *)
(* other worker threads rewrite the file under g_metadataRuntimeFileMutex  *)
(* for fields of their own; the cue thread's writeScteRuntime does so in   *)
(* place and without the mutex; connection threads of the supervisor read  *)
(* the file, talk to the worker and rename a new one over it.              *)
(*                                                                         *)
(* A break is its event and the clock readings of its two ends; the other  *)
(* fields of the file, and the cue texts, are left out.  A file without    *)
(* the break's fields, an empty one included, reads as NoRange.            *)
(***************************************************************************)
EXTENDS Integers, FiniteSets

CONSTANTS
  Handlers,   \* connection threads of the supervisor
  Events,     \* event ids
  NoEvent,
  MaxTime,    \* bound on the clock
  MaxActions, \* bound on the SCTE actions executed
  MaxNotes,   \* bound on the cues refused and the updates of other fields
  MaxCrashes  \* bound on restarts of the worker

ASSUME RangeAssumption ==
  /\ NoEvent \notin Events
  /\ MaxTime \in Nat \ {0} /\ MaxActions \in Nat /\ MaxNotes \in Nat /\ MaxCrashes \in Nat

Executors == {"control", "cue"}
Actions   == {"START_BREAK", "END_BREAK", "LEGAL_ID"}
Open      == 0
NoRange   == [ev |-> NoEvent, start |-> 0, end |-> Open]
Ranges    == [ev : Events \cup {NoEvent}, start : 0..MaxTime, end : 0..MaxTime]

VARIABLES
  now,
  file, mem,          \* the range in the file and in m_hlsScteRange
  lock,               \* holder of g_metadataRuntimeFileMutex
  pc, act, ev, at,    \* of each executor: place, action, event, clock reading
  new,                \* of each executor: the range of its update
  note, stream, then, \* writeScteRuntime: copy, open file, where the thread goes on
  keep,               \* copy of a worker thread that updates other fields
  hpc, copy,          \* of each handler: place, copy of the file
  latest, lastStart,  \* history: range of the last update, event of a START not ended
  closed,             \* history: of the last END, the event closed and the one due
  both,               \* history: two executors were in an update at once
  causes,             \* history since the last update: what damaged the file
  emptied,            \* history: memory was emptied and not set again
  actions, notes, crashes

execVars == <<pc, act, ev, at, new>>
noteVars == <<note, stream, then>>
apiVars  == <<hpc, copy>>
history  == <<latest, lastStart, closed, both, causes, emptied>>
bounds   == <<actions, notes, crashes>>
vars     == <<now, file, mem, lock, execVars, noteVars, keep, apiVars, history, bounds>>

NothingClosed == [got |-> NoEvent, due |-> NoEvent, blind |-> FALSE]

Init ==
  /\ now = 1
  /\ file = NoRange /\ mem = NoRange /\ lock = "none"
  /\ pc = [t \in Executors |-> "idle"]
  /\ act = [t \in Executors |-> "LEGAL_ID"] /\ ev = [t \in Executors |-> NoEvent]
  /\ at = [t \in Executors |-> 0] /\ new = [t \in Executors |-> NoRange]
  /\ note = NoRange /\ stream = "none" /\ then = "idle" /\ keep = NoRange
  /\ hpc = [h \in Handlers |-> "idle"] /\ copy = [h \in Handlers |-> NoRange]
  /\ latest = NoRange /\ lastStart = NoEvent /\ closed = NothingClosed
  /\ both = FALSE /\ causes = {} /\ emptied = FALSE
  /\ actions = 0 /\ notes = 0 /\ crashes = 0

Updating(t) == pc[t] \in {"read", "rename", "mem"}

\* A rename puts a new file under the name; an open stream keeps the old one.
Detached == IF stream = "live" THEN "moved" ELSE stream

\* What a reader that comes while the file is truncated gives as reason.
Torn == IF stream = "live" THEN {"torn"} ELSE {}

Stale(range, writer) == IF range = latest THEN {} ELSE {writer}

Tick ==
  /\ now < MaxTime
  /\ now' = now + 1
  /\ UNCHANGED <<file, mem, lock, execVars, noteVars, keep, apiVars, history, bounds>>

\* The locals of a call are gone when it returns.
Forget(ts) ==
  /\ act' = [t \in Executors |-> IF t \in ts THEN "LEGAL_ID" ELSE act[t]]
  /\ ev'  = [t \in Executors |-> IF t \in ts THEN NoEvent ELSE ev[t]]
  /\ at'  = [t \in Executors |-> IF t \in ts THEN 0 ELSE at[t]]
  /\ new' = [t \in Executors |-> IF t \in ts THEN NoRange ELSE new[t]]

-----------------------------------------------------------------------------
(* persistHlsScteRangeState, on an executor.                                *)

\* Mutant: the end of the break before stays.
StartedKeepsEnd(r, e, t) == [r EXCEPT !.ev = e, !.start = t]

Started(r, e, t) == [r EXCEPT !.ev = e, !.start = t, !.end = Open]

\* An END without a break makes one of its own.
Ended(r, e, t) ==
  [ev    |-> IF r.ev = NoEvent THEN e ELSE r.ev,
   start |-> IF r.start = 0 THEN t ELSE r.start,
   end   |-> t]

\* Mutant: the update starts from the file.
BaseFile == file

\* The update starts from memory, from the file when memory has no break.
Base == IF mem.ev # NoEvent THEN mem ELSE file

\* Mutant: the early return is missing, the fields are written all the same.
UpdatedAlways(t) ==
  CASE act[t] = "START_BREAK" -> Started(Base, ev[t], at[t])
    [] act[t] = "END_BREAK"   -> Ended(Base, ev[t], at[t])
    [] OTHER                  -> mem

\* An action that is neither START nor END leaves the file as it was read.
Updated(t) ==
  CASE act[t] = "START_BREAK" -> Started(Base, ev[t], at[t])
    [] act[t] = "END_BREAK"   -> Ended(Base, ev[t], at[t])
    [] OTHER                  -> file

\* The action begins: the clock is read before any lock is taken.
Begin(t, a, e) ==
  /\ pc' = [pc EXCEPT ![t] = "read"]
  /\ act' = [act EXCEPT ![t] = a] /\ ev' = [ev EXCEPT ![t] = e] /\ at' = [at EXCEPT ![t] = now]
  /\ both' = (both \/ \E u \in Executors \ {t} : Updating(u))
  /\ UNCHANGED <<now, file, mem, lock, new, noteVars, keep, copy, latest, lastStart, closed, causes,
                 emptied, notes, crashes>>

\* mutateMetadataRuntimeState: lock, read, compute.
Read(t) ==
  LET r == Updated(t) IN
  /\ pc[t] = "read" /\ lock = "none"
  /\ lock' = t
  /\ new' = [new EXCEPT ![t] = r]
  /\ pc' = [pc EXCEPT ![t] = "rename"]
  /\ closed' = IF act[t] = "END_BREAK" /\ lastStart # NoEvent
               THEN [got |-> r.ev, due |-> lastStart, blind |-> mem = NoRange /\ file # latest]
               ELSE closed
  /\ causes' = causes \cup Torn
  /\ UNCHANGED <<now, file, mem, act, ev, at, noteVars, keep, apiVars, latest, lastStart, both,
                 emptied, bounds>>

\* Mutant: the mutex stays locked when nothing was to be written.
RenameKeepsLock(t) ==
  /\ pc[t] = "rename"
  /\ file' = new[t] /\ lock' = (IF act[t] = "LEGAL_ID" THEN t ELSE "none") /\ stream' = Detached
  /\ pc' = [pc EXCEPT ![t] = "mem"]
  /\ latest' = IF act[t] = "LEGAL_ID" THEN latest ELSE new[t]
  /\ lastStart' = CASE act[t] = "START_BREAK" -> ev[t]
                    [] act[t] = "END_BREAK"   -> NoEvent
                    [] OTHER                  -> lastStart
  /\ causes' = IF act[t] = "LEGAL_ID" THEN causes ELSE {}
  /\ UNCHANGED <<now, mem, act, ev, at, new, note, then, keep, apiVars, closed, both, emptied, bounds>>

\* The new file is in place, the mutex is free.
Rename(t) ==
  /\ pc[t] = "rename"
  /\ file' = new[t] /\ lock' = "none" /\ stream' = Detached
  /\ pc' = [pc EXCEPT ![t] = "mem"]
  /\ latest' = IF act[t] = "LEGAL_ID" THEN latest ELSE new[t]
  /\ lastStart' = CASE act[t] = "START_BREAK" -> ev[t]
                    [] act[t] = "END_BREAK"   -> NoEvent
                    [] OTHER                  -> lastStart
  /\ causes' = IF act[t] = "LEGAL_ID" THEN causes ELSE {}
  /\ UNCHANGED <<now, mem, act, ev, at, new, note, then, keep, apiVars, closed, both, emptied, bounds>>

\* Mutant: a break that has ended stays open in memory.
RememberedOpen(t) == IF act[t] = "LEGAL_ID" THEN NoRange ELSE [new[t] EXCEPT !.end = Open]

\* What memory gets: the range of the update, or an empty one.
Remembered(t) == IF act[t] = "LEGAL_ID" THEN NoRange ELSE new[t]

\* Memory follows, outside the mutex.  The control thread acknowledges, the
\* cue thread goes on to note what was sent.
Remember(t) ==
  /\ pc[t] = "mem"
  /\ Forget({t})
  /\ mem' = Remembered(t)
  /\ emptied' = (act[t] = "LEGAL_ID")
  /\ pc' = [pc EXCEPT ![t] = IF t = "cue" THEN "noteRead" ELSE "idle"]
  /\ then' = IF t = "cue" THEN "idle" ELSE then
  /\ hpc' = [h \in Handlers |-> IF t = "control" /\ hpc[h] = "wait" THEN "acked" ELSE hpc[h]]
  /\ UNCHANGED <<now, file, lock, note, stream, keep, copy, latest, lastStart, closed, both, causes,
                 bounds>>

-----------------------------------------------------------------------------
(* The cue thread around an action: writeScteRuntime.                       *)

\* A cue by TCP: what was received is noted before a matching one is
\* executed; one without a match or with passthrough off has its refusal noted
\* as well, one refused earlier only that.
CueArrives(next) ==
  /\ pc["cue"] = "idle"
  /\ pc' = [pc EXCEPT !["cue"] = "noteRead"]
  /\ then' = next
  /\ IF next = "execute" THEN actions < MaxActions /\ actions' = actions + 1 /\ UNCHANGED notes
                         ELSE notes < MaxNotes /\ notes' = notes + 1 /\ UNCHANGED actions
  /\ UNCHANGED <<now, file, mem, lock, act, ev, at, new, note, stream, keep, apiVars, history, crashes>>

NoteRead ==
  /\ pc["cue"] = "noteRead"
  /\ note' = file
  /\ pc' = [pc EXCEPT !["cue"] = "noteOpen"]
  /\ UNCHANGED <<now, file, mem, lock, act, ev, at, new, stream, then, keep, apiVars, history, bounds>>

\* std::ofstream with trunc: the file is empty from here on.
NoteOpen ==
  /\ pc["cue"] = "noteOpen"
  /\ file' = NoRange /\ stream' = "live"
  /\ pc' = [pc EXCEPT !["cue"] = "noteWrite"]
  /\ UNCHANGED <<now, mem, lock, act, ev, at, new, note, then, keep, apiVars, history, bounds>>

NoteWrite ==
  /\ pc["cue"] = "noteWrite"
  /\ IF stream = "live"
     THEN file' = note /\ causes' = causes \cup Stale(note, "cue")
     ELSE UNCHANGED <<file, causes>>
  /\ stream' = "none" /\ note' = NoRange /\ then' = "idle"
  /\ pc' = [pc EXCEPT !["cue"] = then]
  /\ UNCHANGED <<now, mem, lock, act, ev, at, new, keep, apiVars, latest, lastStart,
                 closed, both, emptied, bounds>>

CueExecutes(a, e) ==
  /\ pc["cue"] = "execute"
  /\ Begin("cue", a, e)
  /\ UNCHANGED <<hpc, actions>>

-----------------------------------------------------------------------------
(* Worker threads that update other fields of the file under the mutex.     *)

OtherRead ==
  /\ lock = "none" /\ notes < MaxNotes
  /\ lock' = "other" /\ keep' = file
  /\ causes' = causes \cup Torn
  /\ notes' = notes + 1
  /\ UNCHANGED <<now, file, mem, execVars, noteVars, apiVars, latest, lastStart, closed, both, emptied,
                 actions, crashes>>

OtherWrite ==
  /\ lock = "other"
  /\ file' = keep /\ keep' = NoRange /\ lock' = "none" /\ stream' = Detached
  /\ UNCHANGED <<now, mem, execVars, note, then, apiVars, history, bounds>>

-----------------------------------------------------------------------------
(* POST cue, on a connection thread of the supervisor.                      *)

HandlerRead(h) ==
  /\ hpc[h] = "idle" /\ notes < MaxNotes
  /\ copy' = [copy EXCEPT ![h] = file]
  /\ hpc' = [hpc EXCEPT ![h] = "send"]
  /\ notes' = notes + 1
  /\ UNCHANGED <<now, file, mem, lock, execVars, noteVars, keep, history, actions, crashes>>

\* The command reaches the control thread, which takes one at a time.
HandlerSend(h, a, e) ==
  /\ hpc[h] = "send" /\ pc["control"] = "idle" /\ actions < MaxActions
  /\ hpc' = [hpc EXCEPT ![h] = "wait"]
  /\ Begin("control", a, e)
  /\ actions' = actions + 1

\* A command of a client that no longer waits: it timed out while the control
\* thread was busy, or connected to the control port by itself.
ControlExecutes(a, e) ==
  /\ pc["control"] = "idle" /\ actions < MaxActions
  /\ Begin("control", a, e)
  /\ actions' = actions + 1
  /\ UNCHANGED hpc

\* No match, passthrough off, send failed, or no ACK within the limit: the
\* copy read at the beginning is the one to be written.
HandlerGivesUp(h) ==
  /\ hpc[h] \in {"send", "wait"}
  /\ hpc' = [hpc EXCEPT ![h] = "write"]
  /\ UNCHANGED <<now, file, mem, lock, execVars, noteVars, keep, copy, history, bounds>>

\* After the ACK the file is read again.
HandlerRereads(h) ==
  /\ hpc[h] = "acked"
  /\ copy' = [copy EXCEPT ![h] = file]
  /\ hpc' = [hpc EXCEPT ![h] = "write"]
  /\ UNCHANGED <<now, file, mem, lock, execVars, noteVars, keep, history, bounds>>

HandlerWrites(h) ==
  /\ hpc[h] = "write"
  /\ file' = copy[h] /\ stream' = Detached
  /\ causes' = causes \cup Stale(copy[h], "handler")
  /\ hpc' = [hpc EXCEPT ![h] = "idle"] /\ copy' = [copy EXCEPT ![h] = NoRange]
  /\ UNCHANGED <<now, mem, lock, execVars, note, then, keep, latest, lastStart, closed, both,
                 emptied, bounds>>

-----------------------------------------------------------------------------
\* The worker process ends anywhere and a new one starts without memory; the
\* connection of a waiting handler breaks.
WorkerRestarts ==
  /\ crashes < MaxCrashes
  /\ mem' = NoRange /\ lock' = "none" /\ emptied' = TRUE
  /\ pc' = [t \in Executors |-> "idle"] /\ Forget(Executors)
  /\ stream' = "none" /\ note' = NoRange /\ then' = "idle" /\ keep' = NoRange
  /\ causes' = causes \cup Torn
  /\ crashes' = crashes + 1
  /\ hpc' = [h \in Handlers |-> IF hpc[h] = "wait" THEN "write" ELSE hpc[h]]
  /\ UNCHANGED <<now, file, copy, latest, lastStart, closed, both, actions, notes>>

\* Nobody is in the middle of anything.
Quiet ==
  /\ \A t \in Executors : pc[t] = "idle"
  /\ \A h \in Handlers : hpc[h] = "idle"
  /\ lock = "none"
  /\ UNCHANGED vars

Next ==
  \/ Tick \/ Quiet
  \/ \E t \in Executors : Read(t) \/ Rename(t) \/ Remember(t)
  \/ \E next \in {"execute", "noteRead", "idle"} : CueArrives(next)
  \/ NoteRead \/ NoteOpen \/ NoteWrite
  \/ \E a \in Actions, e \in Events : CueExecutes(a, e) \/ ControlExecutes(a, e)
  \/ OtherRead \/ OtherWrite
  \/ \E h \in Handlers :
       \/ HandlerRead(h) \/ HandlerGivesUp(h) \/ HandlerRereads(h) \/ HandlerWrites(h)
       \/ \E a \in Actions, e \in Events : HandlerSend(h, a, e)
  \/ WorkerRestarts

Spec == Init /\ [][Next]_vars

-----------------------------------------------------------------------------
(* Properties.                                                              *)

RangesOK ==
  /\ file \in Ranges /\ mem \in Ranges /\ note \in Ranges /\ keep \in Ranges /\ latest \in Ranges
  /\ new \in [Executors -> Ranges] /\ copy \in [Handlers -> Ranges]

CallsOK ==
  /\ act \in [Executors -> Actions] /\ ev \in [Executors -> Events \cup {NoEvent}]
  /\ at \in [Executors -> 0..MaxTime]

PlacesOK ==
  /\ pc \in [Executors -> {"idle", "noteRead", "noteOpen", "noteWrite", "execute",
                           "read", "rename", "mem"}]
  /\ lock \in Executors \cup {"none", "other"}
  /\ \A t \in Executors : lock = t <=> pc[t] = "rename"
  /\ stream \in {"none", "live", "moved"} /\ then \in {"idle", "noteRead", "execute"}
  /\ hpc \in [Handlers -> {"idle", "send", "wait", "acked", "write"}]

HistoryOK ==
  /\ now \in 1..MaxTime /\ lastStart \in Events \cup {NoEvent}
  /\ closed \in [got : Events \cup {NoEvent}, due : Events \cup {NoEvent}, blind : BOOLEAN]
  /\ both \in BOOLEAN /\ emptied \in BOOLEAN /\ causes \subseteq {"torn", "cue", "handler"}
  /\ actions \in 0..MaxActions /\ notes \in 0..MaxNotes /\ crashes \in 0..MaxCrashes

TypeOK == RangesOK /\ CallsOK /\ PlacesOK /\ HistoryOK

\* The writers that take the mutex never lose the break: the file differs
\* from the last update only by a stale copy of the cue thread's
\* writeScteRuntime or of a connection thread, or because it was read, or is,
\* in the state writeScteRuntime leaves between opening and writing.
RangeLossExplained == file # latest => causes # {} \/ stream = "live"

\* Memory makes up for a damaged file: an END closes the break of the last
\* START, whatever has become of the file, unless two executors were in an
\* update at once, or memory was empty (a restart, or an action that is
\* neither START nor END) when the file was damaged.
EndClosesLastStart == closed.got = closed.due \/ closed.blind \/ both

\* Between updates memory is the last update, or empty for one of the two
\* known reasons; only overlapping updates leave an older range in it.
MemoryCurrent ==
  ~both /\ (\A t \in Executors : ~Updating(t)) =>
    mem = latest \/ (mem = NoRange /\ emptied)

\* A break that playlists show does not end before it starts, unless two
\* executors took their clock readings and the mutex in opposite order.
EndNotBeforeStart == file.end # Open => file.end >= file.start \/ both

(* An END closes the break it is meant for, not before its start.           *)
EndMatchesStart == EndClosesLastStart /\ EndNotBeforeStart

(* File and memory hold the last update, each with its own exceptions.      *)
BreakKept == RangeLossExplained /\ MemoryCurrent
=============================================================================
