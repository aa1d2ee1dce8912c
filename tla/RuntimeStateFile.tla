-------------------------- MODULE RuntimeStateFile --------------------------
(***************************************************************************)
(* runtime_state.json, shared by two processes.  Both update it by reading *)
(* the whole file, setting their fields, writing a temporary file and      *)
(* renaming it: the worker's threads under m_rtMutex with ".wk.tmp"        *)
(* (worker.cpp), the supervisor's connection threads without any mutex     *)
(* with one ".sv.tmp" (supervisor_api.cpp).                                *)
(*                                                                         *)
(* A step is one system call.  Every writer owns one field; a field is a   *)
(* version number, 0 when absent.  A file has one of three names; an open  *)
(* stream stays on its file when a rename moves the file to another name,  *)
(* and when it takes the last name away.  The text fits the stream's       *)
(* buffer: it is written when the stream closes.                           *)
(***************************************************************************)
EXTENDS Naturals, FiniteSets

CONSTANTS
  Workers,      \* updating threads of the worker
  Periodic,     \* those that publish again and again: run and the level monitor
  Supervisors,  \* connection threads of the supervisor
  NoFile,       \* contents of a name that does not exist
  NoThread, Empty,
  MaxUpdates    \* bound on the changes of a field

Writers == Workers \cup Supervisors
Sides   == {"wk", "sv"}                 \* the temporary names
Names   == Sides \cup {"path"}
Side(w) == IF w \in Workers THEN "wk" ELSE "sv"
States  == [Writers -> 0..MaxUpdates]   \* parsed contents of the file
Absent  == [w \in Writers |-> 0]

ASSUME FileAssumption ==
  /\ Workers \cap Supervisors = {} /\ NoThread \notin Workers /\ Periodic \subseteq Workers
  /\ NoFile \notin States \cup {Empty} /\ Empty \notin States
  /\ MaxUpdates \in Nat

VARIABLES
  text,     \* what the file of each name holds
  rtLock,   \* owner of m_rtMutex
  pc, copy, fd,  \* of each writer: place, object in memory, where its open stream leads
  value,    \* the current value of each writer's field
  met       \* history: the pairs of writers whose updates overlapped

vars == <<text, rtLock, pc, copy, fd, value, met>>

Init ==
  /\ text = [n \in Names |-> IF n = "path" THEN Absent ELSE NoFile]
  /\ rtLock = NoThread
  /\ pc = [w \in Writers |-> "idle"]
  /\ copy = [w \in Writers |-> Absent]
  /\ fd = [w \in Writers |-> "closed"]
  /\ value = Absent
  /\ met = {}

Goto(w, from, to) ==
  /\ pc[w] = from
  /\ pc' = [pc EXCEPT ![w] = to]

\* The worker's state changed, or the supervisor got a request for its field.
Change(w) ==
  /\ value[w] < MaxUpdates
  /\ Goto(w, "idle", IF w \in Workers THEN "lock" ELSE "read")
  /\ value' = [value EXCEPT ![w] = @ + 1]
  /\ UNCHANGED <<text, rtLock, copy, fd, met>>

\* What has not changed is published again: flags, states and the heartbeat by
\* publishStreamHealth, which run calls, the levels and the input's warning by
\* monitorInputLevels in every round.  The relay's fields are not: a command
\* or the poll publishes them once, when the relay starts, stops or dies.
Heartbeat(w) ==
  /\ w \in Periodic
  /\ Goto(w, "idle", "lock")
  /\ UNCHANGED <<text, rtLock, copy, fd, value, met>>

\* Mutant: the file is read before m_rtMutex is taken.
LockAfterRead(w) ==
  /\ Goto(w, "lock", "read")
  /\ UNCHANGED <<text, rtLock, copy, fd, value, met>>

\* lock_guard lk(m_rtMutex).
Lock(w) ==
  /\ rtLock = NoThread
  /\ Goto(w, "lock", "read")
  /\ rtLock' = w
  /\ UNCHANGED <<text, copy, fd, value, met>>

\* readRuntimeState, an empty file giving an empty object; then the setters.
Read(w) ==
  LET old == IF text["path"] = Empty THEN Absent ELSE text["path"]
      others == {v \in Writers \ {w} : pc[v] \in {"open", "write", "rename"}} IN
  /\ Goto(w, "read", "open")
  /\ copy' = [copy EXCEPT ![w] = [old EXCEPT ![w] = value[w]]]
  /\ met' = met \cup {{v, w} : v \in others}
  /\ UNCHANGED <<text, rtLock, fd, value>>

\* Mutant: the file itself is truncated and rewritten.
OpenInPlace(w) ==
  /\ Goto(w, "open", "write")
  /\ text' = [text EXCEPT !["path"] = Empty]
  /\ fd' = [fd EXCEPT ![w] = "path"]
  /\ UNCHANGED <<rtLock, copy, value, met>>

\* ofstream f(tmpPath, trunc): a new file, or the existing one emptied.
Open(w) ==
  /\ Goto(w, "open", "write")
  /\ text' = [text EXCEPT ![Side(w)] = Empty]
  /\ fd' = [fd EXCEPT ![w] = Side(w)]
  /\ UNCHANGED <<rtLock, copy, value, met>>

\* Mutant: the stream is flushed but left open.
WriteKeepsOpen(w) ==
  /\ Goto(w, "write", "rename")
  /\ text' = IF fd[w] \in Names THEN [text EXCEPT ![fd[w]] = copy[w]] ELSE text
  /\ copy' = [copy EXCEPT ![w] = Absent]
  /\ UNCHANGED <<rtLock, fd, value, met>>

\* The stream is flushed and closed; a file without a name is lost with it.
Write(w) ==
  /\ Goto(w, "write", "rename")
  /\ text' = IF fd[w] \in Names THEN [text EXCEPT ![fd[w]] = copy[w]] ELSE text
  /\ fd' = [fd EXCEPT ![w] = "closed"]
  /\ copy' = [copy EXCEPT ![w] = Absent]
  /\ UNCHANGED <<rtLock, value, met>>

\* Mutant: the renamed file is forgotten.
RenameForgotten(w) ==
  /\ Goto(w, "rename", "idle")
  /\ rtLock' = IF w \in Workers THEN NoThread ELSE rtLock
  /\ UNCHANGED <<text, copy, fd, value, met>>

\* Where a stream leads after the temporary file of side s took the name.
AfterRename(s, to) == CASE to = s      -> "path"
                        [] to = "path" -> "unlinked"
                        [] OTHER       -> to

\* fs::rename; when another thread has renamed the temporary file already, the
\* call fails and so does the fallback copy.  The worker's mutex is released.
Rename(w) ==
  LET s == Side(w) IN
  /\ Goto(w, "rename", "idle")
  /\ IF text[s] = NoFile
     THEN UNCHANGED <<text, fd>>
     ELSE /\ text' = [text EXCEPT !["path"] = text[s], ![s] = NoFile]
          /\ fd' = [v \in Writers |-> AfterRename(s, fd[v])]
  /\ rtLock' = IF w \in Workers THEN NoThread ELSE rtLock
  /\ UNCHANGED <<copy, value, met>>

-----------------------------------------------------------------------------
WriterStep(w) == Lock(w) \/ Read(w) \/ Open(w) \/ Write(w) \/ Rename(w)

Next == \E w \in Writers : Change(w) \/ Heartbeat(w) \/ WriterStep(w)

Spec == Init /\ [][Next]_vars

(* A thread that began finishes, whoever wants m_rtMutex, and the loops of   *)
(* run and monitorInputLevels come round again and again.                    *)
Fairness == /\ \A w \in Writers  : SF_vars(WriterStep(w))
            /\ \A w \in Periodic : WF_vars(Heartbeat(w))

FairSpec == Spec /\ Fairness

-----------------------------------------------------------------------------
(* Properties.                                                              *)

TypeOK ==
  /\ text \in [Names -> States \cup {Empty, NoFile}] /\ text["path"] # NoFile
  /\ rtLock \in Workers \cup {NoThread}
  /\ pc \in [Writers -> {"idle", "lock", "read", "open", "write", "rename"}]
  /\ copy \in [Writers -> States] /\ fd \in [Writers -> Names \cup {"unlinked", "closed"}]
  /\ \A w \in Writers : pc[w] = "write" <=> fd[w] # "closed"
  /\ value \in States
  /\ met \subseteq SUBSET Writers

\* Two connection threads of the supervisor updated the file at the same time.
SupervisorsMet == \E v, w \in Supervisors : v # w /\ {v, w} \in met

(* The file is complete at every moment, whatever the worker's threads and  *)
(* one connection thread do: only two connection threads at a time, who     *)
(* share a temporary file, can make a reader find it empty.                 *)
EmptyOnlyBySupervisors == text["path"] = Empty => SupervisorsMet

(* Which changes get lost.  When nobody is updating the file and a field in *)
(* it is not the value its writer last stored, then the writer's update     *)
(* overlapped another one, or two connection threads overlapped.  So no     *)
(* change is lost among the worker's threads, and none to an earlier or a   *)
(* later update of the other process.                                       *)
LossesExplained ==
  (\A w \in Writers : pc[w] = "idle") /\ ~SupervisorsMet =>
    \A w \in Writers : text["path"][w] # value[w] =>
      \E v \in Writers : {v, w} \in met /\ Side(v) # Side(w)

(* What the worker publishes again and again comes back: when another writer *)
(* took an update of the health or of the levels out of the file, a later    *)
(* publication repairs it.  Nothing repairs what is published on a change    *)
(* only, srtRelayActive, srtRelayPort and srtRelayAddr (worker.cpp:2590,     *)
(* 2770, 2787): InputSession says what a flag that went astray does.         *)
WorkerFieldsRepaired ==
  \A w \in Periodic : []<>(text["path"] # Empty /\ text["path"][w] = value[w])

=============================================================================
