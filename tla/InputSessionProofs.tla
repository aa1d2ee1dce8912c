------------------------- MODULE InputSessionProofs -------------------------
(***************************************************************************)
(* Theorems about InputSession, for any sources, requests and bounds.      *)
(***************************************************************************)
EXTENDS InputSession, TLAPS

(* The command being executed stays at the head of the queue, and whoever   *)
(* holds m_rtMutex is at the place where it was taken.                      *)
ControlInv ==
  /\ cpc # "idle" => queue # <<>>
  /\ holder = "control" => cpc # "idle"
  /\ holder = "main" => mpc = "off"
  /\ holder = "monitor" => npc = "note"

TypeInv == TypeOK /\ ControlInv

(* What the types need of the constants. *)
LEMMA Nothing == NoSource \in Source0 /\ NoRuntime \in Runtimes
  BY DEF NoRuntime, Runtimes, Source0

LEMMA Someone ==
  /\ \A s \in Source0 : s # NoSource => s \in Sources
  /\ \A s \in Sources : s \in Source0 /\ s # NoSource
  /\ \A s : SrtOf(s) \in Sources
  BY SessionAssumption DEF Source0, Sources, SrtOf

(* Whoever writes the file changes fields of an object of the right type. *)
LEMMA Fields ==
  ASSUME NEW x \in Runtimes, NEW b \in BOOLEAN, NEW s \in Source0
  PROVE  /\ [x EXCEPT !.relay = b] \in Runtimes /\ [x EXCEPT !.conn = b] \in Runtimes
         /\ [x EXCEPT !.level = s] \in Runtimes
         /\ [x EXCEPT !.conn = b, !.src = s, !.level = NoSource] \in Runtimes
  BY Nothing DEF Runtimes

(* Types and ControlInv are inductive together: the head of the queue must  *)
(* exist when the command is answered.                                      *)
LEMMA TypeInvariant == Spec => []TypeInv
<1>1. Init => TypeInv
  <2> SUFFICES ASSUME Init PROVE TypeInv
    OBVIOUS
  <2>1. FilesOK /\ RequestsOK
    BY Nothing DEF Init, FilesOK, RequestsOK, Places
  <2>2. RelayOK
    BY Nothing DEF Init, RelayOK
  <2>3. downs \in 0..MaxDowns
    BY SessionAssumption DEF Init
  <2>4. ThreadsOK
    BY <2>3, Nothing DEF Init, ThreadsOK
  <2> QED
    BY <2>1, <2>2, <2>4 DEF Init, TypeInv, TypeOK, ControlInv
<1>2. TypeInv /\ [Next]_vars => TypeInv'
  <2> SUFFICES ASSUME TypeInv, [Next]_vars PROVE TypeInv'
    OBVIOUS
  <2> USE Nothing DEF TypeInv, TypeOK
  <2> USE DEF vars, reqVars, relayVars, monVars, lockVars, histVars
  <2>1. ASSUME NEW r \in Requests, NEW s \in Source0, Arrive(r, s) PROVE TypeInv'
    <3>1. RequestsOK'
      BY <2>1 DEF Arrive, Goto, RequestsOK, Places, ControlInv
    <3>2. ThreadsOK'
      BY <2>1 DEF Arrive, Goto, ThreadsOK
    <3>3. FilesOK' /\ RelayOK' /\ ControlInv'
      BY <2>1 DEF Arrive, Goto, FilesOK, RelayOK, ControlInv
    <3> QED
      BY <3>1, <3>2, <3>3
  <2>2. ASSUME NEW r \in Requests, ReadRuntime(r) PROVE TypeInv'
    <3>1. FilesOK'
      BY <2>2 DEF ReadRuntime, Goto, FilesOK
    <3>2. RequestsOK' /\ RelayOK' /\ ThreadsOK' /\ ControlInv'
      BY <2>2 DEF ReadRuntime, Goto, RequestsOK, Places, ControlInv, RelayOK, ThreadsOK
    <3> QED
      BY <3>1, <3>2
  <2>3. ASSUME NEW r \in Requests, ConnectWrite(r) PROVE TypeInv'
    <3>1. FilesOK'
      <4>1. copy[r] \in Runtimes /\ want[r] \in Source0
        BY DEF FilesOK, RequestsOK
      <4>2. [copy[r] EXCEPT !.conn = TRUE, !.src = want[r], !.level = NoSource] \in Runtimes
        BY <4>1, Fields
      <4> QED
        BY <2>3, <4>2 DEF ConnectWrite, WriteRuntime, FilesOK
    <3>2. RequestsOK'
      BY <2>3 DEF ConnectWrite, Goto, WriteRuntime, RequestsOK, Places, ControlInv
    <3>3. ThreadsOK'
      BY <2>3 DEF ConnectWrite, Goto, WriteRuntime, ThreadsOK
    <3>4. RelayOK' /\ ControlInv'
      BY <2>3 DEF ConnectWrite, Goto, WriteRuntime, RelayOK, ControlInv
    <3> QED
      BY <3>1, <3>2, <3>3, <3>4
  <2>4. ASSUME NEW r \in Requests, ConnectSession(r) PROVE TypeInv'
    <3>1. FilesOK'
      <4>1. want[r] \in Source0
        BY DEF RequestsOK
      <4> QED
        BY <2>4, <4>1 DEF ConnectSession, FilesOK
    <3>2. RequestsOK' /\ RelayOK' /\ ThreadsOK' /\ ControlInv'
      BY <2>4 DEF ConnectSession, Goto, RequestsOK, Places, ControlInv, RelayOK, ThreadsOK
    <3> QED
      BY <3>1, <3>2
  <2>5. ASSUME NEW r \in Requests, FreshEnough(r) PROVE TypeInv'
    <3>1. FilesOK' /\ RequestsOK' /\ RelayOK' /\ ThreadsOK' /\ ControlInv'
      BY <2>5 DEF FreshEnough, End, Goto, FilesOK, RequestsOK, Places, ControlInv, RelayOK,
           ThreadsOK
    <3> QED
      BY <3>1
  <2>6. ASSUME NEW r \in Requests, StampAndLaunch(r) PROVE TypeInv'
    <3>1. FilesOK'
      BY <2>6 DEF StampAndLaunch, End, Goto, WriteRuntime, FilesOK
    <3>2. RequestsOK'
      BY <2>6 DEF StampAndLaunch, End, Goto, WriteRuntime, RequestsOK, Places, ControlInv
    <3>3. ThreadsOK'
      BY <2>6 DEF StampAndLaunch, End, Goto, WriteRuntime, ThreadsOK
    <3>4. RelayOK' /\ ControlInv'
      BY <2>6 DEF StampAndLaunch, End, Goto, WriteRuntime, RelayOK, ControlInv
    <3> QED
      BY <3>1, <3>2, <3>3, <3>4
  <2>7. ASSUME NEW r \in Requests, DisconnectWrite(r) PROVE TypeInv'
    <3>1. FilesOK'
      <4>1. copy[r] \in Runtimes
        BY DEF FilesOK
      <4>2. /\ [copy[r] EXCEPT !.relay = FALSE] \in Runtimes
            /\ [copy[r] EXCEPT !.conn = FALSE] \in Runtimes
            /\ [copy[r] EXCEPT !.level = NoSource] \in Runtimes
        BY <4>1, Fields
      <4> QED
        BY <2>7, <4>2 DEF DisconnectWrite, WriteRuntime, FilesOK
    <3>2. RequestsOK'
      BY <2>7 DEF DisconnectWrite, Goto, WriteRuntime, RequestsOK, Places, ControlInv
    <3>3. ThreadsOK'
      <4>1. /\ torn' \in BOOLEAN /\ astray' \in BOOLEAN
            /\ UNCHANGED <<moved, missed, kept>>
        BY <2>7 DEF DisconnectWrite, WriteRuntime
      <4> QED
        BY <2>7, <4>1 DEF DisconnectWrite, ThreadsOK
    <3>4. RelayOK' /\ ControlInv'
      BY <2>7 DEF DisconnectWrite, Goto, WriteRuntime, RelayOK, ControlInv
    <3> QED
      BY <3>1, <3>2, <3>3, <3>4
  <2>8. ASSUME NEW r \in Requests, ReadSession(r) PROVE TypeInv'
    <3>1. FilesOK'
      <4>1. [NoRuntime EXCEPT !.src = ses.src] \in Runtimes
        BY DEF FilesOK, Runtimes, NoRuntime
      <4> QED
        BY <2>8, <4>1 DEF ReadSession, FilesOK
    <3>2. RequestsOK' /\ RelayOK' /\ ThreadsOK' /\ ControlInv'
      BY <2>8 DEF ReadSession, Goto, RequestsOK, Places, ControlInv, RelayOK, ThreadsOK
    <3> QED
      BY <3>1, <3>2
  <2>9. ASSUME NEW r \in Requests, DisconnectSession(r) PROVE TypeInv'
    <3>1. FilesOK'
      <4>1. copy[r].src \in Source0
        BY DEF FilesOK, Runtimes
      <4> QED
        BY <2>9, <4>1 DEF DisconnectSession, End, FilesOK
    <3>2. RequestsOK' /\ RelayOK' /\ ThreadsOK' /\ ControlInv'
      BY <2>9 DEF DisconnectSession, End, Goto, RequestsOK, Places, ControlInv, RelayOK, ThreadsOK
    <3> QED
      BY <3>1, <3>2
  <2>10. ASSUME NEW r \in Requests, Refused(r) PROVE TypeInv'
    <3>1. FilesOK' /\ RequestsOK' /\ RelayOK' /\ ThreadsOK' /\ ControlInv'
      BY <2>10 DEF Refused, Goto, AfterCommand, FilesOK, RequestsOK, Places, ControlInv, RelayOK,
           ThreadsOK
    <3> QED
      BY <3>1
  <2>11. ASSUME NEW r \in Requests, Send(r) PROVE TypeInv'
    <3>1. RequestsOK'
      BY <2>11 DEF Send, Goto, RequestsOK, Places, ControlInv
    <3>2. FilesOK' /\ RelayOK' /\ ThreadsOK' /\ ControlInv'
      BY <2>11 DEF Send, Goto, FilesOK, RelayOK, ThreadsOK, ControlInv
    <3> QED
      BY <3>1, <3>2
  <2>12. ASSUME NEW r \in Requests, GivesUp(r) PROVE TypeInv'
    <3>1. FilesOK' /\ RequestsOK' /\ RelayOK' /\ ThreadsOK' /\ ControlInv'
      BY <2>12 DEF GivesUp, Goto, AfterCommand, FilesOK, RequestsOK, Places, ControlInv, RelayOK,
           ThreadsOK
    <3> QED
      BY <3>1
  <2>13. ASSUME StartFinds PROVE TypeInv'
    <3>1. RequestsOK'
      BY <2>13 DEF StartFinds, Command, Answer, AfterCommand, RequestsOK, Places, ControlInv
    <3>2. FilesOK' /\ RelayOK' /\ ThreadsOK' /\ ControlInv'
      BY <2>13 DEF StartFinds, Command, Answer, AfterCommand, FilesOK, RelayOK, ThreadsOK,
           ControlInv
    <3> QED
      BY <3>1, <3>2
  <2>14. ASSUME StartLaunches PROVE TypeInv'
    <3>1. RelayOK'
      <4>1. WithOrphan \subseteq Sources
        BY Someone DEF WithOrphan, RelayOK
      <4> QED
        BY <2>14, <4>1, Someone DEF StartLaunches, RelayOK
    <3>2. ThreadsOK'
      BY <2>14 DEF StartLaunches, Command, ThreadsOK
    <3>3. FilesOK' /\ RequestsOK' /\ ControlInv'
      BY <2>14 DEF StartLaunches, Command, FilesOK, RequestsOK, Places, ControlInv
    <3> QED
      BY <3>1, <3>2, <3>3
  <2>15. ASSUME StartFails PROVE TypeInv'
    <3>1. RequestsOK'
      BY <2>15 DEF StartFails, Command, Answer, AfterCommand, RequestsOK, Places, ControlInv
    <3>2. RelayOK'
      <4>1. WithOrphan \subseteq Sources
        BY Someone DEF WithOrphan, RelayOK
      <4> QED
        BY <2>15, <4>1 DEF StartFails, RelayOK
    <3>3. FilesOK' /\ ThreadsOK' /\ ControlInv'
      BY <2>15 DEF StartFails, Command, Answer, AfterCommand, FilesOK, ThreadsOK, ControlInv
    <3> QED
      BY <3>1, <3>2, <3>3
  <2>16. ASSUME StopKills PROVE TypeInv'
    <3>1. RelayOK'
      BY <2>16 DEF StopKills, Command, RelayOK
    <3>2. FilesOK' /\ RequestsOK' /\ ThreadsOK' /\ ControlInv'
      BY <2>16 DEF StopKills, Command, FilesOK, RequestsOK, Places, ControlInv, ThreadsOK
    <3> QED
      BY <3>1, <3>2
  <2>17. ASSUME ControlRead PROVE TypeInv'
    <3>1. FilesOK' /\ RequestsOK' /\ RelayOK' /\ ThreadsOK' /\ ControlInv'
      BY <2>17 DEF ControlRead, NoteRead, FilesOK, RequestsOK, Places, ControlInv, RelayOK,
           ThreadsOK
    <3> QED
      BY <3>1
  <2>18. ASSUME ControlWrite PROVE TypeInv'
    <3>1. FilesOK'
      <4>1. [wcopy EXCEPT !.relay = (cpc = "on")] \in Runtimes
        BY Fields DEF FilesOK
      <4> QED
        BY <2>18, <4>1 DEF ControlWrite, NoteWrite, FilesOK
    <3>2. RequestsOK'
      BY <2>18 DEF ControlWrite, NoteWrite, Answer, AfterCommand, RequestsOK, Places, ControlInv
    <3>3. RelayOK' /\ ThreadsOK' /\ ControlInv'
      BY <2>18 DEF ControlWrite, NoteWrite, Answer, AfterCommand, RelayOK, ThreadsOK, ControlInv
    <3> QED
      BY <3>1, <3>2, <3>3
  <2>19. ASSUME PollTest PROVE TypeInv'
    <3>1. FilesOK' /\ RequestsOK' /\ RelayOK' /\ ThreadsOK' /\ ControlInv'
      BY <2>19 DEF PollTest, FilesOK, RequestsOK, Places, ControlInv, RelayOK, ThreadsOK
    <3> QED
      BY <3>1
  <2>20. ASSUME PollDrop PROVE TypeInv'
    <3>1. RelayOK'
      <4>1. WithOrphan \subseteq Sources
        BY Someone DEF WithOrphan, RelayOK
      <4> QED
        BY <2>20, <4>1 DEF PollDrop, RelayOK
    <3>2. FilesOK' /\ RequestsOK' /\ ThreadsOK' /\ ControlInv'
      BY <2>20 DEF PollDrop, FilesOK, RequestsOK, Places, ControlInv, ThreadsOK
    <3> QED
      BY <3>1, <3>2
  <2>21. ASSUME PollClear PROVE TypeInv'
    <3>1. RelayOK'
      BY <2>21 DEF PollClear, RelayOK
    <3>2. FilesOK' /\ RequestsOK' /\ ThreadsOK' /\ ControlInv'
      BY <2>21 DEF PollClear, FilesOK, RequestsOK, Places, ControlInv, ThreadsOK
    <3> QED
      BY <3>1, <3>2
  <2>22. ASSUME PollRead PROVE TypeInv'
    <3>1. FilesOK' /\ RequestsOK' /\ RelayOK' /\ ThreadsOK' /\ ControlInv'
      BY <2>22 DEF PollRead, NoteRead, FilesOK, RequestsOK, Places, ControlInv, RelayOK, ThreadsOK
    <3> QED
      BY <3>1
  <2>23. ASSUME PollWrite PROVE TypeInv'
    <3>1. FilesOK'
      <4>1. [wcopy EXCEPT !.relay = FALSE] \in Runtimes
        BY Fields DEF FilesOK
      <4> QED
        BY <2>23, <4>1 DEF PollWrite, NoteWrite, FilesOK
    <3>2. RequestsOK'
      BY <2>23 DEF PollWrite, NoteWrite, RequestsOK, Places, ControlInv
    <3>3. ThreadsOK'
      BY <2>23 DEF PollWrite, NoteWrite, ThreadsOK
    <3>4. RelayOK' /\ ControlInv'
      BY <2>23 DEF PollWrite, NoteWrite, RelayOK, ControlInv
    <3> QED
      BY <3>1, <3>2, <3>3, <3>4
  <2>24. ASSUME MonitorSample PROVE TypeInv'
    <3>1. ThreadsOK'
      <4>1. RelaySound \subseteq Source0 /\ ses.src \in Source0
        BY Someone DEF RelaySound, RelayOK, FilesOK
      <4>2. LastMeter \in Source0
        BY DEF LastMeter, ThreadsOK
      <4>3. level' \in Source0 /\ held' \in Source0
        BY <2>24, <4>1, <4>2 DEF MonitorSample
      <4>4. SessionKey \in Source0 \cup {"none", "relay"}
        BY <4>1 DEF SessionKey
      <4> QED
        BY <2>24, <4>3, <4>4 DEF MonitorSample, ThreadsOK
    <3>2. FilesOK' /\ RequestsOK' /\ RelayOK' /\ ControlInv'
      BY <2>24 DEF MonitorSample, FilesOK, RequestsOK, Places, ControlInv, RelayOK
    <3> QED
      BY <3>1, <3>2
  <2>25. ASSUME MonitorRead PROVE TypeInv'
    <3>1. FilesOK' /\ RequestsOK' /\ RelayOK' /\ ThreadsOK' /\ ControlInv'
      BY <2>25 DEF MonitorRead, NoteRead, FilesOK, RequestsOK, Places, ControlInv, RelayOK,
           ThreadsOK
    <3> QED
      BY <3>1
  <2>26. ASSUME MonitorWrite PROVE TypeInv'
    <3>1. FilesOK'
      <4>1. [wcopy EXCEPT !.level = level] \in Runtimes
        BY Fields DEF FilesOK, ThreadsOK
      <4> QED
        BY <2>26, <4>1 DEF MonitorWrite, NoteWrite, FilesOK
    <3>2. RequestsOK'
      BY <2>26 DEF MonitorWrite, NoteWrite, RequestsOK, Places, ControlInv
    <3>3. ThreadsOK'
      BY <2>26 DEF MonitorWrite, NoteWrite, ThreadsOK
    <3>4. RelayOK' /\ ControlInv'
      BY <2>26 DEF MonitorWrite, NoteWrite, RelayOK, ControlInv
    <3> QED
      BY <3>1, <3>2, <3>3, <3>4
  <2>27. ASSUME RelayDies PROVE TypeInv'
    <3>1. RelayOK'
      BY <2>27 DEF RelayDies, RelayOK
    <3>2. FilesOK' /\ RequestsOK' /\ ThreadsOK' /\ ControlInv'
      BY <2>27 DEF RelayDies, FilesOK, RequestsOK, Places, ControlInv, ThreadsOK
    <3> QED
      BY <3>1, <3>2
  <2>28. ASSUME NEW s \in Sources, OrphanDies(s) PROVE TypeInv'
    <3>1. RelayOK'
      BY <2>28 DEF OrphanDies, RelayOK
    <3>2. FilesOK' /\ RequestsOK' /\ ThreadsOK' /\ ControlInv'
      BY <2>28 DEF OrphanDies, FilesOK, RequestsOK, Places, ControlInv, ThreadsOK
    <3> QED
      BY <3>1, <3>2
  <2>29. ASSUME NEW clean \in BOOLEAN, WorkerDown(clean) PROVE TypeInv'
    <3>1. RelayOK'
      <4>1. WithOrphan \subseteq Sources
        BY Someone DEF WithOrphan, RelayOK
      <4> QED
        BY <2>29, <4>1 DEF WorkerDown, RelayOK
    <3>2. ThreadsOK'
      <4>1. downs' \in 0..MaxDowns
        BY <2>29, SessionAssumption DEF WorkerDown, ThreadsOK
      <4> QED
        BY <2>29, <4>1 DEF WorkerDown, ThreadsOK
    <3>3. RequestsOK'
      BY <2>29 DEF WorkerDown, RequestsOK, Places, ControlInv
    <3>4. FilesOK' /\ ControlInv'
      BY <2>29 DEF WorkerDown, FilesOK, ControlInv
    <3> QED
      BY <3>1, <3>2, <3>3, <3>4
  <2>30. ASSUME WorkerUp PROVE TypeInv'
    <3>1. FilesOK' /\ RequestsOK' /\ RelayOK' /\ ThreadsOK' /\ ControlInv'
      BY <2>30 DEF WorkerUp, FilesOK, RequestsOK, Places, ControlInv, RelayOK, ThreadsOK
    <3> QED
      BY <3>1
  <2>31. CASE UNCHANGED vars
    BY <2>31 DEF FilesOK, RequestsOK, RelayOK, ThreadsOK, ControlInv
  <2> QED
    BY <2>1, <2>2, <2>3, <2>4, <2>5, <2>6, <2>7, <2>8, <2>9, <2>10, <2>11, <2>12, <2>13, <2>14,
         <2>15, <2>16, <2>17, <2>18, <2>19, <2>20, <2>21, <2>22, <2>23, <2>24, <2>25, <2>26,
         <2>27, <2>28, <2>29, <2>30, <2>31
      DEF Next, RequestStep, ControlStep, PollStep, MonitorStep
<1> QED
  BY <1>1, <1>2, PTL DEF Spec

(* TypeOK: every variable keeps its type, and a live relay is the one its   *)
(* handle names (launches, kills, polls and the end of the worker).         *)
THEOREM TypeCorrect == Spec => []TypeOK
<1>1. TypeInv => TypeOK
  BY DEF TypeInv
<1> QED
  BY <1>1, TypeInvariant, PTL

-----------------------------------------------------------------------------
(* FlagTrue does not mention the times at which the control thread or the   *)
(* poll has changed the relay and not yet the file.  Outside of them the    *)
(* file's flag is the worker's; whoever else may change it is in astray.    *)
FlagInv == ~astray /\ cpc = "idle" /\ mpc # "off" => rt.relay = run

LEMMA FlagStep == TypeInv /\ FlagInv /\ [Next]_vars => FlagInv'
<1> SUFFICES ASSUME TypeInv, FlagInv, [Next]_vars PROVE FlagInv'
  OBVIOUS
<1> USE DEF FlagInv
<1> USE DEF vars, reqVars, relayVars, monVars, lockVars, histVars
<1>1. ASSUME NEW r \in Requests, NEW s \in Source0, Arrive(r, s) PROVE FlagInv'
  BY <1>1 DEF Arrive, Quiet
<1>2. ASSUME NEW r \in Requests, ReadRuntime(r) PROVE FlagInv'
  BY <1>2 DEF ReadRuntime
<1>3. ASSUME NEW r \in Requests, ConnectWrite(r) PROVE FlagInv'
  BY <1>3 DEF ConnectWrite, WriteRuntime, FlagBack
<1>4. ASSUME NEW r \in Requests, ConnectSession(r) PROVE FlagInv'
  BY <1>4 DEF ConnectSession
<1>5. ASSUME NEW r \in Requests, FreshEnough(r) PROVE FlagInv'
  BY <1>5 DEF FreshEnough
<1>6. ASSUME NEW r \in Requests, StampAndLaunch(r) PROVE FlagInv'
  BY <1>6 DEF StampAndLaunch, WriteRuntime, FlagBack
<1>7. ASSUME NEW r \in Requests, DisconnectWrite(r) PROVE FlagInv'
  BY <1>7 DEF DisconnectWrite, WriteRuntime, FlagBack
<1>8. ASSUME NEW r \in Requests, ReadSession(r) PROVE FlagInv'
  BY <1>8 DEF ReadSession
<1>9. ASSUME NEW r \in Requests, DisconnectSession(r) PROVE FlagInv'
  BY <1>9 DEF DisconnectSession
<1>10. ASSUME NEW r \in Requests, Refused(r) PROVE FlagInv'
  BY <1>10 DEF Refused
<1>11. ASSUME NEW r \in Requests, Send(r) PROVE FlagInv'
  BY <1>11 DEF Send
<1>12. ASSUME NEW r \in Requests, GivesUp(r) PROVE FlagInv'
  BY <1>12 DEF GivesUp
<1>13. ASSUME StartFinds PROVE FlagInv'
  BY <1>13 DEF StartFinds
<1>14. ASSUME StartLaunches PROVE FlagInv'
  BY <1>14 DEF StartLaunches
<1>15. ASSUME StartFails PROVE FlagInv'
  BY <1>15 DEF StartFails
<1>16. ASSUME StopKills PROVE FlagInv'
  BY <1>16 DEF StopKills
<1>17. ASSUME ControlRead PROVE FlagInv'
  BY <1>17 DEF ControlRead
<1>18. ASSUME ControlWrite PROVE FlagInv'
  <2>1. rt'.relay = (cpc = "on") /\ astray' = ((cpc = "on") # run) /\ run' = run
    BY <1>18 DEF ControlWrite, NoteWrite, TypeInv, TypeOK, FilesOK, Runtimes
  <2> QED
    BY <2>1 DEF TypeInv, TypeOK, RelayOK
<1>19. ASSUME PollTest PROVE FlagInv'
  BY <1>19 DEF PollTest
<1>20. ASSUME PollDrop PROVE FlagInv'
  BY <1>20 DEF PollDrop
<1>21. ASSUME PollClear PROVE FlagInv'
  BY <1>21 DEF PollClear
<1>22. ASSUME PollRead PROVE FlagInv'
  BY <1>22 DEF PollRead
<1>23. ASSUME PollWrite PROVE FlagInv'
  <2>1. rt'.relay = FALSE /\ astray' = (astray \/ run) /\ run' = run
    BY <1>23 DEF PollWrite, NoteWrite, TypeInv, TypeOK, FilesOK, Runtimes
  <2> QED
    BY <2>1 DEF TypeInv, TypeOK, RelayOK
<1>24. ASSUME MonitorSample PROVE FlagInv'
  BY <1>24 DEF MonitorSample
<1>25. ASSUME MonitorRead PROVE FlagInv'
  BY <1>25 DEF MonitorRead
<1>26. ASSUME MonitorWrite PROVE FlagInv'
  <2>1. /\ rt'.relay = wcopy.relay /\ astray' = (astray \/ wcopy.relay # rt.relay)
        /\ UNCHANGED <<run, cpc, mpc>>
    BY <1>26 DEF MonitorWrite, NoteWrite, FlagBack, TypeInv, TypeOK, FilesOK, Runtimes
  <2> QED
    BY <2>1
<1>27. ASSUME RelayDies PROVE FlagInv'
  BY <1>27 DEF RelayDies
<1>28. ASSUME NEW s \in Sources, OrphanDies(s) PROVE FlagInv'
  BY <1>28 DEF OrphanDies
<1>29. ASSUME NEW clean \in BOOLEAN, WorkerDown(clean) PROVE FlagInv'
  BY <1>29 DEF WorkerDown
<1>30. ASSUME WorkerUp PROVE FlagInv'
  BY <1>30 DEF WorkerUp
<1>31. CASE UNCHANGED vars
  BY <1>31
<1> QED
  BY <1>1, <1>2, <1>3, <1>4, <1>5, <1>6, <1>7, <1>8, <1>9, <1>10, <1>11, <1>12, <1>13, <1>14,
       <1>15, <1>16, <1>17, <1>18, <1>19, <1>20, <1>21, <1>22, <1>23, <1>24, <1>25, <1>26, <1>27,
       <1>28, <1>29, <1>30, <1>31
    DEF Next, RequestStep, ControlStep, PollStep, MonitorStep

(* FlagTrue: srtRelayActive at rest is what the worker knows of its relay,  *)
(* whatever order control thread, poll and monitor write the file in.       *)
THEOREM FlagCorrect == Spec => []FlagTrue
<1>1. Init => FlagInv
  <2> SUFFICES ASSUME Init PROVE rt.relay = run
    BY DEF FlagInv
  <2>1. rt.relay = FALSE /\ run = FALSE
    BY DEF Init, NoRuntime
  <2> QED
    BY <2>1
<1>2. TypeInv /\ FlagInv => FlagTrue
  BY DEF TypeInv, ControlInv, FlagInv, FlagTrue, Quiet
<1> QED
  BY <1>1, <1>2, FlagStep, TypeInvariant, PTL DEF Spec

-----------------------------------------------------------------------------
(* FilesAgree speaks of moments without requests.  While nothing is torn    *)
(* there is at most one, and between its two writes the files differ by     *)
(* what it has still to write.                                              *)
Same == rt.conn = ses.conn /\ rt.src = ses.src
Between == {"session", "read3", "levels", "sread", "swrite"}

\* What holds of a request at its place.
Fits(r) ==
  /\ pc[r] \notin Between => Same
  /\ pc[r] = "session" => rt.conn = TRUE /\ rt.src = want[r]
  /\ pc[r] \in {"read3", "levels", "sread", "swrite"} => rt.conn = FALSE /\ rt.src = ses.src
  /\ pc[r] = "swrite" => copy[r].src = ses.src

SessionInv ==
  ~torn =>
    /\ \A r, q \in Open : r = q
    /\ Open = {} => Same
    /\ \A r \in Open : Fits(r)

\* While nothing is torn nobody but the request at work changes the session.
SessionKept == ~torn' => ~torn /\ rt'.conn = rt.conn /\ rt'.src = rt.src

LEMMA SessionStep == TypeInv /\ SessionInv /\ [Next]_vars => SessionInv'
<1> SUFFICES ASSUME TypeInv, SessionInv, [Next]_vars PROVE SessionInv'
  OBVIOUS
<1> USE DEF vars, reqVars, relayVars, monVars, lockVars, histVars
(* Steps that leave the requests where they are. *)
<1>0. ASSUME UNCHANGED <<ses, pc, want, copy>>, SessionKept PROVE SessionInv'
  BY <1>0 DEF SessionInv, SessionKept, Same, Open, Fits
(* Steps of a request: while nothing is torn it is the only one. *)
<1>00. ASSUME NEW r \in Requests, r \in Open, NEW p \in Places, pc' = [pc EXCEPT ![r] = p],
              ~torn' => ~torn,
              ~torn' => IF p = "done" THEN Same' ELSE Fits(r)'
       PROVE  SessionInv'
  <2> SUFFICES ASSUME ~torn' PROVE SessionInv'
    BY DEF SessionInv
  <2>1. \A q \in Requests : q # r => q \notin Open /\ q \notin Open'
    BY <1>00 DEF SessionInv, Open, TypeInv, TypeOK, RequestsOK
  <2>2. Open' \subseteq {r} /\ (r \in Open' <=> p # "done" /\ p # "idle")
    BY <1>00, <2>1 DEF Open, TypeInv, TypeOK, RequestsOK
  <2>3. p = "idle" => Same'
    BY <1>00 DEF Fits, Between, TypeInv, TypeOK, RequestsOK
  <2> QED
    BY <1>00, <2>2, <2>3 DEF SessionInv
(* The answer to a request that waits. *)
<1>000. ASSUME NEW r \in Requests, pc[r] = "wait", pc' = [pc EXCEPT ![r] = AfterCommand(r)],
               SessionKept, UNCHANGED <<ses, want, copy>>
        PROVE  SessionInv'
  <2>1. r \in Open /\ AfterCommand(r) \in {"fresh", "relay"}
    BY <1>000 DEF Open, AfterCommand
  <2>2. ~torn' => Same
    BY <1>000, <2>1 DEF SessionInv, Fits, Between, SessionKept
  <2>3. pc'[r] \in {"fresh", "relay"}
    BY <1>000, <2>1 DEF TypeInv, TypeOK, RequestsOK
  <2>4. ~torn' => Fits(r)'
    BY <1>000, <2>2, <2>3 DEF Fits, Between, Same, SessionKept
  <2> QED
    BY <1>000, <2>1, <2>4, <1>00 DEF SessionKept, Places
<1>1. ASSUME NEW r \in Requests, NEW s \in Source0, Arrive(r, s) PROVE SessionInv'
  BY <1>1 DEF Arrive, Goto, SessionInv, Same, Open, Fits, Between, TypeInv, TypeOK, RequestsOK
<1>2. ASSUME NEW r \in Requests, ReadRuntime(r) PROVE SessionInv'
  <2>1. r \in Open /\ pc' = [pc EXCEPT ![r] = pc'[r]] /\ pc'[r] \in Places \ {"idle"}
    BY <1>2 DEF ReadRuntime, Goto, Open, Places, TypeInv, TypeOK, RequestsOK
  <2>2. ~torn => Fits(r)
    BY <2>1 DEF SessionInv
  <2>3. ~torn' => ~torn /\ (IF pc'[r] = "done" THEN Same' ELSE Fits(r)')
    BY <1>2, <2>2 DEF ReadRuntime, Goto, Fits, Between, Same, TypeInv, TypeOK, FilesOK,
         RequestsOK, Runtimes
  <2> QED
    BY <2>1, <2>3, <1>00
<1>3. ASSUME NEW r \in Requests, ConnectWrite(r) PROVE SessionInv'
  <2>1. r \in Open /\ pc' = [pc EXCEPT ![r] = pc'[r]] /\ pc'[r] \in Places \ {"idle"}
    BY <1>3 DEF ConnectWrite, Goto, WriteRuntime, SessionBack, Open, Places, TypeInv, TypeOK,
         RequestsOK
  <2>2. ~torn => Fits(r)
    BY <2>1 DEF SessionInv
  <2>3. ~torn' => ~torn /\ (IF pc'[r] = "done" THEN Same' ELSE Fits(r)')
    BY <1>3, <2>2 DEF ConnectWrite, Goto, WriteRuntime, SessionBack, Fits, Between, Same, TypeInv,
         TypeOK, FilesOK, RequestsOK, Runtimes
  <2> QED
    BY <2>1, <2>3, <1>00
<1>4. ASSUME NEW r \in Requests, ConnectSession(r) PROVE SessionInv'
  <2>1. r \in Open /\ pc' = [pc EXCEPT ![r] = pc'[r]] /\ pc'[r] \in Places \ {"idle"}
    BY <1>4 DEF ConnectSession, Goto, Open, Places, TypeInv, TypeOK, RequestsOK
  <2>2. ~torn => Fits(r)
    BY <2>1 DEF SessionInv
  <2>3. ~torn' => ~torn /\ (IF pc'[r] = "done" THEN Same' ELSE Fits(r)')
    BY <1>4, <2>2 DEF ConnectSession, Goto, Fits, Between, Same, TypeInv, TypeOK, FilesOK,
         RequestsOK, Runtimes
  <2> QED
    BY <2>1, <2>3, <1>00
<1>5. ASSUME NEW r \in Requests, FreshEnough(r) PROVE SessionInv'
  <2>1. r \in Open /\ pc' = [pc EXCEPT ![r] = pc'[r]] /\ pc'[r] \in Places \ {"idle"}
    BY <1>5 DEF FreshEnough, End, Goto, Open, Places, TypeInv, TypeOK, RequestsOK
  <2>2. ~torn => Fits(r)
    BY <2>1 DEF SessionInv
  <2>3. ~torn' => ~torn /\ (IF pc'[r] = "done" THEN Same' ELSE Fits(r)')
    BY <1>5, <2>2 DEF FreshEnough, End, Goto, Fits, Between, Same, TypeInv, TypeOK, FilesOK,
         RequestsOK, Runtimes
  <2> QED
    BY <2>1, <2>3, <1>00
<1>6. ASSUME NEW r \in Requests, StampAndLaunch(r) PROVE SessionInv'
  <2>1. r \in Open /\ pc' = [pc EXCEPT ![r] = pc'[r]] /\ pc'[r] \in Places \ {"idle"}
    BY <1>6 DEF StampAndLaunch, End, Goto, WriteRuntime, SessionBack, Open, Places, TypeInv,
         TypeOK, RequestsOK
  <2>2. ~torn => Fits(r)
    BY <2>1 DEF SessionInv
  <2>3. ~torn' => ~torn /\ (IF pc'[r] = "done" THEN Same' ELSE Fits(r)')
    BY <1>6, <2>2 DEF StampAndLaunch, End, Goto, WriteRuntime, SessionBack, Fits, Between, Same,
         TypeInv, TypeOK, FilesOK, RequestsOK, Runtimes
  <2> QED
    BY <2>1, <2>3, <1>00
<1>7. ASSUME NEW r \in Requests, DisconnectWrite(r) PROVE SessionInv'
  <2> DEFINE old == copy[r]
  <2>1. r \in Open /\ pc' = [pc EXCEPT ![r] = pc'[r]] /\ pc'[r] \in {"read2", "read3", "sread"}
    BY <1>7 DEF DisconnectWrite, Goto, Open, TypeInv, TypeOK, RequestsOK
  <2>2. ~torn' => ~torn /\ old.conn = rt.conn /\ old.src = rt.src
    BY <1>7 DEF DisconnectWrite, WriteRuntime, SessionBack
  <2>3. ~torn => Fits(r)
    BY <2>1 DEF SessionInv
  <2>4. old \in Runtimes
    BY DEF TypeInv, TypeOK, FilesOK, RequestsOK, Runtimes
  <2>5. /\ pc'[r] = "read3" => rt'.conn = FALSE /\ rt'.src = old.src
        /\ pc'[r] # "read3" => rt'.conn = old.conn /\ rt'.src = old.src
    BY <1>7, <2>4 DEF DisconnectWrite, Goto, WriteRuntime, Runtimes, TypeInv, TypeOK, RequestsOK
  <2>6. /\ pc'[r] = "read2" => pc[r] = "relay"
        /\ pc'[r] = "read3" => pc[r] = "flag"
        /\ pc'[r] = "sread" => pc[r] = "levels"
        /\ ses' = ses
    BY <1>7 DEF DisconnectWrite, Goto, TypeInv, TypeOK, RequestsOK
  <2>7. ~torn' => Fits(r)'
    BY <2>1, <2>2, <2>3, <2>5, <2>6 DEF Fits, Between, Same
  <2> QED
    BY <2>1, <2>2, <2>7, <1>00 DEF Places
<1>8. ASSUME NEW r \in Requests, ReadSession(r) PROVE SessionInv'
  <2>1. r \in Open /\ pc' = [pc EXCEPT ![r] = pc'[r]] /\ pc'[r] \in Places \ {"idle"}
    BY <1>8 DEF ReadSession, Goto, NoRuntime, Open, Places, TypeInv, TypeOK, RequestsOK
  <2>2. ~torn => Fits(r)
    BY <2>1 DEF SessionInv
  <2>3. ~torn' => ~torn /\ (IF pc'[r] = "done" THEN Same' ELSE Fits(r)')
    BY <1>8, <2>2 DEF ReadSession, Goto, NoRuntime, Fits, Between, Same, TypeInv, TypeOK, FilesOK,
         RequestsOK, Runtimes
  <2> QED
    BY <2>1, <2>3, <1>00
<1>9. ASSUME NEW r \in Requests, DisconnectSession(r) PROVE SessionInv'
  <2>1. r \in Open /\ pc' = [pc EXCEPT ![r] = pc'[r]] /\ pc'[r] \in Places \ {"idle"}
    BY <1>9 DEF DisconnectSession, End, Goto, Open, Places, TypeInv, TypeOK, RequestsOK
  <2>2. ~torn => Fits(r)
    BY <2>1 DEF SessionInv
  <2>3. ~torn' => ~torn /\ (IF pc'[r] = "done" THEN Same' ELSE Fits(r)')
    BY <1>9, <2>2 DEF DisconnectSession, End, Goto, Fits, Between, Same, TypeInv, TypeOK, FilesOK,
         RequestsOK, Runtimes
  <2> QED
    BY <2>1, <2>3, <1>00
<1>10. ASSUME NEW r \in Requests, Refused(r) PROVE SessionInv'
  <2>1. r \in Open /\ pc' = [pc EXCEPT ![r] = pc'[r]] /\ pc'[r] \in Places \ {"idle"}
    BY <1>10 DEF Refused, Goto, AfterCommand, Open, Places, TypeInv, TypeOK, RequestsOK
  <2>2. ~torn => Fits(r)
    BY <2>1 DEF SessionInv
  <2>3. ~torn' => ~torn /\ (IF pc'[r] = "done" THEN Same' ELSE Fits(r)')
    BY <1>10, <2>2 DEF Refused, Goto, AfterCommand, Fits, Between, Same, TypeInv, TypeOK, FilesOK,
         RequestsOK, Runtimes
  <2> QED
    BY <2>1, <2>3, <1>00
<1>11. ASSUME NEW r \in Requests, Send(r) PROVE SessionInv'
  <2>1. r \in Open /\ pc' = [pc EXCEPT ![r] = pc'[r]] /\ pc'[r] \in Places \ {"idle"}
    BY <1>11 DEF Send, Goto, Open, Places, TypeInv, TypeOK, RequestsOK
  <2>2. ~torn => Fits(r)
    BY <2>1 DEF SessionInv
  <2>3. ~torn' => ~torn /\ (IF pc'[r] = "done" THEN Same' ELSE Fits(r)')
    BY <1>11, <2>2 DEF Send, Goto, Fits, Between, Same, TypeInv, TypeOK, FilesOK, RequestsOK,
         Runtimes
  <2> QED
    BY <2>1, <2>3, <1>00
<1>12. ASSUME NEW r \in Requests, GivesUp(r) PROVE SessionInv'
  <2>1. r \in Open /\ pc' = [pc EXCEPT ![r] = pc'[r]] /\ pc'[r] \in Places \ {"idle"}
    BY <1>12 DEF GivesUp, Goto, AfterCommand, Open, Places, TypeInv, TypeOK, RequestsOK
  <2>2. ~torn => Fits(r)
    BY <2>1 DEF SessionInv
  <2>3. ~torn' => ~torn /\ (IF pc'[r] = "done" THEN Same' ELSE Fits(r)')
    BY <1>12, <2>2 DEF GivesUp, Goto, AfterCommand, Fits, Between, Same, TypeInv, TypeOK, FilesOK,
         RequestsOK, Runtimes
  <2> QED
    BY <2>1, <2>3, <1>00
<1>13. ASSUME StartFinds PROVE SessionInv'
  <2> DEFINE r == Head(queue).req
  <2>1. SessionKept /\ UNCHANGED <<ses, want, copy>>
    BY <1>13 DEF StartFinds, SessionKept, TypeInv, TypeOK, FilesOK, RequestsOK, Runtimes
  <2>2. CASE pc' = pc
    BY <2>1, <2>2, <1>0
  <2>3. CASE r \in Requests /\ pc[r] = "wait" /\ pc' = [pc EXCEPT ![r] = AfterCommand(r)]
    BY <2>1, <2>3, <1>000
  <2>4. \/ pc' = pc
        \/ r \in Requests /\ pc[r] = "wait" /\ pc' = [pc EXCEPT ![r] = AfterCommand(r)]
    BY <1>13 DEF StartFinds, Answer, ControlInv, Command, TypeInv, TypeOK, FilesOK, RequestsOK,
         Runtimes
  <2> QED
    BY <2>2, <2>3, <2>4
<1>14. ASSUME StartLaunches PROVE SessionInv'
  BY <1>14, <1>0 DEF StartLaunches, NoteRead, SessionKept
<1>15. ASSUME StartFails PROVE SessionInv'
  <2> DEFINE r == Head(queue).req
  <2>1. SessionKept /\ UNCHANGED <<ses, want, copy>>
    BY <1>15 DEF StartFails, SessionKept, TypeInv, TypeOK, FilesOK, RequestsOK, Runtimes
  <2>2. CASE pc' = pc
    BY <2>1, <2>2, <1>0
  <2>3. CASE r \in Requests /\ pc[r] = "wait" /\ pc' = [pc EXCEPT ![r] = AfterCommand(r)]
    BY <2>1, <2>3, <1>000
  <2>4. \/ pc' = pc
        \/ r \in Requests /\ pc[r] = "wait" /\ pc' = [pc EXCEPT ![r] = AfterCommand(r)]
    BY <1>15 DEF StartFails, Answer, ControlInv, Command, TypeInv, TypeOK, FilesOK, RequestsOK,
         Runtimes
  <2> QED
    BY <2>2, <2>3, <2>4
<1>16. ASSUME StopKills PROVE SessionInv'
  BY <1>16, <1>0 DEF StopKills, NoteRead, SessionKept
<1>17. ASSUME ControlRead PROVE SessionInv'
  BY <1>17, <1>0 DEF ControlRead, NoteRead, SessionKept
<1>18. ASSUME ControlWrite PROVE SessionInv'
  <2> DEFINE r == Head(queue).req
  <2>1. SessionKept /\ UNCHANGED <<ses, want, copy>>
    BY <1>18 DEF ControlWrite, NoteWrite, SessionBack, SessionKept, TypeInv, TypeOK, FilesOK,
         RequestsOK, Runtimes
  <2>2. CASE pc' = pc
    BY <2>1, <2>2, <1>0
  <2>3. CASE r \in Requests /\ pc[r] = "wait" /\ pc' = [pc EXCEPT ![r] = AfterCommand(r)]
    BY <2>1, <2>3, <1>000
  <2>4. \/ pc' = pc
        \/ r \in Requests /\ pc[r] = "wait" /\ pc' = [pc EXCEPT ![r] = AfterCommand(r)]
    BY <1>18 DEF ControlWrite, Answer, ControlInv, Command, TypeInv, TypeOK, FilesOK, RequestsOK,
         Runtimes
  <2> QED
    BY <2>2, <2>3, <2>4
<1>19. ASSUME PollTest PROVE SessionInv'
  BY <1>19, <1>0 DEF PollTest, NoteRead, SessionKept
<1>20. ASSUME PollDrop PROVE SessionInv'
  BY <1>20, <1>0 DEF PollDrop, NoteRead, SessionKept
<1>21. ASSUME PollClear PROVE SessionInv'
  BY <1>21, <1>0 DEF PollClear, NoteRead, SessionKept
<1>22. ASSUME PollRead PROVE SessionInv'
  BY <1>22, <1>0 DEF PollRead, NoteRead, SessionKept
<1>23. ASSUME PollWrite PROVE SessionInv'
  <2>1. SessionKept
    BY <1>23 DEF PollWrite, NoteWrite, SessionBack, SessionKept, TypeInv, TypeOK, FilesOK,
         RequestsOK, Runtimes
  <2> QED
    BY <1>23, <2>1, <1>0 DEF PollWrite
<1>24. ASSUME MonitorSample PROVE SessionInv'
  BY <1>24, <1>0 DEF MonitorSample, NoteRead, SessionKept
<1>25. ASSUME MonitorRead PROVE SessionInv'
  BY <1>25, <1>0 DEF MonitorRead, NoteRead, SessionKept
<1>26. ASSUME MonitorWrite PROVE SessionInv'
  <2>1. SessionKept
    BY <1>26 DEF MonitorWrite, NoteWrite, SessionBack, SessionKept, TypeInv, TypeOK, FilesOK,
         RequestsOK, Runtimes
  <2> QED
    BY <1>26, <2>1, <1>0 DEF MonitorWrite
<1>27. ASSUME RelayDies PROVE SessionInv'
  BY <1>27, <1>0 DEF RelayDies, NoteRead, SessionKept
<1>28. ASSUME NEW s \in Sources, OrphanDies(s) PROVE SessionInv'
  BY <1>28, <1>0 DEF OrphanDies, NoteRead, SessionKept
<1>29. ASSUME NEW clean \in BOOLEAN, WorkerDown(clean) PROVE SessionInv'
  BY <1>29, <1>0 DEF WorkerDown, NoteRead, SessionKept
<1>30. ASSUME WorkerUp PROVE SessionInv'
  BY <1>30, <1>0 DEF WorkerUp, NoteRead, SessionKept
<1>31. CASE UNCHANGED vars
  BY <1>31, <1>0 DEF SessionKept
<1> QED
  BY <1>1, <1>2, <1>3, <1>4, <1>5, <1>6, <1>7, <1>8, <1>9, <1>10, <1>11, <1>12, <1>13, <1>14,
       <1>15, <1>16, <1>17, <1>18, <1>19, <1>20, <1>21, <1>22, <1>23, <1>24, <1>25, <1>26, <1>27,
       <1>28, <1>29, <1>30, <1>31
    DEF Next, RequestStep, ControlStep, PollStep, MonitorStep

(* FilesAgree: the two files of input/connect and input/disconnect tell the *)
(* same session when no request is served, whatever the worker does.        *)
THEOREM FilesCorrect == Spec => []FilesAgree
<1>1. Init => SessionInv
  BY DEF Init, SessionInv, Same, Open, NoRuntime
<1>2. TypeInv /\ SessionInv => FilesAgree
  BY DEF SessionInv, FilesAgree, Same
<1> QED
  BY <1>1, <1>2, SessionStep, TypeInvariant, PTL DEF Spec

(* FilesTrue: the session in both files and the relay flag in one of them.  *)
THEOREM FilesTell == Spec => []FilesTrue
  BY FilesCorrect, FlagCorrect, PTL DEF FilesTrue

-----------------------------------------------------------------------------
(* SessionFollowed speaks of moments at rest.  The invariant behind it says *)
(* what holds on the way: of the requests, of the commands not yet executed *)
(* and of the levels not yet written.                                       *)

\* The places of a disconnect that has sent its command, or has none to send.
Ending == {"relay", "read2", "flag", "read3", "levels", "sread", "swrite"}

\* What the place of a request says of what it wants and has read.
WantInv ==
  \A r \in Requests :
    /\ pc[r] \in {"write", "session", "fresh"} => want[r] # NoSource
    /\ pc[r] \in Ending => want[r] = NoSource
    /\ pc[r] \in {"session", "send", "wait", "fresh"} /\ want[r] # NoSource
         => copy[r].level = NoSource

\* Without a worker there is no relay to command; every relay receives SRT.
WorkerInv ==
  /\ ~up => ~run /\ ~live /\ queue = <<>>
  /\ proc \in Srt \cup {NoSource} /\ orphans \subseteq Srt

(* The command that decides is the last one not yet executed, and must ask  *)
(* for b.  If there is none, b has come true.                               *)
Pending == IF cpc = "idle" THEN queue # <<>> ELSE Len(queue) > 1

Obeyed(b) == IF b THEN (run \/ missed) /\ (live /\ ~kept => proc = ses.src) ELSE ~run

Follows(b) == IF Pending THEN queue[Len(queue)].start = b ELSE Obeyed(b)

\* Of a request at work: a connect has written the session before it sends
\* the command, and once the command is sent the relay will follow it.
RelayOf(r) ==
  /\ pc[r] \in {"send", "wait", "fresh"} /\ want[r] # NoSource => ses.conn /\ ses.src = want[r]
  /\ pc[r] \in {"wait", "fresh"} \cup Ending /\ ses.src \in Srt => Follows(want[r] # NoSource)

RelayInv ==
  ~torn => /\ Open = {} /\ ses.src \in Srt => Follows(ses.conn)
           /\ \A r \in Open : RelayOf(r)

\* Levels that may be shown for the session in its file.
LevelFits(l) ==
  l # NoSource => /\ ses.conn
                  /\ ses.src \in Rtp => l = ses.src
                  /\ ses.src \in Srt => l \in Srt

\* No request is between its first write and its last.
Settled == \/ Open = {}
           \/ \E r \in Open : want[r] # NoSource /\ pc[r] \in {"send", "wait", "fresh"}

(* The levels held belong to the key, those measured to the session they    *)
(* were measured for, and those in the file, and in the object the control  *)
(* or the main thread has read, to the session too once the monitor has     *)
(* written what it measured since the last change.                          *)
HeldInv  == held # NoSource => \/ key \in Rtp /\ held = key
                               \/ key = "relay" /\ held \in Srt
LevelInv == npc = "note" /\ ~moved => LevelFits(level)
ShownInv == npc = "sample" /\ ~moved /\ ~torn /\ Settled
              => LevelFits(rt.level) /\ (holder \in {"control", "main"} => LevelFits(wcopy.level))

MeterInv == HeldInv /\ LevelInv /\ ShownInv

FollowInv == WantInv /\ WorkerInv /\ RelayInv /\ MeterInv

LEMMA WantStep == TypeInv /\ WantInv /\ [Next]_vars => WantInv'
<1> SUFFICES ASSUME TypeInv, WantInv, [Next]_vars PROVE WantInv'
  OBVIOUS
<1> USE DEF vars, reqVars, relayVars, monVars, lockVars, histVars
<1> USE DEF TypeInv, TypeOK, RequestsOK
(* The steps of the worker: an answer at most. *)
<1>0. ASSUME UNCHANGED <<want, copy>>,
             \A r \in Requests : \/ pc'[r] = pc[r]
                                 \/ pc[r] = "wait" /\ pc'[r] = AfterCommand(r)
      PROVE  WantInv'
  <2> SUFFICES ASSUME NEW r \in Requests
               PROVE  /\ pc'[r] \in {"write", "session", "fresh"} => want[r] # NoSource
                      /\ pc'[r] \in Ending => want[r] = NoSource
                      /\ pc'[r] \in {"session", "send", "wait", "fresh"} /\ want[r] # NoSource
                           => copy[r].level = NoSource
    BY <1>0 DEF WantInv
  <2>1. CASE pc'[r] = pc[r]
    BY <2>1 DEF WantInv
  <2>2. CASE pc[r] = "wait" /\ pc'[r] = AfterCommand(r)
    BY <2>2 DEF WantInv, AfterCommand, Ending
  <2> QED
    BY <1>0, <2>1, <2>2
(* One request takes a step, the others stay. *)
<1>00. ASSUME NEW r \in Requests, NEW p \in Places, pc' = [pc EXCEPT ![r] = p],
              \A q \in Requests : q # r => want'[q] = want[q] /\ copy'[q] = copy[q],
              p \in {"write", "session", "fresh"} => want'[r] # NoSource,
              p \in Ending => want'[r] = NoSource,
              p \in {"session", "send", "wait", "fresh"} /\ want'[r] # NoSource
                => copy'[r].level = NoSource
       PROVE  WantInv'
  BY <1>00 DEF WantInv
<1>1. ASSUME NEW r \in Requests, NEW s \in Source0, Arrive(r, s) PROVE WantInv'
  <2>1. pc' = [pc EXCEPT ![r] = "read"] /\ want' = [want EXCEPT ![r] = s] /\ copy' = copy
    BY <1>1 DEF Arrive, Goto
  <2> QED
    BY <2>1, <1>00 DEF Places, Ending
<1>2. ASSUME NEW r \in Requests, ReadRuntime(r) PROVE WantInv'
  <2>1. PICK p \in Places : pc' = [pc EXCEPT ![r] = p]
    BY <1>2 DEF ReadRuntime, Goto, Places
  <2>2. /\ want' = want /\ copy' = [copy EXCEPT ![r] = rt]
        /\ p = "write" => want[r] # NoSource
        /\ p \in {"send", "read2"} => want[r] = NoSource
        /\ p = "flag" => pc[r] = "read2"
        /\ p = "levels" => pc[r] = "read3"
        /\ p \in {"write", "send", "read2", "flag", "levels"}
    BY <1>2, <2>1 DEF ReadRuntime, Goto
  <2> QED
    BY <2>1, <2>2, <1>00 DEF WantInv, Ending
<1>3. ASSUME NEW r \in Requests, ConnectWrite(r) PROVE WantInv'
  <2> DEFINE new == [copy[r] EXCEPT !.conn = TRUE, !.src = want[r], !.level = NoSource]
  <2>1. /\ pc' = [pc EXCEPT ![r] = "session"] /\ want' = want /\ copy' = [copy EXCEPT ![r] = new]
        /\ pc[r] = "write"
    BY <1>3 DEF ConnectWrite, Goto
  <2>2. new.level = NoSource
    BY DEF FilesOK, Runtimes
  <2>3. copy'[r].level = NoSource /\ \A q \in Requests : q # r => copy'[q] = copy[q]
    BY <2>1, <2>2 DEF FilesOK
  <2> HIDE DEF new
  <2> QED
    BY <2>1, <2>3, <1>00 DEF WantInv, Places, Ending
<1>4. ASSUME NEW r \in Requests, ConnectSession(r) PROVE WantInv'
  <2>1. PICK p \in {"send", "fresh"} : pc' = [pc EXCEPT ![r] = p]
    BY <1>4 DEF ConnectSession, Goto
  <2>2. want' = want /\ copy' = copy /\ pc[r] = "session"
    BY <1>4 DEF ConnectSession, Goto
  <2> QED
    BY <2>1, <2>2, <1>00 DEF WantInv, Places, Ending
<1>5. ASSUME NEW r \in Requests, FreshEnough(r) \/ StampAndLaunch(r) \/ DisconnectSession(r)
      PROVE  WantInv'
  <2>1. /\ pc' = [pc EXCEPT ![r] = "done"] /\ want' = [want EXCEPT ![r] = NoSource]
        /\ copy' = [copy EXCEPT ![r] = NoRuntime]
    BY <1>5 DEF FreshEnough, StampAndLaunch, DisconnectSession, End, Goto
  <2> QED
    BY <2>1, <1>00 DEF FilesOK, Places, Ending
<1>6. ASSUME NEW r \in Requests, DisconnectWrite(r) PROVE WantInv'
  <2>1. PICK p \in {"read2", "read3", "sread"} : pc' = [pc EXCEPT ![r] = p]
    BY <1>6 DEF DisconnectWrite, Goto
  <2>2. want' = want /\ copy' = [copy EXCEPT ![r] = NoRuntime] /\ pc[r] \in Ending
    BY <1>6 DEF DisconnectWrite, Goto, Ending
  <2> QED
    BY <2>1, <2>2, <1>00 DEF WantInv, FilesOK, Places, Ending
<1>7. ASSUME NEW r \in Requests, ReadSession(r) PROVE WantInv'
  <2>1. /\ pc' = [pc EXCEPT ![r] = "swrite"] /\ want' = want /\ pc[r] \in Ending
        /\ copy' = [copy EXCEPT ![r] = [NoRuntime EXCEPT !.src = ses.src]]
    BY <1>7 DEF ReadSession, Goto, Ending
  <2> QED
    BY <2>1, <1>00 DEF WantInv, FilesOK, Places, Ending
<1>8. ASSUME NEW r \in Requests, Refused(r) \/ GivesUp(r) PROVE WantInv'
  <2>1. PICK p \in {"fresh", "relay"} : pc' = [pc EXCEPT ![r] = p] /\ p = AfterCommand(r)
    BY <1>8 DEF Refused, GivesUp, Goto, AfterCommand
  <2>2. want' = want /\ copy' = copy /\ pc[r] \in {"send", "wait"}
    BY <1>8 DEF Refused, GivesUp, Goto
  <2> QED
    BY <2>1, <2>2, <1>00 DEF WantInv, AfterCommand, Places, Ending
<1>9. ASSUME NEW r \in Requests, Send(r) PROVE WantInv'
  <2>1. pc' = [pc EXCEPT ![r] = "wait"] /\ want' = want /\ copy' = copy /\ pc[r] = "send"
    BY <1>9 DEF Send, Goto
  <2> QED
    BY <2>1, <1>00 DEF WantInv, Places, Ending
<1>10. ASSUME ControlStep PROVE WantInv'
  <2>1. /\ UNCHANGED <<want, copy>>
        /\ \A r \in Requests : pc'[r] = pc[r] \/ (pc[r] = "wait" /\ pc'[r] = AfterCommand(r))
    BY <1>10 DEF ControlStep, StartFinds, StartLaunches, StartFails, StopKills, ControlRead,
         ControlWrite, Answer
  <2> QED
    BY <2>1, <1>0
<1>11. ASSUME \/ PollStep \/ MonitorStep \/ RelayDies \/ WorkerUp
              \/ \E s \in Sources : OrphanDies(s)
              \/ \E clean \in BOOLEAN : WorkerDown(clean)
              \/ UNCHANGED vars
       PROVE  WantInv'
  <2>1. UNCHANGED <<pc, want, copy>>
    BY <1>11 DEF PollStep, PollTest, PollDrop, PollClear, PollRead, PollWrite, MonitorStep,
         MonitorSample, MonitorRead, MonitorWrite, RelayDies, WorkerUp, OrphanDies, WorkerDown
  <2> QED
    BY <2>1, <1>0
<1> QED
  BY <1>1, <1>2, <1>3, <1>4, <1>5, <1>6, <1>7, <1>8, <1>9, <1>10, <1>11 DEF Next, RequestStep

LEMMA WorkerStep == TypeInv /\ WorkerInv /\ [Next]_vars => WorkerInv'
<1> SUFFICES ASSUME TypeInv, WorkerInv, [Next]_vars PROVE WorkerInv'
  OBVIOUS
<1> USE DEF vars, reqVars, relayVars, monVars, lockVars, histVars
<1>1. WithOrphan \subseteq Srt
  BY DEF WithOrphan, WorkerInv, TypeInv, TypeOK, RelayOK
<1>2. \A s : SrtOf(s) \in Srt
  BY SessionAssumption DEF SrtOf
<1>4. ASSUME NEW r \in Requests, (\E s \in Source0 : Arrive(r, s)) \/ RequestStep(r)
      PROVE  WorkerInv'
  <2>1. UNCHANGED relayVars /\ (up' = up \/ up' = TRUE) /\ (queue' = queue \/ up' = TRUE)
    BY <1>4 DEF Arrive, RequestStep, ReadRuntime, ConnectWrite, ConnectSession, FreshEnough,
         StampAndLaunch, DisconnectWrite, ReadSession, DisconnectSession, Refused, Send, GivesUp,
         TypeInv, TypeOK, RelayOK
  <2> QED
    BY <2>1 DEF WorkerInv
<1>5. ASSUME ControlStep PROVE WorkerInv'
  <2>1. up /\ up' = up
    BY <1>5 DEF ControlStep, StartFinds, StartLaunches, StartFails, StopKills, ControlRead,
         ControlWrite, Command, NoteRead, NoteWrite, WorkerInv, TypeInv, ControlInv
  <2>2. proc' \in Srt \cup {NoSource} /\ orphans' \subseteq Srt
    BY <1>1, <1>2, <1>5 DEF ControlStep, StartFinds, StartLaunches, StartFails, StopKills,
       ControlRead, ControlWrite, WorkerInv
  <2> QED
    BY <2>1, <2>2 DEF WorkerInv
<1>6. ASSUME PollStep PROVE WorkerInv'
  <2>1. /\ up' = up /\ queue' = queue
        /\ run' = run \/ run' = FALSE
        /\ live' = live \/ live' = FALSE
    BY <1>6 DEF PollStep, PollTest, PollDrop, PollClear, PollRead, PollWrite
  <2>2. proc' \in Srt \cup {NoSource} /\ orphans' \subseteq Srt
    BY <1>1, <1>6 DEF PollStep, PollTest, PollDrop, PollClear, PollRead, PollWrite, WorkerInv
  <2> QED
    BY <2>1, <2>2 DEF WorkerInv
<1>7. ASSUME MonitorStep PROVE WorkerInv'
  BY <1>7 DEF MonitorStep, MonitorSample, MonitorRead, MonitorWrite, WorkerInv
<1>8. ASSUME RelayDies \/ WorkerUp \/ \E s \in Sources : OrphanDies(s) PROVE WorkerInv'
  BY <1>8 DEF RelayDies, WorkerUp, OrphanDies, WorkerInv
<1>9. ASSUME NEW clean \in BOOLEAN, WorkerDown(clean) PROVE WorkerInv'
  BY <1>1, <1>9 DEF WorkerDown, WorkerInv
<1>10. CASE UNCHANGED vars
  BY <1>10 DEF WorkerInv
<1> QED
  BY <1>4, <1>5, <1>6, <1>7, <1>8, <1>9, <1>10 DEF Next

\* The last command of the queue, before and after the first is executed.
LEMMA QueueEnd ==
  ASSUME NEW R, NEW q \in Seq(R), q # <<>>
  PROVE  /\ Len(q) \in Nat /\ Len(q) >= 1
         /\ Tail(q) # <<>> <=> Len(q) > 1
         /\ Len(q) > 1 => Tail(q)[Len(Tail(q))] = q[Len(q)]
         /\ ~(Len(q) > 1) => q[Len(q)] = Head(q)
<1>1. PICK n \in Nat : n = Len(q)
  OBVIOUS
<1>2. n # 0 /\ Head(q) = q[1]
  BY <1>1
<1>3. Tail(q) \in Seq(R) /\ Len(Tail(q)) = n - 1
  BY <1>1, <1>2
<1>4. Tail(q) # <<>> <=> n > 1
  <2>1. \A s \in Seq(R) : s = <<>> <=> Len(s) = 0
    OBVIOUS
  <2>2. n - 1 = 0 <=> ~(n > 1)
    BY <1>2
  <2> QED
    BY <1>3, <2>1, <2>2
<1>5. n > 1 => Tail(q)[Len(Tail(q))] = q[n]
  BY <1>1, <1>2, <1>3
<1>6. n >= 1 /\ (~(n > 1) => n = 1)
  BY <1>2
<1> QED
  BY <1>1, <1>2, <1>4, <1>5, <1>6

\* A command is at work: what is known of the queue.
LEMMA Executed ==
  ASSUME TypeInv, queue # <<>>
  PROVE  /\ cpc = "idle" => Pending
         /\ cpc # "idle" => (Pending <=> Len(queue) > 1)
         /\ Tail(queue) # <<>> <=> Len(queue) > 1
         /\ Len(queue) > 1 => Tail(queue)[Len(Tail(queue))] = queue[Len(queue)]
         /\ ~(Len(queue) > 1) => queue[Len(queue)] = Head(queue)
<1>1. queue \in Seq([req : Requests, start : BOOLEAN])
  BY DEF TypeInv, TypeOK, RequestsOK
<1> QED
  BY <1>1, QueueEnd DEF Pending

LEMMA RelayStep == TypeInv /\ SessionInv /\ WantInv /\ WorkerInv /\ RelayInv /\ [Next]_vars => RelayInv'
<1> SUFFICES ASSUME TypeInv, SessionInv, WantInv, WorkerInv, RelayInv, [Next]_vars PROVE RelayInv'
  OBVIOUS
<1> USE DEF vars, reqVars, relayVars, monVars, lockVars, histVars
<1> DEFINE Kept == UNCHANGED <<queue, cpc, run, proc, live, missed, kept>>
(* What follows the session goes on to follow it. *)
<1>0. ASSUME Kept, ses'.src = ses.src, NEW b \in BOOLEAN, Follows(b) PROVE Follows(b)'
  BY <1>0 DEF Follows, Pending, Obeyed
(* The worker's steps: they change the relay, and answer a request at most. *)
<1>00. ASSUME UNCHANGED <<ses, want>>, ~torn' => ~torn,
              \A r \in Requests : \/ pc'[r] = pc[r]
                                  \/ pc[r] = "wait" /\ pc'[r] = AfterCommand(r),
              ~torn /\ ses.src \in Srt /\ Same /\ Follows(TRUE) => Follows(TRUE)',
              ~torn /\ ses.src \in Srt /\ Follows(FALSE) => Follows(FALSE)'
       PROVE  RelayInv'
  <2> SUFFICES ASSUME ~torn' PROVE /\ Open' = {} /\ ses.src \in Srt => Follows(ses.conn)'
                                   /\ \A r \in Open' : RelayOf(r)'
    BY <1>00 DEF RelayInv
  <2>1. Open' = Open
    BY <1>00 DEF Open, AfterCommand
  <2>2. ASSUME Open' = {}, ses.src \in Srt PROVE Follows(ses.conn)'
    <3>1. Same /\ Follows(ses.conn) /\ ses.conn \in BOOLEAN
      BY <1>00, <2>1, <2>2 DEF SessionInv, RelayInv, TypeInv, TypeOK, FilesOK
    <3>2. CASE ses.conn = TRUE
      BY <1>00, <2>2, <3>1, <3>2
    <3>3. CASE ses.conn = FALSE
      BY <1>00, <2>2, <3>1, <3>3
    <3> QED
      BY <3>1, <3>2, <3>3
  <2>3. ASSUME NEW r \in Open PROVE RelayOf(r)'
    <3>1. RelayOf(r) /\ Fits(r) /\ r \in Requests
      BY <1>00 DEF RelayInv, SessionInv, Open
    <3>2. pc'[r] = pc[r] \/ (pc[r] = "wait" /\ pc'[r] \in {"fresh", "relay"} /\ pc'[r] = AfterCommand(r))
      BY <1>00, <3>1 DEF AfterCommand
    <3>3. pc'[r] \in {"send", "wait", "fresh"} /\ want'[r] # NoSource => ses'.conn /\ ses'.src = want'[r]
      BY <1>00, <3>1, <3>2 DEF RelayOf
    <3>4. ASSUME pc'[r] \in {"wait", "fresh"} \cup Ending, ses'.src \in Srt
          PROVE  Follows(want[r] # NoSource)'
      <4>1. pc[r] \in {"wait", "fresh"} \cup Ending /\ ses.src \in Srt
        BY <1>00, <3>2, <3>4
      <4>2. Follows(want[r] # NoSource)
        BY <3>1, <4>1 DEF RelayOf
      <4>3. CASE want[r] = NoSource
        BY <1>00, <4>1, <4>2, <4>3
      <4>4. CASE want[r] # NoSource
        <5>1. Same
          BY <3>1, <4>1, <4>4 DEF WantInv, Fits, Between, Ending
        <5> QED
          BY <1>00, <4>1, <4>2, <4>4, <5>1
      <4> QED
        BY <4>3, <4>4
    <3> QED
      BY <3>3, <3>4 DEF RelayOf
  <2> QED
    BY <2>1, <2>2, <2>3
(* A request's step: while nothing is torn it is the only one. *)
<1>000. ASSUME NEW r \in Requests, r \in Open, NEW p \in Places, p # "idle", pc' = [pc EXCEPT ![r] = p],
               ~torn' => ~torn,
               ~torn' => IF p = "done" THEN ses'.src \in Srt => Follows(ses.conn)' ELSE RelayOf(r)'
        PROVE  RelayInv'
  <2> SUFFICES ASSUME ~torn' PROVE RelayInv'
    BY DEF RelayInv
  <2>1. \A q \in Requests : q # r => q \notin Open /\ q \notin Open'
    BY <1>000 DEF SessionInv, Open, TypeInv, TypeOK, RequestsOK
  <2>2. Open' = IF p = "done" THEN {} ELSE {r}
    BY <1>000, <2>1 DEF Open, TypeInv, TypeOK, RequestsOK
  <2>3. CASE p = "done"
    BY <1>000, <2>2, <2>3 DEF RelayInv
  <2>4. CASE p # "done"
    BY <1>000, <2>2, <2>4 DEF RelayInv
  <2> QED
    BY <2>3, <2>4
(* The step of a disconnect on its way, or of a connect before it writes the session. *)
<1>0000. ASSUME NEW r \in Requests, r \in Open, NEW p \in Places, p \notin {"idle", "done"},
                pc' = [pc EXCEPT ![r] = p], want' = want, ses' = ses, Kept, ~torn' => ~torn,
                p \in {"send", "wait", "fresh"} => want[r] = NoSource,
                p \in {"wait", "fresh"} \cup Ending
                  => pc[r] \in {"wait", "fresh"} \cup Ending \/ (~torn => ses.src \notin Srt)
         PROVE  RelayInv'
  <2> SUFFICES ASSUME ~torn' PROVE RelayOf(r)'
    BY <1>000, <1>0000
  <2>1. pc'[r] = p
    BY <1>0000 DEF TypeInv, TypeOK, RequestsOK
  <2>2. RelayOf(r)
    BY <1>0000 DEF RelayInv
  <2>3. ASSUME p \in {"wait", "fresh"} \cup Ending, ses.src \in Srt
        PROVE  Follows(want[r] # NoSource)'
    <3>1. Follows(want[r] # NoSource)
      BY <1>0000, <2>2, <2>3 DEF RelayOf
    <3>2. CASE want[r] = NoSource
      BY <1>0, <1>0000, <3>1, <3>2
    <3>3. CASE want[r] # NoSource
      BY <1>0, <1>0000, <3>1, <3>3
    <3> QED
      BY <3>2, <3>3
  <2> QED
    BY <1>0000, <2>1, <2>3 DEF RelayOf
<1>1. ASSUME NEW r \in Requests, NEW s \in Source0, Arrive(r, s) PROVE RelayInv'
  <2> SUFFICES ASSUME ~torn' PROVE RelayInv'
    BY DEF RelayInv
  <2>1. Open = {} /\ pc[r] = "idle" /\ pc' = [pc EXCEPT ![r] = "read"]
    BY <1>1 DEF Arrive, Goto
  <2>2. Open' = {r} /\ pc'[r] = "read"
    BY <2>1 DEF Open, TypeInv, TypeOK, RequestsOK
  <2> QED
    BY <2>2 DEF RelayInv, RelayOf, Ending
<1>2. ASSUME NEW r \in Requests, ReadRuntime(r) PROVE RelayInv'
  <2>1. PICK p \in Places : pc' = [pc EXCEPT ![r] = p]
    BY <1>2 DEF ReadRuntime, Goto, Places
  <2>2. /\ r \in Open /\ p \notin {"idle", "done", "wait", "fresh"}
        /\ want' = want /\ ses' = ses /\ Kept /\ torn' = torn
        /\ p = "send" => want[r] = NoSource
    <3>1. pc'[r] = p
      BY <2>1 DEF TypeInv, TypeOK, RequestsOK
    <3>2. pc[r] \in {"read", "read2", "read3"} /\ p \in {"write", "send", "read2", "flag", "levels"}
      BY <1>2, <3>1 DEF ReadRuntime, Goto, TypeInv, TypeOK, RequestsOK
    <3>3. p = "send" => want[r] = NoSource
      BY <1>2, <3>1 DEF ReadRuntime, Goto, TypeInv, TypeOK, RequestsOK
    <3>4. want' = want /\ ses' = ses /\ Kept /\ torn' = torn
      BY <1>2 DEF ReadRuntime
    <3> QED
      BY <3>2, <3>3, <3>4 DEF Open
  <2>4. p \in Ending => pc[r] \in Ending \/ (pc[r] = "read" /\ rt.src \notin Srt)
    <3>1. pc'[r] = p
      BY <2>1 DEF TypeInv, TypeOK, RequestsOK
    <3> QED
      BY <1>2, <3>1 DEF ReadRuntime, Goto, Ending, TypeInv, TypeOK, RequestsOK
  <2>3. ~torn /\ pc[r] = "read" => rt.src = ses.src
    BY <2>2 DEF SessionInv, Fits, Between, Same
  <2> QED
    BY <2>1, <2>2, <2>3, <2>4, <1>0000
<1>3. ASSUME NEW r \in Requests, ConnectWrite(r) PROVE RelayInv'
  <2>1. /\ r \in Open /\ pc' = [pc EXCEPT ![r] = "session"] /\ want' = want /\ ses' = ses /\ Kept
        /\ ~torn' => ~torn
    BY <1>3 DEF ConnectWrite, Goto, Open, WriteRuntime
  <2> QED
    BY <2>1, <1>0000 DEF Places, Ending
<1>4. ASSUME NEW r \in Requests, ConnectSession(r) PROVE RelayInv'
  <2>1. PICK p \in {"send", "fresh"} : pc' = [pc EXCEPT ![r] = p]
    BY <1>4 DEF ConnectSession, Goto
  <2>2. /\ r \in Open /\ want' = want /\ torn' = torn /\ ses' = [conn |-> TRUE, src |-> want[r]]
        /\ p = "fresh" => want[r] \notin Srt
    BY <1>4, <2>1 DEF ConnectSession, Goto, Open, TypeInv, TypeOK, RequestsOK
  <2>3. pc'[r] = p
    BY <2>1 DEF TypeInv, TypeOK, RequestsOK
  <2>4. RelayOf(r)'
    BY <2>2, <2>3 DEF RelayOf, Ending
  <2> QED
    BY <2>1, <2>2, <2>4, <1>000 DEF Places
<1>5. ASSUME NEW r \in Requests, FreshEnough(r) \/ StampAndLaunch(r) PROVE RelayInv'
  <2>1. /\ r \in Open /\ pc[r] = "fresh" /\ pc' = [pc EXCEPT ![r] = "done"] /\ ses' = ses /\ Kept
        /\ ~torn' => ~torn
    <3>1. CASE FreshEnough(r)
      BY <3>1 DEF FreshEnough, End, Goto, Open
    <3>2. CASE StampAndLaunch(r)
      BY <3>2 DEF StampAndLaunch, End, Goto, Open, WriteRuntime
    <3> QED
      BY <1>5, <3>1, <3>2
  <2>2. ASSUME ~torn', ses'.src \in Srt PROVE Follows(ses.conn)'
    <3>1. want[r] # NoSource /\ RelayOf(r)
      BY <2>1, <2>2 DEF WantInv, RelayInv
    <3>2. ses.conn = TRUE /\ Follows(TRUE)
      BY <2>1, <2>2, <3>1 DEF RelayOf, TypeInv, TypeOK, FilesOK
    <3> QED
      BY <1>0, <2>1, <3>2
  <2> QED
    BY <2>1, <2>2, <1>000 DEF Places
<1>6. ASSUME NEW r \in Requests, DisconnectWrite(r) PROVE RelayInv'
  <2>1. PICK p \in {"read2", "read3", "sread"} : pc' = [pc EXCEPT ![r] = p]
    BY <1>6 DEF DisconnectWrite, Goto
  <2>2. /\ r \in Open /\ pc[r] \in Ending /\ want' = want /\ ses' = ses /\ Kept
        /\ ~torn' => ~torn
    BY <1>6 DEF DisconnectWrite, Goto, Open, WriteRuntime, Ending
  <2> QED
    BY <2>1, <2>2, <1>0000 DEF Places
<1>7. ASSUME NEW r \in Requests, ReadSession(r) PROVE RelayInv'
  <2>1. /\ r \in Open /\ pc[r] \in Ending /\ pc' = [pc EXCEPT ![r] = "swrite"]
        /\ want' = want /\ ses' = ses /\ Kept /\ torn' = torn
    BY <1>7 DEF ReadSession, Goto, Open, Ending
  <2> QED
    BY <2>1, <1>0000 DEF Places
<1>8. ASSUME NEW r \in Requests, DisconnectSession(r) PROVE RelayInv'
  <2>1. /\ r \in Open /\ pc[r] = "swrite" /\ pc' = [pc EXCEPT ![r] = "done"] /\ Kept
        /\ ses' = [conn |-> FALSE, src |-> copy[r].src] /\ torn' = torn
    BY <1>8 DEF DisconnectSession, End, Goto, Open
  <2>2. ASSUME ~torn', ses'.src \in Srt PROVE Follows(ses.conn)'
    <3>1. Fits(r) /\ RelayOf(r) /\ want[r] = NoSource
      BY <2>1, <2>2 DEF SessionInv, RelayInv, WantInv, Ending
    <3>2. ses'.src = ses.src /\ ses'.conn = FALSE
      BY <2>1, <3>1 DEF Fits
    <3>3. Follows(FALSE)
      BY <2>1, <2>2, <3>1, <3>2 DEF RelayOf, Ending
    <3> QED
      BY <1>0, <2>1, <3>2, <3>3
  <2> QED
    BY <2>1, <2>2, <1>000 DEF Places
<1>9. ASSUME NEW r \in Requests, Refused(r) PROVE RelayInv'
  <2>1. PICK p \in {"fresh", "relay"} : pc' = [pc EXCEPT ![r] = p] /\ p = AfterCommand(r)
    BY <1>9 DEF Refused, Goto, AfterCommand
  <2>2. /\ r \in Open /\ pc[r] = "send" /\ want' = want /\ ses' = ses /\ torn' = torn
        /\ ~run' /\ ~live' /\ queue' = <<>> /\ missed'
    BY <1>9 DEF Refused, Goto, Open, WorkerInv
  <2>3. ASSUME NEW b \in BOOLEAN PROVE Follows(b)'
    BY <2>2 DEF Follows, Pending, Obeyed
  <2>4. pc'[r] = p
    BY <2>1 DEF TypeInv, TypeOK, RequestsOK
  <2>5. ~torn' => RelayOf(r)'
    <3> SUFFICES ASSUME ~torn' PROVE RelayOf(r)'
      OBVIOUS
    <3>1. RelayOf(r)
      BY <2>2 DEF RelayInv
    <3>2. Follows(TRUE)' /\ Follows(FALSE)'
      BY <2>3
    <3>3. Follows(want[r] # NoSource)'
      <4>1. CASE want[r] = NoSource
        BY <2>2, <3>2, <4>1
      <4>2. CASE want[r] # NoSource
        BY <2>2, <3>2, <4>2
      <4> QED
        BY <4>1, <4>2
    <3> QED
      BY <2>2, <3>1, <3>3 DEF RelayOf
  <2> QED
    BY <2>1, <2>2, <2>5, <1>000 DEF Places
<1>10. ASSUME NEW r \in Requests, Send(r) PROVE RelayInv'
  <2>1. /\ r \in Open /\ pc[r] = "send" /\ pc' = [pc EXCEPT ![r] = "wait"] /\ want' = want
        /\ ses' = ses /\ torn' = torn /\ cpc' = cpc
        /\ queue' = Append(queue, [req |-> r, start |-> want[r] # NoSource])
    BY <1>10 DEF Send, Goto, Open
  <2>2. pc'[r] = "wait"
    BY <2>1 DEF TypeInv, TypeOK, RequestsOK
  <2>3. /\ Len(queue') = Len(queue) + 1 /\ Len(queue) \in Nat
        /\ queue'[Len(queue')] = [req |-> r, start |-> want[r] # NoSource]
        /\ queue # <<>> => Len(queue) # 0
        /\ queue' # <<>>
    BY <2>1 DEF TypeInv, TypeOK, RequestsOK
  <2>4. Pending'
    BY <2>1, <2>3 DEF Pending, TypeInv, ControlInv
  <2>5. Follows(want[r] # NoSource)'
    BY <2>1, <2>3, <2>4 DEF Follows
  <2>6. ~torn' => RelayOf(r)'
    BY <2>1, <2>2, <2>5 DEF RelayOf, RelayInv
  <2> QED
    BY <2>1, <2>6, <1>000 DEF Places
<1>11. ASSUME NEW r \in Requests, GivesUp(r) PROVE RelayInv'
  <2>1. PICK p \in {"fresh", "relay"} : pc' = [pc EXCEPT ![r] = p] /\ p = AfterCommand(r)
    BY <1>11 DEF GivesUp, Goto, AfterCommand
  <2>2. /\ pc[r] = "wait" /\ UNCHANGED <<ses, want, torn>> /\ Kept
    BY <1>11 DEF GivesUp, Goto
  <2>3. \A q \in Requests : pc'[q] = pc[q] \/ (pc[q] = "wait" /\ pc'[q] = AfterCommand(q))
    BY <2>1, <2>2 DEF TypeInv, TypeOK, RequestsOK
  <2> QED
    BY <2>2, <2>3, <1>0, <1>00
<1>12. ASSUME StartFinds PROVE RelayInv'
  <2>1. /\ UNCHANGED <<ses, want, torn, cpc, run, proc, live, missed>> /\ cpc = "idle" /\ run
        /\ queue # <<>> /\ Head(queue).start = TRUE /\ queue' = Tail(queue)
        /\ kept' = (kept \/ proc # SrtOf(rt.src))
        /\ \A r \in Requests : pc'[r] = pc[r] \/ (pc[r] = "wait" /\ pc'[r] = AfterCommand(r))
    BY <1>12 DEF StartFinds, Command, Answer
  <2>2. ses.src \in Srt /\ Same /\ Follows(TRUE) => Follows(TRUE)'
    BY <2>1, Executed DEF Follows, Pending, Obeyed, Same, SrtOf
  <2>3. Follows(FALSE) => Follows(FALSE)'
    BY <2>1, Executed DEF Follows, Pending, Obeyed
  <2> QED
    BY <2>1, <2>2, <2>3, <1>00
<1>13. ASSUME StartLaunches PROVE RelayInv'
  <2>1. /\ UNCHANGED <<ses, want, torn, pc, queue>> /\ cpc = "idle" /\ cpc' = "on" /\ run'
        /\ queue # <<>> /\ Head(queue).start = TRUE /\ proc' = SrtOf(rt.src)
    BY <1>13 DEF StartLaunches, Command
  <2>2. ses.src \in Srt /\ Same /\ Follows(TRUE) => Follows(TRUE)'
    BY <2>1, Executed DEF Follows, Pending, Obeyed, Same, SrtOf
  <2>3. Follows(FALSE) => Follows(FALSE)'
    BY <2>1, Executed DEF Follows, Pending, Obeyed
  <2> QED
    BY <2>1, <2>2, <2>3, <1>00
<1>14. ASSUME StartFails PROVE RelayInv'
  <2>1. /\ UNCHANGED <<ses, want, torn, cpc, run>> /\ cpc = "idle"
        /\ queue # <<>> /\ Head(queue).start = TRUE /\ queue' = Tail(queue) /\ missed' /\ ~live'
        /\ \A r \in Requests : pc'[r] = pc[r] \/ (pc[r] = "wait" /\ pc'[r] = AfterCommand(r))
    BY <1>14 DEF StartFails, Command, Answer
  <2>2. Follows(TRUE) => Follows(TRUE)'
    BY <2>1, Executed DEF Follows, Pending, Obeyed
  <2>3. Follows(FALSE) => Follows(FALSE)'
    BY <2>1, Executed DEF Follows, Pending, Obeyed
  <2> QED
    BY <2>1, <2>2, <2>3, <1>00
<1>15. ASSUME StopKills PROVE RelayInv'
  <2>1. /\ UNCHANGED <<ses, want, torn, pc, queue>> /\ cpc = "idle" /\ cpc' = "off" /\ ~run'
        /\ queue # <<>> /\ Head(queue).start = FALSE
    BY <1>15 DEF StopKills, Command
  <2>2. Follows(TRUE) => Follows(TRUE)'
    BY <2>1, Executed DEF Follows, Pending, Obeyed
  <2>3. Follows(FALSE) => Follows(FALSE)'
    BY <2>1, Executed DEF Follows, Pending, Obeyed
  <2> QED
    BY <2>1, <2>2, <2>3, <1>00
<1>16. ASSUME ControlWrite PROVE RelayInv'
  <2>1. /\ UNCHANGED <<ses, want, run, proc, live, missed, kept>> /\ cpc # "idle" /\ cpc' = "idle"
        /\ queue # <<>> /\ queue' = Tail(queue) /\ (~torn' => ~torn)
        /\ \A r \in Requests : pc'[r] = pc[r] \/ (pc[r] = "wait" /\ pc'[r] = AfterCommand(r))
    BY <1>16 DEF ControlWrite, NoteWrite, Answer, TypeInv, ControlInv
  <2>2. \A b \in BOOLEAN : Follows(b) => Follows(b)'
    BY <2>1, Executed DEF Follows, Pending, Obeyed
  <2> QED
    BY <2>1, <2>2, <1>00
<1>17. ASSUME PollDrop \/ RelayDies PROVE RelayInv'
  <2>1. UNCHANGED <<ses, want, pc, torn, queue, cpc, run, missed, kept>> /\ ~live'
    BY <1>17 DEF PollDrop, RelayDies
  <2>2. \A b \in BOOLEAN : Follows(b) => Follows(b)'
    BY <2>1 DEF Follows, Pending, Obeyed
  <2> QED
    BY <2>1, <2>2, <1>00
<1>18. ASSUME PollClear PROVE RelayInv'
  <2>1. UNCHANGED <<ses, want, pc, torn, queue, cpc, live, proc, kept>> /\ ~run' /\ missed'
    BY <1>18 DEF PollClear
  <2>2. \A b \in BOOLEAN : Follows(b) => Follows(b)'
    BY <2>1 DEF Follows, Pending, Obeyed
  <2> QED
    BY <2>1, <2>2, <1>00
<1>19. ASSUME NEW clean \in BOOLEAN, WorkerDown(clean) PROVE RelayInv'
  <2>1. /\ UNCHANGED <<ses, want, pc, torn>> /\ queue' = <<>> /\ cpc' = "idle" /\ ~run' /\ ~live'
        /\ missed'
    BY <1>19 DEF WorkerDown
  <2>2. \A b \in BOOLEAN : Follows(b)'
    BY <2>1 DEF Follows, Pending, Obeyed
  <2> QED
    BY <2>1, <2>2, <1>00
<1>20. ASSUME \/ ControlRead \/ PollTest \/ PollRead \/ PollWrite \/ MonitorStep \/ WorkerUp
              \/ \E s \in Sources : OrphanDies(s)
              \/ UNCHANGED vars
       PROVE  RelayInv'
  <2>1. UNCHANGED <<ses, want, pc>> /\ Kept /\ (~torn' => ~torn)
    <3>1. CASE PollWrite \/ MonitorWrite
      BY <3>1 DEF PollWrite, MonitorWrite, NoteWrite
    <3>2. CASE ControlRead \/ PollRead \/ MonitorRead
      BY <3>2 DEF ControlRead, PollRead, MonitorRead, NoteRead
    <3>3. CASE PollTest \/ MonitorSample \/ WorkerUp \/ \E s \in Sources : OrphanDies(s)
      BY <3>3 DEF PollTest, MonitorSample, WorkerUp, OrphanDies
    <3>4. CASE UNCHANGED vars
      BY <3>4
    <3> QED
      BY <1>20, <3>1, <3>2, <3>3, <3>4 DEF MonitorStep
  <2> QED
    BY <2>1, <1>0, <1>00
<1> QED
  BY <1>1, <1>2, <1>3, <1>4, <1>5, <1>6, <1>7, <1>8, <1>9, <1>10, <1>11, <1>12, <1>13, <1>14,
       <1>15, <1>16, <1>17, <1>18, <1>19, <1>20
    DEF Next, RequestStep, ControlStep, PollStep

LEMMA MeterStep == TypeInv /\ SessionInv /\ WantInv /\ WorkerInv /\ MeterInv /\ [Next]_vars => MeterInv'
<1> SUFFICES ASSUME TypeInv, SessionInv, WantInv, WorkerInv, MeterInv, [Next]_vars PROVE MeterInv'
  OBVIOUS
<1> USE DEF vars, reqVars, relayVars, monVars, lockVars, histVars
<1> DEFINE Shown == LevelFits(rt.level) /\ (holder \in {"control", "main"} => LevelFits(wcopy.level))
(* Steps of others than the monitor: the levels it holds and has measured stay. *)
<1>0. ASSUME UNCHANGED monVars, ses' = ses \/ moved', moved' = moved \/ moved',
             npc = "sample" /\ ~moved' /\ ~torn' /\ Settled' => Shown'
      PROVE  MeterInv'
  BY <1>0 DEF MeterInv, HeldInv, LevelInv, ShownInv, LevelFits
(* A request that is on its way after the step: not settled. *)
<1>00. ASSUME NEW r \in Requests, r \in Open, NEW p \in Places \ {"idle", "done"},
              pc' = [pc EXCEPT ![r] = p], ~torn,
              want'[r] = NoSource \/ p \notin {"send", "wait", "fresh"}
       PROVE  ~Settled'
  <2>1. \A q \in Requests : q # r => q \notin Open
    BY <1>00 DEF SessionInv, Open
  <2>2. Open' = {r} /\ pc'[r] = p
    BY <1>00, <2>1 DEF Open, TypeInv, TypeOK, RequestsOK
  <2> QED
    BY <1>00, <2>2 DEF Settled
(* The worker's steps: the same requests are settled. *)
<1>000. ASSUME want' = want,
               \A r \in Requests : \/ pc'[r] = pc[r]
                                   \/ pc[r] = "wait" /\ pc'[r] = AfterCommand(r)
        PROVE  Settled' => Settled
  <2>1. \A r \in Requests :
          /\ r \in Open' <=> r \in Open
          /\ want[r] # NoSource /\ pc'[r] \in {"send", "wait", "fresh"} => pc[r] \in {"send", "wait", "fresh"}
    BY <1>000 DEF Open, AfterCommand
  <2>2. Open' = Open
    BY <2>1 DEF Open
  <2> QED
    BY <1>000, <2>1, <2>2 DEF Settled, Open
<1>1. ASSUME NEW r \in Requests, NEW s \in Source0, Arrive(r, s) PROVE MeterInv'
  <2>1. ASSUME ~torn' PROVE ~Settled'
    <3>1. Open = {} /\ pc[r] = "idle" /\ pc' = [pc EXCEPT ![r] = "read"]
      BY <1>1, <2>1 DEF Arrive, Goto
    <3>2. Open' = {r} /\ pc'[r] = "read"
      BY <3>1 DEF Open, TypeInv, TypeOK, RequestsOK
    <3> QED
      BY <3>2 DEF Settled
  <2>2. UNCHANGED monVars /\ ses' = ses /\ moved' = moved
    BY <1>1 DEF Arrive
  <2> QED
    BY <2>1, <2>2, <1>0
<1>2. ASSUME NEW r \in Requests, ReadRuntime(r) PROVE MeterInv'
  <2>1. PICK p \in Places : pc' = [pc EXCEPT ![r] = p]
    BY <1>2 DEF ReadRuntime, Goto, Places
  <2>2. pc'[r] = p /\ UNCHANGED <<monVars, ses, moved, torn, want>>
    BY <1>2, <2>1 DEF ReadRuntime, TypeInv, TypeOK, RequestsOK
  <2>3. p \in {"write", "send", "read2", "flag", "levels"} /\ (p = "send" => want[r] = NoSource)
    BY <1>2, <2>2 DEF ReadRuntime, Goto, TypeInv, TypeOK, RequestsOK
  <2>4. r \in Open
    BY <1>2 DEF ReadRuntime, Goto, Open
  <2> QED
    BY <2>1, <2>2, <2>3, <2>4, <1>0, <1>00
<1>3. ASSUME NEW r \in Requests, ConnectWrite(r) PROVE MeterInv'
  <2>1. /\ r \in Open /\ pc' = [pc EXCEPT ![r] = "session"] /\ (~torn' => ~torn)
        /\ UNCHANGED <<monVars, ses, moved>>
    BY <1>3 DEF ConnectWrite, Goto, Open, WriteRuntime
  <2> QED
    BY <2>1, <1>0, <1>00 DEF Places
<1>4. ASSUME NEW r \in Requests, ConnectSession(r) \/ DisconnectSession(r) PROVE MeterInv'
  <2>1. UNCHANGED monVars /\ moved'
    BY <1>4 DEF ConnectSession, DisconnectSession
  <2> QED
    BY <2>1, <1>0
<1>5. ASSUME NEW r \in Requests, FreshEnough(r) \/ StampAndLaunch(r) PROVE MeterInv'
  <2>1. /\ pc[r] = "fresh" /\ (~torn' => ~torn)
        /\ UNCHANGED <<monVars, ses, moved, holder, wcopy>> /\ (rt' = rt \/ rt' = copy[r])
    <3>1. CASE FreshEnough(r)
      BY <3>1 DEF FreshEnough, End, Goto
    <3>2. CASE StampAndLaunch(r)
      BY <3>2 DEF StampAndLaunch, End, Goto, WriteRuntime
    <3> QED
      BY <1>5, <3>1, <3>2
  <2>2. r \in Open /\ want[r] # NoSource /\ copy[r].level = NoSource
    BY <2>1 DEF Open, WantInv
  <2>3. Settled
    BY <2>1, <2>2 DEF Settled
  <2>4. npc = "sample" /\ ~moved' /\ ~torn' => Shown'
    BY <2>1, <2>2, <2>3 DEF MeterInv, ShownInv, LevelFits
  <2> QED
    BY <2>1, <2>4, <1>0
<1>6. ASSUME NEW r \in Requests, DisconnectWrite(r) \/ ReadSession(r) PROVE MeterInv'
  <2>1. /\ r \in Open /\ \E p \in {"read2", "read3", "sread", "swrite"} : pc' = [pc EXCEPT ![r] = p]
        /\ ~torn' => ~torn
        /\ UNCHANGED <<monVars, ses, moved>>
    <3>1. CASE DisconnectWrite(r)
      BY <3>1 DEF DisconnectWrite, Goto, Open, WriteRuntime
    <3>2. CASE ReadSession(r)
      BY <3>2 DEF ReadSession, Goto, Open
    <3> QED
      BY <1>6, <3>1, <3>2
  <2> QED
    BY <2>1, <1>0, <1>00 DEF Places
<1>7. ASSUME NEW r \in Requests, Refused(r) \/ Send(r) \/ GivesUp(r) PROVE MeterInv'
  <2>1. PICK p \in {"wait", "fresh", "relay"} : pc' = [pc EXCEPT ![r] = p]
    BY <1>7 DEF Refused, Send, GivesUp, Goto, AfterCommand
  <2>2. /\ pc[r] \in {"send", "wait"} /\ UNCHANGED <<rt, monVars, ses, moved, torn, want, holder, wcopy>>
    BY <1>7 DEF Refused, Send, GivesUp, Goto
  <2>3. r \in Open
    BY <2>2 DEF Open
  <2>4. CASE want[r] = NoSource
    BY <2>1, <2>2, <2>3, <2>4, <1>0, <1>00 DEF Places
  <2>5. CASE want[r] # NoSource
    <3>1. Settled
      BY <2>2, <2>3, <2>5 DEF Settled
    <3>2. npc = "sample" /\ ~moved' /\ ~torn' => Shown'
      BY <2>2, <3>1 DEF MeterInv, ShownInv, LevelFits
    <3> QED
      BY <2>2, <3>2, <1>0
  <2> QED
    BY <2>4, <2>5
<1>8. ASSUME ControlRead \/ PollRead PROVE MeterInv'
  <2>1. /\ UNCHANGED <<rt, monVars, ses, moved, torn, pc, want>> /\ wcopy' = rt
    BY <1>8 DEF ControlRead, PollRead, NoteRead
  <2>2. npc = "sample" /\ ~moved' /\ ~torn' /\ Settled' => Shown'
    BY <2>1, <1>000 DEF MeterInv, ShownInv, LevelFits
  <2> QED
    BY <2>1, <2>2, <1>0
<1>9. ASSUME ControlWrite \/ PollWrite PROVE MeterInv'
  <2>1. /\ UNCHANGED <<monVars, ses, moved, want>> /\ (~torn' => ~torn)
        /\ holder \in {"control", "main"} /\ holder' = "none"
        /\ \E b \in BOOLEAN : rt' = [wcopy EXCEPT !.relay = b]
    BY <1>9 DEF ControlWrite, PollWrite, NoteWrite
  <2>2. rt'.level = wcopy.level
    BY <2>1 DEF TypeInv, TypeOK, FilesOK, Runtimes
  <2>3. \A r \in Requests : pc'[r] = pc[r] \/ (pc[r] = "wait" /\ pc'[r] = AfterCommand(r))
    BY <1>9 DEF ControlWrite, PollWrite, Answer
  <2>4. npc = "sample" /\ ~moved' /\ ~torn' /\ Settled' => Shown'
    BY <2>1, <2>2, <2>3, <1>000 DEF MeterInv, ShownInv, LevelFits
  <2> QED
    BY <2>1, <2>4, <1>0
<1>10. ASSUME MonitorSample PROVE MeterInv'
  <2>1. npc' = "note" /\ key' = SessionKey /\ ses' = ses
    BY <1>10 DEF MonitorSample
  <2>2. LastMeter # NoSource => /\ SessionKey = key /\ held = LastMeter /\ held # NoSource
    BY DEF LastMeter
  <2>3. LastMeter # NoSource => \/ SessionKey \in Rtp /\ LastMeter = SessionKey
                                \/ SessionKey = "relay" /\ LastMeter \in Srt
    BY <2>2 DEF MeterInv, HeldInv
  <2>4. LevelFits(LastMeter)
    BY <2>3, SessionAssumption DEF LevelFits, SessionKey, Relayed
  <2>5. CASE level' = ses.src /\ held' = level' /\ ses.conn /\ ses.src \in Rtp /\ ~Relayed
    <3>1. SessionKey = ses.src
      BY <2>5 DEF SessionKey
    <3> QED
      BY <2>1, <2>5, <3>1, SessionAssumption DEF MeterInv, HeldInv, LevelInv, ShownInv, LevelFits
  <2>6. CASE level' \in RelaySound /\ held' = level' /\ ses.conn /\ Relayed
    <3>1. SessionKey = "relay" /\ ses.src \in Srt
      BY <2>6 DEF SessionKey, Relayed
    <3>2. level' \in Srt
      BY <2>6, SessionAssumption DEF RelaySound, WorkerInv, TypeInv, TypeOK, RelayOK
    <3> QED
      BY <2>1, <2>6, <3>1, <3>2, SessionAssumption DEF MeterInv, HeldInv, LevelInv, ShownInv, LevelFits
  <2>7. CASE level' \in {LastMeter, NoSource} /\ held' = LastMeter
    <3>1. HeldInv'
      BY <2>1, <2>3, <2>7 DEF HeldInv
    <3>2. LevelFits(level)'
      BY <2>1, <2>4, <2>7 DEF LevelFits
    <3> QED
      BY <2>1, <3>1, <3>2 DEF MeterInv, LevelInv, ShownInv
  <2> QED
    BY <1>10, <2>5, <2>6, <2>7, SessionAssumption DEF MonitorSample, Relayed
<1>11. ASSUME MonitorWrite PROVE MeterInv'
  <2>1. /\ holder = "monitor" /\ holder' = "none" /\ npc = "note" /\ npc' = "sample"
        /\ UNCHANGED <<key, held, ses, moved>>
        /\ rt' = [wcopy EXCEPT !.level = level]
    BY <1>11 DEF MonitorWrite, NoteWrite, TypeInv, ControlInv
  <2>2. rt'.level = level
    BY <2>1 DEF TypeInv, TypeOK, FilesOK, Runtimes
  <2>3. ~moved' => LevelFits(rt.level)'
    BY <2>1, <2>2 DEF MeterInv, LevelInv, LevelFits
  <2> QED
    BY <2>1, <2>3 DEF MeterInv, HeldInv, LevelInv, ShownInv
<1>12. ASSUME NEW clean \in BOOLEAN, WorkerDown(clean) PROVE MeterInv'
  BY <1>12 DEF WorkerDown, MeterInv, HeldInv, LevelInv, ShownInv
<1>13. ASSUME \/ StartFinds \/ StartLaunches \/ StartFails \/ StopKills
              \/ PollTest \/ PollDrop \/ PollClear \/ RelayDies \/ WorkerUp
              \/ \E s \in Sources : OrphanDies(s)
              \/ UNCHANGED vars
       PROVE  MeterInv'
  <2>1. /\ UNCHANGED <<rt, monVars, ses, moved, torn, want, holder, wcopy>>
        /\ \A r \in Requests : pc'[r] = pc[r] \/ (pc[r] = "wait" /\ pc'[r] = AfterCommand(r))
    <3>1. CASE StartFinds \/ StartLaunches \/ StartFails \/ StopKills
      BY <3>1 DEF StartFinds, StartLaunches, StartFails, StopKills, Answer
    <3>2. CASE PollTest \/ PollDrop \/ PollClear \/ RelayDies \/ WorkerUp
      BY <3>2 DEF PollTest, PollDrop, PollClear, RelayDies, WorkerUp
    <3>3. CASE \E s \in Sources : OrphanDies(s)
      BY <3>3 DEF OrphanDies
    <3>4. CASE UNCHANGED vars
      BY <3>4
    <3> QED
      BY <1>13, <3>1, <3>2, <3>3, <3>4
  <2>2. npc = "sample" /\ ~moved' /\ ~torn' /\ Settled' => Shown'
    BY <2>1, <1>000 DEF MeterInv, ShownInv, LevelFits
  <2> QED
    BY <2>1, <2>2, <1>0
<1>14. ASSUME MonitorRead PROVE MeterInv'
  <2>1. npc = "note" /\ UNCHANGED <<monVars, ses, moved>>
    BY <1>14 DEF MonitorRead, NoteRead
  <2> QED
    BY <2>1, <1>0
<1> QED
  BY <1>1, <1>2, <1>3, <1>4, <1>5, <1>6, <1>7, <1>8, <1>9, <1>10, <1>11, <1>12, <1>13, <1>14
    DEF Next, RequestStep, ControlStep, PollStep, MonitorStep

(* SessionFollowed: at rest the SRT relay runs for a connected session and  *)
(* for no other, a stream started on a session hears its source, and the    *)
(* meter shows no levels of another session, for any number of requests,    *)
(* commands answered late and ends of the worker.                           *)
THEOREM SessionHeard == Spec => []SessionFollowed
<1>1. Init => FlagInv /\ SessionInv /\ FollowInv
  <2> SUFFICES ASSUME Init PROVE FlagInv /\ SessionInv /\ FollowInv
    OBVIOUS
  <2>1. FlagInv /\ SessionInv
    BY DEF Init, FlagInv, SessionInv, Same, Open, NoRuntime
  <2>2. WantInv /\ WorkerInv
    BY DEF Init, WantInv, WorkerInv, Ending
  <2>3. RelayInv
    BY SessionAssumption DEF Init, RelayInv, Open
  <2>4. MeterInv
    BY DEF Init, MeterInv, HeldInv, LevelInv, ShownInv, LevelFits, NoRuntime
  <2> QED
    BY <2>1, <2>2, <2>3, <2>4 DEF FollowInv
<1>2. TypeInv /\ FlagInv /\ SessionInv /\ FollowInv /\ [Next]_vars
        => FlagInv' /\ SessionInv' /\ FollowInv'
  BY FlagStep, SessionStep, WantStep, WorkerStep, RelayStep, MeterStep DEF FollowInv
<1>3. TypeInv /\ FlagInv /\ SessionInv /\ FollowInv => SessionFollowed
  <2> SUFFICES ASSUME TypeInv, FlagInv, SessionInv, FollowInv PROVE SessionFollowed
    OBVIOUS
  <2>1. Quiet => Open = {} /\ queue = <<>> /\ cpc = "idle" /\ mpc = "idle"
    BY DEF Quiet, TypeInv, ControlInv
  <2>2. Quiet /\ ~torn /\ ses.src \in Srt => Obeyed(ses.conn)
    BY <2>1 DEF FollowInv, RelayInv, Follows, Pending
  <2>3. RelayFollowsSession
    BY <2>2 DEF RelayFollowsSession, Obeyed
  <2>4. StreamHearsSession
    <3> SUFFICES ASSUME Quiet, up, ses.conn, ~torn, ~astray, ~kept, orphans = {}, run => live
                 PROVE  EncoderInput = {ses.src}
      BY DEF StreamHearsSession
    <3>1. rt.src = ses.src /\ rt.relay = run
      BY <2>1 DEF SessionInv, Same, FlagInv
    <3>2. CASE rt.src \in Srt /\ rt.relay
      <4>1. proc = ses.src
        BY <2>2, <3>1, <3>2 DEF Obeyed
      <4> QED
        BY <3>1, <3>2, <4>1 DEF EncoderInput, RelaySound
    <3>3. CASE ~(rt.src \in Srt /\ rt.relay)
      BY <3>1, <3>3 DEF EncoderInput
    <3> QED
      BY <3>2, <3>3
  <2>5. MeterOfSession
    <3> SUFFICES ASSUME Open = {}, npc = "sample", ~moved, ~torn, rt.level # NoSource
                 PROVE  /\ ses.conn
                        /\ ses.src \in Rtp => rt.level = ses.src
                        /\ ses.src \in Srt => rt.level \in Srt
      BY DEF MeterOfSession
    <3> QED
      BY DEF FollowInv, MeterInv, ShownInv, LevelFits, Settled
  <2> QED
    BY <2>3, <2>4, <2>5 DEF SessionFollowed
<1> QED
  BY <1>1, <1>2, <1>3, TypeInvariant, PTL DEF Spec
=============================================================================
