------------------------ MODULE StreamLifecycleProofs ------------------------
(***************************************************************************)
(* Theorems about StreamLifecycle, for any streams, commanders and bounds. *)
(***************************************************************************)
EXTENDS StreamLifecycle, TLAPS

\* The visiting orders are sequences: their positions are 1..Len.
LEMMA Orders ==
  /\ Len(Order) \in Nat /\ DOMAIN Order = 1..Len(Order) /\ 1 \in DOMAIN Order
  /\ Len(ExitOrder) \in Nat /\ DOMAIN ExitOrder = 1..Len(ExitOrder) /\ 1 \in DOMAIN ExitOrder
  /\ \A i \in DOMAIN Order : Order[i] \in Streams
  /\ \A i \in DOMAIN ExitOrder : ExitOrder[i] \in Streams /\ ExitOrder[i] \in KilledOnExit
  /\ KilledOnExit \subseteq Streams
  BY OrderAssumption DEF Streams, KilledOnExit

\* No pid is the null handle.
LEMMA NoProcNotPid == NoProc \notin Pids
  BY BoundAssumption DEF NoProc, Pids

-----------------------------------------------------------------------------
(* Every variable keeps its type: in particular the walks of the poll, of  *)
(* the gain monitor and of the destructor never leave the list of streams. *)
THEOREM TypeCorrect == Spec => []TypeOK
<1>1. Init => TypeOK
  <2> SUFFICES ASSUME Init PROVE TypeOK
    OBVIOUS
  <2>1. running \in [Streams -> BOOLEAN] /\ state \in [Streams -> LifeStates]
    BY DEF Init, LifeStates
  <2>2. published \in [Streams -> [running : BOOLEAN, state : LifeStates]]
    BY <2>1 DEF Init, Snapshot
  <2>3. /\ proc \in [Streams -> Pids \cup {NoProc}] /\ alive \in [Streams -> SUBSET Pids]
        /\ ffGain \in [Pids -> Gains] /\ intent \in [Streams -> {"start", "stop", "restart"}]
    BY BoundAssumption DEF Init
  <2>4. /\ strm \in [Threads -> Streams] /\ seenGain \in [Threads -> Gains]
        /\ op \in [Threads -> {"start", "stop", "restart"}]
    BY Orders, BoundAssumption DEF Init
  <2>5. nextPid \in 1..(MaxPids + 1) /\ commands \in 0..MaxCommands /\ gainChanges \in 0..MaxGainChanges
    BY BoundAssumption DEF Init
  <2>6. /\ lock \in Threads \cup {NoThread} /\ pending \subseteq Threads \cup {Main}
        /\ droppedBy \subseteq (Threads \cup {Main}) \X Streams /\ late \subseteq Streams
    BY DEF Init
  <2> QED
    BY <2>1, <2>2, <2>3, <2>4, <2>5, <2>6, Orders, BoundAssumption DEF Init, TypeOK
<1>2. TypeOK /\ [Next]_vars => TypeOK'
  <2> SUFFICES ASSUME TypeOK, [Next]_vars PROVE TypeOK'
    OBVIOUS
  <2> USE DEF TypeOK, vars, procVars, jobVars, pubVars, mainVars, gainVars, cmdVars
  <2>1. ASSUME NEW t \in Commanders, Connect(t)
        PROVE  TypeOK'
    BY <2>1, BoundAssumption DEF Connect, Goto, Threads
  <2>0. ASSUME NEW t \in Commanders, HangUp(t)
        PROVE  TypeOK'
    BY <2>0 DEF HangUp, Goto, Threads
  <2>38. ASSUME NEW t \in Commanders, NEW s \in Streams, NEW o \in {"start", "stop"},
               Command(t, s, o)
        PROVE  TypeOK'
    BY <2>38 DEF Command, Goto, Threads
  <2>2. ASSUME NEW t \in Threads, Acquire(t)
        PROVE  TypeOK'
    BY <2>2 DEF Acquire, Goto, Threads
  <2>3. ASSUME NEW t \in Threads, Unlock(t)
        PROVE  TypeOK'
    BY <2>3 DEF Unlock, Goto, Threads
  <2>4. ASSUME NEW t \in Threads, Publish(t)
        PROVE  TypeOK'
    BY <2>4 DEF Publish, Snapshot, LifeStates
  <2>5. ASSUME NEW t \in Threads, Stopping(t)
        PROVE  TypeOK'
    BY <2>5 DEF Stopping, Goto, SetStateAndPublish, Threads, LifeStates
  <2>6. ASSUME NEW t \in Threads, Kill(t)
        PROVE  TypeOK'
    BY <2>6 DEF Kill, Goto, KillProcess, Threads
  <2>7. ASSUME NEW t \in Threads, Clear(t)
        PROVE  TypeOK'
    BY <2>7 DEF Clear, Goto, ClearHandle, Threads
  <2>8. ASSUME NEW t \in Threads, FlagOff(t)
        PROVE  TypeOK'
    BY <2>8 DEF FlagOff, Goto, Threads
  <2>9. ASSUME NEW t \in Threads, Stopped(t)
        PROVE  TypeOK'
    BY <2>9 DEF Stopped, Goto, SetStateAndPublish, Threads, LifeStates
  <2>10. ASSUME NEW t \in Threads, Check(t)
        PROVE  TypeOK'
    BY <2>10 DEF Check, Goto, SetStateAndPublish, Threads, LifeStates
  <2>11. ASSUME NEW t \in Threads, ConfigInvalid(t)
        PROVE  TypeOK'
    BY <2>11 DEF ConfigInvalid, Goto, SetStateAndPublish, Threads, LifeStates
  <2>12. ASSUME NEW t \in Threads, ReadGain(t)
        PROVE  TypeOK'
    BY <2>12 DEF ReadGain, Goto, Threads
  <2>13. ASSUME NEW t \in Threads, Launch(t)
        PROVE  TypeOK'
    BY <2>13, BoundAssumption DEF Launch, Goto, Threads, Pids
  <2>14. ASSUME NEW t \in Threads, LaunchFails(t)
        PROVE  TypeOK'
    BY <2>14 DEF LaunchFails, Goto, SetStateAndPublish, Threads, LifeStates
  <2>15. ASSUME NEW t \in Threads, FlagOn(t)
        PROVE  TypeOK'
    BY <2>15 DEF FlagOn, Goto, Threads
  <2>16. ASSUME NEW t \in Threads, Started(t)
        PROVE  TypeOK'
    BY <2>16 DEF Started, Goto, SetStateAndPublish, Threads, LifeStates
  <2>17. CASE PollBegin
    BY <2>17, Orders DEF PollBegin, MainGoto
  <2>18. CASE PollRunning
    BY <2>18 DEF PollRunning, PollAdvance
  <2>19. CASE PollAlive
    BY <2>19 DEF PollAlive, PollAdvance
  <2>20. CASE PollClear
    BY <2>20, Orders DEF PollClear, ClearHandle, MainGoto
  <2>21. CASE PollFlag
    BY <2>21 DEF PollFlag, MainGoto
  <2>22. CASE PollState
    BY <2>22, Orders, BoundAssumption, SMTT(30)
       DEF PollState, SetStateAndPublish, PollAdvance, LifeStates
  <2>23. CASE PollPublish
    BY <2>23 DEF PollPublish, MainGoto, Snapshot, LifeStates
  <2>24. CASE Heartbeat
    BY <2>24 DEF Heartbeat, Snapshot, LifeStates
  <2>25. CASE ExitBegin
    BY <2>25, Orders DEF ExitBegin, MainGoto
  <2>26. CASE ExitKill
    BY <2>26 DEF ExitKill, KillProcess, MainGoto
  <2>27. CASE ExitClear
    BY <2>27, Orders DEF ExitClear, ClearHandle
  <2>28. CASE Join
    BY <2>28 DEF Join, MainGoto
  <2>29. CASE GainTop
    BY <2>29 DEF GainTop, GainIdle
  <2>30. CASE GainSync
    BY <2>30 DEF GainSync, GainIdle
  <2>31. CASE GainSettling
    BY <2>31 DEF GainSettling, GainIdle
  <2>32. CASE GainApply
    BY <2>32, Orders DEF GainApply, GainIdle
  <2>33. CASE GainPass
    <3>1. CASE running[Order[gidx]]
      BY <2>33, <3>1, Orders, SMTT(30) DEF GainPass, GainIdle, Threads
    <3>2. CASE ~running[Order[gidx]]
      BY <2>33, <3>2, Orders DEF GainPass, GainIdle
    <3> QED
      BY <3>1, <3>2
  <2>34. CASE Signal
    BY <2>34 DEF Signal
  <2>35. ASSUME NEW s \in Streams, NEW p \in alive[s], FfmpegExits(s, p)
        PROVE  TypeOK'
    BY <2>35 DEF FfmpegExits
  <2>36. ASSUME NEW g \in Gains, SetGain(g)
        PROVE  TypeOK'
    BY <2>36, BoundAssumption DEF SetGain
  <2>37. CASE UNCHANGED vars
    BY <2>37 DEF vars
  <2> QED
    BY <2>0, <2>1, <2>38, <2>2, <2>3, <2>4, <2>5, <2>6, <2>7, <2>8, <2>9, <2>10, <2>11, <2>12, <2>13,
       <2>14, <2>15, <2>16, <2>17, <2>18, <2>19, <2>20, <2>21, <2>22, <2>23, <2>24,
       <2>25, <2>26, <2>27, <2>28, <2>29, <2>30, <2>31, <2>32, <2>33, <2>34, <2>35,
       <2>36, <2>37
    DEF Next, Receive, JobStep, StopStep, StartStep, PollStep, ExitStep, GainStep, Environment, Exited
<1>3. QED
  BY <1>1, <1>2, PTL DEF Spec

-----------------------------------------------------------------------------
(* The inductive invariant behind the safety theorems.                      *)

\* Between acquiring and releasing, and only then, a thread owns the mutex.
MutexInv == \A t \in Threads : pc[t] \notin {"idle", "recv", "lock"} <=> lock = t

\* A thread about to launch sees a null handle: nobody else can set one.
LaunchInv == \A t \in Threads : pc[t] \in {"config", "launch"} => proc[strm[t]] = NoProc

\* A thread about to clear a handle has killed the process behind it.
ClearInv == \A t \in Threads : pc[t] = "clear" => proc[strm[t]] \notin alive[strm[t]]

\* The destructor's walk: what lies behind it is dead, lost earlier, or late.
Gone(s) == alive[s] = {} \/ <<Main, s>> \in droppedBy \/ s \in late
ExitInv ==
  mpc \in {"exitKill", "exitClear", "join", "exited"} =>
    /\ mRunning = FALSE
    /\ \A i \in DOMAIN ExitOrder :
         \/ mpc \in {"join", "exited"}
         \/ i < idx
         \/ mpc = "exitClear" /\ i = idx
         => Gone(ExitOrder[i])

StreamInv == MutexInv /\ LaunchInv /\ ClearInv /\ ExitInv /\ OrphanOnlyFromUnlockedClear

(* Only the main thread's unlocked clears lose FFmpeg processes, and what   *)
(* survives the destructor is explained: the invariant is inductive.        *)
LEMMA StreamInvStep == TypeOK /\ StreamInv /\ [Next]_vars => StreamInv'
  <2> SUFFICES ASSUME TypeOK, StreamInv, [Next]_vars PROVE StreamInv'
    OBVIOUS
  <2> USE DEF StreamInv, MutexInv, LaunchInv, ClearInv, ExitInv, Gone, OrphanOnlyFromUnlockedClear,
              vars, procVars, jobVars, pubVars, mainVars, gainVars, cmdVars
  <2>1. ASSUME NEW t \in Commanders, Connect(t)
        PROVE  StreamInv'
    BY <2>1 DEF Connect, Goto, TypeOK, Threads
  <2>0. ASSUME NEW t \in Commanders, HangUp(t)
        PROVE  StreamInv'
    BY <2>0 DEF HangUp, Goto, TypeOK, Threads
  <2>38. ASSUME NEW t \in Commanders, NEW s \in Streams, NEW o \in {"start", "stop"},
               Command(t, s, o)
        PROVE  StreamInv'
    BY <2>38 DEF Command, Goto, TypeOK, Threads
  <2>2. ASSUME NEW t \in Threads, Acquire(t)
        PROVE  StreamInv'
    BY <2>2, ThreadAssumption DEF Acquire, Goto, TypeOK
  <2>3. ASSUME NEW t \in Threads, Unlock(t)
        PROVE  StreamInv'
    BY <2>3, ThreadAssumption, SMTT(30) DEF Unlock, Goto, TypeOK
  <2>4. ASSUME NEW t \in Threads, Publish(t)
        PROVE  StreamInv'
    BY <2>4 DEF Publish, Snapshot, TypeOK
  <2>5. ASSUME NEW t \in Threads, Stopping(t)
        PROVE  StreamInv'
    BY <2>5 DEF Stopping, Goto, SetStateAndPublish, TypeOK
  <2>6. ASSUME NEW t \in Threads, Kill(t)
        PROVE  StreamInv'
    BY <2>6 DEF Kill, Goto, KillProcess, TypeOK
  <2>7. ASSUME NEW t \in Threads, Clear(t)
        PROVE  StreamInv'
    <3>1. /\ pc[t] = "clear" /\ lock = t /\ proc[strm[t]] \notin alive[strm[t]]
          /\ UNCHANGED <<droppedBy, alive, late, lock, strm, mpc, idx, mRunning>>
          /\ pc' = [pc EXCEPT ![t] = "flagOff"] /\ proc' = [proc EXCEPT ![strm[t]] = NoProc]
      BY <2>7 DEF Clear, Goto, ClearHandle
    <3>2. MutexInv' /\ LaunchInv' /\ ClearInv'
      BY <3>1, NoProcNotPid DEF TypeOK
    <3>3. ExitInv'
      BY <3>1
    <3>4. OrphanOnlyFromUnlockedClear'
      BY <3>1 DEF TypeOK
    <3> QED
      BY <3>2, <3>3, <3>4
  <2>8. ASSUME NEW t \in Threads, FlagOff(t)
        PROVE  StreamInv'
    BY <2>8 DEF FlagOff, Goto, TypeOK
  <2>9. ASSUME NEW t \in Threads, Stopped(t)
        PROVE  StreamInv'
    BY <2>9 DEF Stopped, Goto, SetStateAndPublish, TypeOK
  <2>10. ASSUME NEW t \in Threads, Check(t)
        PROVE  StreamInv'
    BY <2>10 DEF Check, Goto, SetStateAndPublish, TypeOK
  <2>11. ASSUME NEW t \in Threads, ConfigInvalid(t)
        PROVE  StreamInv'
    BY <2>11 DEF ConfigInvalid, Goto, SetStateAndPublish, TypeOK
  <2>12. ASSUME NEW t \in Threads, ReadGain(t)
        PROVE  StreamInv'
    BY <2>12 DEF ReadGain, Goto, TypeOK
  <2>13. ASSUME NEW t \in Threads, Launch(t)
        PROVE  StreamInv'
    <3>1. MutexInv'
      BY <2>13 DEF Launch, Goto, TypeOK, Pids
    <3>2. LaunchInv'
      BY <2>13, ZenonT(60) DEF Launch, Goto, TypeOK, Pids
    <3>3. ClearInv'
      BY <2>13, ZenonT(60) DEF Launch, Goto, TypeOK, Pids
    <3>4. ExitInv'
      BY <2>13 DEF Launch, Goto, TypeOK, Pids
    <3>5. OrphanOnlyFromUnlockedClear'
      BY <2>13, NoProcNotPid DEF Launch, Goto, TypeOK, Pids
    <3> QED
      BY <3>1, <3>2, <3>3, <3>4, <3>5
  <2>14. ASSUME NEW t \in Threads, LaunchFails(t)
        PROVE  StreamInv'
    BY <2>14 DEF LaunchFails, Goto, SetStateAndPublish, TypeOK
  <2>15. ASSUME NEW t \in Threads, FlagOn(t)
        PROVE  StreamInv'
    BY <2>15 DEF FlagOn, Goto, TypeOK
  <2>16. ASSUME NEW t \in Threads, Started(t)
        PROVE  StreamInv'
    BY <2>16 DEF Started, Goto, SetStateAndPublish, TypeOK
  <2>17. CASE PollBegin
    BY <2>17 DEF PollBegin, MainGoto, TypeOK
  <2>18. CASE PollRunning
    BY <2>18 DEF PollRunning, PollAdvance, TypeOK
  <2>19. CASE PollAlive
    BY <2>19 DEF PollAlive, PollAdvance, TypeOK
  <2>20. CASE PollClear
    BY <2>20, NoProcNotPid, ThreadAssumption DEF PollClear, ClearHandle, MainGoto, TypeOK
  <2>21. CASE PollFlag
    BY <2>21 DEF PollFlag, MainGoto, TypeOK
  <2>22. CASE PollState
    BY <2>22 DEF PollState, SetStateAndPublish, PollAdvance, TypeOK
  <2>23. CASE PollPublish
    BY <2>23 DEF PollPublish, MainGoto, Snapshot, TypeOK
  <2>24. CASE Heartbeat
    BY <2>24 DEF Heartbeat, Snapshot, TypeOK
  <2>25. CASE ExitBegin
    BY <2>25, Orders DEF ExitBegin, MainGoto, TypeOK
  <2>26. CASE ExitKill
    BY <2>26, Orders DEF ExitKill, KillProcess, MainGoto, TypeOK
  <2>27. CASE ExitClear
    <3>1. MutexInv'
      BY <2>27 DEF ExitClear, ClearHandle, TypeOK
    <3>2. LaunchInv'
      BY <2>27 DEF ExitClear, ClearHandle, TypeOK
    <3>3. ClearInv'
      BY <2>27, NoProcNotPid DEF ExitClear, ClearHandle, TypeOK
    <3>4. ExitInv'
      BY <2>27 DEF ExitClear, ClearHandle, TypeOK
    <3>5. OrphanOnlyFromUnlockedClear'
      BY <2>27, ThreadAssumption DEF ExitClear, ClearHandle, TypeOK
    <3> QED
      BY <3>1, <3>2, <3>3, <3>4, <3>5
  <2>28. CASE Join
    BY <2>28 DEF Join, MainGoto, TypeOK
  <2>29. CASE GainTop
    BY <2>29 DEF GainTop, GainIdle, TypeOK
  <2>30. CASE GainSync
    BY <2>30 DEF GainSync, GainIdle, TypeOK
  <2>31. CASE GainSettling
    BY <2>31 DEF GainSettling, GainIdle, TypeOK
  <2>32. CASE GainApply
    BY <2>32 DEF GainApply, GainIdle, TypeOK
  <2>33. CASE GainPass
    <3>1. MutexInv'
      BY <2>33 DEF GainPass, GainIdle, TypeOK
    <3>2. LaunchInv'
      BY <2>33 DEF GainPass, GainIdle, TypeOK
    <3>3. ClearInv'
      BY <2>33, SMTT(30) DEF GainPass, GainIdle, TypeOK
    <3>4. ExitInv'
      BY <2>33 DEF GainPass, GainIdle, TypeOK
    <3>5. OrphanOnlyFromUnlockedClear'
      BY <2>33 DEF GainPass, GainIdle, TypeOK
    <3> QED
      BY <3>1, <3>2, <3>3, <3>4, <3>5
  <2>34. CASE Signal
    BY <2>34 DEF Signal, TypeOK
  <2>35. ASSUME NEW s \in Streams, NEW p \in alive[s], FfmpegExits(s, p)
        PROVE  StreamInv'
    BY <2>35 DEF FfmpegExits, TypeOK
  <2>36. ASSUME NEW g \in Gains, SetGain(g)
        PROVE  StreamInv'
    BY <2>36 DEF SetGain, TypeOK
  <2>37. CASE UNCHANGED vars
    BY <2>37 DEF vars, TypeOK
  <2> QED
    BY <2>0, <2>1, <2>38, <2>2, <2>3, <2>4, <2>5, <2>6, <2>7, <2>8, <2>9, <2>10, <2>11, <2>12, <2>13,
       <2>14, <2>15, <2>16, <2>17, <2>18, <2>19, <2>20, <2>21, <2>22, <2>23, <2>24,
       <2>25, <2>26, <2>27, <2>28, <2>29, <2>30, <2>31, <2>32, <2>33, <2>34, <2>35,
       <2>36, <2>37
    DEF Next, Receive, JobStep, StopStep, StartStep, PollStep, ExitStep, GainStep, Environment, Exited

(* Orphans have one cause: for any number of streams, commanders and        *)
(* commands, start, stop and restart under m_streamMutex never lose a live  *)
(* FFmpeg process; only the unlocked clears of pollSinkProcesses and of the *)
(* destructor do.                                                           *)
THEOREM OrphansExplained == Spec => []OrphanOnlyFromUnlockedClear
<1>1. Init => StreamInv
  BY ThreadAssumption DEF Init, StreamInv, MutexInv, LaunchInv, ClearInv, ExitInv,
                          OrphanOnlyFromUnlockedClear
<1>2. StreamInv => OrphanOnlyFromUnlockedClear
  BY DEF StreamInv
<1> QED
  BY <1>1, <1>2, StreamInvStep, TypeCorrect, PTL DEF Spec

(* Exit leaks are explained: what ~Worker leaves alive of the streams it    *)
(* kills was lost before by an unlocked clear or launched after m_running   *)
(* was reset.                                                               *)
THEOREM ExitLeaks == Spec => []ExitLeaksExplained
<1>1. Init => StreamInv
  BY ThreadAssumption DEF Init, StreamInv, MutexInv, LaunchInv, ClearInv, ExitInv,
                          OrphanOnlyFromUnlockedClear
<1>2. StreamInv => ExitLeaksExplained
  BY DEF StreamInv, ExitInv, ExitLeaksExplained, KilledOnExit, Gone
<1> QED
  BY <1>1, <1>2, StreamInvStep, TypeCorrect, PTL DEF Spec

-----------------------------------------------------------------------------
(* The published stream health is current whenever nobody is about to       *)
(* publish: publishStreamHealth follows every change in its own thread, so  *)
(* no order of publications leaves an old value in runtime_state.json.      *)
THEOREM PublishedCorrect == Spec => []PublishedWhenQuiet
<1>1. Init => PublishedWhenQuiet
  BY DEF Init, PublishedWhenQuiet
<1>2. TypeOK /\ PublishedWhenQuiet /\ [Next]_vars => PublishedWhenQuiet'
  <2> SUFFICES ASSUME TypeOK, PublishedWhenQuiet, [Next]_vars PROVE PublishedWhenQuiet'
    OBVIOUS
  <2> USE DEF PublishedWhenQuiet, WillPublish,
              vars, procVars, jobVars, pubVars, mainVars, gainVars, cmdVars
  <2>1. ASSUME NEW t \in Commanders, Connect(t)
        PROVE  PublishedWhenQuiet'
    BY <2>1 DEF Connect, Goto, TypeOK, Snapshot, Threads
  <2>0. ASSUME NEW t \in Commanders, HangUp(t)
        PROVE  PublishedWhenQuiet'
    BY <2>0 DEF HangUp, Goto, TypeOK, Snapshot, Threads
  <2>38. ASSUME NEW t \in Commanders, NEW s \in Streams, NEW o \in {"start", "stop"},
               Command(t, s, o)
        PROVE  PublishedWhenQuiet'
    BY <2>38 DEF Command, Goto, TypeOK, Snapshot, Threads
  <2>2. ASSUME NEW t \in Threads, Acquire(t)
        PROVE  PublishedWhenQuiet'
    BY <2>2 DEF Acquire, Goto, TypeOK, Snapshot
  <2>3. ASSUME NEW t \in Threads, Unlock(t)
        PROVE  PublishedWhenQuiet'
    BY <2>3 DEF Unlock, Goto, TypeOK, Snapshot
  <2>4. ASSUME NEW t \in Threads, Publish(t)
        PROVE  PublishedWhenQuiet'
    BY <2>4 DEF Publish, Snapshot, TypeOK
  <2>5. ASSUME NEW t \in Threads, Stopping(t)
        PROVE  PublishedWhenQuiet'
    BY <2>5 DEF Stopping, Goto, SetStateAndPublish, TypeOK, Snapshot
  <2>6. ASSUME NEW t \in Threads, Kill(t)
        PROVE  PublishedWhenQuiet'
    BY <2>6 DEF Kill, Goto, KillProcess, TypeOK, Snapshot
  <2>7. ASSUME NEW t \in Threads, Clear(t)
        PROVE  PublishedWhenQuiet'
    BY <2>7 DEF Clear, Goto, ClearHandle, TypeOK, Snapshot
  <2>8. ASSUME NEW t \in Threads, FlagOff(t)
        PROVE  PublishedWhenQuiet'
    BY <2>8 DEF FlagOff, Goto, TypeOK, Snapshot
  <2>9. ASSUME NEW t \in Threads, Stopped(t)
        PROVE  PublishedWhenQuiet'
    BY <2>9 DEF Stopped, Goto, SetStateAndPublish, TypeOK, Snapshot
  <2>10. ASSUME NEW t \in Threads, Check(t)
        PROVE  PublishedWhenQuiet'
    BY <2>10 DEF Check, Goto, SetStateAndPublish, TypeOK, Snapshot
  <2>11. ASSUME NEW t \in Threads, ConfigInvalid(t)
        PROVE  PublishedWhenQuiet'
    BY <2>11 DEF ConfigInvalid, Goto, SetStateAndPublish, TypeOK, Snapshot
  <2>12. ASSUME NEW t \in Threads, ReadGain(t)
        PROVE  PublishedWhenQuiet'
    BY <2>12 DEF ReadGain, Goto, TypeOK, Snapshot
  <2>13. ASSUME NEW t \in Threads, Launch(t)
        PROVE  PublishedWhenQuiet'
    BY <2>13 DEF Launch, Goto, TypeOK, Snapshot
  <2>14. ASSUME NEW t \in Threads, LaunchFails(t)
        PROVE  PublishedWhenQuiet'
    BY <2>14 DEF LaunchFails, Goto, SetStateAndPublish, TypeOK, Snapshot
  <2>15. ASSUME NEW t \in Threads, FlagOn(t)
        PROVE  PublishedWhenQuiet'
    BY <2>15 DEF FlagOn, Goto, TypeOK, Snapshot
  <2>16. ASSUME NEW t \in Threads, Started(t)
        PROVE  PublishedWhenQuiet'
    BY <2>16 DEF Started, Goto, SetStateAndPublish, TypeOK, Snapshot
  <2>17. CASE PollBegin
    BY <2>17 DEF PollBegin, MainGoto, TypeOK, Snapshot
  <2>18. CASE PollRunning
    BY <2>18 DEF PollRunning, PollAdvance, TypeOK, Snapshot
  <2>19. CASE PollAlive
    BY <2>19 DEF PollAlive, PollAdvance, TypeOK, Snapshot
  <2>20. CASE PollClear
    BY <2>20 DEF PollClear, ClearHandle, MainGoto, TypeOK, Snapshot
  <2>21. CASE PollFlag
    BY <2>21 DEF PollFlag, MainGoto, TypeOK, Snapshot
  <2>22. CASE PollState
    BY <2>22 DEF PollState, SetStateAndPublish, PollAdvance, TypeOK, Snapshot
  <2>23. CASE PollPublish
    BY <2>23 DEF PollPublish, MainGoto, Snapshot, TypeOK
  <2>24. CASE Heartbeat
    BY <2>24 DEF Heartbeat, Snapshot, TypeOK
  <2>25. CASE ExitBegin
    BY <2>25 DEF ExitBegin, MainGoto, TypeOK, Snapshot
  <2>26. CASE ExitKill
    BY <2>26 DEF ExitKill, KillProcess, MainGoto, TypeOK, Snapshot
  <2>27. CASE ExitClear
    BY <2>27 DEF ExitClear, ClearHandle, TypeOK, Snapshot
  <2>28. CASE Join
    BY <2>28 DEF Join, MainGoto, TypeOK, Snapshot
  <2>29. CASE GainTop
    BY <2>29 DEF GainTop, GainIdle, TypeOK, Snapshot
  <2>30. CASE GainSync
    BY <2>30 DEF GainSync, GainIdle, TypeOK, Snapshot
  <2>31. CASE GainSettling
    BY <2>31 DEF GainSettling, GainIdle, TypeOK, Snapshot
  <2>32. CASE GainApply
    BY <2>32 DEF GainApply, GainIdle, TypeOK, Snapshot
  <2>33. CASE GainPass
    BY <2>33 DEF GainPass, GainIdle, TypeOK, Snapshot, Threads
  <2>34. CASE Signal
    BY <2>34 DEF Signal, TypeOK, Snapshot
  <2>35. ASSUME NEW s \in Streams, NEW p \in alive[s], FfmpegExits(s, p)
        PROVE  PublishedWhenQuiet'
    BY <2>35 DEF FfmpegExits, TypeOK, Snapshot
  <2>36. ASSUME NEW g \in Gains, SetGain(g)
        PROVE  PublishedWhenQuiet'
    BY <2>36 DEF SetGain, TypeOK, Snapshot
  <2>37. CASE UNCHANGED vars
    BY <2>37 DEF vars, TypeOK, Snapshot
  <2> QED
    BY <2>0, <2>1, <2>38, <2>2, <2>3, <2>4, <2>5, <2>6, <2>7, <2>8, <2>9, <2>10, <2>11, <2>12, <2>13,
       <2>14, <2>15, <2>16, <2>17, <2>18, <2>19, <2>20, <2>21, <2>22, <2>23, <2>24,
       <2>25, <2>26, <2>27, <2>28, <2>29, <2>30, <2>31, <2>32, <2>33, <2>34, <2>35,
       <2>36, <2>37
    DEF Next, Receive, JobStep, StopStep, StartStep, PollStep, ExitStep, GainStep, Environment, Exited
<1> QED
  BY <1>1, <1>2, TypeCorrect, PTL DEF Spec

(* ProcessesAccountedFor: the two reasons for a process without a handle,   *)
(* while the worker runs and when it ends.                                  *)
THEOREM ProcessesCorrect == Spec => []ProcessesAccountedFor
  BY OrphansExplained, ExitLeaks, PTL DEF ProcessesAccountedFor
=============================================================================
