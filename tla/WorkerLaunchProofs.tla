------------------------- MODULE WorkerLaunchProofs -------------------------
(***************************************************************************)
(* What WorkerLaunch keeps for any number of requests, worker processes,   *)
(* attempts and restarts: the types, which workers may outlive the         *)
(* supervisor's knowledge of them, and that an acknowledged Start or Stop  *)
(* was executed.                                                           *)
(*                                                                         *)
(* The argument for the workers: every process was forked by a serving     *)
(* supervisor, and inherited its HTTP socket, or by one that was stopping  *)
(* (ForkedInv); a supervisor that comes to serve has found no holder of    *)
(* the socket alive.  For the acknowledgement: the connection being        *)
(* served, and every request that has an ACK, is of a command that was     *)
(* executed (AckInv), and a Stop or a Start gets its ok from an ACK only   *)
(* (KindInv).                                                              *)
(***************************************************************************)
EXTENDS WorkerLaunch, TLAPS

\* Who forked a live worker: a serving supervisor or one that was stopping.
ForkedInv == Live \subseteq inherits \cup late

\* Where every live worker is known from.
KnownInv ==
  \A p \in Live :
    \/ p \in lost \cup late
    \/ svpc \in {"run", "waiting"} /\ (p = tracked \/ Unrecorded(p))
    \/ svpc # "run" /\ p \in deserted

\* What the places of a request say of its kind; only an ended one answered.
KindInv ==
  \A r \in Requests :
    /\ pc[r] \in {"read", "write", "fresh"} => kind[r] \notin {"start", "stop"}
    /\ pc[r] \in {"launch", "fork", "record"} => kind[r] # "stop"
    /\ resp[r] # "none" => pc[r] = "done"

\* The command of the connection being served, and of every ACK, was executed.
AckInv ==
  /\ busy => Head(queue).req \in executed
  /\ \A r \in Requests : replied[r] = "ack" => r \in executed

LaunchInv == TypeOK /\ ForkedInv /\ KnownInv /\ KindInv /\ AckInv /\ AckMeansExecuted

-----------------------------------------------------------------------------
(* The types.  First the operators that move a request: each keeps the      *)
(* types of the locals, and forked where it does not go to "record".        *)

LEMMA NoEpochsType == NoEpochs \in Epochs
  BY DEF NoEpochs, Epochs

LEMMA SetEpoch ==
  ASSUME NEW e \in Epochs, NEW f \in {"beat", "mark"}, NEW b \in BOOLEAN
  PROVE  [e EXCEPT ![f] = b] \in Epochs
  BY DEF Epochs

LEMMA TriesRange ==
  /\ 0 \in 0..MaxTries /\ 1 \in 0..MaxTries
  /\ \A n \in 1..(MaxTries - 1) : n + 1 \in 0..MaxTries
  BY LaunchAssumption

LEMMA GotoLocals ==
  ASSUME LocalsOK, NEW r \in Requests, NEW from, NEW to \in Places, Goto(r, from, to)
  PROVE  /\ pc' \in [Requests -> Places]
         /\ \A q \in Requests : pc'[q] = IF q = r THEN to ELSE pc[q]
  BY DEF LocalsOK, Goto

LEMMA GoesLocals ==
  ASSUME LocalsOK, NEW r \in Requests, NEW from, NEW to \in Places, Goes(r, from, to)
  PROVE  LocalsOK'
  BY GotoLocals DEF LocalsOK, Goes

LEMMA AnswerLocals ==
  ASSUME LocalsOK, NEW r \in Requests, NEW from, NEW answer \in {"ok", "failed"},
         Answer(r, from, answer)
  PROVE  LocalsOK'
  <1>1. pc' \in [Requests -> Places]
    BY GotoLocals DEF Answer, Places
  <1>2. QED
    BY <1>1, NoEpochsType, TriesRange DEF LocalsOK, Answer

LEMMA LaunchedLocals ==
  ASSUME LocalsOK, NEW r \in Requests, NEW from, Launched(r, from)
  PROVE  LocalsOK'
  <1>1. CASE kind[r] = "start"
    <2>1. pc' \in [Requests -> Places]
      BY <1>1, GotoLocals DEF Launched, Places
    <2>2. QED
      BY <1>1, <2>1, TriesRange DEF LocalsOK, Launched
  <1>2. CASE kind[r] # "start"
    BY <1>2, AnswerLocals DEF Launched
  <1>3. QED
    BY <1>1, <1>2

LEMMA NotSentLocals ==
  ASSUME LocalsOK, NEW r \in Requests, NEW from, NEW refused, NotSent(r, from, refused)
  PROVE  LocalsOK'
  <1>1. CASE Goes(r, from, "fresh") \/ Goes(r, from, "launch")
    BY <1>1, GoesLocals DEF Places
  <1>2. CASE /\ tries[r] \in 1..(MaxTries - 1)
             /\ Goto(r, from, "send")
             /\ tries' = [tries EXCEPT ![r] = @ + 1]
             /\ UNCHANGED <<copy, resp, replied>>
    <2>1. pc' \in [Requests -> Places]
      BY <1>2, GotoLocals DEF Places
    <2>2. tries[r] + 1 \in 0..MaxTries
      BY <1>2, TriesRange
    <2>3. QED
      BY <1>2, <2>1, <2>2 DEF LocalsOK
  <1>3. CASE Answer(r, from, "failed")
    BY <1>3, AnswerLocals
  <1>4. QED
    BY <1>1, <1>2, <1>3 DEF NotSent

LEMMA SupervisorStep == TypeOK /\ [Next]_vars => SupervisorOK'
  <1> SUFFICES ASSUME TypeOK, [Next]_vars PROVE SupervisorOK'
    OBVIOUS
  <1> USE LaunchAssumption DEF TypeOK, SupervisorOK, svVars
  <1>1. ASSUME NEW r \in Requests, WriteState(r) PROVE SupervisorOK'
    BY <1>1 DEF WriteState, LocalsOK
  <1>2. ASSUME NEW r \in Requests, Stamp(r) PROVE SupervisorOK'
    BY <1>2, SetEpoch DEF Stamp, LocalsOK
  <1>3. ASSUME NEW r \in Requests, LaunchCheck(r) PROVE SupervisorOK'
    BY <1>3 DEF LaunchCheck
  <1>4. ASSUME NEW r \in Requests, Record(r) PROVE SupervisorOK'
    BY <1>4 DEF Record, ForksOK
  <1>5. ASSUME NEW p \in Pids, Heartbeat(p) PROVE SupervisorOK'
    BY <1>5, SetEpoch DEF Heartbeat
  <1>6. ASSUME NEW f \in {"beat", "mark"}, FileAges(f) PROVE SupervisorOK'
    BY <1>6, SetEpoch DEF FileAges
  <1>7. CASE StopBegin
    BY <1>7 DEF StopBegin
  <1>8. CASE StopReaps \/ StopKills
    BY <1>8 DEF StopReaps, StopKills, TableCleared
  <1>9. CASE SvExits \/ SvCrashes
    BY <1>9 DEF SvExits, SvCrashes, SvGone
  <1>10. CASE SvStarts
    BY <1>10 DEF SvStarts
  <1>11. ASSUME NEW r \in Requests,
                \/ \E k \in Kinds : Arrive(r, k)
                \/ \E p \in Pids : Fork(r, p)
                \/ \E f \in {"beat", "mark"} : CopyAges(r, f)
                \/ ReadState(r) \/ FreshEnough(r) \/ LaunchFails(r) \/ Refused(r) \/ Send(r)
                \/ Acked(r) \/ NoAck(r)
         PROVE  SupervisorOK'
    BY <1>11 DEF Arrive, Fork, CopyAges, ReadState, FreshEnough, LaunchFails, Refused, Send, Acked, NoAck
  <1>12. ASSUME NEW p \in Pids,
                Boot(p) \/ Execute(p) \/ Acknowledge(p) \/ WorkerCrashes(p) \/ WorkerEnds(p) \/ OrphansEnd(p)
         PROVE  SupervisorOK'
    BY <1>12 DEF Boot, Execute, Acknowledge, WorkerCrashes, WorkerEnds, OrphansEnd
  <1>13. CASE UNCHANGED vars
    BY <1>13 DEF vars
  <1>14. QED
    BY <1>1, <1>2, <1>3, <1>4, <1>5, <1>6, <1>7, <1>8, <1>9, <1>10, <1>11, <1>12, <1>13
       DEF Next, RequestStep, WorkerStep, StopStep, Ended

LEMMA LocalsStep == TypeOK /\ [Next]_vars => LocalsOK'
  <1> SUFFICES ASSUME TypeOK, [Next]_vars PROVE LocalsOK'
    OBVIOUS
  <1>0. LocalsOK /\ SupervisorOK
    BY DEF TypeOK
  <1>1. ASSUME NEW r \in Requests, NEW k \in Kinds, Arrive(r, k) PROVE LocalsOK'
    <2>1. pc' \in [Requests -> Places]
      BY <1>0, <1>1, GotoLocals DEF Arrive, Places
    <2>2. QED
      BY <1>0, <1>1, <2>1 DEF Arrive, LocalsOK, sockVars
  <1>2. ASSUME NEW r \in Requests, ReadState(r) PROVE LocalsOK'
    <2>1. pc' \in [Requests -> Places]
      BY <1>0, <1>2, GotoLocals DEF ReadState, Places
    <2>2. QED
      BY <1>0, <1>2, <2>1 DEF ReadState, LocalsOK, SupervisorOK, sockVars
  <1>3. ASSUME NEW r \in Requests, WriteState(r) PROVE LocalsOK'
    <2>1. pc' \in [Requests -> Places]
      BY <1>0, <1>3, GotoLocals DEF WriteState, Places
    <2>2. QED
      BY <1>0, <1>3, <2>1 DEF WriteState, LocalsOK, sockVars
  <1>4. ASSUME NEW r \in Requests, FreshEnough(r) \/ LaunchFails(r) PROVE LocalsOK'
    BY <1>0, <1>4, AnswerLocals DEF FreshEnough, LaunchFails
  <1>5. ASSUME NEW r \in Requests, Stamp(r) PROVE LocalsOK'
    <2>1. pc' \in [Requests -> Places]
      BY <1>0, <1>5, GotoLocals DEF Stamp, Places
    <2>2. copy' \in [Requests -> Epochs]
      BY <1>0, <1>5, SetEpoch DEF Stamp, LocalsOK
    <2>3. QED
      BY <1>0, <1>5, <2>1, <2>2 DEF Stamp, LocalsOK, sockVars
  <1>6. ASSUME NEW r \in Requests, LaunchCheck(r) \/ Record(r) PROVE LocalsOK'
    BY <1>0, <1>6, LaunchedLocals, GoesLocals DEF LaunchCheck, Record, Places
  <1>7. ASSUME NEW r \in Requests, NEW p \in Pids, Fork(r, p) PROVE LocalsOK'
    <2>1. pc' \in [Requests -> Places]
      BY <1>0, <1>7, GotoLocals DEF Fork, Places
    <2>2. QED
      BY <1>0, <1>7, <2>1 DEF Fork, LocalsOK, sockVars
  <1>8. ASSUME NEW r \in Requests, Refused(r) \/ NoAck(r) PROVE LocalsOK'
    BY <1>0, <1>8, NotSentLocals DEF Refused, NoAck
  <1>9. ASSUME NEW r \in Requests, Send(r) PROVE LocalsOK'
    <2>1. pc' \in [Requests -> Places]
      BY <1>0, <1>9, GotoLocals DEF Send, Places
    <2>2. QED
      BY <1>0, <1>9, <2>1 DEF Send, LocalsOK
  <1>10. ASSUME NEW r \in Requests, Acked(r) PROVE LocalsOK'
    BY <1>0, <1>10, AnswerLocals, GoesLocals DEF Acked, Places
  <1>11. ASSUME NEW r \in Requests, NEW f \in {"beat", "mark"}, CopyAges(r, f) PROVE LocalsOK'
    <2>1. copy' \in [Requests -> Epochs]
      BY <1>0, <1>11, SetEpoch DEF CopyAges, LocalsOK
    <2>2. QED
      BY <1>0, <1>11, <2>1 DEF CopyAges, LocalsOK, sockVars
  <1>12. ASSUME NEW p \in Pids, Boot(p) \/ Execute(p) \/ Acknowledge(p) \/ Heartbeat(p) PROVE LocalsOK'
    BY <1>0, <1>12 DEF Boot, Execute, Acknowledge, Heartbeat, LocalsOK, reqVars, sockVars
  <1>13. ASSUME NEW p \in Pids, NEW state, NEW left, Leave(p, state, left), UNCHANGED reqVars
         PROVE  LocalsOK'
    BY <1>0, <1>13 DEF Leave, LocalsOK, reqVars
  <1>14. ASSUME NEW p \in Pids, WorkerCrashes(p) \/ WorkerEnds(p) \/ OrphansEnd(p) PROVE LocalsOK'
    BY <1>13, <1>14 DEF WorkerCrashes, WorkerEnds, OrphansEnd
  <1>15. CASE StopReaps \/ StopKills
    <2>1. CASE StopReaps
      BY <1>0, <2>1 DEF StopReaps, TableCleared, LocalsOK, reqVars, sockVars
    <2>2. CASE StopKills
      <3>1. tracked \in Pids /\ UNCHANGED reqVars
        BY <2>2 DEF StopKills, TableCleared, Live
      <3>2. QED
        BY <1>13, <2>2, <3>1 DEF StopKills
    <2>3. QED
      BY <1>15, <2>1, <2>2
  <1>16. CASE SvExits \/ SvCrashes
    BY <1>0, <1>16, NoEpochsType, LaunchAssumption DEF SvExits, SvCrashes, SvGone, LocalsOK, Places
  <1>17. CASE StopBegin \/ SvStarts \/ UNCHANGED vars \/ \E f \in {"beat", "mark"} : FileAges(f)
    BY <1>0, <1>17 DEF StopBegin, SvStarts, FileAges, vars, LocalsOK, reqVars, sockVars
  <1>18. QED
    BY <1>1, <1>2, <1>3, <1>4, <1>5, <1>6, <1>7, <1>8, <1>9, <1>10, <1>11, <1>12, <1>14, <1>15, <1>16, <1>17
       DEF Next, RequestStep, WorkerStep, StopStep, Ended

\* Where a successful launch and a failed attempt lead, and what they answer.
LEMMA LaunchedGoto ==
  ASSUME NEW r \in Requests, NEW from, Launched(r, from)
  PROVE  /\ Goto(r, from, IF kind[r] = "start" THEN "send" ELSE "done")
         /\ resp' = IF kind[r] = "start" THEN resp ELSE [resp EXCEPT ![r] = "ok"]
         /\ replied' = replied \/ replied' = [replied EXCEPT ![r] = "none"]
  BY DEF Launched, Answer

LEMMA NotSentGoto ==
  ASSUME NEW r \in Requests, NEW from, NEW refused, NotSent(r, from, refused)
  PROVE  \E to \in {"fresh", "launch", "send", "done"} :
           /\ Goto(r, from, to)
           /\ to = "fresh" => kind[r] = "connectSrt"
           /\ to = "launch" => kind[r] = "start"
           /\ resp' = IF to = "done" THEN [resp EXCEPT ![r] = "failed"] ELSE resp
           /\ replied' = replied \/ replied' = [replied EXCEPT ![r] = "none"]
  <1>1. CASE kind[r] = "connectSrt" /\ Goes(r, from, "fresh")
    BY <1>1 DEF Goes
  <1>2. CASE kind[r] = "start" /\ Goes(r, from, "launch")
    BY <1>2 DEF Goes
  <1>3. CASE Goto(r, from, "send") /\ UNCHANGED <<resp, replied>>
    BY <1>3
  <1>4. CASE Answer(r, from, "failed")
    BY <1>4 DEF Answer
  <1>5. QED
    BY <1>1, <1>2, <1>3, <1>4 DEF NotSent

\* forked may be forgotten, and no request comes to "record".
LEMMA ForksKept ==
  ASSUME LocalsOK, ForksOK, NEW r \in Requests, NEW from, NEW to \in Places \ {"record"},
         Goto(r, from, to), UNCHANGED kind,
         UNCHANGED forked \/ forked' = [forked EXCEPT ![r] = NoPid]
  PROVE  ForksOK'
  BY GotoLocals DEF ForksOK

LEMMA ForksStep == TypeOK /\ [Next]_vars => ForksOK'
  <1> SUFFICES ASSUME TypeOK, [Next]_vars PROVE ForksOK'
    OBVIOUS
  <1>0. LocalsOK /\ ForksOK
    BY DEF TypeOK
  <1>1. ASSUME NEW r \in Requests, NEW k \in Kinds, Arrive(r, k) PROVE ForksOK'
    BY <1>0, <1>1 DEF Arrive, Goto, ForksOK, LocalsOK
  <1>2. ASSUME NEW r \in Requests, NEW p \in Pids, Fork(r, p) PROVE ForksOK'
    BY <1>0, <1>2 DEF Fork, Goto, ForksOK, LocalsOK
  <1>3. ASSUME NEW r \in Requests, ReadState(r) \/ WriteState(r) \/ Stamp(r) \/ Send(r) PROVE ForksOK'
    BY <1>0, <1>3, ForksKept DEF ReadState, WriteState, Stamp, Send, Places
  <1>4. ASSUME NEW r \in Requests, FreshEnough(r) \/ LaunchFails(r) PROVE ForksOK'
    BY <1>0, <1>4, ForksKept DEF FreshEnough, LaunchFails, Answer, Places
  <1>5. ASSUME NEW r \in Requests, LaunchCheck(r) \/ Record(r) PROVE ForksOK'
    <2>1. \E from \in Places, to \in Places \ {"record"} : Goto(r, from, to)
      BY <1>5, LaunchedGoto DEF LaunchCheck, Record, Goes, Places
    <2>2. UNCHANGED kind /\ (UNCHANGED forked \/ forked' = [forked EXCEPT ![r] = NoPid])
      BY <1>5 DEF LaunchCheck, Record
    <2>3. QED
      BY <1>0, <2>1, <2>2, ForksKept
  <1>6. ASSUME NEW r \in Requests, Refused(r) \/ NoAck(r) PROVE ForksOK'
    <2>1. \E from, to \in Places \ {"record"} : Goto(r, from, to)
      BY <1>6, NotSentGoto DEF Refused, NoAck, Places
    <2>2. QED
      BY <1>0, <1>6, <2>1, ForksKept DEF Refused, NoAck
  <1>7. ASSUME NEW r \in Requests, Acked(r) PROVE ForksOK'
    BY <1>0, <1>7, ForksKept DEF Acked, Goes, Answer, Places
  <1>8. CASE SvExits \/ SvCrashes
    BY <1>0, <1>8 DEF SvExits, SvCrashes, SvGone, ForksOK, LocalsOK
  <1>9. CASE UNCHANGED <<pc, kind, forked>>
    BY <1>0, <1>9 DEF ForksOK
  <1>10. ASSUME NEW r \in Requests, NEW f \in {"beat", "mark"}, CopyAges(r, f)
         PROVE  UNCHANGED <<pc, kind, forked>>
    BY <1>10 DEF CopyAges
  <1>11. ASSUME NEW p \in Pids, \/ WorkerStep(p) \/ Heartbeat(p)
                                \/ WorkerCrashes(p) \/ WorkerEnds(p) \/ OrphansEnd(p)
         PROVE  UNCHANGED <<pc, kind, forked>>
    BY <1>11 DEF WorkerStep, Boot, Execute, Acknowledge, Heartbeat, WorkerCrashes, WorkerEnds, OrphansEnd,
                 reqVars
  <1>12. CASE StopBegin \/ StopReaps \/ StopKills \/ SvStarts \/ \E f \in {"beat", "mark"} : FileAges(f)
    BY <1>9, <1>12 DEF StopBegin, StopReaps, StopKills, TableCleared, SvStarts, FileAges, reqVars
  <1>13. CASE UNCHANGED vars
    BY <1>9, <1>13 DEF vars, reqVars
  <1>14. QED
    BY <1>1, <1>2, <1>3, <1>4, <1>5, <1>6, <1>7, <1>8, <1>9, <1>10, <1>11, <1>12, <1>13
       DEF Next, RequestStep, StopStep, Ended

LEMMA ProcessesStep == TypeOK /\ [Next]_vars => ProcessesOK'
  <1> SUFFICES ASSUME TypeOK, [Next]_vars PROVE ProcessesOK'
    OBVIOUS
  <1>0. ProcessesOK /\ SupervisorOK
    BY DEF TypeOK
  <1>1. ASSUME NEW p \in Pids, NEW state \in {"zombie", "gone"}, NEW left \in SUBSET {"stream", "relay"},
               Leave(p, state, left)
        PROVE  ProcessesOK'
    BY <1>0, <1>1 DEF ProcessesOK, Leave
  <1>2. ASSUME NEW r \in Requests, LaunchCheck(r) PROVE ProcessesOK'
    BY <1>0, <1>2 DEF LaunchCheck, ProcessesOK
  <1>3. ASSUME NEW r \in Requests, NEW p \in Pids, Fork(r, p) PROVE ProcessesOK'
    BY <1>0, <1>3 DEF Fork, ProcessesOK
  <1>4. ASSUME NEW p \in Pids, Boot(p) PROVE ProcessesOK'
    BY <1>0, <1>4 DEF Boot, ProcessesOK
  <1>5. ASSUME NEW p \in Pids, Execute(p) PROVE ProcessesOK'
    <2>1. \A k : After(p, k) \subseteq SUBSET {"stream", "relay"}
      BY <1>0 DEF After, ProcessesOK
    <2>2. QED
      BY <1>0, <1>5, <2>1 DEF Execute, ProcessesOK
  <1>6. ASSUME NEW p \in Pids, WorkerCrashes(p) \/ WorkerEnds(p) \/ OrphansEnd(p) PROVE ProcessesOK'
    <2>1. Dead \in {"zombie", "gone"} /\ ffmpeg[p] \in SUBSET {"stream", "relay"}
      BY <1>0 DEF Dead, ProcessesOK
    <2>2. QED
      BY <1>1, <1>6, <2>1 DEF WorkerCrashes, WorkerEnds, OrphansEnd
  <1>7. CASE StopReaps
    BY <1>0, <1>7 DEF StopReaps, ProcessesOK, SupervisorOK
  <1>8. CASE StopKills
    <2>1. tracked \in Pids /\ ffmpeg[tracked] \in SUBSET {"stream", "relay"}
      BY <1>0, <1>8 DEF StopKills, Live, ProcessesOK
    <2>2. QED
      BY <1>1, <1>8, <2>1 DEF StopKills
  <1>9. CASE SvExits \/ SvCrashes
    BY <1>0, <1>9 DEF SvExits, SvCrashes, SvGone, ProcessesOK
  <1>10. CASE UNCHANGED procVars
    BY <1>0, <1>10 DEF ProcessesOK, procVars
  <1>11. ASSUME NEW r \in Requests,
                \/ \E k \in Kinds : Arrive(r, k)
                \/ \E f \in {"beat", "mark"} : CopyAges(r, f)
                \/ ReadState(r) \/ WriteState(r) \/ FreshEnough(r) \/ Stamp(r) \/ LaunchFails(r) \/ Record(r)
                \/ Refused(r) \/ Send(r) \/ Acked(r) \/ NoAck(r)
         PROVE  UNCHANGED procVars
    BY <1>11 DEF Arrive, CopyAges, ReadState, WriteState, FreshEnough, Stamp, LaunchFails, Record, Refused,
                 Send, Acked, NoAck
  <1>12. ASSUME NEW p \in Pids, Acknowledge(p) \/ Heartbeat(p) PROVE UNCHANGED procVars
    BY <1>12 DEF Acknowledge, Heartbeat
  <1>13. CASE StopBegin \/ SvStarts \/ \E f \in {"beat", "mark"} : FileAges(f)
    BY <1>10, <1>13 DEF StopBegin, SvStarts, FileAges
  <1>14. CASE UNCHANGED vars
    BY <1>10, <1>14 DEF vars
  <1>15. QED
    BY <1>2, <1>3, <1>4, <1>5, <1>6, <1>7, <1>8, <1>9, <1>10, <1>11, <1>12, <1>13, <1>14
       DEF Next, RequestStep, WorkerStep, StopStep, Ended

LEMMA SeqFacts ==
  ASSUME NEW S
  PROVE  /\ <<>> \in Seq(S)
         /\ \A q \in Seq(S) : q # <<>> => Head(q) \in S /\ Tail(q) \in Seq(S)
  OBVIOUS

LEMMA PortStep == TypeOK /\ [Next]_vars => PortOK'
  <1> SUFFICES ASSUME TypeOK, [Next]_vars PROVE PortOK'
    OBVIOUS
  <1>0. PortOK /\ LocalsOK
    BY DEF TypeOK
  <1>1. ASSUME NEW p \in Pids, NEW state, NEW left, Leave(p, state, left) PROVE PortOK'
    BY <1>0, <1>1, SeqFacts DEF PortOK, Leave
  <1>2. ASSUME NEW r \in Requests, Send(r) PROVE PortOK'
    <2>1. [req |-> r, try |-> tries[r]] \in [req : Requests, try : 0..MaxTries]
      BY <1>0 DEF LocalsOK
    <2>2. QED
      BY <1>0, <1>2, <2>1 DEF Send, PortOK
  <1>3. ASSUME NEW p \in Pids, Boot(p) PROVE PortOK'
    BY <1>0, <1>3 DEF Boot, PortOK
  <1>4. ASSUME NEW p \in Pids, Execute(p) PROVE PortOK'
    BY <1>0, <1>4 DEF Execute, PortOK
  <1>5. ASSUME NEW p \in Pids, Acknowledge(p) PROVE PortOK'
    BY <1>0, <1>5, SeqFacts DEF Acknowledge, PortOK
  <1>6. ASSUME NEW p \in Pids, WorkerCrashes(p) \/ WorkerEnds(p) \/ OrphansEnd(p) PROVE PortOK'
    BY <1>1, <1>6 DEF WorkerCrashes, WorkerEnds, OrphansEnd
  <1>7. CASE StopKills
    BY <1>1, <1>7 DEF StopKills, Live
  <1>8. CASE UNCHANGED portVars
    BY <1>0, <1>8 DEF PortOK, portVars
  <1>9. ASSUME NEW r \in Requests,
               \/ \E k \in Kinds : Arrive(r, k)
               \/ \E p \in Pids : Fork(r, p)
               \/ \E f \in {"beat", "mark"} : CopyAges(r, f)
               \/ ReadState(r) \/ WriteState(r) \/ FreshEnough(r) \/ Stamp(r) \/ LaunchCheck(r)
               \/ LaunchFails(r) \/ Record(r) \/ Refused(r) \/ Acked(r) \/ NoAck(r)
        PROVE  UNCHANGED portVars
    BY <1>9 DEF Arrive, Fork, CopyAges, ReadState, WriteState, FreshEnough, Stamp, LaunchCheck, LaunchFails,
                Record, Refused, Acked, NoAck, sockVars
  <1>10. ASSUME NEW p \in Pids, Heartbeat(p) PROVE UNCHANGED portVars
    BY <1>10 DEF Heartbeat, sockVars
  <1>11. CASE StopBegin \/ StopReaps \/ SvExits \/ SvCrashes \/ SvStarts
              \/ \E f \in {"beat", "mark"} : FileAges(f)
    BY <1>8, <1>11 DEF StopBegin, StopReaps, SvExits, SvCrashes, SvGone, SvStarts, FileAges, sockVars
  <1>12. CASE UNCHANGED vars
    BY <1>8, <1>12 DEF vars, sockVars
  <1>13. QED
    BY <1>2, <1>3, <1>4, <1>5, <1>6, <1>7, <1>8, <1>9, <1>10, <1>11, <1>12
       DEF Next, RequestStep, WorkerStep, StopStep, Ended

LEMMA HistoryStep == TypeOK /\ [Next]_vars => HistoryOK'
  <1> SUFFICES ASSUME TypeOK, [Next]_vars PROVE HistoryOK'
    OBVIOUS
  <1>0. HistoryOK /\ ForksOK /\ LocalsOK /\ PortOK
    BY DEF TypeOK
  <1>1. ASSUME NEW r \in Requests, NEW p \in Pids, Fork(r, p) PROVE HistoryOK'
    BY <1>0, <1>1 DEF Fork, HistoryOK
  <1>2. ASSUME NEW r \in Requests, Record(r) PROVE HistoryOK'
    BY <1>0, <1>2 DEF Record, HistoryOK, Live
  <1>3. ASSUME NEW p \in Pids, Execute(p) PROVE HistoryOK'
    <2>1. Head(queue) \in [req : Requests, try : 0..MaxTries]
      BY <1>0, <1>3, SeqFacts DEF Execute, PortOK
    <2>2. QED
      BY <1>0, <1>3, <2>1 DEF Execute, HistoryOK, histVars
  <1>4. CASE StopReaps \/ StopKills
    BY <1>0, <1>4 DEF StopReaps, StopKills, TableCleared, HistoryOK, ForksOK
  <1>5. CASE SvExits \/ SvCrashes
    BY <1>0, <1>5 DEF SvExits, SvCrashes, SvGone, HistoryOK, Live
  <1>6. CASE UNCHANGED <<executed, histVars>>
    BY <1>0, <1>6 DEF HistoryOK, histVars
  <1>7. ASSUME NEW r \in Requests,
               \/ \E k \in Kinds : Arrive(r, k)
               \/ \E f \in {"beat", "mark"} : CopyAges(r, f)
               \/ ReadState(r) \/ WriteState(r) \/ FreshEnough(r) \/ Stamp(r) \/ LaunchCheck(r)
               \/ LaunchFails(r) \/ Refused(r) \/ Send(r) \/ Acked(r) \/ NoAck(r)
        PROVE  UNCHANGED <<executed, histVars>>
    BY <1>7 DEF Arrive, CopyAges, ReadState, WriteState, FreshEnough, Stamp, LaunchCheck, LaunchFails,
                Refused, Send, Acked, NoAck
  <1>8. ASSUME NEW p \in Pids, \/ Boot(p) \/ Acknowledge(p) \/ Heartbeat(p)
                               \/ WorkerCrashes(p) \/ WorkerEnds(p) \/ OrphansEnd(p)
        PROVE  UNCHANGED <<executed, histVars>>
    BY <1>8 DEF Boot, Acknowledge, Heartbeat, WorkerCrashes, WorkerEnds, OrphansEnd
  <1>9. CASE StopBegin \/ SvStarts \/ \E f \in {"beat", "mark"} : FileAges(f)
    BY <1>6, <1>9 DEF StopBegin, SvStarts, FileAges
  <1>10. CASE UNCHANGED vars
    BY <1>6, <1>10 DEF vars
  <1>11. QED
    BY <1>1, <1>2, <1>3, <1>4, <1>5, <1>6, <1>7, <1>8, <1>9, <1>10
       DEF Next, RequestStep, WorkerStep, StopStep, Ended

LEMMA LaunchInitTypes == Init => TypeOK
  <1> SUFFICES ASSUME Init PROVE TypeOK
    OBVIOUS
  <1> USE LaunchAssumption, NoEpochsType, TriesRange DEF Init
  <1>1. SupervisorOK /\ ProcessesOK /\ HistoryOK
    BY DEF SupervisorOK, ProcessesOK, HistoryOK
  <1>2. LocalsOK /\ ForksOK
    BY DEF LocalsOK, ForksOK, Places
  <1>3. PortOK
    BY SeqFacts DEF PortOK
  <1>4. QED
    BY <1>1, <1>2, <1>3 DEF TypeOK

LEMMA LaunchTypeStep == TypeOK /\ [Next]_vars => TypeOK'
  <1>1. TypeOK /\ [Next]_vars =>
          SupervisorOK' /\ LocalsOK' /\ ForksOK' /\ ProcessesOK' /\ PortOK' /\ HistoryOK'
    BY SupervisorStep, LocalsStep, ForksStep, ProcessesStep, PortStep, HistoryStep
  <1>2. QED
    BY <1>1 DEF TypeOK

-----------------------------------------------------------------------------
(* The workers nobody knows of.                                             *)

\* A process that begins to live was forked in this step, the others lived before.
LEMMA LiveFrom ==
  ASSUME TypeOK, [Next]_vars, ~\E r \in Requests, p \in Pids : Fork(r, p)
  PROVE  Live' \subseteq Live
  <1>0. ProcessesOK /\ SupervisorOK
    BY DEF TypeOK
  <1> USE DEF Live
  <1>1. ASSUME NEW p \in Pids, NEW state \in {"zombie", "gone"}, NEW left, Leave(p, state, left)
        PROVE  Live' \subseteq Live
    BY <1>0, <1>1 DEF ProcessesOK, Leave
  <1>2. ASSUME NEW r \in Requests, LaunchCheck(r)
        PROVE  Live' \subseteq Live
    BY <1>0, <1>2 DEF LaunchCheck, ProcessesOK
  <1>3. ASSUME NEW p \in Pids, Boot(p)
        PROVE  Live' \subseteq Live
    BY <1>0, <1>3 DEF Boot, ProcessesOK
  <1>4. ASSUME NEW p \in Pids, WorkerCrashes(p) \/ WorkerEnds(p) \/ OrphansEnd(p)
        PROVE  Live' \subseteq Live
    <2>1. Dead \in {"zombie", "gone"}
      BY DEF Dead
    <2>2. QED
      BY <1>1, <1>4, <2>1 DEF WorkerCrashes, WorkerEnds, OrphansEnd
  <1>5. CASE StopReaps
    BY <1>0, <1>5 DEF StopReaps, ProcessesOK
  <1>6. CASE StopKills
    BY <1>0, <1>1, <1>6 DEF StopKills
  <1>7. CASE SvExits \/ SvCrashes
    BY <1>0, <1>7 DEF SvExits, SvCrashes, SvGone, ProcessesOK
  <1>8. CASE UNCHANGED worker
    BY <1>8
  <1>9. ASSUME NEW r \in Requests,
               \/ \E k \in Kinds : Arrive(r, k)
               \/ \E f \in {"beat", "mark"} : CopyAges(r, f)
               \/ ReadState(r) \/ WriteState(r) \/ FreshEnough(r) \/ Stamp(r) \/ LaunchFails(r) \/ Record(r)
               \/ Refused(r) \/ Send(r) \/ Acked(r) \/ NoAck(r)
        PROVE  UNCHANGED worker
    BY <1>9 DEF Arrive, CopyAges, ReadState, WriteState, FreshEnough, Stamp, LaunchFails, Record, Refused,
                Send, Acked, NoAck, procVars
  <1>10. ASSUME NEW p \in Pids, Execute(p) \/ Acknowledge(p) \/ Heartbeat(p) PROVE UNCHANGED worker
    BY <1>10 DEF Execute, Acknowledge, Heartbeat, procVars
  <1>11. CASE StopBegin \/ SvStarts \/ \E f \in {"beat", "mark"} : FileAges(f)
    BY <1>8, <1>11 DEF StopBegin, SvStarts, FileAges, procVars
  <1>12. CASE UNCHANGED vars
    BY <1>8, <1>12 DEF vars, procVars
  <1>13. QED
    BY <1>2, <1>3, <1>4, <1>5, <1>6, <1>7, <1>8, <1>9, <1>10, <1>11, <1>12
       DEF Next, RequestStep, WorkerStep, StopStep, Ended

\* Fork makes one process live, and enters it in one of the two histories.
LEMMA ForkLives ==
  ASSUME TypeOK, NEW r \in Requests, NEW p \in Pids, Fork(r, p)
  PROVE  /\ Live' = Live \cup {p}
         /\ pc'[r] = "record" /\ forked'[r] = p
         /\ \A q \in Requests : pc[q] = "record" => pc'[q] = "record" /\ forked'[q] = forked[q]
         /\ inherits \subseteq inherits' /\ late \subseteq late'
         /\ IF svpc = "run" THEN p \in inherits' ELSE p \in late'
  BY DEF Fork, Goto, Live, TypeOK, LocalsOK, ForksOK, ProcessesOK

LEMMA HistoriesGrow ==
  TypeOK /\ [Next]_vars =>
    lost \subseteq lost' /\ late \subseteq late' /\ deserted \subseteq deserted' /\ inherits \subseteq inherits'
  <1> SUFFICES ASSUME TypeOK, [Next]_vars
               PROVE  /\ lost \subseteq lost' /\ late \subseteq late'
                      /\ deserted \subseteq deserted' /\ inherits \subseteq inherits'
    OBVIOUS
  <1> USE DEF histVars
  <1>1. CASE UNCHANGED histVars
    BY <1>1
  <1>2. ASSUME NEW r \in Requests, Record(r) \/ \E p \in Pids : Fork(r, p)
        PROVE  /\ lost \subseteq lost' /\ late \subseteq late'
               /\ deserted \subseteq deserted' /\ inherits \subseteq inherits'
    BY <1>2 DEF Record, Fork
  <1>3. ASSUME NEW r \in Requests,
               \/ \E k \in Kinds : Arrive(r, k)
               \/ \E f \in {"beat", "mark"} : CopyAges(r, f)
               \/ ReadState(r) \/ WriteState(r) \/ FreshEnough(r) \/ Stamp(r) \/ LaunchCheck(r)
               \/ LaunchFails(r) \/ Refused(r) \/ Send(r) \/ Acked(r) \/ NoAck(r)
        PROVE  UNCHANGED histVars
    BY <1>3 DEF Arrive, CopyAges, ReadState, WriteState, FreshEnough, Stamp, LaunchCheck, LaunchFails,
                Refused, Send, Acked, NoAck
  <1>4. ASSUME NEW p \in Pids, \/ WorkerStep(p) \/ Heartbeat(p)
                               \/ WorkerCrashes(p) \/ WorkerEnds(p) \/ OrphansEnd(p)
        PROVE  UNCHANGED histVars
    BY <1>4 DEF WorkerStep, Boot, Execute, Acknowledge, Heartbeat, WorkerCrashes, WorkerEnds, OrphansEnd
  <1>5. CASE StopStep \/ SvCrashes
    BY <1>5 DEF StopStep, StopReaps, StopKills, TableCleared, SvExits, SvCrashes, SvGone
  <1>6. CASE StopBegin \/ SvStarts \/ \E f \in {"beat", "mark"} : FileAges(f)
    BY <1>1, <1>6 DEF StopBegin, SvStarts, FileAges
  <1>7. CASE UNCHANGED vars
    BY <1>1, <1>7 DEF vars
  <1>8. QED
    BY <1>1, <1>2, <1>3, <1>4, <1>5, <1>6, <1>7 DEF Next, RequestStep, Ended

LEMMA ForkedStep == TypeOK /\ ForkedInv /\ [Next]_vars => ForkedInv'
  <1> SUFFICES ASSUME TypeOK, ForkedInv, [Next]_vars PROVE ForkedInv'
    OBVIOUS
  <1>1. ASSUME NEW r \in Requests, NEW p \in Pids, Fork(r, p) PROVE ForkedInv'
    BY <1>1, ForkLives DEF ForkedInv
  <1>2. CASE ~\E r \in Requests, p \in Pids : Fork(r, p)
    BY <1>2, LiveFrom, HistoriesGrow DEF ForkedInv
  <1>3. QED
    BY <1>1, <1>2

\* A request that is not recording leaves the unrecorded workers as they are.
LEMMA UnrecordedKept ==
  ASSUME LocalsOK, NEW r \in Requests, NEW from \in Places \ {"record"}, NEW to \in Places,
         Goto(r, from, to), UNCHANGED forked
  PROVE  \A p : Unrecorded(p) => Unrecorded(p)'
  BY GotoLocals DEF Unrecorded, Goto

LEMMA KnownKept ==
  ASSUME KnownInv, Live' \subseteq Live, UNCHANGED <<svpc, tracked>>,
         \A p : Unrecorded(p) => Unrecorded(p)',
         lost \subseteq lost', late \subseteq late', deserted \subseteq deserted'
  PROVE  KnownInv'
  BY DEF KnownInv

LEMMA KnownStep == TypeOK /\ ForkedInv /\ KnownInv /\ [Next]_vars => KnownInv'
  <1> SUFFICES ASSUME TypeOK, ForkedInv, KnownInv, [Next]_vars PROVE KnownInv'
    OBVIOUS
  <1>0. LocalsOK /\ SupervisorOK /\ ForksOK /\ ProcessesOK
    BY DEF TypeOK
  <1>a. lost \subseteq lost' /\ late \subseteq late' /\ deserted \subseteq deserted'
    BY HistoriesGrow
  <1>1. ASSUME NEW r \in Requests, NEW p \in Pids, Fork(r, p) PROVE KnownInv'
    <2>1. UNCHANGED <<svpc, tracked, lost, deserted>>
      BY <1>1 DEF Fork, svVars
    <2>2. \A q : Unrecorded(q) => Unrecorded(q)'
      BY <1>1, ForkLives DEF Unrecorded
    <2>3. IF svpc = "run" THEN Unrecorded(p)' ELSE p \in late'
      BY <1>1, ForkLives DEF Unrecorded
    <2>4. QED
      BY <1>1, <1>a, <2>1, <2>2, <2>3, ForkLives DEF KnownInv
  <1> SUFFICES ASSUME ~\E r \in Requests, p \in Pids : Fork(r, p) PROVE KnownInv'
    BY <1>1
  <1>b. Live' \subseteq Live
    BY LiveFrom
  <1>c. ASSUME UNCHANGED <<svpc, tracked>>, \A p : Unrecorded(p) => Unrecorded(p)' PROVE KnownInv'
    BY <1>a, <1>b, <1>c, KnownKept
  <1>d. ASSUME UNCHANGED <<svpc, tracked, pc, forked>> PROVE KnownInv'
    BY <1>c, <1>d DEF Unrecorded
  <1>2. ASSUME NEW r \in Requests,
               (\E k \in Kinds : Arrive(r, k)) \/ ReadState(r) \/ WriteState(r) \/ Stamp(r) \/ Send(r)
        PROVE  KnownInv'
    <2>1. UNCHANGED <<svpc, tracked, forked>>
      BY <1>2 DEF Arrive, ReadState, WriteState, Stamp, Send, svVars
    <2>2. \E from \in Places \ {"record"}, to \in Places : Goto(r, from, to)
      BY <1>2 DEF Arrive, ReadState, WriteState, Stamp, Send, Places
    <2>3. QED
      BY <1>0, <1>c, <2>1, <2>2, UnrecordedKept
  <1>3. ASSUME NEW r \in Requests, FreshEnough(r) \/ LaunchFails(r) \/ Acked(r) PROVE KnownInv'
    <2>1. UNCHANGED <<svpc, tracked, forked>>
      BY <1>3 DEF FreshEnough, LaunchFails, Acked, svVars
    <2>2. \E from \in Places \ {"record"}, to \in Places : Goto(r, from, to)
      BY <1>3 DEF FreshEnough, LaunchFails, Acked, Goes, Answer, Places
    <2>3. QED
      BY <1>0, <1>c, <2>1, <2>2, UnrecordedKept
  <1>4. ASSUME NEW r \in Requests, Refused(r) \/ NoAck(r) PROVE KnownInv'
    <2>1. UNCHANGED <<svpc, tracked, forked>>
      BY <1>4 DEF Refused, NoAck, svVars
    <2>2. PICK from \in {"send", "wait"} : \E refused : NotSent(r, from, refused)
      BY <1>4 DEF Refused, NoAck
    <2>3. PICK to \in {"fresh", "launch", "send", "done"} : Goto(r, from, to)
      BY <2>2, NotSentGoto
    <2>4. from \in Places \ {"record"} /\ to \in Places
      BY DEF Places
    <2>5. QED
      BY <1>0, <1>c, <2>1, <2>3, <2>4, UnrecordedKept
  <1>5. ASSUME NEW r \in Requests, LaunchCheck(r) PROVE KnownInv'
    <2>1. UNCHANGED <<svpc, forked, lost, late, deserted>> /\ (tracked \in Live => tracked' = tracked)
      BY <1>5 DEF LaunchCheck, histVars
    <2>2. \E from \in Places \ {"record"}, to \in Places : Goto(r, from, to)
      BY <1>5, LaunchedGoto DEF LaunchCheck, Goes, Places
    <2>3. \A p : Unrecorded(p) => Unrecorded(p)'
      BY <1>0, <2>1, <2>2, UnrecordedKept
    <2>4. QED
      BY <1>b, <2>1, <2>3 DEF KnownInv
  <1>6. ASSUME NEW r \in Requests, Record(r) PROVE KnownInv'
    <2>1. /\ UNCHANGED <<svpc, late, deserted>> /\ tracked' = forked[r]
          /\ tracked \in Live => tracked \in lost'
          /\ forked' = [forked EXCEPT ![r] = NoPid]
      BY <1>6 DEF Record
    <2>2. \A q \in Requests \ {r} : pc'[q] = pc[q] /\ forked'[q] = forked[q]
      BY <1>0, <1>6, <2>1, LaunchedGoto DEF Record, Goto, LocalsOK, ForksOK
    <2>3. \A p : Unrecorded(p) => p = tracked' \/ Unrecorded(p)'
      BY <2>1, <2>2 DEF Unrecorded
    <2>4. QED
      BY <1>a, <1>b, <2>1, <2>3 DEF KnownInv
  <1>7. ASSUME NEW p \in Pids, \/ WorkerStep(p) \/ Heartbeat(p)
                               \/ WorkerCrashes(p) \/ WorkerEnds(p) \/ OrphansEnd(p)
        PROVE  KnownInv'
    BY <1>d, <1>7 DEF WorkerStep, Boot, Execute, Acknowledge, Heartbeat, WorkerCrashes, WorkerEnds, OrphansEnd,
                     svVars, reqVars
  <1>8. CASE StopBegin
    BY <1>b, <1>8 DEF StopBegin, KnownInv, Unrecorded, histVars, reqVars
  <1>9. CASE StopReaps \/ StopKills
    <2>1. /\ svpc = "waiting" /\ svpc' = "stopped" /\ UNCHANGED <<lost, deserted>>
          /\ \A p : Unrecorded(p) => p \in late'
      BY <1>9 DEF StopReaps, StopKills, TableCleared, Unrecorded
    <2>2. tracked \notin Live'
      BY <1>0, <1>9, <1>b DEF StopReaps, StopKills, Leave, Live, ProcessesOK
    <2>3. QED
      BY <1>a, <1>b, <2>1, <2>2 DEF KnownInv
  <1>10. CASE SvExits
    BY <1>a, <1>b, <1>10 DEF SvExits, SvGone, KnownInv
  <1>11. CASE SvCrashes
    BY <1>b, <1>11 DEF SvCrashes, SvGone, KnownInv
  <1>12. CASE SvStarts
    <2>1. svpc = "exited" /\ UNCHANGED <<lost, late, deserted>> /\ svpc' \in {"run", "deaf"}
      BY <1>12 DEF SvStarts, histVars
    <2>2. CASE svpc' = "deaf"
      BY <1>b, <2>1, <2>2 DEF KnownInv
    <2>3. CASE svpc' = "run"
      <3>1. Live \cap inherits = {}
        BY <1>12, <2>3 DEF SvStarts
      <3>2. QED
        BY <1>b, <2>1, <3>1 DEF KnownInv, ForkedInv
    <2>4. QED
      BY <2>1, <2>2, <2>3
  <1>13. CASE UNCHANGED vars \/ \E f \in {"beat", "mark"} : FileAges(f)
    BY <1>d, <1>13 DEF FileAges, vars, svVars, reqVars
  <1>14. ASSUME NEW r \in Requests, NEW f \in {"beat", "mark"}, CopyAges(r, f) PROVE KnownInv'
    BY <1>d, <1>14 DEF CopyAges, svVars
  <1>15. QED
    BY <1>2, <1>3, <1>4, <1>5, <1>6, <1>7, <1>8, <1>9, <1>10, <1>11, <1>12, <1>13, <1>14
       DEF Next, RequestStep, StopStep, Ended

-----------------------------------------------------------------------------
(* What an ok means.                                                        *)

\* The part of KindInv about one request.
KindOf(r) ==
  /\ pc[r] \in {"read", "write", "fresh"} => kind[r] \notin {"start", "stop"}
  /\ pc[r] \in {"launch", "fork", "record"} => kind[r] # "stop"
  /\ resp[r] # "none" => pc[r] = "done"

LEMMA KindKept ==
  ASSUME LocalsOK, KindInv, NEW r \in Requests, NEW from, NEW to \in Places, Goto(r, from, to),
         \A q \in Requests \ {r} : kind'[q] = kind[q] /\ resp'[q] = resp[q],
         KindOf(r)'
  PROVE  KindInv'
  BY GotoLocals DEF KindInv, KindOf

LEMMA KindStep == TypeOK /\ KindInv /\ [Next]_vars => KindInv'
  <1> SUFFICES ASSUME TypeOK, KindInv, [Next]_vars PROVE KindInv'
    OBVIOUS
  <1>0. LocalsOK /\ ForksOK /\ \A r \in Requests : KindOf(r)
    BY DEF TypeOK, KindInv, KindOf
  <1> DEFINE Others(r) == \A q \in Requests \ {r} : kind'[q] = kind[q] /\ resp'[q] = resp[q]
  <1>1. ASSUME NEW r \in Requests, NEW k \in Kinds, Arrive(r, k) PROVE KindInv'
    <2> DEFINE to == IF k \in {"start", "stop"} THEN "send" ELSE "read"
    <2>1. Goto(r, "idle", to) /\ to \in Places /\ Others(r) /\ kind'[r] = k /\ resp'[r] = resp[r]
      BY <1>0, <1>1 DEF Arrive, Places, ForksOK
    <2>2. pc'[r] = to /\ pc[r] = "idle"
      BY <1>0, <2>1 DEF Goto, LocalsOK
    <2>3. KindOf(r)'
      BY <1>0, <2>1, <2>2 DEF KindOf
    <2>4. QED
      BY <1>0, <2>1, <2>3, KindKept
  <1>2. ASSUME NEW r \in Requests, ReadState(r) \/ WriteState(r) \/ Stamp(r) \/ Send(r) PROVE KindInv'
    <2>1. UNCHANGED <<kind, resp>> /\ \E to \in Places :
            \/ Goto(r, "read", to) /\ to = "write"
            \/ Goto(r, "write", to) /\ to \in {"send", "fresh"}
            \/ Goto(r, "fresh", to) /\ to = "launch"
            \/ Goto(r, "send", to) /\ to = "wait"
      BY <1>2 DEF ReadState, WriteState, Stamp, Send, Places
    <2>2. KindOf(r)'
      BY <1>0, <2>1 DEF KindOf, Goto, LocalsOK
    <2>3. QED
      BY <1>0, <2>1, <2>2, KindKept
  <1>3. ASSUME NEW r \in Requests, NEW from, NEW answer, Answer(r, from, answer), UNCHANGED kind
        PROVE  KindInv'
    <2>1. Goto(r, from, "done") /\ "done" \in Places /\ Others(r)
      BY <1>0, <1>3 DEF Answer, Places, LocalsOK
    <2>2. KindOf(r)'
      BY <1>0, <2>1 DEF KindOf, Goto, LocalsOK
    <2>3. QED
      BY <1>0, <2>1, <2>2, KindKept
  <1>4. ASSUME NEW r \in Requests, FreshEnough(r) \/ LaunchFails(r) PROVE KindInv'
    BY <1>3, <1>4 DEF FreshEnough, LaunchFails
  <1>5. ASSUME NEW r \in Requests, NEW from \in {"launch", "record"}, Launched(r, from), UNCHANGED kind
        PROVE  KindInv'
    <2>1. CASE kind[r] = "start"
      <3>1. Goto(r, from, "send") /\ "send" \in Places /\ Others(r) /\ resp'[r] = resp[r]
        BY <1>5, <2>1 DEF Launched, Places
      <3>2. KindOf(r)'
        BY <1>0, <1>5, <2>1, <3>1 DEF KindOf, Goto, LocalsOK
      <3>3. QED
        BY <1>0, <3>1, <3>2, KindKept
    <2>2. CASE kind[r] # "start"
      BY <1>3, <1>5, <2>2 DEF Launched
    <2>3. QED
      BY <2>1, <2>2
  <1>6. ASSUME NEW r \in Requests, LaunchCheck(r) PROVE KindInv'
    <2>1. CASE Goes(r, "launch", "fork")
      <3>1. Goto(r, "launch", "fork") /\ "fork" \in Places /\ UNCHANGED <<kind, resp>>
        BY <1>6, <2>1 DEF LaunchCheck, Goes, Places
      <3>2. KindOf(r)'
        BY <1>0, <3>1 DEF KindOf, Goto, LocalsOK
      <3>3. QED
        BY <1>0, <3>1, <3>2, KindKept
    <2>2. QED
      BY <1>5, <1>6, <2>1 DEF LaunchCheck
  <1>7. ASSUME NEW r \in Requests, NEW p \in Pids, Fork(r, p) PROVE KindInv'
    <2>1. Goto(r, "fork", "record") /\ "record" \in Places /\ UNCHANGED <<kind, resp>>
      BY <1>7 DEF Fork, Places
    <2>2. KindOf(r)'
      BY <1>0, <2>1 DEF KindOf, Goto, LocalsOK
    <2>3. QED
      BY <1>0, <2>1, <2>2, KindKept
  <1>8. ASSUME NEW r \in Requests, Record(r) PROVE KindInv'
    BY <1>5, <1>8 DEF Record
  <1>9. ASSUME NEW r \in Requests, Refused(r) \/ NoAck(r) PROVE KindInv'
    <2>1. UNCHANGED kind /\ \E from \in {"send", "wait"} : \E refused : NotSent(r, from, refused)
      BY <1>9 DEF Refused, NoAck
    <2>2. PICK from \in {"send", "wait"}, to \in {"fresh", "launch", "send", "done"} :
            /\ Goto(r, from, to)
            /\ to = "fresh" => kind[r] = "connectSrt"
            /\ to = "launch" => kind[r] = "start"
            /\ resp' = IF to = "done" THEN [resp EXCEPT ![r] = "failed"] ELSE resp
      BY <2>1, NotSentGoto
    <2>3. to \in Places /\ Others(r)
      BY <1>0, <2>1, <2>2 DEF Places, LocalsOK
    <2>4. KindOf(r)'
      BY <1>0, <2>1, <2>2 DEF KindOf, Goto, LocalsOK
    <2>5. QED
      BY <1>0, <2>2, <2>3, <2>4, KindKept
  <1>10. ASSUME NEW r \in Requests, Acked(r) PROVE KindInv'
    <2>1. CASE kind[r] = "connectSrt"
      <3>1. Goto(r, "wait", "fresh") /\ "fresh" \in Places /\ UNCHANGED <<kind, resp>>
        BY <1>10, <2>1 DEF Acked, Goes, Places
      <3>2. KindOf(r)'
        BY <1>0, <2>1, <3>1 DEF KindOf, Goto, LocalsOK
      <3>3. QED
        BY <1>0, <3>1, <3>2, KindKept
    <2>2. CASE kind[r] # "connectSrt"
      BY <1>3, <1>10, <2>2 DEF Acked
    <2>3. QED
      BY <2>1, <2>2
  <1>11. CASE SvExits \/ SvCrashes
    BY <1>0, <1>11 DEF SvExits, SvCrashes, SvGone, KindInv, LocalsOK
  <1>12. CASE UNCHANGED <<pc, kind, resp>>
    BY <1>12 DEF KindInv
  <1>13. ASSUME NEW r \in Requests, NEW f \in {"beat", "mark"}, CopyAges(r, f)
         PROVE  UNCHANGED <<pc, kind, resp>>
    BY <1>13 DEF CopyAges
  <1>14. ASSUME NEW p \in Pids, \/ WorkerStep(p) \/ Heartbeat(p)
                                \/ WorkerCrashes(p) \/ WorkerEnds(p) \/ OrphansEnd(p)
         PROVE  UNCHANGED <<pc, kind, resp>>
    BY <1>14 DEF WorkerStep, Boot, Execute, Acknowledge, Heartbeat, WorkerCrashes, WorkerEnds, OrphansEnd,
                 reqVars
  <1>15. CASE StopBegin \/ StopReaps \/ StopKills \/ SvStarts \/ \E f \in {"beat", "mark"} : FileAges(f)
    BY <1>12, <1>15 DEF StopBegin, StopReaps, StopKills, TableCleared, SvStarts, FileAges, reqVars
  <1>16. CASE UNCHANGED vars
    BY <1>12, <1>16 DEF vars, reqVars
  <1>17. QED
    BY <1>1, <1>2, <1>4, <1>6, <1>7, <1>8, <1>9, <1>10, <1>11, <1>12, <1>13, <1>14, <1>15, <1>16
       DEF Next, RequestStep, StopStep, Ended

\* A thread's step, the worker's aside, gives itself no ACK.
LEMMA AckKept ==
  ASSUME LocalsOK, PortOK, AckInv, executed \subseteq executed',
         busy' => busy /\ Head(queue') = Head(queue),
         \A r \in Requests : replied'[r] = "ack" => replied[r] = "ack"
  PROVE  AckInv'
  BY DEF AckInv

LEMMA AppendHead ==
  ASSUME NEW S, NEW q \in Seq(S), NEW e \in S, q # <<>>
  PROVE  Head(Append(q, e)) = Head(q)
  OBVIOUS

LEMMA AckStep == TypeOK /\ AckInv /\ [Next]_vars => AckInv' /\ executed \subseteq executed'
  <1> SUFFICES ASSUME TypeOK, AckInv, [Next]_vars PROVE AckInv' /\ executed \subseteq executed'
    OBVIOUS
  <1>0. LocalsOK /\ PortOK
    BY DEF TypeOK
  <1>a. ASSUME NEW r \in Requests, UNCHANGED <<queue, busy, executed>>,
               replied' = replied \/ replied' = [replied EXCEPT ![r] = "none"]
        PROVE  AckInv' /\ executed \subseteq executed'
    BY <1>0, <1>a, AckKept DEF LocalsOK
  <1>b. CASE UNCHANGED <<queue, busy, executed, replied>>
    BY <1>0, <1>b, AckKept
  <1>c. ASSUME NEW p \in Pids, NEW state, NEW left, Leave(p, state, left), UNCHANGED executed
        PROVE  AckInv' /\ executed \subseteq executed'
    <2>1. busy' => busy /\ Head(queue') = Head(queue)
      BY <1>0, <1>c DEF Leave
    <2>2. \A r \in Requests : replied'[r] = "ack" => replied[r] = "ack"
      BY <1>0, <1>c DEF Leave, LocalsOK
    <2>3. QED
      BY <1>0, <1>c, <2>1, <2>2, AckKept
  <1>1. ASSUME NEW r \in Requests, FreshEnough(r) \/ LaunchFails(r) \/ Acked(r)
        PROVE  AckInv' /\ executed \subseteq executed'
    BY <1>a, <1>1 DEF FreshEnough, LaunchFails, Acked, Goes, Answer, portVars
  <1>2. ASSUME NEW r \in Requests, LaunchCheck(r) \/ Record(r)
        PROVE  AckInv' /\ executed \subseteq executed'
    BY <1>a, <1>2, LaunchedGoto DEF LaunchCheck, Record, Goes, portVars
  <1>3. ASSUME NEW r \in Requests, Refused(r) \/ NoAck(r)
        PROVE  AckInv' /\ executed \subseteq executed'
    <2>1. UNCHANGED <<queue, busy, executed>> /\ \E from, refused : NotSent(r, from, refused)
      BY <1>3 DEF Refused, NoAck, portVars
    <2>2. replied' = replied \/ replied' = [replied EXCEPT ![r] = "none"]
      BY <2>1, NotSentGoto
    <2>3. QED
      BY <1>a, <2>1, <2>2
  <1>4. ASSUME NEW r \in Requests, Send(r) PROVE AckInv' /\ executed \subseteq executed'
    <2>1. [req |-> r, try |-> tries[r]] \in [req : Requests, try : 0..MaxTries]
      BY <1>0 DEF LocalsOK
    <2>2. busy' => busy /\ Head(queue') = Head(queue)
      BY <1>0, <1>4, <2>1, AppendHead DEF Send, PortOK
    <2>3. \A q \in Requests : replied'[q] = "ack" => replied[q] = "ack"
      BY <1>0, <1>4 DEF Send, LocalsOK
    <2>4. QED
      BY <1>0, <1>4, <2>2, <2>3, AckKept DEF Send
  <1>5. ASSUME NEW r \in Requests,
               \/ \E k \in Kinds : Arrive(r, k)
               \/ \E p \in Pids : Fork(r, p)
               \/ \E f \in {"beat", "mark"} : CopyAges(r, f)
               \/ ReadState(r) \/ WriteState(r) \/ Stamp(r)
        PROVE  UNCHANGED <<queue, busy, executed, replied>>
    BY <1>5 DEF Arrive, Fork, CopyAges, ReadState, WriteState, Stamp, sockVars, portVars
  <1>6. ASSUME NEW p \in Pids, Execute(p) PROVE AckInv' /\ executed \subseteq executed'
    BY <1>0, <1>6 DEF Execute, AckInv
  <1>7. ASSUME NEW p \in Pids, Acknowledge(p) PROVE AckInv' /\ executed \subseteq executed'
    <2>1. UNCHANGED executed /\ ~busy' /\ Head(queue).req \in executed
      BY <1>0, <1>7 DEF Acknowledge, AckInv, PortOK
    <2>2. \A q \in Requests : replied'[q] = "ack" => replied[q] = "ack" \/ q = Head(queue).req
      BY <1>0, <1>7 DEF Acknowledge, LocalsOK
    <2>3. QED
      BY <2>1, <2>2 DEF AckInv
  <1>8. ASSUME NEW p \in Pids, WorkerCrashes(p) \/ WorkerEnds(p) \/ OrphansEnd(p)
        PROVE  AckInv' /\ executed \subseteq executed'
    BY <1>c, <1>8 DEF WorkerCrashes, WorkerEnds, OrphansEnd
  <1>9. ASSUME NEW p \in Pids, Boot(p) \/ Heartbeat(p) PROVE UNCHANGED <<queue, busy, executed, replied>>
    BY <1>9 DEF Boot, Heartbeat, sockVars, portVars
  <1>10. CASE StopKills
    BY <1>c, <1>10 DEF StopKills, TableCleared, Live
  <1>11. CASE SvExits \/ SvCrashes
    <2>1. UNCHANGED <<queue, busy, executed>> /\ \A r \in Requests : replied'[r] = "none"
      BY <1>11 DEF SvExits, SvCrashes, SvGone, portVars
    <2>2. QED
      BY <1>0, <2>1, AckKept
  <1>12. CASE StopBegin \/ StopReaps \/ SvStarts \/ \E f \in {"beat", "mark"} : FileAges(f)
    BY <1>b, <1>12 DEF StopBegin, StopReaps, TableCleared, SvStarts, FileAges, sockVars, portVars
  <1>13. CASE UNCHANGED vars
    BY <1>b, <1>13 DEF vars, sockVars, portVars
  <1>14. QED
    BY <1>b, <1>1, <1>2, <1>3, <1>4, <1>5, <1>6, <1>7, <1>8, <1>9, <1>10, <1>11, <1>12, <1>13
       DEF Next, RequestStep, WorkerStep, StopStep, Ended

\* Whose answer is an ok, or was one before.
LEMMA OkFrom ==
  TypeOK /\ KindInv /\ AckInv /\ [Next]_vars =>
    \A r \in Requests : resp'[r] = "ok" /\ kind'[r] \in {"start", "stop"} =>
      r \in executed \/ (resp[r] = "ok" /\ kind[r] = kind'[r])
  <1> DEFINE Right(r) == resp'[r] = "ok" /\ kind'[r] \in {"start", "stop"} =>
                            r \in executed \/ (resp[r] = "ok" /\ kind[r] = kind'[r])
  <1> SUFFICES ASSUME TypeOK, KindInv, AckInv, [Next]_vars
               PROVE  \A r \in Requests : Right(r)
    OBVIOUS
  <1>0. LocalsOK /\ ForksOK /\ \A r \in Requests : KindOf(r)
    BY DEF TypeOK, KindInv, KindOf
  <1>a. CASE UNCHANGED <<resp, kind>>
    BY <1>a
  <1>b. ASSUME NEW r \in Requests, UNCHANGED kind,
               \/ resp' = resp
               \/ resp' = [resp EXCEPT ![r] = "failed"]
               \/ /\ resp' = [resp EXCEPT ![r] = "ok"]
                  /\ kind[r] \in {"start", "stop"} => r \in executed
        PROVE  \A q \in Requests : Right(q)
    BY <1>0, <1>b DEF LocalsOK
  <1>1. ASSUME NEW r \in Requests, NEW k \in Kinds, Arrive(r, k) PROVE \A q \in Requests : Right(q)
    <2>1. resp[r] # "ok"
      BY <1>0, <1>1 DEF KindOf, Arrive, Goto
    <2>2. UNCHANGED resp /\ \A q \in Requests \ {r} : kind'[q] = kind[q]
      BY <1>0, <1>1 DEF Arrive, ForksOK
    <2>3. QED
      BY <2>1, <2>2
  <1>2. ASSUME NEW r \in Requests, FreshEnough(r) \/ LaunchFails(r) \/ Acked(r)
        PROVE  \A q \in Requests : Right(q)
    <2>1. CASE FreshEnough(r)
      BY <1>0, <1>b, <2>1 DEF FreshEnough, Answer, Goto, KindOf
    <2>2. CASE LaunchFails(r)
      BY <1>0, <1>b, <2>2 DEF LaunchFails, Answer, Goto, KindOf
    <2>3. CASE Acked(r)
      BY <1>b, <2>3 DEF Acked, Answer, Goes, AckInv
    <2>4. QED
      BY <1>2, <2>1, <2>2, <2>3
  <1>3. ASSUME NEW r \in Requests, LaunchCheck(r) \/ Record(r) PROVE \A q \in Requests : Right(q)
    <2>1. UNCHANGED kind /\ kind[r] # "stop"
      BY <1>0, <1>3, LaunchedGoto DEF LaunchCheck, Record, Goes, Goto, KindOf
    <2>2. \/ resp' = resp
          \/ resp' = [resp EXCEPT ![r] = "ok"] /\ kind[r] # "start"
      <3>1. (\E from : Launched(r, from)) \/ UNCHANGED resp
        BY <1>3 DEF LaunchCheck, Record, Goes
      <3>2. CASE \E from : Launched(r, from)
        BY <3>2, LaunchedGoto
      <3>3. QED
        BY <3>1, <3>2
    <2>3. QED
      BY <1>b, <2>1, <2>2
  <1>4. ASSUME NEW r \in Requests, Refused(r) \/ NoAck(r) PROVE \A q \in Requests : Right(q)
    <2>1. UNCHANGED kind /\ \E from, refused : NotSent(r, from, refused)
      BY <1>4 DEF Refused, NoAck
    <2>2. resp' = resp \/ resp' = [resp EXCEPT ![r] = "failed"]
      BY <2>1, NotSentGoto
    <2>3. QED
      BY <1>b, <2>1, <2>2
  <1>5. ASSUME NEW r \in Requests,
               \/ \E p \in Pids : Fork(r, p)
               \/ \E f \in {"beat", "mark"} : CopyAges(r, f)
               \/ ReadState(r) \/ WriteState(r) \/ Stamp(r) \/ Send(r)
        PROVE  UNCHANGED <<resp, kind>>
    BY <1>5 DEF Fork, CopyAges, ReadState, WriteState, Stamp, Send
  <1>6. ASSUME NEW p \in Pids, \/ WorkerStep(p) \/ Heartbeat(p)
                               \/ WorkerCrashes(p) \/ WorkerEnds(p) \/ OrphansEnd(p)
        PROVE  UNCHANGED <<resp, kind>>
    BY <1>6 DEF WorkerStep, Boot, Execute, Acknowledge, Heartbeat, WorkerCrashes, WorkerEnds, OrphansEnd,
                reqVars
  <1>7. CASE StopBegin \/ StopStep \/ SvCrashes \/ SvStarts \/ \E f \in {"beat", "mark"} : FileAges(f)
    BY <1>a, <1>7 DEF StopBegin, StopStep, StopReaps, StopKills, TableCleared, SvExits, SvCrashes, SvGone,
                     SvStarts, FileAges, reqVars
  <1>8. CASE UNCHANGED vars
    BY <1>a, <1>8 DEF vars, reqVars
  <1>9. QED
    BY <1>a, <1>1, <1>2, <1>3, <1>4, <1>5, <1>6, <1>7, <1>8 DEF Next, RequestStep, Ended

-----------------------------------------------------------------------------
(* The theorems.                                                            *)

LEMMA LaunchInitInv == Init => LaunchInv
  <1> SUFFICES ASSUME Init PROVE LaunchInv
    OBVIOUS
  <1> USE DEF Init
  <1>1. TypeOK
    BY LaunchInitTypes
  <1>2. Live = {}
    BY DEF Live
  <1>3. ForkedInv /\ KnownInv
    BY <1>2 DEF ForkedInv, KnownInv
  <1>4. KindInv /\ AckInv /\ AckMeansExecuted
    BY DEF KindInv, AckInv, AckMeansExecuted
  <1>5. QED
    BY <1>1, <1>3, <1>4 DEF LaunchInv

LEMMA LaunchStepInv == LaunchInv /\ [Next]_vars => LaunchInv'
  <1> SUFFICES ASSUME LaunchInv, [Next]_vars PROVE LaunchInv'
    OBVIOUS
  <1>1. TypeOK /\ ForkedInv /\ KnownInv /\ KindInv /\ AckInv /\ AckMeansExecuted
    BY DEF LaunchInv
  <1>2. TypeOK' /\ ForkedInv' /\ KnownInv' /\ KindInv' /\ AckInv' /\ executed \subseteq executed'
    BY <1>1, LaunchTypeStep, ForkedStep, KnownStep, KindStep, AckStep
  <1>3. AckMeansExecuted'
    BY <1>1, <1>2, OkFrom DEF AckMeansExecuted
  <1>4. QED
    BY <1>2, <1>3 DEF LaunchInv

LEMMA LaunchInvariant == Spec => []LaunchInv
  BY LaunchInitInv, LaunchStepInv, PTL DEF Spec

(* The types of the supervisor's, the workers' and the port's state: among  *)
(* them that a recording thread has a child, and that the connection being  *)
(* served is in the queue.                                                  *)
THEOREM LaunchTypes == Spec => []TypeOK
  <1>1. LaunchInv => TypeOK
    BY DEF LaunchInv
  <1>2. QED
    BY <1>1, LaunchInvariant, PTL

(* A serving supervisor knows every live worker but those an overlapping    *)
(* launch overwrote in its table and those forked during a stop; these, and *)
(* the ones a crash deserted, are the only workers a stopped one leaves.    *)
THEOREM LaunchSurvivors == Spec => []SurvivorsExplained
  <1>1. LaunchInv => SurvivorsExplained
    BY DEF LaunchInv, KnownInv, SurvivorsExplained, Live
  <1>2. QED
    BY <1>1, LaunchInvariant, PTL

(* Whoever is told ok for a Start or a Stop had the command executed,       *)
(* whatever attempts, restarts and crashes came in between.                 *)
THEOREM LaunchAcks == Spec => []AckMeansExecuted
  <1>1. LaunchInv => AckMeansExecuted
    BY DEF LaunchInv
  <1>2. QED
    BY <1>1, LaunchInvariant, PTL

=============================================================================
