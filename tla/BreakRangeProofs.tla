--------------------------- MODULE BreakRangeProofs ---------------------------
(***************************************************************************)
(* Theorems about BreakRange, for any handlers, events and bounds.         *)
(***************************************************************************)
EXTENDS BreakRange, TLAPS

(* What the types need of the constants and of the updates. *)
LEMMA RangeTypes ==
  /\ NoRange \in Ranges
  /\ \A r \in Ranges : /\ r.ev \in Events \cup {NoEvent}
                       /\ r.start \in 0..MaxTime /\ r.end \in 0..MaxTime
  BY RangeAssumption DEF Ranges, NoRange, Open

LEMMA UpdateTypes ==
  ASSUME NEW r \in Ranges, NEW e \in Events \cup {NoEvent}, NEW t \in 0..MaxTime
  PROVE  Started(r, e, t) \in Ranges /\ Ended(r, e, t) \in Ranges
<1>1. Open \in 0..MaxTime
  BY RangeAssumption DEF Open
<1>2. Started(r, e, t) \in Ranges
  BY <1>1 DEF Started, Ranges
<1>3. Ended(r, e, t) \in Ranges
  BY DEF Ended, Ranges
<1> QED
  BY <1>2, <1>3

LEMMA Updates ==
  ASSUME TypeOK, NEW t \in Executors
  PROVE  Updated(t) \in Ranges /\ Base \in {file, mem}
<1>1. Base \in {file, mem}
  BY DEF Base
<1>2. Base \in Ranges /\ ev[t] \in Events \cup {NoEvent} /\ at[t] \in 0..MaxTime /\ file \in Ranges
  BY <1>1 DEF TypeOK, RangesOK, CallsOK
<1> QED
  BY <1>1, <1>2, UpdateTypes DEF Updated

\* What a call leaves behind for the next one is of the right type.
LEMMA Forgotten ==
  ASSUME TypeOK, NEW ts \in SUBSET Executors, Forget(ts)
  PROVE  CallsOK' /\ new' \in [Executors -> Ranges]
<1>1. act' \in [Executors -> Actions]
  BY DEF TypeOK, CallsOK, Forget, Actions
<1>2. ev' \in [Executors -> Events \cup {NoEvent}]
  BY DEF TypeOK, CallsOK, Forget
<1>3. at' \in [Executors -> 0..MaxTime]
  BY RangeAssumption DEF TypeOK, CallsOK, Forget
<1>4. new' \in [Executors -> Ranges]
  BY RangeTypes DEF TypeOK, RangesOK, Forget
<1> QED
  BY <1>1, <1>2, <1>3, <1>4 DEF CallsOK

\* An action that begins takes no lock.
LEMMA Began ==
  ASSUME TypeOK, NEW t \in Executors, NEW a \in Actions, NEW e \in Events, Begin(t, a, e),
         hpc' \in [Handlers -> {"idle", "send", "wait", "acked", "write"}],
         actions' \in 0..MaxActions, pc[t] # "rename"
  PROVE  TypeOK'
<1>1. RangesOK'
  BY DEF TypeOK, RangesOK, Begin, noteVars
<1>2. CallsOK'
  <2>1. now \in 0..MaxTime
    BY RangeAssumption DEF TypeOK, HistoryOK
  <2> QED
    BY <2>1 DEF TypeOK, CallsOK, Begin
<1>3. PlacesOK'
  BY DEF TypeOK, PlacesOK, Begin, noteVars
<1>4. HistoryOK'
  BY DEF TypeOK, HistoryOK, Begin
<1> QED
  BY <1>1, <1>2, <1>3, <1>4 DEF TypeOK

(* Types, with: g_metadataRuntimeFileMutex is held by the executor that is   *)
(* between reading and replacing the file, and by no other.                 *)
THEOREM TypeCorrect == Spec => []TypeOK
<1>1. Init => TypeOK
  <2> SUFFICES ASSUME Init PROVE TypeOK
    OBVIOUS
  <2>1. RangesOK /\ PlacesOK
    BY RangeTypes DEF Init, RangesOK, PlacesOK, Executors
  <2>2. CallsOK
    BY RangeAssumption DEF Init, CallsOK, Actions
  <2>3. now \in 1..MaxTime /\ actions \in 0..MaxActions /\ notes \in 0..MaxNotes
        /\ crashes \in 0..MaxCrashes
    BY RangeAssumption DEF Init
  <2>4. HistoryOK
    BY <2>3 DEF Init, HistoryOK, NothingClosed
  <2> QED
    BY <2>1, <2>2, <2>4 DEF TypeOK
<1>2. TypeOK /\ [Next]_vars => TypeOK'
  <2> SUFFICES ASSUME TypeOK, [Next]_vars PROVE TypeOK'
    OBVIOUS
  <2> USE DEF TypeOK, vars, execVars, noteVars, apiVars, history, bounds
  <2>1. CASE Tick
    <3>1. RangesOK'
      BY <2>1 DEF Tick, RangesOK
    <3>2. CallsOK'
      BY <2>1 DEF Tick, CallsOK
    <3>3. PlacesOK'
      BY <2>1 DEF Tick, PlacesOK
    <3>4. HistoryOK'
      BY <2>1, RangeAssumption DEF Tick, HistoryOK
    <3> QED
      BY <3>1, <3>2, <3>3, <3>4
  <2>2. ASSUME NEW t \in Executors, Read(t) PROVE TypeOK'
    <3>1. RangesOK'
      <4>1. Updated(t) \in Ranges
        BY Updates
      <4> QED
        BY <2>2, <4>1 DEF Read, RangesOK
    <3>2. CallsOK'
      BY <2>2 DEF Read, CallsOK
    <3>3. PlacesOK'
      BY <2>2 DEF Read, PlacesOK, Executors
    <3>4. HistoryOK'
      <4>1. Updated(t).ev \in Events \cup {NoEvent}
        BY Updates, RangeTypes
      <4>2. closed' \in [got : Events \cup {NoEvent}, due : Events \cup {NoEvent}, blind : BOOLEAN]
        BY <2>2, <4>1 DEF Read, HistoryOK
      <4> QED
        BY <2>2, <4>2 DEF Read, Torn, HistoryOK
    <3> QED
      BY <3>1, <3>2, <3>3, <3>4
  <2>3. ASSUME NEW t \in Executors, Rename(t) PROVE TypeOK'
    <3>1. RangesOK'
      BY <2>3 DEF Rename, RangesOK
    <3>2. CallsOK'
      BY <2>3 DEF Rename, CallsOK
    <3>3. PlacesOK'
      BY <2>3 DEF Rename, Detached, PlacesOK, Executors
    <3>4. HistoryOK'
      <4>1. lastStart' \in Events \cup {NoEvent}
        BY <2>3 DEF Rename, CallsOK, HistoryOK
      <4>2. causes' \subseteq {"torn", "cue", "handler"}
        BY <2>3 DEF Rename, HistoryOK
      <4> QED
        BY <2>3, <4>1, <4>2 DEF Rename, HistoryOK
    <3> QED
      BY <3>1, <3>2, <3>3, <3>4
  <2>4. ASSUME NEW t \in Executors, Remember(t) PROVE TypeOK'
    <3>1. RangesOK'
      <4>1. mem' \in Ranges
        BY <2>4, RangeTypes DEF Remember, Remembered, RangesOK
      <4>2. new' \in [Executors -> Ranges]
        BY <2>4, Forgotten DEF Remember
      <4> QED
        BY <2>4, <4>1, <4>2 DEF Remember, RangesOK
    <3>2. CallsOK'
      BY <2>4, Forgotten DEF Remember
    <3>3. PlacesOK'
      BY <2>4 DEF Remember, PlacesOK, Executors
    <3>4. HistoryOK'
      BY <2>4 DEF Remember, HistoryOK
    <3> QED
      BY <3>1, <3>2, <3>3, <3>4
  <2>5. ASSUME NEW next \in {"execute", "noteRead", "idle"}, CueArrives(next) PROVE TypeOK'
    <3>1. RangesOK'
      BY <2>5 DEF CueArrives, RangesOK
    <3>2. CallsOK'
      BY <2>5 DEF CueArrives, CallsOK
    <3>3. PlacesOK'
      BY <2>5 DEF CueArrives, PlacesOK, Executors
    <3>4. HistoryOK'
      BY <2>5, RangeAssumption DEF CueArrives, HistoryOK
    <3> QED
      BY <3>1, <3>2, <3>3, <3>4
  <2>6. CASE NoteRead
    <3>1. RangesOK'
      BY <2>6 DEF NoteRead, RangesOK
    <3>2. CallsOK'
      BY <2>6 DEF NoteRead, CallsOK
    <3>3. PlacesOK'
      BY <2>6 DEF NoteRead, PlacesOK, Executors
    <3>4. HistoryOK'
      BY <2>6 DEF NoteRead, HistoryOK
    <3> QED
      BY <3>1, <3>2, <3>3, <3>4
  <2>7. CASE NoteOpen
    <3>1. RangesOK'
      BY <2>7, RangeTypes DEF NoteOpen, RangesOK
    <3>2. CallsOK'
      BY <2>7 DEF NoteOpen, CallsOK
    <3>3. PlacesOK'
      BY <2>7 DEF NoteOpen, PlacesOK, Executors
    <3>4. HistoryOK'
      BY <2>7 DEF NoteOpen, HistoryOK
    <3> QED
      BY <3>1, <3>2, <3>3, <3>4
  <2>8. CASE NoteWrite
    <3>1. RangesOK'
      BY <2>8, RangeTypes DEF NoteWrite, RangesOK
    <3>2. CallsOK'
      BY <2>8 DEF NoteWrite, CallsOK
    <3>3. PlacesOK'
      BY <2>8 DEF NoteWrite, PlacesOK, Executors
    <3>4. HistoryOK'
      BY <2>8 DEF NoteWrite, Stale, HistoryOK
    <3> QED
      BY <3>1, <3>2, <3>3, <3>4
  <2>9. ASSUME NEW a \in Actions, NEW e \in Events, CueExecutes(a, e) PROVE TypeOK'
    <3>1. hpc' \in [Handlers -> {"idle", "send", "wait", "acked", "write"}]
      BY <2>9 DEF CueExecutes, PlacesOK
    <3>2. actions' \in 0..MaxActions /\ pc["cue"] # "rename" /\ "cue" \in Executors
      BY <2>9, RangeAssumption DEF CueExecutes, HistoryOK, Executors
    <3> QED
      BY <2>9, <3>1, <3>2, Began DEF CueExecutes
  <2>10. ASSUME NEW a \in Actions, NEW e \in Events, ControlExecutes(a, e) PROVE TypeOK'
    <3>1. hpc' \in [Handlers -> {"idle", "send", "wait", "acked", "write"}]
      BY <2>10 DEF ControlExecutes, PlacesOK
    <3>2. actions' \in 0..MaxActions /\ pc["control"] # "rename" /\ "control" \in Executors
      BY <2>10, RangeAssumption DEF ControlExecutes, HistoryOK, Executors
    <3> QED
      BY <2>10, <3>1, <3>2, Began DEF ControlExecutes
  <2>11. CASE OtherRead
    <3>1. RangesOK'
      BY <2>11 DEF OtherRead, RangesOK
    <3>2. CallsOK'
      BY <2>11 DEF OtherRead, CallsOK
    <3>3. PlacesOK'
      BY <2>11 DEF OtherRead, PlacesOK, Executors
    <3>4. HistoryOK'
      BY <2>11, RangeAssumption DEF OtherRead, Torn, HistoryOK
    <3> QED
      BY <3>1, <3>2, <3>3, <3>4
  <2>12. CASE OtherWrite
    <3>1. RangesOK'
      BY <2>12, RangeTypes DEF OtherWrite, RangesOK
    <3>2. CallsOK'
      BY <2>12 DEF OtherWrite, CallsOK
    <3>3. PlacesOK'
      BY <2>12 DEF OtherWrite, Detached, PlacesOK, Executors
    <3>4. HistoryOK'
      BY <2>12 DEF OtherWrite, HistoryOK
    <3> QED
      BY <3>1, <3>2, <3>3, <3>4
  <2>13. ASSUME NEW h \in Handlers, HandlerRead(h) PROVE TypeOK'
    <3>1. RangesOK'
      BY <2>13 DEF HandlerRead, RangesOK
    <3>2. CallsOK'
      BY <2>13 DEF HandlerRead, CallsOK
    <3>3. PlacesOK'
      BY <2>13 DEF HandlerRead, PlacesOK
    <3>4. HistoryOK'
      BY <2>13, RangeAssumption DEF HandlerRead, HistoryOK
    <3> QED
      BY <3>1, <3>2, <3>3, <3>4
  <2>14. ASSUME NEW h \in Handlers, HandlerGivesUp(h) PROVE TypeOK'
    <3>1. RangesOK'
      BY <2>14 DEF HandlerGivesUp, RangesOK
    <3>2. CallsOK'
      BY <2>14 DEF HandlerGivesUp, CallsOK
    <3>3. PlacesOK'
      BY <2>14 DEF HandlerGivesUp, PlacesOK
    <3>4. HistoryOK'
      BY <2>14 DEF HandlerGivesUp, HistoryOK
    <3> QED
      BY <3>1, <3>2, <3>3, <3>4
  <2>15. ASSUME NEW h \in Handlers, HandlerRereads(h) PROVE TypeOK'
    <3>1. RangesOK'
      BY <2>15 DEF HandlerRereads, RangesOK
    <3>2. CallsOK'
      BY <2>15 DEF HandlerRereads, CallsOK
    <3>3. PlacesOK'
      BY <2>15 DEF HandlerRereads, PlacesOK
    <3>4. HistoryOK'
      BY <2>15 DEF HandlerRereads, HistoryOK
    <3> QED
      BY <3>1, <3>2, <3>3, <3>4
  <2>16. ASSUME NEW h \in Handlers, HandlerWrites(h) PROVE TypeOK'
    <3>1. RangesOK'
      BY <2>16, RangeTypes DEF HandlerWrites, RangesOK
    <3>2. CallsOK'
      BY <2>16 DEF HandlerWrites, CallsOK
    <3>3. PlacesOK'
      BY <2>16 DEF HandlerWrites, Detached, PlacesOK
    <3>4. HistoryOK'
      BY <2>16 DEF HandlerWrites, Stale, HistoryOK
    <3> QED
      BY <3>1, <3>2, <3>3, <3>4
  <2>17. ASSUME NEW h \in Handlers, NEW a \in Actions, NEW e \in Events, HandlerSend(h, a, e)
         PROVE  TypeOK'
    <3>1. hpc' \in [Handlers -> {"idle", "send", "wait", "acked", "write"}]
      BY <2>17 DEF HandlerSend, PlacesOK
    <3>2. actions' \in 0..MaxActions /\ pc["control"] # "rename" /\ "control" \in Executors
      BY <2>17, RangeAssumption DEF HandlerSend, HistoryOK, Executors
    <3> QED
      BY <2>17, <3>1, <3>2, Began DEF HandlerSend
  <2>18. CASE WorkerRestarts
    <3>1. RangesOK'
      BY <2>18, Forgotten, RangeTypes DEF WorkerRestarts, RangesOK
    <3>2. CallsOK'
      BY <2>18, Forgotten DEF WorkerRestarts
    <3>3. PlacesOK'
      BY <2>18 DEF WorkerRestarts, PlacesOK, Executors
    <3>4. HistoryOK'
      BY <2>18, RangeAssumption DEF WorkerRestarts, Torn, HistoryOK
    <3> QED
      BY <3>1, <3>2, <3>3, <3>4
  <2>19. CASE Quiet
    <3>1. RangesOK'
      BY <2>19 DEF Quiet, RangesOK
    <3>2. CallsOK'
      BY <2>19 DEF Quiet, CallsOK
    <3>3. PlacesOK'
      BY <2>19 DEF Quiet, PlacesOK
    <3>4. HistoryOK'
      BY <2>19 DEF Quiet, HistoryOK
    <3> QED
      BY <3>1, <3>2, <3>3, <3>4
  <2>20. CASE UNCHANGED vars
    BY <2>20 DEF RangesOK, CallsOK, PlacesOK, HistoryOK
  <2> QED
    BY <2>1, <2>2, <2>3, <2>4, <2>5, <2>6, <2>7, <2>8, <2>9, <2>10, <2>11, <2>12, <2>13, <2>14,
       <2>15, <2>16, <2>17, <2>18, <2>19, <2>20 DEF Next
<1> QED
  BY <1>1, <1>2, PTL DEF Spec

-----------------------------------------------------------------------------
(* Whoever has read the file under the mutex to write it back unchanged     *)
(* holds what was there; that may be damaged only for a cause on record,    *)
(* and no update falls between.                                             *)
LossInv ==
  /\ RangeLossExplained
  /\ lock = "other" /\ keep # latest => causes # {}
  /\ \A t \in Executors :
       pc[t] = "rename" /\ act[t] = "LEGAL_ID" /\ new[t] # latest => causes # {}

LEMMA LossInvariant == Spec => []LossInv
<1>1. Init => LossInv
  BY DEF Init, LossInv, RangeLossExplained
<1>2. TypeOK /\ LossInv /\ [Next]_vars => LossInv'
  <2> SUFFICES ASSUME TypeOK, LossInv, [Next]_vars PROVE LossInv'
    OBVIOUS
  <2> USE DEF TypeOK, PlacesOK, LossInv, RangeLossExplained, vars, execVars, noteVars, apiVars,
       history, bounds
  <2>1. ASSUME NEW t \in Executors, Read(t) PROVE LossInv'
    BY <2>1 DEF Read, Updated, Torn, CallsOK, RangesOK, Executors
  <2>2. ASSUME NEW t \in Executors, Rename(t) PROVE LossInv'
    <3>1. CASE act[t] = "LEGAL_ID"
      BY <2>2, <3>1 DEF Rename, Detached, Executors
    <3>2. CASE act[t] # "LEGAL_ID"
      BY <2>2, <3>2 DEF Rename, Executors
    <3> QED
      BY <3>1, <3>2
  <2>3. ASSUME NEW t \in Executors, Remember(t) PROVE LossInv'
    BY <2>3 DEF Remember, Forget
  <2>4. CASE NoteOpen \/ NoteWrite
    BY <2>4 DEF NoteOpen, NoteWrite, Stale, Executors
  <2>5. ASSUME NEW t \in Executors, NEW a \in Actions, NEW e \in Events, Begin(t, a, e)
        PROVE  LossInv'
    BY <2>5 DEF Begin
  <2>6. CASE OtherRead \/ OtherWrite
    BY <2>6 DEF OtherRead, OtherWrite, Torn, Detached, Executors
  <2>7. ASSUME NEW h \in Handlers, HandlerWrites(h) PROVE LossInv'
    BY <2>7 DEF HandlerWrites, Detached, Stale
  <2>8. CASE WorkerRestarts
    BY <2>8 DEF WorkerRestarts, Torn
  <2>9. CASE \/ Tick \/ Quiet \/ NoteRead
             \/ \E next \in {"execute", "noteRead", "idle"} : CueArrives(next)
             \/ \E h \in Handlers : HandlerRead(h) \/ HandlerGivesUp(h) \/ HandlerRereads(h)
             \/ UNCHANGED vars
    BY <2>9 DEF Tick, Quiet, NoteRead, CueArrives, HandlerRead, HandlerGivesUp, HandlerRereads,
                Executors
  <2> QED
    BY <2>1, <2>2, <2>3, <2>4, <2>5, <2>6, <2>7, <2>8, <2>9
       DEF Next, CueExecutes, ControlExecutes, HandlerSend, Executors
<1> QED
  BY <1>1, <1>2, TypeCorrect, PTL DEF Spec

(* Memory follows the file as long as updates do not overlap.  The last     *)
(* conjunct is what an END relies on.                                       *)
MemInv ==
  /\ ~both => \A t, u \in Executors : Updating(t) /\ Updating(u) => t = u
  /\ ~both => \A t \in Executors : pc[t] = "mem" /\ act[t] # "LEGAL_ID" => new[t] = latest
  /\ ~both /\ (\A t \in Executors : pc[t] = "mem" => act[t] = "LEGAL_ID") =>
       mem = latest \/ (mem = NoRange /\ emptied)

LEMMA MemInvariant == Spec => []MemInv
<1>1. Init => MemInv
  BY DEF Init, MemInv, Updating, Executors
<1>2. TypeOK /\ MemInv /\ [Next]_vars => MemInv'
  <2> SUFFICES ASSUME TypeOK, MemInv, [Next]_vars PROVE MemInv'
    OBVIOUS
  <2> USE DEF TypeOK, PlacesOK, MemInv, Updating, vars, execVars, noteVars, apiVars, history, bounds
  <2>1. ASSUME NEW t \in Executors, Read(t) PROVE MemInv'
    BY <2>1 DEF Read, RangesOK
  <2>2. ASSUME NEW t \in Executors, Rename(t) PROVE MemInv'
    BY <2>2 DEF Rename
  <2>3. ASSUME NEW t \in Executors, Remember(t) PROVE MemInv'
    BY <2>3 DEF Remember, Remembered, Forget
  <2>4. CASE NoteOpen \/ NoteWrite
    BY <2>4 DEF NoteOpen, NoteWrite, Executors
  <2>5. ASSUME NEW t \in Executors, NEW a \in Actions, NEW e \in Events, Begin(t, a, e),
               ~Updating(t)
        PROVE  MemInv'
    BY <2>5 DEF Begin, CallsOK
  <2>6. CASE OtherRead \/ OtherWrite
    BY <2>6 DEF OtherRead, OtherWrite
  <2>7. CASE WorkerRestarts
    BY <2>7 DEF WorkerRestarts, Forget
  <2>8. CASE \/ Tick \/ Quiet \/ NoteRead
             \/ \E next \in {"execute", "noteRead", "idle"} : CueArrives(next)
             \/ \E h \in Handlers : \/ HandlerRead(h) \/ HandlerGivesUp(h) \/ HandlerRereads(h)
                                    \/ HandlerWrites(h)
             \/ UNCHANGED vars
    BY <2>8 DEF Tick, Quiet, NoteRead, CueArrives, HandlerRead, HandlerGivesUp, HandlerRereads,
                HandlerWrites, Executors
  <2> QED
    BY <2>1, <2>2, <2>3, <2>4, <2>5, <2>6, <2>7, <2>8
       DEF Next, CueExecutes, ControlExecutes, HandlerSend, Executors
<1> QED
  BY <1>1, <1>2, TypeCorrect, PTL DEF Spec

(* The break is in the file or explained, and memory is the last update or  *)
(* known to be empty: mutateMetadataRuntimeState and the copy in            *)
(* m_hlsScteRange, for any number of handlers, events and actions.          *)
THEOREM BreakIsKept == Spec => []BreakKept
<1>1. LossInv /\ MemInv => BreakKept
  BY DEF LossInv, MemInv, MemoryCurrent, Updating, BreakKept
<1> QED
  BY <1>1, LossInvariant, MemInvariant, PTL

-----------------------------------------------------------------------------
(* The last update holds the event of the last START until an END.          *)
StartInv ==
  /\ lastStart # NoEvent => latest.ev = lastStart
  /\ \A t \in Executors : pc[t] = "rename" /\ act[t] = "START_BREAK" => new[t].ev = ev[t]
  /\ EndClosesLastStart

LEMMA StartInvariant == Spec => []StartInv
<1>1. Init => StartInv
  BY DEF Init, StartInv, EndClosesLastStart, NothingClosed, Executors
<1>2. TypeOK /\ MemInv /\ StartInv /\ [Next]_vars => StartInv'
  <2> SUFFICES ASSUME TypeOK, MemInv, StartInv, [Next]_vars PROVE StartInv'
    OBVIOUS
  <2> USE DEF TypeOK, PlacesOK, StartInv, EndClosesLastStart, vars, execVars, noteVars, apiVars,
       history, bounds
  <2>1. ASSUME NEW t \in Executors, Read(t) PROVE StartInv'
    <3>1. act[t] = "START_BREAK" => Updated(t).ev = ev[t]
      <4>1. Base \in Ranges
        BY DEF Base, RangesOK
      <4> QED
        BY <4>1 DEF Updated, Started, Ranges
    <3>2. EndClosesLastStart'
      <4> SUFFICES ASSUME act[t] = "END_BREAK", lastStart # NoEvent, ~both,
                          ~(mem = NoRange /\ file # latest)
                   PROVE  Updated(t).ev = lastStart
        BY <2>1 DEF Read
      <4>1. \A u \in Executors : pc[u] # "mem"
        BY <2>1 DEF Read, MemInv, Updating
      <4>2. mem = latest \/ (mem = NoRange /\ file = latest)
        BY <4>1 DEF MemInv
      <4>3. Base.ev = lastStart
        BY <4>2 DEF Base, NoRange
      <4> QED
        BY <4>3 DEF Updated, Ended
    <3> QED
      BY <2>1, <3>1, <3>2 DEF Read, RangesOK
  <2>2. ASSUME NEW t \in Executors, Rename(t) PROVE StartInv'
    <3>1. (lastStart # NoEvent => latest.ev = lastStart)'
      <4>1. CASE act[t] = "START_BREAK"
        BY <2>2, <4>1 DEF Rename
      <4>2. CASE act[t] = "END_BREAK"
        BY <2>2, <4>2 DEF Rename
      <4>3. CASE act[t] = "LEGAL_ID"
        BY <2>2, <4>3 DEF Rename
      <4> QED
        BY <4>1, <4>2, <4>3 DEF CallsOK, Actions
    <3> QED
      BY <2>2, <3>1 DEF Rename
  <2>3. ASSUME NEW t \in Executors, Remember(t) PROVE StartInv'
    BY <2>3 DEF Remember, Forget
  <2>4. CASE NoteOpen \/ NoteWrite
    BY <2>4 DEF NoteOpen, NoteWrite, Executors
  <2>5. ASSUME NEW t \in Executors, NEW a \in Actions, NEW e \in Events, Begin(t, a, e)
        PROVE  StartInv'
    BY <2>5 DEF Begin, CallsOK
  <2>6. CASE WorkerRestarts
    BY <2>6 DEF WorkerRestarts
  <2>7. CASE \/ Tick \/ Quiet \/ NoteRead \/ OtherRead \/ OtherWrite
             \/ \E next \in {"execute", "noteRead", "idle"} : CueArrives(next)
             \/ \E h \in Handlers : \/ HandlerRead(h) \/ HandlerGivesUp(h) \/ HandlerRereads(h)
                                    \/ HandlerWrites(h)
             \/ UNCHANGED vars
    BY <2>7 DEF Tick, Quiet, NoteRead, OtherRead, OtherWrite, CueArrives, HandlerRead,
                HandlerGivesUp, HandlerRereads, HandlerWrites, Executors
  <2> QED
    BY <2>1, <2>2, <2>3, <2>4, <2>5, <2>6, <2>7
       DEF Next, CueExecutes, ControlExecutes, HandlerSend, Executors
<1> QED
  BY <1>1, <1>2, TypeCorrect, MemInvariant, PTL DEF Spec

(* The ranges that are, or can get, into the file.                          *)
Held == {file, mem, note, keep} \cup {copy[h] : h \in Handlers}
          \cup {new[t] : t \in {u \in Executors : pc[u] \in {"rename", "mem"}}}

Sound(r) == r.end # Open => r.end >= r.start

LEMMA HeldTypes == TypeOK => Held \subseteq Ranges
  BY DEF Held, TypeOK, RangesOK

(* Ranges are copied, forgotten and, under the mutex, computed: no step     *)
(* makes one up.                                                            *)
LEMMA HeldMoves ==
  ASSUME TypeOK, [Next]_vars,
         NEW t \in Executors, \A u \in Executors : Read(u) => u = t
  PROVE  Held' \subseteq Held \cup {NoRange} \cup (IF Read(t) THEN {Updated(t)} ELSE {})
<1> USE DEF TypeOK, PlacesOK, RangesOK, vars, execVars, noteVars, apiVars, history, bounds
<1>1. CASE Read(t)
  BY <1>1 DEF Read, Held
<1>2. ASSUME NEW u \in Executors, Rename(u) PROVE Held' \subseteq Held
  BY <1>2 DEF Rename, Held
<1>3. ASSUME NEW u \in Executors, Remember(u) PROVE Held' \subseteq Held \cup {NoRange}
  BY <1>3 DEF Remember, Remembered, Forget, Held
<1>4. CASE NoteOpen \/ NoteWrite \/ NoteRead
  <2>1. \A u \in Executors : pc'[u] \in {"rename", "mem"} =>
          pc[u] \in {"rename", "mem"} /\ new'[u] = new[u]
    BY <1>4 DEF NoteOpen, NoteWrite, NoteRead
  <2>2. {file', mem', note', keep'} \subseteq {file, mem, note, keep, NoRange}
    BY <1>4 DEF NoteOpen, NoteWrite, NoteRead
  <2>3. copy' = copy
    BY <1>4 DEF NoteOpen, NoteWrite, NoteRead
  <2>4. Held' \subseteq Held \cup {NoRange}
    BY <2>1, <2>2, <2>3 DEF Held
  <2> QED
    BY <2>4
<1>5. ASSUME NEW u \in Executors, NEW a \in Actions, NEW e \in Events, Begin(u, a, e)
      PROVE  Held' \subseteq Held
  BY <1>5 DEF Begin, Held
<1>6. CASE OtherRead \/ OtherWrite
  BY <1>6 DEF OtherRead, OtherWrite, Held
<1>7. ASSUME NEW h \in Handlers, HandlerWrites(h) \/ HandlerRead(h) \/ HandlerRereads(h)
      PROVE  Held' \subseteq Held \cup {NoRange}
  BY <1>7 DEF HandlerWrites, HandlerRead, HandlerRereads, Held
<1>8. CASE WorkerRestarts
  BY <1>8 DEF WorkerRestarts, Forget, Held
<1>9. CASE \/ Tick \/ Quiet \/ \E h \in Handlers : HandlerGivesUp(h)
           \/ \E next \in {"execute", "noteRead", "idle"} : CueArrives(next)
           \/ UNCHANGED vars
  BY <1>9 DEF Tick, Quiet, HandlerGivesUp, CueArrives, Held
<1> QED
  BY <1>1, <1>2, <1>3, <1>4, <1>5, <1>6, <1>7, <1>8, <1>9
     DEF Next, CueExecutes, ControlExecutes, HandlerSend, Executors

(* Only an action that begins looks at the clock.                           *)
LEMMA ClockReadings ==
  ASSUME TypeOK, [Next]_vars
  PROVE  /\ both => both'
         /\ now' >= now /\ now \in Nat /\ now' \in Nat
         /\ \A t \in Executors : pc'[t] = "read" =>
              \/ pc[t] = "read" /\ at'[t] = at[t]
              \/ at'[t] = now /\ now' = now /\ Held' \subseteq Held
<1> USE DEF TypeOK, PlacesOK, vars, execVars, noteVars, apiVars, history, bounds
<1>1. now \in Nat
  BY DEF HistoryOK
<1>2. ASSUME NEW t \in Executors, NEW a \in Actions, NEW e \in Events, Begin(t, a, e)
      PROVE  /\ both => both'
             /\ now' = now
             /\ Held' \subseteq Held
             /\ \A u \in Executors : u # t => at'[u] = at[u] /\ pc'[u] = pc[u]
             /\ at'[t] = now
  BY <1>2 DEF Begin, Held, CallsOK
<1>3. ASSUME NEW t \in Executors, Read(t) \/ Rename(t) \/ Remember(t)
      PROVE  /\ both' = both /\ now' = now
             /\ \A u \in Executors : pc'[u] = "read" => pc[u] = "read" /\ at'[u] = at[u]
  BY <1>3 DEF Read, Rename, Remember, Forget
<1>4. CASE WorkerRestarts \/ NoteOpen \/ NoteWrite \/ NoteRead \/ OtherRead \/ OtherWrite \/ Quiet
           \/ \E next \in {"execute", "noteRead", "idle"} : CueArrives(next)
           \/ UNCHANGED vars
  <2>1. both' = both /\ now' = now
    BY <1>4 DEF WorkerRestarts, NoteOpen, NoteWrite, NoteRead, OtherRead, OtherWrite, Quiet, CueArrives
  <2>2. \A u \in Executors : pc'[u] = "read" => pc[u] = "read" /\ at'[u] = at[u]
    BY <1>4 DEF WorkerRestarts, NoteOpen, NoteWrite, NoteRead, OtherRead, OtherWrite, Quiet, CueArrives
  <2> QED
    BY <1>1, <2>1, <2>2
<1>5. ASSUME NEW h \in Handlers,
             HandlerRead(h) \/ HandlerGivesUp(h) \/ HandlerRereads(h) \/ HandlerWrites(h)
      PROVE  both' = both /\ now' = now /\ pc' = pc /\ at' = at
  BY <1>5 DEF HandlerRead, HandlerGivesUp, HandlerRereads, HandlerWrites
<1>6. CASE Tick
  BY <1>1, <1>6 DEF Tick
<1>7. \A a \in Actions, e \in Events :
        /\ CueExecutes(a, e) => Begin("cue", a, e)
        /\ ControlExecutes(a, e) => Begin("control", a, e)
        /\ \A h \in Handlers : HandlerSend(h, a, e) => Begin("control", a, e)
  BY DEF CueExecutes, ControlExecutes, HandlerSend
<1> QED
  BY <1>1, <1>2, <1>3, <1>4, <1>5, <1>6, <1>7 DEF Next, Executors

(* Nobody holds a range from the future; an executor that has read the      *)
(* clock and not yet the file finds none that started later, unless another *)
(* update came between.                                                     *)
OrderInv ==
  /\ \A r \in Held : r.start <= now
  /\ \A t \in Executors : pc[t] = "read" => at[t] <= now
  /\ ~both => \A r \in Held : Sound(r)
  /\ ~both => \A t \in Executors, r \in Held : pc[t] = "read" => r.start <= at[t]

LEMMA OrderInvariant == Spec => []OrderInv
<1>1. Init => OrderInv
  BY DEF Init, OrderInv, Held, Sound, NoRange, Executors
<1>2. TypeOK /\ MemInv /\ OrderInv /\ [Next]_vars => OrderInv'
  <2> SUFFICES ASSUME TypeOK, MemInv, OrderInv, [Next]_vars PROVE OrderInv'
    OBVIOUS
  <2>1. Held \subseteq Ranges /\ NoRange \in Ranges
    BY HeldTypes, RangeTypes
  <2>2. \A r \in Ranges : r.start \in Int /\ r.end \in Int
    BY RangeTypes
  <2>3. NoRange.start = 0 /\ NoRange.end = Open
    BY DEF NoRange
  <2>4. CASE \E t \in Executors : Read(t)
    <3>1. PICK t \in Executors : Read(t)
      BY <2>4
    <3>2. \A u \in Executors : Read(u) => u = t
      BY <3>1 DEF Read, TypeOK, PlacesOK
    <3>3. Held' \subseteq Held \cup {NoRange, Updated(t)}
      BY <3>1, <3>2, HeldMoves
    <3>4. Base \in Held /\ file \in Held /\ at[t] \in Nat /\ at[t] <= now /\ pc[t] = "read"
      BY <3>1, RangeAssumption DEF Base, Held, Read, OrderInv, TypeOK, CallsOK
    <3>5. now' = now /\ both' = both /\ at' = at
          /\ \A u \in Executors : pc'[u] = "read" => pc[u] = "read" /\ u # t
      BY <3>1 DEF Read, TypeOK, PlacesOK
    <3>6. Updated(t).start <= now /\ (~both => Sound(Updated(t)))
      <4>1. CASE act[t] = "START_BREAK"
        <5>1. Updated(t).start = at[t] /\ Updated(t).end = Open
          BY <2>1, <3>4, <4>1 DEF Updated, Started, Ranges
        <5> QED
          BY <3>4, <5>1 DEF Sound
      <4>2. CASE act[t] = "END_BREAK"
        <5>1. /\ Updated(t).start = (IF Base.start = 0 THEN at[t] ELSE Base.start)
              /\ Updated(t).end = at[t]
          BY <4>2 DEF Updated, Ended
        <5>2. Base.start <= now /\ (~both => Base.start <= at[t])
          BY <3>4 DEF OrderInv
        <5> QED
          BY <3>4, <5>1, <5>2 DEF Sound
      <4>3. CASE act[t] \notin {"START_BREAK", "END_BREAK"}
        BY <3>4, <4>3 DEF Updated, OrderInv
      <4> QED
        BY <4>1, <4>2, <4>3
    <3>7. ~both => \A u \in Executors : pc'[u] # "read"
      BY <3>4, <3>5 DEF MemInv, Updating
    <3>8. NoRange.start <= now /\ Sound(NoRange)
      BY <2>3 DEF Sound, TypeOK, HistoryOK
    <3> QED
      BY <3>3, <3>5, <3>6, <3>7, <3>8 DEF OrderInv, Sound
  <2>5. CASE \A t \in Executors : ~Read(t)
    <3>1. Held' \subseteq Held \cup {NoRange}
      BY <2>5, HeldMoves DEF Executors
    <3>2. \A r \in Held' : r.start <= now' /\ (~both' => Sound(r))
      BY <2>1, <2>2, <2>3, <3>1, ClockReadings DEF OrderInv, Sound
    <3>3. ASSUME NEW t \in Executors, pc'[t] = "read" PROVE at'[t] <= now'
      BY <3>3, ClockReadings, RangeAssumption DEF OrderInv, TypeOK, CallsOK
    <3>4. ASSUME ~both', NEW t \in Executors, NEW r \in Held', pc'[t] = "read"
          PROVE  r.start <= at'[t]
      <4>1. ~both
        BY <3>4, ClockReadings
      <4>2. CASE pc[t] = "read" /\ at'[t] = at[t]
        <5>1. at[t] >= 0
          BY RangeAssumption DEF TypeOK, CallsOK
        <5> QED
          BY <2>3, <3>1, <3>4, <4>1, <4>2, <5>1 DEF OrderInv
      <4>3. CASE at'[t] = now /\ Held' \subseteq Held
        BY <3>4, <4>3 DEF OrderInv
      <4> QED
        BY <3>4, <4>2, <4>3, ClockReadings
    <3> QED
      BY <3>2, <3>3, <3>4 DEF OrderInv, Sound
  <2> QED
    BY <2>4, <2>5
<1> QED
  BY <1>1, <1>2, TypeCorrect, MemInvariant, PTL DEF Spec

(* An END closes the break of the last START and not before its beginning,  *)
(* with the exceptions the property names: Base's choice of memory over the *)
(* file, for any number of handlers, events and actions.                    *)
THEOREM EndIsRight == Spec => []EndMatchesStart
<1>1. StartInv /\ OrderInv => EndMatchesStart
  <2> SUFFICES ASSUME OrderInv PROVE EndNotBeforeStart
    BY DEF StartInv, EndMatchesStart
  <2> QED
    BY DEF OrderInv, Held, Sound, EndNotBeforeStart
<1> QED
  BY <1>1, StartInvariant, OrderInvariant, PTL
=============================================================================
