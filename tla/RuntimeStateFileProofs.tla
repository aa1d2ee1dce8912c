----------------------- MODULE RuntimeStateFileProofs -----------------------
(***************************************************************************)
(* What RuntimeStateFile keeps for any number of updating threads: the     *)
(* types, that only overlapping connection threads can empty the file, and *)
(* that only overlapping updates lose a change.                            *)
(*                                                                         *)
(* The argument: as long as no two connection threads met, the threads of  *)
(* one side update the file one after the other (Alone), so a temporary    *)
(* file belongs to one thread from its creation to its renaming.  A field  *)
(* whose writer met nobody of the other side is then current in the file,  *)
(* and in every object that may still replace the file.                    *)
(***************************************************************************)
EXTENDS RuntimeStateFile, TLAPS

\* The places where m_rtMutex is held by a worker's thread.
Holding == {"read", "open", "write", "rename"}

\* The places between the reading of the file and its replacement.
Updating == {"open", "write", "rename"}

\* Only the worker's threads ask for m_rtMutex, and the one that updates owns it.
LockInv ==
  \A w \in Writers : /\ pc[w] = "lock" => w \in Workers
                     /\ w \in Workers /\ pc[w] \in Holding => rtLock = w

\* Who updates at the same time as another is in the history.
MetInv ==
  \A v, w \in Writers :
    v # w /\ pc[v] \in Updating /\ pc[w] \in Updating => {v, w} \in met

\* The file is complete, an open stream leads to the temporary file of its
\* side, and that file is complete when the stream is closed.
FilesSound ==
  /\ text["path"] \in States
  /\ \A w \in Writers : /\ pc[w] = "write" => fd[w] = Side(w)
                        /\ pc[w] = "rename" => text[Side(w)] \in States

\* The writer's update overlapped one of the other side.
Overlapped(w) == \E v \in Writers : {v, w} \in met /\ Side(v) # Side(w)

\* What v is about to put into the file has the value of w's field.
Carries(v, w) ==
  /\ pc[v] \in {"open", "write"} => copy[v][w] = value[w]
  /\ pc[v] = "rename" => text[Side(v)][w] = value[w]

\* No change is under way to be lost: w's own update carries its field, and
\* when w is idle the file and every other update have it.
ValuesSound ==
  \A w \in Writers : ~Overlapped(w) =>
    /\ Carries(w, w)
    /\ pc[w] = "idle" => /\ text["path"][w] = value[w]
                         /\ \A v \in Writers : Carries(v, w)

FileInv ==
  /\ TypeOK /\ LockInv /\ MetInv
  /\ ~SupervisorsMet => FilesSound /\ ValuesSound

-----------------------------------------------------------------------------
(* The types.                                                               *)

\* An object in memory is a state whatever its owner sets in it.
LEMMA AbsentIsState == Absent \in States
  BY FileAssumption DEF Absent, States

LEMMA SetField ==
  ASSUME NEW s \in States, NEW w \in Writers, NEW n \in 0..MaxUpdates
  PROVE  [s EXCEPT ![w] = n] \in States
  BY DEF States

\* A rename moves an open stream, it opens and closes none.
LEMMA RenameMoves ==
  ASSUME NEW s \in Sides, NEW to \in Names \cup {"unlinked", "closed"}
  PROVE  /\ AfterRename(s, to) \in Names \cup {"unlinked", "closed"}
         /\ AfterRename(s, to) = "closed" <=> to = "closed"
  BY DEF AfterRename, Names, Sides

LEMMA SideIsSide == \A w : Side(w) \in Sides /\ Side(w) \in Names /\ Side(w) # "path"
  BY DEF Side, Sides, Names

LEMMA InitType == Init => TypeOK
  BY AbsentIsState, FileAssumption DEF Init, TypeOK, Names, Sides, Absent, States

LEMMA TypeStep == TypeOK /\ LockInv /\ [Next]_vars => TypeOK'
  <1> SUFFICES ASSUME TypeOK, LockInv, [Next]_vars PROVE TypeOK'
    OBVIOUS
  <1> USE FileAssumption
  <1>1. ASSUME NEW w \in Writers, Change(w) PROVE TypeOK'
    BY <1>1, SetField DEF Change, Goto, TypeOK, States
  <1>2. ASSUME NEW w \in Writers, Heartbeat(w) PROVE TypeOK'
    BY <1>2 DEF Heartbeat, Goto, TypeOK
  <1>3. ASSUME NEW w \in Writers, Lock(w) PROVE TypeOK'
    BY <1>3 DEF Lock, Goto, TypeOK, LockInv
  <1>4. ASSUME NEW w \in Writers, Read(w) PROVE TypeOK'
    <2> DEFINE old == IF text["path"] = Empty THEN Absent ELSE text["path"]
    <2>1. old \in States /\ value[w] \in 0..MaxUpdates
      BY AbsentIsState DEF TypeOK, Names, Sides, States
    <2>2. [old EXCEPT ![w] = value[w]] \in States
      BY <2>1, SetField
    <2>3. copy' \in [Writers -> States]
      BY <1>4, <2>2 DEF Read, TypeOK
    <2>4. met' \subseteq SUBSET Writers
      BY <1>4 DEF Read, TypeOK
    <2>5. QED
      BY <1>4, <2>3, <2>4 DEF Read, Goto, TypeOK
  <1>5. ASSUME NEW w \in Writers, Open(w) PROVE TypeOK'
    <2>1. /\ text' \in [Names -> States \cup {Empty, NoFile}]
          /\ text'["path"] # NoFile
      BY <1>5, SideIsSide DEF Open, TypeOK, Names
    <2>2. fd' \in [Writers -> Names \cup {"unlinked", "closed"}]
      BY <1>5, SideIsSide DEF Open, TypeOK
    <2>3. \A v \in Writers : pc'[v] = "write" <=> fd'[v] # "closed"
      BY <1>5, SideIsSide DEF Open, Goto, TypeOK, Sides
    <2>4. QED
      BY <1>5, <2>1, <2>2, <2>3 DEF Open, Goto, TypeOK
  <1>6. ASSUME NEW w \in Writers, Write(w) PROVE TypeOK'
    <2>1. /\ text' \in [Names -> States \cup {Empty, NoFile}]
          /\ text'["path"] # NoFile
      BY <1>6 DEF Write, TypeOK, Names
    <2>2. fd' \in [Writers -> Names \cup {"unlinked", "closed"}]
      BY <1>6 DEF Write, TypeOK
    <2>3. \A v \in Writers : pc'[v] = "write" <=> fd'[v] # "closed"
      BY <1>6 DEF Write, Goto, TypeOK
    <2>4. copy' \in [Writers -> States]
      BY <1>6, AbsentIsState DEF Write, TypeOK
    <2>5. QED
      BY <1>6, <2>1, <2>2, <2>3, <2>4 DEF Write, Goto, TypeOK
  <1>7. ASSUME NEW w \in Writers, Rename(w) PROVE TypeOK'
    <2>1. /\ text' \in [Names -> States \cup {Empty, NoFile}]
          /\ text'["path"] # NoFile
      BY <1>7, SideIsSide DEF Rename, TypeOK, Names
    <2>2. /\ fd' \in [Writers -> Names \cup {"unlinked", "closed"}]
          /\ \A v \in Writers : fd'[v] = "closed" <=> fd[v] = "closed"
      BY <1>7, SideIsSide, RenameMoves DEF Rename, TypeOK
    <2>3. /\ pc' \in [Writers -> {"idle", "lock", "read", "open", "write", "rename"}]
          /\ \A v \in Writers : pc'[v] = "write" <=> pc[v] = "write"
      BY <1>7 DEF Rename, Goto, TypeOK
    <2>4. rtLock' \in Workers \cup {NoThread}
      BY <1>7 DEF Rename, TypeOK
    <2>5. QED
      BY <1>7, <2>1, <2>2, <2>3, <2>4 DEF Rename, TypeOK
  <1>8. CASE UNCHANGED vars
    BY <1>8 DEF vars, TypeOK
  <1>9. QED
    BY <1>1, <1>2, <1>3, <1>4, <1>5, <1>6, <1>7, <1>8 DEF Next, WriterStep

-----------------------------------------------------------------------------
(* Who updates at the same time.                                            *)

LEMMA LockStep == TypeOK /\ LockInv /\ [Next]_vars => LockInv'
  <1> SUFFICES ASSUME TypeOK, LockInv, [Next]_vars PROVE LockInv'
    OBVIOUS
  <1> USE FileAssumption DEF LockInv, Holding, Goto, TypeOK
  <1>1. ASSUME NEW w \in Writers, Change(w) PROVE LockInv'
    BY <1>1 DEF Change
  <1>2. ASSUME NEW w \in Writers, Heartbeat(w) PROVE LockInv'
    BY <1>2 DEF Heartbeat
  <1>3. ASSUME NEW w \in Writers, Lock(w) PROVE LockInv'
    BY <1>3 DEF Lock
  <1>4. ASSUME NEW w \in Writers, Read(w) \/ Open(w) \/ Write(w) PROVE LockInv'
    BY <1>4 DEF Read, Open, Write
  <1>5. ASSUME NEW w \in Writers, Rename(w) PROVE LockInv'
    BY <1>5 DEF Rename
  <1>6. CASE UNCHANGED vars
    BY <1>6 DEF vars
  <1>7. QED
    BY <1>1, <1>2, <1>3, <1>4, <1>5, <1>6 DEF Next, WriterStep

\* What is in the history stays there, and a reading thread enters the others.
LEMMA MetGrows == TypeOK /\ MetInv /\ [Next]_vars => met \subseteq met' /\ MetInv'
  <1> SUFFICES ASSUME TypeOK, MetInv, [Next]_vars PROVE met \subseteq met' /\ MetInv'
    OBVIOUS
  <1> USE DEF MetInv, Updating, Goto, TypeOK
  <1>1. ASSUME NEW w \in Writers, Change(w) \/ Heartbeat(w) \/ Lock(w)
        PROVE  met \subseteq met' /\ MetInv'
    BY <1>1 DEF Change, Heartbeat, Lock
  <1>2. ASSUME NEW w \in Writers, Read(w) PROVE met \subseteq met' /\ MetInv'
    <2> DEFINE others == {v \in Writers \ {w} : pc[v] \in Updating}
    <2>1. met' = met \cup {{v, w} : v \in others} /\ pc' = [pc EXCEPT ![w] = "open"]
      BY <1>2 DEF Read
    <2>2. ASSUME NEW v \in Writers, v # w, pc'[v] \in Updating
          PROVE  {v, w} \in met' /\ {w, v} \in met'
      BY <2>1, <2>2
    <2>3. QED
      BY <2>1, <2>2
  <1>3. ASSUME NEW w \in Writers, Open(w) \/ Write(w) \/ Rename(w)
        PROVE  met \subseteq met' /\ MetInv'
    BY <1>3 DEF Open, Write, Rename
  <1>4. CASE UNCHANGED vars
    BY <1>4 DEF vars
  <1>5. QED
    BY <1>1, <1>2, <1>3, <1>4 DEF Next, WriterStep

\* An overlap is not forgotten.
LEMMA HistoryGrows ==
  ASSUME met \subseteq met'
  PROVE  /\ SupervisorsMet => SupervisorsMet'
         /\ \A w : Overlapped(w) => Overlapped(w)'
  BY DEF SupervisorsMet, Overlapped

\* Two threads of one side do not update at the same time.
LEMMA Alone ==
  ASSUME TypeOK, LockInv, MetInv, ~SupervisorsMet,
         NEW v \in Writers, NEW w \in Writers, Side(v) = Side(w),
         pc[v] \in Updating, pc[w] \in Updating
  PROVE  v = w
  <1>1. CASE v \in Workers
    <2>1. w \in Workers
      BY <1>1 DEF Side
    <2>2. QED
      BY <1>1, <2>1 DEF LockInv, Updating, Holding
  <1>2. CASE v \notin Workers
    <2>1. v \in Supervisors /\ w \in Supervisors
      BY <1>2 DEF Side, Writers
    <2>2. QED
      BY <2>1 DEF MetInv, SupervisorsMet
  <1>3. QED
    BY <1>1, <1>2

\* Whoever updates while w does is of the other side, and overlaps it.
LEMMA Overlap ==
  ASSUME TypeOK, LockInv, MetInv, ~SupervisorsMet,
         NEW v \in Writers, NEW w \in Writers, v # w,
         pc[v] \in Updating, pc[w] \in Updating
  PROVE  Overlapped(w) /\ Side(v) # Side(w)
  BY Alone DEF MetInv, Overlapped

-----------------------------------------------------------------------------
(* The file and the temporary files.                                        *)

LEMMA FilesStep ==
  ASSUME TypeOK, LockInv, MetInv, ~SupervisorsMet, FilesSound, [Next]_vars
  PROVE  FilesSound'
  <1> USE FileAssumption, SideIsSide DEF FilesSound, Goto
  <1>1. ASSUME NEW w \in Writers, Change(w) \/ Heartbeat(w) \/ Lock(w) \/ Read(w)
        PROVE  FilesSound'
    BY <1>1 DEF Change, Heartbeat, Lock, Read, TypeOK
  <1>2. ASSUME NEW w \in Writers, Open(w) PROVE FilesSound'
    <2>1. text'["path"] \in States
      BY <1>2 DEF Open, TypeOK
    <2>2. ASSUME NEW v \in Writers, pc'[v] = "write" PROVE fd'[v] = Side(v)
      BY <1>2, <2>2 DEF Open, TypeOK
    <2>3. ASSUME NEW v \in Writers, pc'[v] = "rename" PROVE text'[Side(v)] \in States
      <3>1. v # w /\ pc[v] = "rename" /\ pc[w] = "open"
        BY <1>2, <2>3 DEF Open, TypeOK
      <3>2. Side(v) # Side(w)
        BY <3>1, Alone DEF Updating
      <3>3. QED
        BY <1>2, <3>1, <3>2 DEF Open, TypeOK
    <2>4. QED
      BY <2>1, <2>2, <2>3
  <1>3. ASSUME NEW w \in Writers, Write(w) PROVE FilesSound'
    <2>1. pc[w] = "write" /\ fd[w] = Side(w) /\ copy[w] \in States
      BY <1>3 DEF Write, TypeOK
    <2>2. text' = [text EXCEPT ![Side(w)] = copy[w]]
      BY <1>3, <2>1 DEF Write
    <2>3. text'["path"] \in States
      BY <2>2 DEF TypeOK
    <2>4. ASSUME NEW v \in Writers, pc'[v] = "write" PROVE fd'[v] = Side(v)
      BY <1>3, <2>4 DEF Write, TypeOK
    <2>5. ASSUME NEW v \in Writers, pc'[v] = "rename" PROVE text'[Side(v)] \in States
      BY <1>3, <2>1, <2>2, <2>5 DEF Write, TypeOK
    <2>6. QED
      BY <2>3, <2>4, <2>5
  <1>4. ASSUME NEW w \in Writers, Rename(w) PROVE FilesSound'
    <2>1. pc[w] = "rename" /\ text[Side(w)] \in States /\ text[Side(w)] # NoFile
      BY <1>4 DEF Rename
    <2>2. /\ text' = [text EXCEPT !["path"] = text[Side(w)], ![Side(w)] = NoFile]
          /\ fd' = [v \in Writers |-> AfterRename(Side(w), fd[v])]
      BY <1>4, <2>1 DEF Rename
    <2>3. text'["path"] \in States
      BY <2>1, <2>2 DEF TypeOK, Names
    <2>4. ASSUME NEW v \in Writers, v # w, pc[v] \in Updating PROVE Side(v) # Side(w)
      BY <2>1, <2>4, Alone DEF Updating
    <2>5. ASSUME NEW v \in Writers, pc'[v] = "write" PROVE fd'[v] = Side(v)
      <3>1. v # w /\ pc[v] = "write" /\ fd[v] = Side(v)
        BY <1>4, <2>5 DEF Rename, TypeOK
      <3>2. QED
        BY <2>2, <2>4, <3>1 DEF AfterRename, Updating
    <2>6. ASSUME NEW v \in Writers, pc'[v] = "rename" PROVE text'[Side(v)] \in States
      <3>1. v # w /\ pc[v] = "rename"
        BY <1>4, <2>6 DEF Rename, TypeOK
      <3>2. QED
        BY <2>2, <2>4, <3>1 DEF TypeOK, Updating
    <2>7. QED
      BY <2>3, <2>5, <2>6
  <1>5. CASE UNCHANGED vars
    BY <1>5 DEF vars
  <1>6. QED
    BY <1>1, <1>2, <1>3, <1>4, <1>5 DEF Next, WriterStep

-----------------------------------------------------------------------------
(* The values.                                                              *)

\* What v holds is w's value after a step that touches neither.
LEMMA CarriesOn ==
  ASSUME NEW v \in Writers, NEW w \in Writers, Carries(v, w),
         value'[w] = value[w], pc'[v] = pc[v],
         pc[v] \in {"open", "write"} => copy'[v] = copy[v],
         pc[v] = "rename" => text'[Side(v)] = text[Side(v)]
  PROVE  Carries(v, w)'
  BY DEF Carries

LEMMA ValuesStep ==
  ASSUME TypeOK, LockInv, MetInv, ~SupervisorsMet, FilesSound, ValuesSound,
         [Next]_vars, met \subseteq met'
  PROVE  ValuesSound'
  <1> USE FileAssumption, SideIsSide DEF Goto
  <1> SUFFICES ASSUME NEW w \in Writers, ~Overlapped(w)'
               PROVE  /\ Carries(w, w)'
                      /\ pc'[w] = "idle" => /\ text'["path"][w] = value'[w]
                                            /\ \A v \in Writers : Carries(v, w)'
    BY DEF ValuesSound
  <1>0. /\ ~Overlapped(w) /\ Carries(w, w)
        /\ pc[w] = "idle" => /\ text["path"][w] = value[w]
                             /\ \A v \in Writers : Carries(v, w)
    BY HistoryGrows DEF ValuesSound
  <1>a. ASSUME NEW v \in Writers, v # w, pc[v] \in Updating, pc[w] \in Updating PROVE FALSE
    BY <1>0, <1>a, Overlap
  <1>1. ASSUME NEW u \in Writers, Change(u)
        PROVE  /\ Carries(w, w)'
               /\ pc'[w] = "idle" => /\ text'["path"][w] = value'[w]
                                     /\ \A v \in Writers : Carries(v, w)'
    BY <1>0, <1>1 DEF Change, TypeOK, States, Carries
  <1>2. ASSUME NEW u \in Writers, Heartbeat(u) \/ Lock(u)
        PROVE  /\ Carries(w, w)'
               /\ pc'[w] = "idle" => /\ text'["path"][w] = value'[w]
                                     /\ \A v \in Writers : Carries(v, w)'
    BY <1>0, <1>2 DEF Heartbeat, Lock, TypeOK, Carries
  <1>3. ASSUME NEW u \in Writers, Read(u)
        PROVE  /\ Carries(w, w)'
               /\ pc'[w] = "idle" => /\ text'["path"][w] = value'[w]
                                     /\ \A v \in Writers : Carries(v, w)'
    <2>1. text["path"] \in States /\ text["path"] # Empty
      BY DEF FilesSound
    <2>2. /\ copy' = [copy EXCEPT ![u] = [text["path"] EXCEPT ![u] = value[u]]]
          /\ pc[u] = "read" /\ pc' = [pc EXCEPT ![u] = "open"]
          /\ UNCHANGED <<text, value>>
      BY <1>3, <2>1 DEF Read
    <2>3. copy'[u][w] = IF u = w THEN value[w] ELSE text["path"][w]
      BY <2>1, <2>2 DEF TypeOK, States
    <2>4. ASSUME NEW v \in Writers, v # u, Carries(v, w) PROVE Carries(v, w)'
      BY <2>2, <2>4 DEF Carries, TypeOK
    <2>5. ASSUME u = w \/ text["path"][w] = value[w] PROVE Carries(u, w)'
      BY <2>2, <2>3, <2>5 DEF Carries, TypeOK
    <2>6. pc'[w] = "idle" => pc[w] = "idle"
      BY <2>2 DEF TypeOK
    <2>7. QED
      BY <1>0, <2>2, <2>4, <2>5, <2>6
  <1>4. ASSUME NEW u \in Writers, Open(u)
        PROVE  /\ Carries(w, w)'
               /\ pc'[w] = "idle" => /\ text'["path"][w] = value'[w]
                                     /\ \A v \in Writers : Carries(v, w)'
    <2>1. /\ text' = [text EXCEPT ![Side(u)] = Empty] /\ UNCHANGED <<copy, value>>
          /\ pc[u] = "open" /\ pc' = [pc EXCEPT ![u] = "write"]
      BY <1>4 DEF Open
    <2>2. ASSUME NEW v \in Writers, Carries(v, w) PROVE Carries(v, w)'
      <3>1. ASSUME pc'[v] = "rename" PROVE text'[Side(v)] = text[Side(v)]
        <4>1. v # u /\ pc[v] = "rename"
          BY <2>1, <3>1 DEF TypeOK
        <4>2. Side(v) # Side(u)
          BY <2>1, <4>1, Alone DEF Updating
        <4>3. QED
          BY <2>1, <4>2 DEF TypeOK
      <3>2. QED
        BY <2>1, <2>2, <3>1 DEF Carries, TypeOK
    <2>3. text'["path"] = text["path"] /\ (pc'[w] = "idle" => pc[w] = "idle")
      BY <2>1 DEF TypeOK
    <2>4. QED
      BY <1>0, <2>1, <2>2, <2>3
  <1>5. ASSUME NEW u \in Writers, Write(u)
        PROVE  /\ Carries(w, w)'
               /\ pc'[w] = "idle" => /\ text'["path"][w] = value'[w]
                                     /\ \A v \in Writers : Carries(v, w)'
    <2>1. /\ pc[u] = "write" /\ fd[u] = Side(u) /\ pc' = [pc EXCEPT ![u] = "rename"]
          /\ copy' = [copy EXCEPT ![u] = Absent] /\ UNCHANGED value
      BY <1>5 DEF Write, FilesSound
    <2>2. text' = [text EXCEPT ![Side(u)] = copy[u]]
      BY <1>5, <2>1 DEF Write
    <2>3. ASSUME NEW v \in Writers, Carries(v, w) PROVE Carries(v, w)'
      <3>1. ASSUME v = u PROVE Carries(v, w)'
        BY <2>1, <2>2, <2>3, <3>1 DEF Carries, TypeOK
      <3>2. ASSUME v # u, pc'[v] = "rename" PROVE text'[Side(v)] = text[Side(v)]
        <4>1. Side(v) # Side(u)
          BY <2>1, <3>2, Alone DEF Updating, TypeOK
        <4>2. QED
          BY <2>2, <4>1 DEF TypeOK
      <3>3. QED
        BY <2>1, <2>3, <3>1, <3>2 DEF Carries, TypeOK
    <2>4. text'["path"] = text["path"] /\ (pc'[w] = "idle" => pc[w] = "idle")
      BY <2>1, <2>2 DEF TypeOK
    <2>5. QED
      BY <1>0, <2>1, <2>3, <2>4
  <1>6. ASSUME NEW u \in Writers, Rename(u)
        PROVE  /\ Carries(w, w)'
               /\ pc'[w] = "idle" => /\ text'["path"][w] = value'[w]
                                     /\ \A v \in Writers : Carries(v, w)'
    <2>1. /\ pc[u] = "rename" /\ pc' = [pc EXCEPT ![u] = "idle"]
          /\ text[Side(u)] \in States /\ text[Side(u)] # NoFile /\ UNCHANGED <<copy, value>>
      BY <1>6 DEF Rename, FilesSound
    <2>2. text' = [text EXCEPT !["path"] = text[Side(u)], ![Side(u)] = NoFile]
      BY <1>6, <2>1 DEF Rename
    <2>3. ASSUME NEW v \in Writers, Carries(v, w) PROVE Carries(v, w)'
      <3>1. ASSUME pc'[v] = "rename" PROVE text'[Side(v)] = text[Side(v)]
        <4>1. v # u /\ pc[v] = "rename"
          BY <2>1, <3>1 DEF TypeOK
        <4>2. Side(v) # Side(u)
          BY <2>1, <4>1, Alone DEF Updating
        <4>3. QED
          BY <2>2, <4>2 DEF TypeOK
      <3>2. QED
        BY <2>1, <2>3, <3>1 DEF Carries, TypeOK
    <2>4. text'["path"] = text[Side(u)]
      BY <2>2 DEF TypeOK, Names
    <2>5. CASE u = w
      <3>1. text'["path"][w] = value'[w]
        BY <1>0, <2>1, <2>4, <2>5 DEF Carries
      <3>2. ASSUME NEW v \in Writers PROVE Carries(v, w)'
        <4>1. v # w => pc[v] \notin Updating
          BY <1>a, <2>1, <2>5 DEF Updating
        <4>2. pc'[v] \notin {"open", "write", "rename"}
          BY <2>1, <2>5, <4>1 DEF Updating, TypeOK
        <4>3. QED
          BY <4>2 DEF Carries
      <3>3. QED
        BY <3>1, <3>2
    <2>6. CASE u # w
      <3>1. pc'[w] = pc[w]
        BY <2>1, <2>6 DEF TypeOK
      <3>2. pc[w] = "idle" => text[Side(u)][w] = value[w]
        BY <1>0, <2>1 DEF Carries
      <3>3. QED
        BY <1>0, <2>1, <2>3, <2>4, <3>1, <3>2
    <2>7. QED
      BY <2>5, <2>6
  <1>7. CASE UNCHANGED vars
    BY <1>0, <1>7 DEF vars, Carries
  <1>8. QED
    BY <1>1, <1>2, <1>3, <1>4, <1>5, <1>6, <1>7 DEF Next, WriterStep

-----------------------------------------------------------------------------
(* The theorems.                                                            *)

LEMMA FileInitInv == Init => FileInv
  <1> SUFFICES ASSUME Init PROVE FileInv
    OBVIOUS
  <1> USE FileAssumption, AbsentIsState DEF Init
  <1>1. TypeOK
    BY InitType
  <1>2. LockInv /\ MetInv
    BY DEF LockInv, Holding, MetInv, Updating
  <1>3. FilesSound
    BY DEF FilesSound, Names
  <1>4. ValuesSound
    BY DEF ValuesSound, Carries, Names
  <1>5. QED
    BY <1>1, <1>2, <1>3, <1>4 DEF FileInv

LEMMA FileStepInv == FileInv /\ [Next]_vars => FileInv'
  <1> SUFFICES ASSUME FileInv, [Next]_vars PROVE FileInv'
    OBVIOUS
  <1>1. TypeOK /\ LockInv /\ MetInv
    BY DEF FileInv
  <1>2. TypeOK' /\ LockInv' /\ MetInv' /\ met \subseteq met'
    BY <1>1, TypeStep, LockStep, MetGrows
  <1>3. ASSUME ~SupervisorsMet' PROVE FilesSound' /\ ValuesSound'
    <2>1. ~SupervisorsMet
      BY <1>2, <1>3, HistoryGrows
    <2>2. FilesSound /\ ValuesSound
      BY <2>1 DEF FileInv
    <2>3. QED
      BY <1>1, <1>2, <2>1, <2>2, FilesStep, ValuesStep
  <1>4. QED
    BY <1>2, <1>3 DEF FileInv

LEMMA FileInvariant == Spec => []FileInv
  BY FileInitInv, FileStepInv, PTL DEF Spec

(* The types of the file, the locks and the threads' objects: among them    *)
(* that runtime_state.json always exists and that a thread has a stream     *)
(* open exactly while it writes.                                            *)
THEOREM FileTypes == Spec => []TypeOK
  <1>1. FileInv => TypeOK
    BY DEF FileInv
  <1>2. QED
    BY <1>1, FileInvariant, PTL

(* A reader finds the file empty only after two connection threads of the   *)
(* supervisor updated it at the same time: writing a temporary file and     *)
(* renaming it protects against every other overlap.                        *)
THEOREM FileComplete == Spec => []EmptyOnlyBySupervisors
  <1>1. FileInv => EmptyOnlyBySupervisors
    BY FileAssumption DEF FileInv, FilesSound, EmptyOnlyBySupervisors
  <1>2. QED
    BY <1>1, FileInvariant, PTL

(* A change that is not in the file, when nobody is updating it, was lost   *)
(* to an overlapping update of the other process, or connection threads     *)
(* overlapped: m_rtMutex is enough for the worker's threads, and an update  *)
(* that came before or after takes nothing out.                             *)
THEOREM FileLosses == Spec => []LossesExplained
  <1>1. FileInv => LossesExplained
    BY DEF FileInv, ValuesSound, Overlapped, LossesExplained
  <1>2. QED
    BY <1>1, FileInvariant, PTL

=============================================================================
