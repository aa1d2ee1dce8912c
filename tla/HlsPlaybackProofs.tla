-------------------------- MODULE HlsPlaybackProofs --------------------------
(***************************************************************************)
(* Theorems about HlsPlayback, for any windows, segment lengths and        *)
(* bounds: which files are there, and what the served playlists say about  *)
(* time.                                                                   *)
(***************************************************************************)
EXTENDS HlsPlayback, FiniteSetTheorems, WellFoundedInduction, TLAPS

\* FFmpeg's latest list: it ends before the segment that is being written.
FirstListed == IF cur >= window THEN cur - window ELSE 0
Latest == [run |-> run, first |-> FirstListed, last |-> cur - 1]

\* Numbers grow with the runs and, in a run, with the segments.
EncoderInv ==
  /\ now >= SegSecs
  /\ running => run >= 1
  /\ pc = "threads" => running
  /\ \A n \in Names : disk[n] <= run /\ (disk[n] = run /\ run >= 1 => n <= cur)

\* A monitor is at work for every run but a dead one's; what it has listed
\* lies three windows back, or belongs to an earlier run.
MonitorInv ==
  /\ victims # {} => monitor
  /\ running /\ pc = "idle" => monitor
  /\ ~crashes /\ (~running \/ pc = "threads") => ~monitor
  /\ ~failover => \A n \in Names : disk[n] \in {NoRun, run}
  /\ ~failover /\ ~crashes => \A v \in victims : v.run = run
  /\ \A v \in victims : v.run <= run /\ (v.run = run => v.name + Retain <= cur)

\* The last three windows of the run are on disk, but for what was wiped.
KeptInv ==
  running => \A n \in Names : n <= cur /\ n + Retain > cur => disk[n] = run \/ Wiped(run, n)

\* A playlist: no longer than the window, and written by now.
Written(l) ==
  /\ l.run <= run
  /\ l.run # NoRun => /\ l.first + window > l.last
                     /\ (l.run = run => l.last < cur)

\* So are the one in the file, the metadata thread's and the one served last.
ListInv == Written(index) /\ Written(inj) /\ Written(served.list)

ClockInv ==
  /\ run <= 1 => now = SegSecs * (cur + 1)
  /\ run = 0 => /\ cur = 0 /\ anchor = NoAnchor /\ server = "none" /\ served = NoneServed
                /\ index = NoList /\ inj = NoList

AnchorInv == anchor = NoAnchor \/ anchor \in [seq : Names, epoch : Nat]

\* In the first run, and with no outdated playlist, the anchor follows the
\* list, ahead of the segments by less than a window and one segment.
DatesInv ==
  run <= 1 /\ ~staleEver =>
    /\ ~moved
    /\ index # NoList => index = Latest /\ cur >= 1
    /\ anchor # NoAnchor =>
         LET ahead == anchor.epoch - (anchor.seq + 1) * SegSecs
         IN  anchor.seq <= FirstListed /\ 0 < ahead /\ ahead < (window + 1) * SegSecs
    /\ served # NoneServed =>
         /\ anchor # NoAnchor /\ served.list.first = anchor.seq
         /\ served.list.first <= served.list.last

PlayInv == /\ TypeOK /\ EncoderInv /\ MonitorInv /\ KeptInv /\ ListInv /\ ClockInv /\ AnchorInv
           /\ DatesInv /\ WipedExplained /\ CleanAfterStop

-----------------------------------------------------------------------------
(* Least and greatest numbers.                                              *)

LEMMA Least ==
  ASSUME NEW T \in SUBSET Nat, T # {}
  PROVE  \E m \in T : \A n \in T : m <= n
<1>1. PICK m \in T : \A n \in T : ~(<<n, m>> \in OpToRel(<, Nat))
  BY WFMin, NatLessThanWellFounded, Zenon
<1>2. \A n \in T : ~(n < m)
  BY <1>1, Zenon DEF OpToRel
<1> QED
  BY <1>2

\* Of the sets without a greatest number take one with the fewest elements:
\* without one of them it is empty or has a greatest, and so has the whole.
LEMMA Greatest ==
  ASSUME NEW S \in SUBSET Nat, IsFiniteSet(S), S # {}
  PROVE  \E m \in S : \A n \in S : n <= m
<1> DEFINE Has(U) == \E m \in U : \A n \in U : n <= m
           Bad    == {k \in Nat : \E U \in SUBSET S : U # {} /\ Cardinality(U) = k /\ ~Has(U)}
<1>1. SUFFICES ASSUME Bad # {} PROVE FALSE
  <2>1. Cardinality(S) \in Nat
    BY FS_CardinalityType
  <2> QED
    BY <1>1, <2>1
<1>2. PICK k \in Bad : \A j \in Bad : k <= j
  BY <1>1, Least
<1>3. PICK U \in SUBSET S : U # {} /\ Cardinality(U) = k /\ ~Has(U)
  OBVIOUS
<1>4. PICK x \in U : TRUE
  BY <1>3
<1> DEFINE V == U \ {x}
<1>5. IsFiniteSet(V) /\ Cardinality(V) = k - 1 /\ k \in Nat /\ Cardinality(V) \in Nat /\ V \in SUBSET S
  <2>1. IsFiniteSet(U)
    BY FS_Subset
  <2>2. IsFiniteSet(V) /\ Cardinality(V) = k - 1
    BY <1>3, <2>1, FS_RemoveElement
  <2> QED
    BY <2>2, FS_CardinalityType
<1>6. CASE V = {}
  <2>1. U = {x}
    BY <1>6
  <2>2. x \in Nat /\ x <= x
    OBVIOUS
  <2> QED
    BY <1>3, <2>1, <2>2
<1>7. CASE V # {}
  <2>1. k - 1 \notin Bad
    BY <1>2, <1>5
  <2>2. Has(V)
    BY <1>5, <1>7, <2>1
  <2>3. PICK m \in V : \A n \in V : n <= m
    BY <2>2
  <2>4. m \in U /\ m \in Nat /\ x \in Nat /\ \A n \in U : n \in Nat /\ (n = x \/ n <= m)
    BY <2>3
  <2>5. Has(U)
    <3>1. CASE x <= m
      BY <2>4, <3>1
    <3>2. CASE ~(x <= m)
      <4>1. \A n \in U : n <= x
        BY <2>4, <3>2
      <4> QED
        BY <4>1
    <3> QED
      BY <3>1, <3>2
  <2> QED
    BY <1>3, <2>5
<1> QED
  BY <1>6, <1>7

LEMMA MaxOfTwo ==
  ASSUME NEW a \in Int, NEW b \in Int
  PROVE  Max({a, b}) = IF a >= b THEN a ELSE b
<1>1. \E x \in {a, b} : \A y \in {a, b} : x >= y
  BY SMT
<1> QED
  BY <1>1 DEF Max

LEMMA MinOf ==
  ASSUME NEW T \in SUBSET Nat, T # {}
  PROVE  Min(T) \in T /\ \A n \in T : Min(T) <= n
<1>1. \E m \in T : \A n \in T : m <= n
  BY Least
<1> QED
  BY <1>1 DEF Min

\* The numbers the bound leaves: none between them is left out.
LEMMA NameRange ==
  ASSUME Windows # {}
  PROVE  /\ Names \subseteq Nat /\ 0 \in Names
         /\ \A n \in Names, k \in Nat : k <= n => k \in Names
         /\ \A w \in Windows, k \in Nat : k <= MaxSeg[w] => k \in Names
         /\ Windows \subseteq Nat \ {0} /\ SegSecs \in Nat \ {0}
<1> DEFINE S == {MaxSeg[w] : w \in Windows}
<1>1. S \in SUBSET Nat /\ S # {}
  BY HlsAssumption
<1>2. IsFiniteSet(S)
  <2>1. MaxSeg \in Surjection(Windows, S)
    BY HlsAssumption DEF Surjection
  <2> QED
    BY <2>1, HlsAssumption, FS_Surjection
<1>3. Max(S) \in S /\ \A n \in S : n <= Max(S)
  <2>1. \E m \in S : \A n \in S : m >= n
    BY <1>1, <1>2, Greatest
  <2>2. Max(S) \in S /\ \A n \in S : Max(S) >= n
    BY <2>1 DEF Max
  <2> QED
    BY <1>1, <2>2
<1>4. Names = 0..Max(S)
  BY DEF Names
<1> HIDE DEF S
<1>5. \A w \in Windows : MaxSeg[w] \in S
  BY DEF S
<1>6. Max(S) \in Nat /\ \A w \in Windows : MaxSeg[w] \in Nat /\ MaxSeg[w] <= Max(S)
  BY <1>1, <1>3, <1>5
<1> QED
  BY <1>4, <1>6, HlsAssumption

-----------------------------------------------------------------------------
(* Types.                                                                   *)

LEMMA Ranges ==
  ASSUME TypeOK
  PROVE  /\ window \in Nat /\ window >= 1 /\ SegSecs \in Nat /\ SegSecs >= 1 /\ ResetGap \in Nat
         /\ MaxRuns \in Nat /\ run \in Nat /\ cur \in Nat /\ now \in Nat /\ 0 \in Names
         /\ Names \subseteq Nat /\ \A n \in Names, k \in Nat : k <= n => k \in Names
         /\ \A n \in Names : disk[n] \in Nat
         /\ Retain = 3 * window /\ Retain \in Nat
         /\ cur < MaxSeg[window] => cur + 1 \in Names
         /\ index # NoList => index \in [run : Runs, first : Names, last : Names] /\ index.run >= 1
         /\ index.first \in Nat /\ index.last \in Nat /\ index.run \in Nat
         /\ served.list.first \in Nat /\ served.list.last \in Nat /\ served.list.run \in Nat
         /\ served.cur \in Nat
         /\ \A v \in victims : v.name \in Names /\ v.run \in Nat /\ v.run >= 1
<1>1. Windows # {} /\ window \in Windows
  BY DEF TypeOK
<1>2. /\ Names \subseteq Nat /\ 0 \in Names
      /\ \A n \in Names, k \in Nat : k <= n => k \in Names
      /\ \A w \in Windows, k \in Nat : k <= MaxSeg[w] => k \in Names
      /\ Windows \subseteq Nat \ {0} /\ SegSecs \in Nat \ {0}
  BY <1>1, NameRange
<1>3. run \in Nat /\ cur \in Nat /\ now \in Nat /\ \A n \in Names : disk[n] \in Nat
  BY <1>2 DEF TypeOK
<1>4. MaxSeg[window] \in Nat /\ ResetGap \in Nat /\ MaxRuns \in Nat
  BY <1>1, HlsAssumption
<1>5. cur < MaxSeg[window] => cur + 1 \in Names
  BY <1>1, <1>2, <1>3, <1>4
<1>6. \A l \in Lists : /\ l.first \in Nat /\ l.last \in Nat /\ l.run \in Nat
                       /\ l # NoList => l \in [run : Runs, first : Names, last : Names] /\ l.run >= 1
  <2> SUFFICES ASSUME NEW l \in Lists
               PROVE  /\ l.first \in Nat /\ l.last \in Nat /\ l.run \in Nat
                      /\ l # NoList => l \in [run : Runs, first : Names, last : Names] /\ l.run >= 1
    OBVIOUS
  <2>1. CASE l = NoList
    BY <2>1 DEF NoList, NoRun
  <2>2. CASE l \in [run : Runs, first : Names, last : Names]
    <3>1. l.run \in Runs /\ l.first \in Names /\ l.last \in Names
      BY <2>2
    <3>2. l.run \in Nat /\ l.run >= 1
      BY <1>4, <3>1 DEF Runs
    <3> QED
      BY <1>2, <2>2, <3>1, <3>2
  <2> QED
    BY <2>1, <2>2 DEF Lists
<1>7. index \in Lists /\ served.list \in Lists /\ served.cur \in Nat
  BY <1>2 DEF TypeOK
<1>8. \A v \in victims : v.name \in Names /\ v.run \in Nat /\ v.run >= 1
  BY DEF TypeOK, Runs
<1> QED
  BY <1>1, <1>2, <1>3, <1>4, <1>5, <1>6, <1>7, <1>8 DEF Retain

LEMMA ListedIs ==
  ASSUME TypeOK
  PROVE  /\ FirstListed \in Names /\ FirstListed <= cur
         /\ Listed = [run |-> run, first |-> IF cur + 1 >= window THEN cur + 1 - window ELSE 0,
                      last |-> cur]
         /\ Listed.first \in Names
<1>1. window \in Nat /\ window >= 1 /\ cur \in Nat /\ cur \in Names
  BY Ranges DEF TypeOK
<1>2. Max({0, cur - window + 1}) = IF 0 >= cur - window + 1 THEN 0 ELSE cur - window + 1
  BY <1>1, MaxOfTwo
<1>3. Max({0, cur - window + 1}) = IF cur + 1 >= window THEN cur + 1 - window ELSE 0
  BY <1>1, <1>2
<1>4. (IF cur + 1 >= window THEN cur + 1 - window ELSE 0) \in Names
  BY <1>1, Ranges
<1>5. FirstListed \in Nat /\ FirstListed <= cur
  BY <1>1 DEF FirstListed
<1> QED
  BY <1>1, <1>3, <1>4, <1>5, Ranges DEF Listed

LEMMA Products == \A a, b \in Nat : a * b \in Nat
  OBVIOUS

LEMMA AnchorType ==
  ASSUME TypeOK, EncoderInv, AnchorInv, index # NoList, NEW late \in 0..SegSecs - 1
  PROVE  NextAnchor(index.first, now + late) \in [seq : Names, epoch : Nat]
<1>1. index.first \in Names /\ index.first \in Nat
  BY Ranges
<1>2. (now + late) - (SegSecs \div 2) \in Nat
  BY Ranges DEF EncoderInv
<1>3. CASE anchor = NoAnchor \/ index.first < anchor.seq - ResetGap
  <2>1. NextAnchor(index.first, now + late) =
          [seq |-> index.first, epoch |-> (now + late) - (SegSecs \div 2)]
    BY <1>3 DEF NextAnchor
  <2> QED
    BY <1>1, <1>2, <2>1
<1>4. CASE ~(anchor = NoAnchor \/ index.first < anchor.seq - ResetGap) /\ index.first > anchor.seq
  <2>1. anchor \in [seq : Names, epoch : Nat]
    BY <1>4 DEF AnchorInv
  <2>2. anchor.seq \in Nat /\ anchor.epoch \in Nat /\ SegSecs \in Nat
    BY <2>1, Ranges
  <2>3. index.first - anchor.seq \in Nat
    BY <1>1, <1>4, <2>2
  <2>4. (index.first - anchor.seq) * SegSecs \in Nat
    BY <2>2, <2>3, Products
  <2>5. anchor.epoch + (index.first - anchor.seq) * SegSecs \in Nat
    BY <2>2, <2>4
  <2> QED
    BY <1>1, <1>4, <2>5 DEF NextAnchor
<1>5. CASE ~(anchor = NoAnchor \/ index.first < anchor.seq - ResetGap) /\ ~(index.first > anchor.seq)
  BY <1>5 DEF NextAnchor, AnchorInv
<1> QED
  BY <1>3, <1>4, <1>5

LEMMA TypeStep == TypeOK /\ EncoderInv /\ AnchorInv /\ [Next]_vars => TypeOK' /\ AnchorInv'
<1> SUFFICES ASSUME TypeOK, EncoderInv, AnchorInv, [Next]_vars PROVE TypeOK' /\ AnchorInv'
  OBVIOUS
<1> USE DEF TypeOK, AnchorInv
<1>0. /\ 0 \in Names /\ CleanDisk \in [Names -> 0..MaxRuns] /\ CleanIndex \in Lists
      /\ NoneServed \in [list : Lists, cur : Names] /\ NoList \in Lists
      /\ cur < MaxSeg[window] => cur + 1 \in Names
      /\ run \in Nat /\ MaxRuns \in Nat /\ now + SegSecs \in Nat
  <2>1. 0 \in Names /\ MaxRuns \in Nat /\ NoList \in Lists /\ run \in Nat /\ SegSecs \in Nat
        /\ (cur < MaxSeg[window] => cur + 1 \in Names)
    BY Ranges DEF Lists
  <2>2. CleanDisk \in [Names -> 0..MaxRuns] /\ CleanIndex \in Lists
    BY <2>1 DEF CleanDisk, CleanIndex, NoRun
  <2> QED
    BY <2>1, <2>2 DEF NoneServed
<1>1. CASE StartLaunch
  <2>1. run' \in 0..MaxRuns /\ run + 1 \in 0..MaxRuns
    BY <1>0, <1>1 DEF StartLaunch
  <2>2. disk' \in [Names -> 0..MaxRuns]
    BY <1>0, <1>1, <2>1 DEF StartLaunch
  <2> QED
    BY <1>0, <1>1, <2>1, <2>2 DEF StartLaunch, monVars
<1>2. CASE StartFails
  BY <1>0, <1>2 DEF StartFails, monVars, webVars
<1>3. CASE StartThreads
  BY <1>0, <1>3 DEF StartThreads, encVars, listVars, webVars
<1>4. CASE StopHLS
  BY <1>0, <1>4 DEF StopHLS
<1>5. CASE FfmpegDies
  BY <1>5 DEF FfmpegDies, listVars, monVars, webVars
<1>6. CASE WriteSegment
  <2>1. run \in 0..MaxRuns /\ run \in Runs
    BY <1>0, <1>6 DEF WriteSegment, EncoderInv, Runs
  <2>2. Listed \in Lists
    BY <2>1, ListedIs DEF Lists
  <2> QED
    BY <1>0, <1>6, <2>1, <2>2 DEF WriteSegment, monVars, webVars
<1>7. CASE MonitorScan
  <2>1. victims' \subseteq [name : Names, run : Runs]
    <3>1. \A v \in victims' : \E n \in Files : v = [name |-> n, run |-> disk[n]]
      BY <1>7 DEF MonitorScan, Oldest
    <3>2. \A n \in Files : n \in Names /\ disk[n] \in Runs
      BY <1>0 DEF Files, NoRun, Runs
    <3> QED
      BY <3>1, <3>2
  <2> QED
    BY <1>7, <2>1 DEF MonitorScan, encVars, listVars, webVars
<1>8. CASE MonitorRemove
  <2>1. disk' \in [Names -> 0..MaxRuns]
    BY <1>0, <1>8 DEF MonitorRemove, NoRun
  <2>2. \A v \in victims : disk[v.name] > v.run => [name |-> v.name, run |-> disk[v.name]] \in [name : Names, run : Runs]
    <3>1. \A v \in victims : v.name \in Names /\ v.run \in Nat /\ v.run >= 1 /\ disk[v.name] \in 0..MaxRuns
      BY Ranges
    <3> QED
      BY <1>0, <3>1 DEF Runs
  <2>3. clobbered' \subseteq [name : Names, run : Runs]
    BY <1>8, <2>2 DEF MonitorRemove
  <2> QED
    BY <1>8, <2>1, <2>3 DEF MonitorRemove, listVars, webVars
<1>9. CASE InjectRead
  BY <1>9 DEF InjectRead, encVars, listVars, monVars, webVars
<1>10. CASE InjectWrite
  BY <1>0, <1>10 DEF InjectWrite, encVars, monVars, webVars
<1>11. CASE ServerReady \/ ServerFails
  BY <1>11 DEF ServerReady, ServerFails, encVars, listVars, monVars, webVars
<1>12. ASSUME NEW late \in 0..SegSecs - 1, Serve(late) PROVE TypeOK' /\ AnchorInv'
  <2>1. /\ anchor' = NextAnchor(index.first, now + late) /\ served' = Rebuilt /\ moved' \in BOOLEAN
        /\ index # NoList
        /\ UNCHANGED <<failover, window, pc, encVars, listVars, monVars, inj, server, crashes>>
    BY <1>12 DEF Serve
  <2>2. anchor' \in [seq : Names, epoch : Nat]
    BY <2>1, AnchorType
  <2>3. Rebuilt \in [list : Lists, cur : Names]
    BY DEF Rebuilt
  <2>4. (anchor.seq)' \in Names /\ (anchor.epoch)' \in Dates
    BY <2>2 DEF Dates
  <2> QED
    BY <2>1, <2>2, <2>3, <2>4 DEF encVars, listVars, monVars
<1>13. CASE UNCHANGED vars
  BY <1>13 DEF vars, encVars, listVars, monVars, webVars
<1> QED
  BY <1>1, <1>2, <1>3, <1>4, <1>5, <1>6, <1>7, <1>8, <1>9, <1>10, <1>11, <1>12, <1>13 DEF Next

-----------------------------------------------------------------------------
(* The files.                                                               *)

\* What the monitor picks of the run lies three windows behind.
LEMMA OldestBack ==
  ASSUME TypeOK, EncoderInv, NEW n \in Oldest
  PROVE  n \in Names /\ disk[n] \in Nat /\ disk[n] >= 1 /\ disk[n] <= run
         /\ (disk[n] = run => n + Retain <= cur)
<1> DEFINE newer == {m \in Files : Older(n, m)}
<1>1. n \in Names /\ n \in Nat /\ disk[n] \in Nat /\ disk[n] >= 1 /\ disk[n] <= run /\ run \in Nat
      /\ cur \in Nat /\ Retain \in Nat /\ Names \subseteq Nat
  BY Ranges DEF Oldest, Files, NoRun, EncoderInv
<1>2. Cardinality(newer) >= Retain
  BY DEF Oldest
<1>3. SUFFICES ASSUME disk[n] = run PROVE n + Retain <= cur
  BY <1>1
<1>4. n <= cur
  BY <1>1, <1>3 DEF EncoderInv
<1>5. newer \subseteq (n + 1)..cur
  <2> SUFFICES ASSUME NEW m \in newer PROVE m \in (n + 1)..cur
    OBVIOUS
  <2>1. m \in Names /\ m \in Nat /\ disk[m] \in Nat /\ disk[m] <= run
    BY <1>1, Ranges DEF Files, EncoderInv
  <2>2. disk[m] = run /\ n < m
    BY <1>1, <1>3, <2>1 DEF Older
  <2>3. m <= cur
    BY <1>1, <1>3, <2>1, <2>2 DEF EncoderInv
  <2> QED
    BY <1>1, <2>1, <2>2, <2>3
<1>6. IsFiniteSet((n + 1)..cur) /\ Cardinality((n + 1)..cur) = cur - n
  <2>1. n + 1 \in Int /\ cur \in Int
    BY <1>1
  <2>2. /\ IsFiniteSet((n + 1)..cur)
        /\ Cardinality((n + 1)..cur) = IF n + 1 > cur THEN 0 ELSE cur - (n + 1) + 1
    BY <2>1, FS_Interval
  <2> QED
    BY <1>1, <1>4, <2>2
<1>7. Cardinality(newer) <= cur - n /\ Cardinality(newer) \in Nat
  BY <1>5, <1>6, FS_Subset, FS_CardinalityType
<1> HIDE DEF newer
<1> QED
  BY <1>1, <1>2, <1>4, <1>7

LEMMA EncoderStep == TypeOK /\ EncoderInv /\ MonitorInv /\ [Next]_vars => EncoderInv'
<1> SUFFICES ASSUME TypeOK, EncoderInv, MonitorInv, [Next]_vars PROVE EncoderInv'
  OBVIOUS
<1> USE DEF EncoderInv
<1>0. /\ run \in Nat /\ cur \in Nat /\ now \in Nat /\ SegSecs \in Nat /\ Names \subseteq Nat
      /\ 0 \in Names /\ disk \in [Names -> 0..MaxRuns] /\ MaxRuns \in Nat
      /\ \A n \in Names : disk[n] \in Nat
  BY Ranges DEF TypeOK
<1>1. CASE StartLaunch
  <2>1. \A n \in Names : disk'[n] = (IF n = 0 THEN run + 1 ELSE CleanDisk[n])
                         /\ (CleanDisk[n] = disk[n] \/ CleanDisk[n] = 0)
    BY <1>0, <1>1 DEF StartLaunch, CleanDisk, NoRun
  <2> QED
    BY <1>0, <1>1, <2>1 DEF StartLaunch
<1>2. CASE StartFails \/ StopHLS
  <2>1. \A n \in Names : disk'[n] = disk[n] \/ disk'[n] = 0
    BY <1>2 DEF StartFails, StopHLS, CleanDisk, NoRun
  <2> QED
    BY <1>0, <1>2, <2>1 DEF StartFails, StopHLS
<1>3. CASE StartThreads \/ InjectRead \/ InjectWrite \/ ServerReady \/ ServerFails
           \/ MonitorScan \/ (\E late \in 0..SegSecs - 1 : Serve(late)) \/ UNCHANGED vars
  <2>1. UNCHANGED encVars /\ (pc' = pc \/ pc' = "idle")
    BY <1>3 DEF StartThreads, InjectRead, InjectWrite, ServerReady, ServerFails, MonitorScan, Serve, vars
  <2> QED
    BY <2>1 DEF encVars
<1>4. CASE FfmpegDies
  BY <1>4 DEF FfmpegDies
<1>5. CASE WriteSegment
  <2>1. \A n \in Names : disk'[n] = (IF n = cur + 1 THEN run ELSE disk[n])
    BY <1>0, <1>5 DEF WriteSegment
  <2> QED
    BY <1>0, <1>5, <2>1 DEF WriteSegment
<1>6. CASE MonitorRemove
  <2>1. \A n \in Names : disk'[n] = disk[n] \/ disk'[n] = 0
    BY <1>6 DEF MonitorRemove, NoRun
  <2> QED
    BY <1>0, <1>6, <2>1 DEF MonitorRemove
<1> QED
  BY <1>1, <1>2, <1>3, <1>4, <1>5, <1>6 DEF Next

LEMMA MonitorStep == TypeOK /\ EncoderInv /\ MonitorInv /\ [Next]_vars => MonitorInv'
<1> SUFFICES ASSUME TypeOK, EncoderInv, MonitorInv, [Next]_vars PROVE MonitorInv'
  OBVIOUS
<1>0. /\ run \in Nat /\ cur \in Nat /\ Names \subseteq Nat /\ 0 \in Names
      /\ disk \in [Names -> 0..MaxRuns] /\ monitor \in BOOLEAN /\ running \in BOOLEAN
      /\ pc \in {"idle", "threads"} /\ crashes \in BOOLEAN /\ failover \in BOOLEAN
      /\ \A v \in victims : v.name \in Nat /\ v.run \in Nat
      /\ Retain \in Nat
  BY Ranges DEF TypeOK
<1>1. CASE StartLaunch
  <2>1. /\ run' = run + 1 /\ cur' = 0 /\ running' = TRUE /\ pc' = "threads" /\ ~running /\ pc = "idle"
        /\ UNCHANGED <<failover, window, monitor, victims, crashes>>
    BY <1>1 DEF StartLaunch, monVars
  <2>2. ~failover => \A n \in Names : disk'[n] \in {NoRun, run'}
    BY <1>0, <1>1, <2>1 DEF StartLaunch, CleanDisk
  <2>3. Retain' = Retain
    BY <2>1 DEF Retain
  <2> QED
    BY <1>0, <2>1, <2>2, <2>3 DEF MonitorInv
<1>2. CASE StartFails
  <2>1. /\ UNCHANGED <<failover, window, pc, running, run, cur, monitor, victims, crashes>>
    BY <1>2 DEF StartFails, monVars
  <2>2. ~failover => \A n \in Names : disk'[n] \in {NoRun, run}
    BY <1>2 DEF StartFails, CleanDisk
  <2> QED
    BY <2>1, <2>2 DEF MonitorInv, Retain
<1>3. CASE StopHLS
  <2>1. /\ UNCHANGED <<failover, window, pc, run, cur, victims, crashes>>
        /\ ~monitor' /\ ~running' /\ victims = {} /\ pc = "idle"
    BY <1>3 DEF StopHLS
  <2>2. ~failover => \A n \in Names : disk'[n] \in {NoRun, run}
    BY <1>3 DEF StopHLS, CleanDisk
  <2> QED
    BY <2>1, <2>2 DEF MonitorInv
<1>4. CASE StartThreads
  BY <1>0, <1>4 DEF StartThreads, encVars, MonitorInv, EncoderInv
<1>5. CASE FfmpegDies
  BY <1>0, <1>5 DEF FfmpegDies, monVars, MonitorInv, Retain
<1>6. CASE WriteSegment
  <2>1. /\ UNCHANGED <<failover, window, pc, running, run, monitor, victims, crashes>> /\ cur' = cur + 1
    BY <1>6 DEF WriteSegment, monVars
  <2>2. \A n \in Names : disk'[n] = run \/ disk'[n] = disk[n]
    BY <1>0, <1>6 DEF WriteSegment
  <2>3. Retain' = Retain
    BY <2>1 DEF Retain
  <2> QED
    BY <1>0, <2>1, <2>2, <2>3 DEF MonitorInv
<1>7. CASE MonitorScan
  <2>1. /\ UNCHANGED <<failover, window, pc, running, run, cur, disk, monitor, crashes>> /\ monitor
        /\ victims' = {[name |-> n, run |-> disk[n]] : n \in Oldest}
    BY <1>7 DEF MonitorScan, encVars
  <2>2. \A v \in victims' : /\ v.name \in Names /\ v.run \in Nat /\ v.run >= 1 /\ v.run = disk[v.name]
                            /\ v.run <= run /\ (v.run = run => v.name + Retain <= cur)
    BY <2>1, OldestBack
  <2>3. ~failover => \A v \in victims' : v.run = run
    BY <2>2 DEF MonitorInv, NoRun
  <2> QED
    BY <2>1, <2>2, <2>3 DEF MonitorInv, Retain
<1>8. CASE MonitorRemove
  <2>1. /\ UNCHANGED <<failover, window, pc, running, run, cur, monitor, crashes>> /\ victims' = {}
    BY <1>8 DEF MonitorRemove
  <2>2. \A n \in Names : disk'[n] = disk[n] \/ disk'[n] = NoRun
    BY <1>8 DEF MonitorRemove
  <2> QED
    BY <2>1, <2>2 DEF MonitorInv
<1>9. CASE InjectRead \/ InjectWrite \/ ServerReady \/ ServerFails
           \/ (\E late \in 0..SegSecs - 1 : Serve(late)) \/ UNCHANGED vars
  <2>1. UNCHANGED <<failover, window, pc, running, run, cur, disk, monitor, victims, crashes>>
    BY <1>9 DEF InjectRead, InjectWrite, ServerReady, ServerFails, Serve, vars, encVars, monVars
  <2> QED
    BY <2>1 DEF MonitorInv, Retain
<1> QED
  BY <1>1, <1>2, <1>3, <1>4, <1>5, <1>6, <1>7, <1>8, <1>9 DEF Next

LEMMA KeptStep == TypeOK /\ EncoderInv /\ MonitorInv /\ KeptInv /\ [Next]_vars => KeptInv'
<1> SUFFICES ASSUME TypeOK, EncoderInv, MonitorInv, KeptInv, [Next]_vars PROVE KeptInv'
  OBVIOUS
<1>0. /\ run \in Nat /\ cur \in Nat /\ Names \subseteq Nat /\ 0 \in Names /\ Retain \in Nat
      /\ disk \in [Names -> 0..MaxRuns] /\ cur \in Names
      /\ \A n \in Names : disk[n] \in Nat
      /\ \A v \in victims : v.name \in Nat /\ v.run \in Nat
  BY Ranges DEF TypeOK
<1>1. CASE StartLaunch
  <2>1. run' = run + 1 /\ cur' = 0 /\ disk'[0] = run + 1
    BY <1>0, <1>1 DEF StartLaunch, CleanDisk
  <2> QED
    BY <1>0, <2>1 DEF KeptInv
<1>2. CASE ~running'
  BY <1>2 DEF KeptInv
<1>3. CASE StartThreads \/ InjectRead \/ InjectWrite \/ ServerReady \/ ServerFails
           \/ MonitorScan \/ (\E late \in 0..SegSecs - 1 : Serve(late)) \/ UNCHANGED vars
  <2>1. UNCHANGED <<window, running, run, cur, disk, clobbered>>
    BY <1>3 DEF StartThreads, InjectRead, InjectWrite, ServerReady, ServerFails, MonitorScan, Serve,
                vars, encVars, monVars
  <2> QED
    BY <2>1 DEF KeptInv, Wiped, Retain
<1>4. CASE WriteSegment
  <2>1. /\ UNCHANGED <<window, running, run, clobbered>> /\ cur' = cur + 1
        /\ \A n \in Names : disk'[n] = (IF n = cur + 1 THEN run ELSE disk[n])
    BY <1>0, <1>4 DEF WriteSegment, monVars
  <2>2. Retain' = Retain
    BY <2>1 DEF Retain
  <2> QED
    BY <1>0, <2>1, <2>2 DEF KeptInv, Wiped
<1>5. CASE MonitorRemove /\ running
  <2>1. /\ UNCHANGED <<window, running, run, cur>>
        /\ \A n \in Names : disk'[n] = disk[n] \/ \E v \in victims : v.name = n
        /\ \A v \in victims : disk[v.name] > v.run =>
             [name |-> v.name, run |-> disk[v.name]] \in clobbered'
        /\ clobbered \subseteq clobbered'
    BY <1>5 DEF MonitorRemove
  <2>2. Retain' = Retain
    BY <2>1 DEF Retain
  <2>3. ASSUME NEW n \in Names, n <= cur, n + Retain > cur
        PROVE  disk'[n] = run \/ Wiped(run, n)'
    <3>1. disk[n] = run \/ Wiped(run, n)
      BY <1>5, <2>3 DEF KeptInv
    <3>2. CASE Wiped(run, n)
      BY <2>1, <3>2 DEF Wiped
    <3>3. CASE disk[n] = run /\ disk'[n] # disk[n]
      <4>1. PICK v \in victims : v.name = n
        BY <2>1, <3>3
      <4>2. v.run <= run /\ v.run # run
        BY <1>0, <2>3, <4>1 DEF MonitorInv
      <4>3. disk[v.name] > v.run
        BY <1>0, <3>3, <4>1, <4>2
      <4> QED
        BY <2>1, <3>3, <4>1, <4>3 DEF Wiped
    <3> QED
      BY <3>1, <3>2, <3>3
  <2>4. run' = run /\ cur' = cur
    BY <2>1
  <2> QED
    BY <2>2, <2>3, <2>4 DEF KeptInv, Wiped
<1> QED
  BY <1>1, <1>2, <1>3, <1>4, <1>5 DEF Next, StartFails, StopHLS, FfmpegDies, MonitorRemove

LEMMA WipedStep == TypeOK /\ EncoderInv /\ MonitorInv /\ WipedExplained /\ [Next]_vars => WipedExplained'
<1> SUFFICES ASSUME TypeOK, EncoderInv, MonitorInv, WipedExplained, [Next]_vars, clobbered' # {}
             PROVE  (failover \/ crashes)'
  BY DEF WipedExplained
<1>1. failover' = failover /\ (crashes => crashes')
  BY DEF Next, StartLaunch, StartFails, StartThreads, StopHLS, FfmpegDies, WriteSegment, MonitorScan,
         MonitorRemove, InjectRead, InjectWrite, ServerReady, ServerFails, Serve, vars
<1>2. CASE clobbered # {}
  BY <1>1, <1>2 DEF WipedExplained
<1>3. CASE clobbered = {}
  <2>1. MonitorRemove
    BY <1>3 DEF Next, StartLaunch, StartFails, StartThreads, StopHLS, FfmpegDies, WriteSegment, MonitorScan,
         InjectRead, InjectWrite, ServerReady, ServerFails, Serve, vars, monVars
  <2>2. PICK v \in victims : disk[v.name] > v.run
    BY <1>3, <2>1 DEF MonitorRemove
  <2>3. v.name \in Names /\ v.run \in Nat /\ disk[v.name] \in Nat /\ run \in Nat
    BY Ranges
  <2>4. disk[v.name] <= run
    BY <2>3 DEF EncoderInv
  <2>5. v.run # run
    BY <2>2, <2>3, <2>4
  <2> QED
    BY <1>1, <2>5 DEF MonitorInv
<1> QED
  BY <1>2, <1>3

LEMMA CleanStep == TypeOK /\ MonitorInv /\ CleanAfterStop /\ [Next]_vars => CleanAfterStop'
<1> SUFFICES ASSUME TypeOK, MonitorInv, CleanAfterStop, [Next]_vars PROVE CleanAfterStop'
  OBVIOUS
<1>1. CASE StartLaunch \/ WriteSegment \/ StartThreads
  <2>1. running' \/ monitor'
    BY <1>1 DEF StartLaunch, WriteSegment, StartThreads
  <2> QED
    BY <2>1 DEF CleanAfterStop
<1>2. CASE StartFails \/ StopHLS
  <2>1. failover' = failover
    BY <1>2 DEF StartFails, StopHLS
  <2>2. ~failover => (\A n \in Names : disk'[n] = NoRun) /\ index' = NoList
    BY <1>2 DEF StartFails, StopHLS, CleanDisk, CleanIndex
  <2> QED
    BY <2>1, <2>2 DEF CleanAfterStop, Files
<1>3. CASE FfmpegDies
  <2>1. monitor'
    BY <1>3 DEF FfmpegDies, monVars, MonitorInv
  <2> QED
    BY <2>1 DEF CleanAfterStop
<1>4. CASE MonitorScan \/ MonitorRemove
  <2>1. monitor'
    BY <1>4 DEF MonitorScan, MonitorRemove, MonitorInv
  <2> QED
    BY <2>1 DEF CleanAfterStop
<1>5. CASE InjectWrite
  <2>1. /\ UNCHANGED <<failover, pc, running, disk, monitor>>
        /\ index' = inj /\ putBack' = (putBack \/ index = NoList)
    BY <1>5 DEF InjectWrite, encVars, monVars
  <2>2. Files' = Files
    BY <2>1 DEF Files
  <2> QED
    BY <2>1, <2>2 DEF CleanAfterStop
<1>6. CASE InjectRead \/ ServerReady \/ ServerFails \/ (\E late \in 0..SegSecs - 1 : Serve(late))
           \/ UNCHANGED vars
  <2>1. UNCHANGED <<failover, pc, running, disk, monitor, index, putBack>>
    BY <1>6 DEF InjectRead, ServerReady, ServerFails, Serve, vars, encVars, listVars, monVars
  <2> QED
    BY <2>1 DEF CleanAfterStop, Files
<1> QED
  BY <1>1, <1>2, <1>3, <1>4, <1>5, <1>6 DEF Next

-----------------------------------------------------------------------------
(* The playlist.                                                            *)

\* The list that FFmpeg writes is its latest when the next segment is open.
LEMMA LatestWritten ==
  ASSUME TypeOK, WriteSegment
  PROVE  index' = Latest' /\ cur' >= 1 /\ FirstListed <= FirstListed' /\ FirstListed \in Nat
         /\ FirstListed' \in Nat
<1>1. cur \in Nat /\ window \in Nat /\ cur' = cur + 1 /\ window' = window /\ run' = run /\ index' = Listed
  BY Ranges DEF WriteSegment
<1>2. FirstListed' = IF cur + 1 >= window THEN cur + 1 - window ELSE 0
  BY <1>1 DEF FirstListed
<1>3. cur' - 1 = cur
  BY <1>1
<1>4. index' = Latest'
  BY <1>1, <1>2, <1>3, ListedIs DEF Latest
<1> QED
  BY <1>1, <1>2, <1>4 DEF FirstListed

\* A playlist stays one while FFmpeg goes on or starts again.
LEMMA StaysWritten ==
  ASSUME TypeOK, NEW l \in Lists, Written(l), window' = window,
         (run' = run /\ cur' \in {cur, cur + 1}) \/ run' = run + 1
  PROVE  Written(l)'
<1>1. cur \in Nat /\ run \in Nat /\ l.run \in Nat /\ l.last \in Int
  BY Ranges, NameRange, HlsAssumption DEF Lists, NoList, NoRun, Runs
<1> QED
  BY <1>1 DEF Written, NoRun

LEMMA NoListWritten == TypeOK => Written(NoList)
<1> SUFFICES ASSUME TypeOK PROVE Written(NoList)
  OBVIOUS
<1>1. run \in Nat
  BY Ranges
<1> QED
  BY <1>1 DEF Written, NoList, NoRun

LEMMA ListStep == TypeOK /\ TypeOK' /\ ListInv /\ [Next]_vars => ListInv'
<1> SUFFICES ASSUME TypeOK, TypeOK', ListInv, [Next]_vars PROVE ListInv'
  OBVIOUS
<1>0. /\ index \in Lists /\ inj \in Lists /\ served.list \in Lists /\ NoList \in Lists
      /\ Written(index) /\ Written(inj) /\ Written(served.list) /\ Written(NoList)
  <2>1. index \in Lists /\ inj \in Lists /\ served.list \in Lists /\ NoList \in Lists
    BY DEF TypeOK, Lists
  <2> QED
    BY <2>1, NoListWritten DEF ListInv
<1>1. ASSUME window' = window, (run' = run /\ cur' \in {cur, cur + 1}) \/ run' = run + 1,
             index' \in {index, inj, NoList}, inj' \in {inj, index, NoList},
             served'.list \in {served.list, index, NoList}
      PROVE  ListInv'
  <2>1. \A l \in {index, inj, served.list, NoList} : Written(l)'
    BY <1>0, <1>1, StaysWritten
  <2> QED
    BY <1>1, <2>1 DEF ListInv, Written
<1>2. CASE WriteSegment
  <2>1. /\ UNCHANGED <<window, run, inj, served>> /\ cur' = cur + 1 /\ index' = Latest'
    BY <1>2, LatestWritten DEF WriteSegment, webVars
  <2>2. Written(inj)' /\ Written(served.list)'
    <3>1. Written(inj)'
      BY <1>0, <2>1, StaysWritten DEF Written
    <3>2. Written(served.list)'
      BY <1>0, <2>1, StaysWritten DEF Written
    <3> QED
      BY <3>1, <3>2
  <2>3. Written(index)'
    <3> DEFINE f == index'.first
               l == index'.last
               c == cur'
               w == window'
               r == run'
    <3>1. c \in Nat /\ w \in Nat /\ w >= 1 /\ r \in Nat
      BY <2>1, Ranges
    <3>2. l = c - 1 /\ f = (IF c >= w THEN c - w ELSE 0) /\ index'.run = r
      BY <2>1 DEF Latest, FirstListed
    <3>3. Written(index)' = (/\ index'.run <= r
                             /\ index'.run # NoRun => f + w > l /\ (index'.run = r => l < c))
      BY DEF Written, NoRun
    <3> HIDE DEF f, l, c, w, r
    <3>4. f + w > l /\ l < c /\ r <= r
      BY <3>1, <3>2
    <3> QED
      BY <3>2, <3>3, <3>4
  <2> QED
    BY <2>2, <2>3 DEF ListInv
<1>3. CASE StartLaunch \/ StartFails \/ StopHLS
  BY <1>1, <1>3 DEF StartLaunch, StartFails, StopHLS, CleanIndex, NoneServed, webVars
<1>4. CASE InjectRead \/ InjectWrite
  BY <1>1, <1>4 DEF InjectRead, InjectWrite, encVars, listVars, webVars
<1>5. ASSUME NEW late \in 0..SegSecs - 1, Serve(late) PROVE ListInv'
  BY <1>1, <1>5 DEF Serve, Rebuilt, encVars, listVars
<1>6. CASE StartThreads \/ FfmpegDies \/ MonitorScan \/ MonitorRemove \/ ServerReady \/ ServerFails
           \/ UNCHANGED vars
  BY <1>1, <1>6 DEF StartThreads, FfmpegDies, MonitorScan, MonitorRemove, ServerReady, ServerFails,
                    vars, encVars, listVars, webVars
<1> QED
  BY <1>2, <1>3, <1>4, <1>5, <1>6 DEF Next

\* Numbers multiplied by the segment length.
LEMMA Distributed ==
  \A s, a, b \in Int : /\ s * (a + b) = s * a + s * b /\ (a + b) * s = a * s + b * s
                       /\ (a - b) * s = a * s - b * s /\ s * a = a * s /\ 1 * s = s
  OBVIOUS

LEMMA Longer == \A s, a, b \in Nat : a <= b => a * s <= b * s
  OBVIOUS

LEMMA ClockStep == TypeOK /\ EncoderInv /\ ClockInv /\ [Next]_vars => ClockInv'
<1> SUFFICES ASSUME TypeOK, EncoderInv, ClockInv, [Next]_vars PROVE ClockInv'
  OBVIOUS
<1>0. cur \in Nat /\ run \in Nat /\ now \in Nat /\ SegSecs \in Nat
  BY Ranges
<1>1. CASE StartLaunch
  <2>1. run' = run + 1 /\ cur' = 0 /\ now' = now
    BY <1>1 DEF StartLaunch
  <2> QED
    BY <1>0, <2>1 DEF ClockInv
<1>2. CASE StartFails \/ StopHLS
  <2>1. /\ run' = run /\ cur' = cur /\ now' = now /\ anchor' = anchor /\ inj' = inj
        /\ server' = server \/ server' = "none"
        /\ served' = served \/ served' = NoneServed
        /\ index' = index \/ index' = NoList
    BY <1>2 DEF StartFails, StopHLS, CleanIndex, webVars
  <2> QED
    BY <2>1 DEF ClockInv
<1>3. CASE WriteSegment
  <2>1. run' = run /\ run >= 1 /\ cur' = cur + 1 /\ now' = now + SegSecs
    BY <1>3 DEF WriteSegment, EncoderInv
  <2>2. SegSecs * ((cur + 1) + 1) = SegSecs * (cur + 1) + SegSecs * 1 /\ SegSecs * 1 = SegSecs
    BY <1>0, Distributed
  <2> QED
    BY <1>0, <2>1, <2>2 DEF ClockInv
<1>4. CASE StartThreads \/ InjectRead
  <2>1. run >= 1 /\ UNCHANGED <<run, cur, now>>
    BY <1>4 DEF StartThreads, InjectRead, EncoderInv, encVars
  <2> QED
    BY <1>0, <2>1 DEF ClockInv
<1>5. CASE InjectWrite
  <2>1. inj # NoList /\ UNCHANGED <<run, cur, now>>
    BY <1>5 DEF InjectWrite, encVars
  <2> QED
    BY <2>1 DEF ClockInv
<1>6. CASE ServerReady \/ ServerFails \/ \E late \in 0..SegSecs - 1 : Serve(late)
  <2>1. server # "none" /\ UNCHANGED <<run, cur, now>>
    BY <1>6 DEF ServerReady, ServerFails, Serve, encVars
  <2> QED
    BY <2>1 DEF ClockInv
<1>7. CASE FfmpegDies \/ MonitorScan \/ MonitorRemove \/ UNCHANGED vars
  <2>1. UNCHANGED <<run, cur, now, anchor, server, served, index, inj>>
    BY <1>7 DEF FfmpegDies, MonitorScan, MonitorRemove, vars, encVars, listVars, webVars
  <2> QED
    BY <2>1 DEF ClockInv
<1> QED
  BY <1>1, <1>2, <1>3, <1>4, <1>5, <1>6, <1>7 DEF Next

-----------------------------------------------------------------------------
(* The dates of the first run.                                              *)

Ahead(a) == a.epoch - (a.seq + 1) * SegSecs

\* The anchor of the first playlist lies ahead of its first segment by the
\* length of the list, less what the guess takes off.
LEMMA FirstAnchor ==
  ASSUME TypeOK, ClockInv, run <= 1, cur >= 1, anchor = NoAnchor, NEW late \in 0..SegSecs - 1
  PROVE  LET a == NextAnchor(FirstListed, now + late)
         IN  a.seq = FirstListed /\ 0 < Ahead(a) /\ Ahead(a) < (window + 1) * SegSecs
<1> DEFINE f == FirstListed
           k == cur - f
           h == SegSecs \div 2
           a == NextAnchor(f, now + late)
<1>1. /\ cur \in Nat /\ window \in Nat /\ window >= 1 /\ SegSecs \in Nat /\ SegSecs >= 1
      /\ now \in Nat /\ f \in Nat /\ f <= cur /\ late \in Nat /\ late < SegSecs
  <2>1. FirstListed \in Nat
    BY ListedIs, Ranges
  <2> QED
    BY <2>1, ListedIs, Ranges
<1>2. k \in Nat /\ 1 <= k /\ k <= window
  BY <1>1 DEF FirstListed
<1>3. h \in Nat /\ h < SegSecs
  BY <1>1
<1>4. a = [seq |-> f, epoch |-> (now + late) - h]
  BY DEF NextAnchor
<1>5. now = SegSecs * (cur + 1)
  BY DEF ClockInv
<1> HIDE DEF h
<1>6. Ahead(a) = SegSecs * (cur + 1) + late - h - (f + 1) * SegSecs
  BY <1>1, <1>3, <1>4, <1>5 DEF Ahead
<1>7. SegSecs * (cur + 1) - (f + 1) * SegSecs = k * SegSecs
  <2>1. ((cur + 1) - (f + 1)) * SegSecs = (cur + 1) * SegSecs - (f + 1) * SegSecs
    BY <1>1, Distributed
  <2>2. SegSecs * (cur + 1) = (cur + 1) * SegSecs
    BY <1>1, Distributed
  <2>3. (cur + 1) - (f + 1) = k
    BY <1>1
  <2> QED
    BY <2>1, <2>2, <2>3
<1>8. /\ 1 * SegSecs <= k * SegSecs /\ k * SegSecs <= window * SegSecs /\ 1 * SegSecs = SegSecs
      /\ (window + 1) * SegSecs = window * SegSecs + 1 * SegSecs
  <2>1. 1 \in Nat /\ SegSecs \in Int /\ window \in Int /\ 1 \in Int
    BY <1>1
  <2>2. 1 * SegSecs <= k * SegSecs /\ k * SegSecs <= window * SegSecs
    BY <1>1, <1>2, <2>1, Longer
  <2> QED
    BY <2>1, <2>2, Distributed
<1>9. /\ SegSecs * (cur + 1) \in Nat /\ (f + 1) * SegSecs \in Nat /\ k * SegSecs \in Nat
      /\ window * SegSecs \in Nat
  <2>1. cur + 1 \in Nat /\ f + 1 \in Nat
    BY <1>1
  <2> QED
    BY <1>1, <1>2, <2>1, Products
<1>10. Ahead(a) = k * SegSecs + late - h
  BY <1>1, <1>3, <1>6, <1>7, <1>9
<1>11. 0 < Ahead(a) /\ Ahead(a) < (window + 1) * SegSecs
  BY <1>1, <1>3, <1>8, <1>9, <1>10
<1>12. a.seq = f
  BY <1>4
<1> HIDE DEF a, f
<1> QED
  BY <1>11, <1>12 DEF a, f

\* A later list moves number and date together.
LEMMA MovedAnchor ==
  ASSUME TypeOK, AnchorInv, anchor # NoAnchor, NEW first \in Nat, anchor.seq <= first, NEW t
  PROVE  LET a == NextAnchor(first, t)
         IN  /\ a.seq = first /\ Ahead(a) = Ahead(anchor)
             /\ \A n \in Int : DateOf(n, anchor.seq, anchor.epoch) = DateOf(n, first, a.epoch)
<1> DEFINE a == NextAnchor(first, t)
           q == anchor.seq
           e == anchor.epoch
<1>1. q \in Nat /\ e \in Nat /\ anchor = [seq |-> q, epoch |-> e]
      /\ SegSecs \in Nat /\ ResetGap \in Nat
  BY Ranges DEF AnchorInv
<1>2. ~(anchor = NoAnchor \/ first < q - ResetGap)
  BY <1>1
<1>3. a.seq = first /\ a.epoch = e + (first - q) * SegSecs
  <2>1. CASE first > q
    BY <1>2, <2>1 DEF NextAnchor
  <2>2. CASE first = q
    <3>1. ~(first > q)
      BY <1>1, <2>2
    <3>2. a = anchor
      BY <1>2, <3>1 DEF NextAnchor
    <3>3. (first - q) * SegSecs = 0
      BY <1>1, <2>2
    <3> QED
      BY <1>1, <2>2, <3>2, <3>3
  <2> QED
    BY <1>1, <2>1, <2>2
<1>4. /\ (first - q) * SegSecs = first * SegSecs - q * SegSecs
      /\ (first + 1) * SegSecs = first * SegSecs + SegSecs
      /\ (q + 1) * SegSecs = q * SegSecs + SegSecs
      /\ \A n \in Int : (n - q) * SegSecs = n * SegSecs - q * SegSecs
                        /\ (n - first) * SegSecs = n * SegSecs - first * SegSecs
                        /\ n * SegSecs \in Int
      /\ first * SegSecs \in Int /\ q * SegSecs \in Int
  BY <1>1, SMT
<1> HIDE DEF a, q, e
<1>5. Ahead(a) = Ahead(anchor)
  BY <1>1, <1>3, <1>4 DEF Ahead, q, e
<1>6. \A n \in Int : DateOf(n, q, e) = DateOf(n, first, a.epoch)
  BY <1>1, <1>3, <1>4 DEF DateOf
<1> QED
  BY <1>3, <1>5, <1>6 DEF a, q, e

LEMMA DatesStep ==
  TypeOK /\ TypeOK' /\ EncoderInv /\ ClockInv /\ AnchorInv /\ DatesInv /\ [Next]_vars => DatesInv'
<1> SUFFICES ASSUME TypeOK, TypeOK', EncoderInv, ClockInv, AnchorInv, DatesInv, [Next]_vars,
                    run' <= 1, ~staleEver'
             PROVE  DatesInv'
  BY DEF DatesInv
<1>0. run \in Nat /\ cur \in Nat /\ window \in Nat /\ FirstListed \in Nat /\ SegSecs \in Nat
  <2>1. FirstListed \in Nat
    BY ListedIs, Ranges
  <2> QED
    BY <2>1, Ranges
<1>1. ASSUME UNCHANGED <<window, run, cur, anchor, moved, staleEver>>,
             served' = served \/ served' = NoneServed, index' = index \/ index' = NoList
      PROVE  DatesInv'
  <2>1. Latest' = Latest /\ FirstListed' = FirstListed
    BY <1>1 DEF Latest, FirstListed
  <2> QED
    BY <1>1, <2>1 DEF DatesInv
<1>2. CASE StartLaunch
  <2>1. run' = run + 1 /\ UNCHANGED <<window, anchor, moved, staleEver>> /\ served' = NoneServed
        /\ index' = CleanIndex
    BY <1>2 DEF StartLaunch
  <2>2. run = 0
    BY <1>0, <2>1
  <2>3. index' = NoList /\ anchor = NoAnchor
    BY <2>1, <2>2 DEF ClockInv, CleanIndex
  <2>4. ~moved
    BY <2>1, <2>2 DEF DatesInv
  <2> QED
    BY <2>1, <2>3, <2>4 DEF DatesInv
<1>3. CASE StartFails \/ StopHLS
  BY <1>1, <1>3 DEF StartFails, StopHLS, CleanIndex, webVars
<1>4. CASE StartThreads \/ FfmpegDies \/ MonitorScan \/ MonitorRemove \/ InjectRead \/ ServerReady
           \/ ServerFails \/ UNCHANGED vars
  <2>1. UNCHANGED <<window, run, cur, anchor, moved, staleEver, served, index>>
    BY <1>4 DEF StartThreads, FfmpegDies, MonitorScan, MonitorRemove, InjectRead, ServerReady, ServerFails,
                vars, encVars, listVars, webVars
  <2> QED
    BY <1>1, <2>1
<1>5. CASE WriteSegment
  <2>1. UNCHANGED <<window, run, anchor, moved, staleEver, served>>
    BY <1>5 DEF WriteSegment, webVars
  <2>2. index' = Latest' /\ cur' >= 1 /\ FirstListed <= FirstListed' /\ FirstListed' \in Nat
    BY <1>5, LatestWritten
  <2>3. anchor # NoAnchor => anchor.seq \in Nat
    BY Ranges DEF AnchorInv
  <2>4. anchor # NoAnchor /\ anchor.seq <= FirstListed => anchor.seq <= FirstListed'
    BY <1>0, <2>2, <2>3
  <2> QED
    BY <2>1, <2>2, <2>4 DEF DatesInv
<1>6. CASE InjectWrite
  <2>1. /\ UNCHANGED <<window, run, cur, anchor, moved, served>> /\ index' = inj
        /\ staleEver' = (staleEver \/ inj # index)
    BY <1>6 DEF InjectWrite, encVars, webVars
  <2>2. index' = index /\ staleEver' = staleEver
    BY <2>1 DEF TypeOK
  <2> QED
    BY <1>1, <2>1, <2>2
<1>7. ASSUME NEW late \in 0..SegSecs - 1, Serve(late) PROVE DatesInv'
  <2> DEFINE a == NextAnchor(index.first, now + late)
             old == served.list
  <2>1. /\ UNCHANGED <<window, run, cur, index, staleEver>> /\ index # NoList /\ server = "ready"
        /\ anchor' = a /\ served' = Rebuilt
        /\ moved' => moved \/ (old.run = index.run /\
             \E n \in (old.first..old.last) \cap (index.first..index.last) :
               DateOf(n, old.first, anchor.epoch) # DateOf(n, index.first, a.epoch))
    BY <1>7 DEF Serve, encVars, listVars
  <2>2. index = Latest /\ cur >= 1 /\ ~moved /\ run = 1
    BY <1>0, <2>1 DEF DatesInv, ClockInv
  <2>3. /\ index.first = FirstListed /\ index.last = cur - 1 /\ index.run = 1
        /\ FirstListed \in Nat /\ FirstListed <= cur - 1 /\ index.first \in Int /\ index.last \in Int
        /\ old.first \in Int /\ old.last \in Int /\ window >= 1
    BY <1>0, <2>2, Ranges DEF Latest, FirstListed
  <2>4. anchor # NoAnchor => anchor.seq <= FirstListed
    BY <1>0, <2>1, <2>2 DEF DatesInv
  <2>5. a.seq = FirstListed /\ 0 < Ahead(a) /\ Ahead(a) < (window + 1) * SegSecs
    <3>1. CASE anchor = NoAnchor
      BY <2>2, <2>3, <3>1, FirstAnchor
    <3>2. CASE anchor # NoAnchor
      <4>1. a.seq = FirstListed /\ Ahead(a) = Ahead(anchor)
        BY <2>3, <2>4, <3>2, MovedAnchor
      <4>2. 0 < Ahead(anchor) /\ Ahead(anchor) < (window + 1) * SegSecs
        BY <2>1, <2>2, <3>2 DEF DatesInv, Ahead
      <4> QED
        BY <4>1, <4>2
    <3> QED
      BY <3>1, <3>2
  <2>6. ~moved'
    <3>1. CASE served = NoneServed
      <4>1. old.run = 0
        BY <3>1 DEF NoneServed, NoList, NoRun
      <4> HIDE DEF a
      <4> QED
        BY <2>1, <2>2, <2>3, <4>1
    <3>2. CASE served # NoneServed
      <4>1. anchor # NoAnchor /\ old.first = anchor.seq
        BY <2>1, <2>2, <3>2 DEF DatesInv
      <4>2. \A n \in Int : DateOf(n, anchor.seq, anchor.epoch) = DateOf(n, index.first, a.epoch)
        BY <2>3, <2>4, <4>1, MovedAnchor
      <4>3. \A n \in old.first..old.last :
              DateOf(n, old.first, anchor.epoch) = DateOf(n, index.first, a.epoch)
        BY <2>3, <4>1, <4>2
      <4> HIDE DEF a
      <4> QED
        BY <2>1, <2>2, <4>3
    <3> QED
      BY <3>1, <3>2
  <2>7. a \in [seq : Names, epoch : Nat] /\ a # NoAnchor
    <3>1. a \in [seq : Names, epoch : Nat]
      BY <2>1, AnchorType
    <3> QED
      BY <3>1 DEF NoAnchor, NoDate
  <2>8. Latest' = Latest /\ FirstListed' = FirstListed
    BY <2>1 DEF Latest, FirstListed
  <2>9. served'.list = index
    BY <2>1 DEF Rebuilt
  <2>10. served'.list.first = FirstListed /\ served'.list.first <= served'.list.last
    BY <1>0, <2>3, <2>9
  <2> HIDE DEF a
  <2>11. anchor'.seq <= FirstListed /\ anchor'.seq = FirstListed
    BY <2>1, <2>3, <2>5
  <2>12. LET ahead == anchor'.epoch - (anchor'.seq + 1) * SegSecs
         IN  0 < ahead /\ ahead < (window + 1) * SegSecs
    BY <2>1, <2>5 DEF Ahead
  <2>13. served'.list.first = anchor'.seq
    BY <2>10, <2>11
  <2> QED
    BY <2>1, <2>2, <2>6, <2>7, <2>8, <2>10, <2>11, <2>12, <2>13 DEF DatesInv
<1> QED
  BY <1>2, <1>3, <1>4, <1>5, <1>6, <1>7 DEF Next

-----------------------------------------------------------------------------
(* The theorems.                                                            *)

LEMMA Initially == Init => PlayInv
<1> SUFFICES ASSUME Init PROVE PlayInv
  OBVIOUS
<1>1. /\ Windows # {} /\ window \in Windows /\ failover \in BOOLEAN /\ now = SegSecs /\ pc = "idle"
      /\ running = FALSE /\ run = 0 /\ cur = 0 /\ disk = [n \in Names |-> 0]
      /\ index = NoList /\ staleEver = FALSE /\ putBack = FALSE /\ monitor = FALSE
      /\ victims = {} /\ clobbered = {} /\ inj = NoList /\ server = "none" /\ anchor = NoAnchor
      /\ served = NoneServed /\ moved = FALSE /\ crashes = FALSE
  BY DEF Init, NoRun
<1>2. Names \subseteq Nat /\ 0 \in Names /\ SegSecs \in Nat /\ window \in Nat /\ window >= 1
  BY <1>1, NameRange
<1>3. TypeOK
  <2>1. NoneServed \in [list : Lists, cur : Names] /\ NoList \in Lists
    BY <1>2 DEF NoneServed, Lists
  <2>2. NoAnchor.seq \in Names /\ NoAnchor.epoch \in Dates
    BY <1>2 DEF NoAnchor, Dates
  <2>3. MaxRuns \in Nat /\ disk \in [Names -> 0..MaxRuns]
    BY <1>1, HlsAssumption
  <2> QED
    BY <1>1, <1>2, <2>1, <2>2, <2>3 DEF TypeOK
<1>4. EncoderInv /\ KeptInv /\ ListInv /\ AnchorInv /\ WipedExplained
  <2>1. Written(NoList) /\ served.list = NoList
    BY <1>1, <1>3, NoListWritten DEF NoneServed
  <2>2. ListInv
    BY <1>1, <2>1 DEF ListInv
  <2> QED
    BY <1>1, <1>2, <2>2 DEF EncoderInv, KeptInv, AnchorInv, WipedExplained
<1>5. MonitorInv
  BY <1>1, <1>2 DEF MonitorInv, NoRun
<1>6. ClockInv
  BY <1>1, <1>2 DEF ClockInv
<1>7. DatesInv
  BY <1>1, <1>2 DEF DatesInv
<1>8. CleanAfterStop
  BY <1>1, <1>2 DEF CleanAfterStop, Files, NoRun
<1> QED
  BY <1>3, <1>4, <1>5, <1>6, <1>7, <1>8 DEF PlayInv

LEMMA Invariant == Spec => []PlayInv
<1>1. PlayInv /\ [Next]_vars => PlayInv'
  <2> SUFFICES ASSUME PlayInv, [Next]_vars PROVE PlayInv'
    OBVIOUS
  <2>1. TypeOK' /\ AnchorInv'
    BY TypeStep DEF PlayInv
  <2> QED
    BY <2>1, EncoderStep, MonitorStep, KeptStep, ListStep, ClockStep, DatesStep, WipedStep, CleanStep
    DEF PlayInv
<1> QED
  BY <1>1, Initially, PTL DEF Spec

(* TypeOK: also the anchor of the dates stays a time, and a list names      *)
(* segments of a run.                                                       *)
THEOREM PlaybackTypes == Spec => []TypeOK
<1>1. PlayInv => TypeOK
  BY DEF PlayInv
<1> QED
  BY <1>1, Invariant, PTL

(* PlaylistStaysPlayable: three windows of files are enough, for any        *)
(* window, for FFmpeg's latest list and, less its age, for one put back.     *)
(* The argument: what the monitor lists of the run lies three windows        *)
(* behind, the files it removes later are no newer, and the first segment of *)
(* a list lies less than one window before its last, whatever its age.       *)
THEOREM PlaylistPlayable == Spec => []PlaylistStaysPlayable
<1>1. PlayInv => PlaylistStaysPlayable
  <2> SUFFICES ASSUME PlayInv, running, served.list.run = run,
                      cur - served.cur < 2 * window - Age,
                      NEW n \in served.list.first..served.list.last
               PROVE  disk[n] = run \/ Wiped(run, n)
    BY DEF PlaylistStaysPlayable
  <2>1. /\ cur \in Nat /\ window \in Nat /\ served.list.first \in Nat /\ served.list.last \in Nat
        /\ served.cur \in Nat /\ Retain = 3 * window /\ cur \in Names /\ run \in Nat
        /\ \A k \in Nat : k <= cur => k \in Names
    <3>1. TypeOK /\ cur \in Names
      BY DEF PlayInv, TypeOK
    <3> QED
      BY <3>1, Ranges
  <2>2. served.list.first + window > served.list.last /\ served.list.last < cur
    <3>1. Written(served.list) /\ served.list.run # NoRun
      BY <2>1 DEF PlayInv, ListInv, EncoderInv, NoRun
    <3> QED
      BY <3>1 DEF Written
  <2>3. cur <= served.list.last + 2 * window
    BY <2>1 DEF Age
  <2>4. n \in Nat /\ n <= cur /\ n + Retain > cur
    BY <2>1, <2>2, <2>3
  <2> QED
    BY <2>1, <2>4 DEF PlayInv, KeptInv
<1> QED
  BY <1>1, Invariant, PTL

(* WipedExplained: only files kept over restarts, or a monitor that         *)
(* outlived a dead FFmpeg, lead to the removal of a newer file.             *)
THEOREM NewFilesWiped == Spec => []WipedExplained
<1>1. PlayInv => WipedExplained
  BY DEF PlayInv
<1> QED
  BY <1>1, Invariant, PTL

(* CleanAfterStop: a Stop leaves no segments, and a playlist only when the  *)
(* metadata thread puts one back.                                           *)
THEOREM StopCleans == Spec => []CleanAfterStop
<1>1. PlayInv => CleanAfterStop
  BY DEF PlayInv
<1> QED
  BY <1>1, Invariant, PTL

LEMMA FirstRunFacts ==
  ASSUME PlayInv, FirstRunServed
  PROVE  LET l == served.list IN
         /\ l.first \in Nat /\ l.last \in Nat /\ l.first <= l.last /\ window \in Nat
         /\ SegSecs \in Nat /\ SegSecs >= 1 /\ anchor.epoch \in Nat
         /\ \A n \in Int : LET ahead == DateOf(n, l.first, anchor.epoch) - Began(n)
                           IN  /\ 0 < ahead /\ ahead < (window + 1) * SegSecs
                               /\ DateOf(n, l.first, anchor.epoch) \in Int
                               /\ Began(n) \in Int /\ (window + 1) * SegSecs \in Int
                               /\ Began(n - 1) = Began(n) - SegSecs
<1> DEFINE l == served.list
           f == l.first
           e == anchor.epoch
           ahead == e - (f + 1) * SegSecs
<1>1. f \in Nat /\ l.last \in Nat /\ window \in Nat /\ SegSecs \in Nat /\ SegSecs >= 1
  BY Ranges DEF PlayInv
<1>2. /\ anchor # NoAnchor /\ f = anchor.seq /\ f <= l.last
      /\ 0 < ahead /\ ahead < (window + 1) * SegSecs
  BY DEF PlayInv, DatesInv, FirstRunServed
<1>3. e \in Nat
  BY <1>2 DEF PlayInv, AnchorInv
<1>4. ASSUME NEW n \in Int
      PROVE  /\ DateOf(n, f, e) - Began(n) = ahead /\ DateOf(n, f, e) \in Int /\ Began(n) \in Int
             /\ (window + 1) * SegSecs \in Int /\ Began(n - 1) = Began(n) - SegSecs
  <2> HIDE DEF f, e, l
  <2>1. /\ (n - f) * SegSecs = n * SegSecs - f * SegSecs
        /\ (f + 1) * SegSecs = f * SegSecs + SegSecs
        /\ SegSecs * (n + 1) = n * SegSecs + SegSecs
        /\ SegSecs * ((n - 1) + 1) = n * SegSecs
        /\ n * SegSecs \in Int /\ f * SegSecs \in Int /\ (window + 1) * SegSecs \in Int
    BY <1>1, SMT
  <2> QED
    BY <1>1, <1>3, <2>1 DEF DateOf, Began
<1> HIDE DEF ahead
<1> QED
  BY <1>1, <1>2, <1>3, <1>4

(* DatesRight: dates do not move while the run goes on, they are ahead of   *)
(* the segments by less than a window and a segment, and so is the mark of  *)
(* a break, for any window and segment length.  The argument: anchor and    *)
(* date move together, by whole segments, and the guess is made once.       *)
THEOREM DatesHold == Spec => []DatesRight
<1>1. PlayInv => DatesKept
  <2> SUFFICES ASSUME PlayInv, moved, ~staleEver, ~(run > 1) PROVE FALSE
    BY DEF DatesKept
  <2>1. run <= 1
    <3>1. run \in Nat
      BY Ranges DEF PlayInv
    <3> QED
      BY <3>1
  <2> QED
    BY <2>1 DEF PlayInv, DatesInv
<1>2. PlayInv => DatesAhead
  <2> SUFFICES ASSUME PlayInv, FirstRunServed, NEW n \in served.list.first..served.list.last
               PROVE  LET ahead == DateOf(n, served.list.first, anchor.epoch) - Began(n)
                      IN  0 < ahead /\ ahead < (window + 1) * SegSecs
    BY DEF DatesAhead
  <2> QED
    BY FirstRunFacts
<1>3. PlayInv => BreakMarked
  <2> DEFINE l == served.list
             D(n) == DateOf(n, l.first, anchor.epoch)
  <2> SUFFICES ASSUME PlayInv, FirstRunServed, NEW t \in 1..now
               PROVE  LET n == TagAt(l, anchor.epoch, t) IN
                      /\ t <= Began(l.last) => n # NoTag
                      /\ n # NoTag => Began(n) > t - (window + 1) * SegSecs
                      /\ n \notin {NoTag, l.first} => Began(n) < t + SegSecs
    BY DEF BreakMarked
  <2>1. /\ l.first \in Nat /\ l.last \in Nat /\ l.first <= l.last /\ t \in Int /\ SegSecs \in Nat
        /\ \A n \in Int : /\ 0 < D(n) - Began(n) /\ D(n) - Began(n) < (window + 1) * SegSecs
                          /\ D(n) \in Int /\ Began(n) \in Int /\ (window + 1) * SegSecs \in Int
                          /\ Began(n - 1) = Began(n) - SegSecs
    <3>1. t \in Int
      BY Ranges DEF PlayInv
    <3> QED
      BY <3>1, FirstRunFacts
  <2> DEFINE after == {n \in l.first..l.last : D(n) >= t}
             n == TagAt(l, anchor.epoch, t)
  <2>2. n = IF after = {} THEN NoTag ELSE Min(after)
    BY DEF TagAt
  <2>3. after \in SUBSET Nat
    BY <2>1
  <2>4. ASSUME t <= Began(l.last) PROVE after # {} /\ n # NoTag
    <3>1. l.last \in after
      BY <2>1, <2>4
    <3>2. Min(after) \in Nat
      BY <2>3, <3>1, MinOf
    <3> QED
      BY <2>2, <3>1, <3>2 DEF NoTag
  <2>5. ASSUME n # NoTag PROVE n \in after /\ n \in Int /\ \A m \in after : n <= m
    <3>1. after # {}
      BY <2>2, <2>5
    <3> QED
      BY <2>2, <2>3, <3>1, MinOf
  <2> HIDE DEF n
  <2>6. ASSUME n # NoTag PROVE Began(n) > t - (window + 1) * SegSecs
    BY <2>1, <2>5, <2>6
  <2>7. ASSUME n # NoTag, n # l.first PROVE Began(n) < t + SegSecs
    <3>1. n \in Int /\ n \in l.first..l.last /\ n - 1 \in l.first..l.last
      BY <2>1, <2>5, <2>7
    <3>2. n - 1 \notin after
      <4>1. ~(n <= n - 1)
        BY <3>1
      <4> HIDE DEF after
      <4> QED
        BY <2>5, <2>7, <4>1
    <3>3. n - 1 \in Int /\ ~(D(n - 1) >= t)
      BY <3>1, <3>2
    <3> HIDE DEF D
    <3> QED
      BY <2>1, <3>1, <3>3
  <2> QED
    BY <2>4, <2>6, <2>7 DEF n
<1> QED
  BY <1>1, <1>2, <1>3, Invariant, PTL DEF DatesRight
=============================================================================
