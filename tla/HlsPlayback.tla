----------------------------- MODULE HlsPlayback -----------------------------
(***************************************************************************)
(* The HLS output of one encoder: FFmpeg writes numbered segments and a    *)
(* playlist of the last window of them, the segment monitor removes the    *)
(* oldest files, the metadata thread rewrites the playlist with a title,   *)
(* and the HTTP thread serves it with a PROGRAM-DATE-TIME per segment,     *)
(* computed from an anchor that outlives the run (worker.cpp).             *)
(*                                                                         *)
(* A segment's name is its number, which starts at 0 in every run; the     *)
(* model tells the files of one name apart by the run that wrote them.     *)
(* Modification times order files by run, then by number.                  *)
(* Titles, durations and all tags but the dates and the mark of a break    *)
(* are left out, as is the monitor's set of names already logged.  Every   *)
(* Stop and every Start is under m_streamMutex; how commands and polls     *)
(* interleave on the flags is the subject of StreamLifecycle.              *)
(***************************************************************************)
EXTENDS Integers, FiniteSets, FiniteSetsExt

CONSTANTS
  Windows,   \* values of window in hls.json, after the default for values <= 0
  SegSecs,   \* hls.json: segmentSeconds, in half-units (the anchor halves it)
  ResetGap,  \* 50 in the code: a first number this far back is a new stream
  MaxSeg,    \* bound: last segment number of a run, for each window
  MaxRuns    \* bound: starts of FFmpeg

ASSUME HlsAssumption ==
  /\ Windows \subseteq Nat \ {0} /\ IsFiniteSet(Windows) /\ SegSecs \in Nat \ {0} /\ ResetGap \in Nat
  /\ MaxSeg \in [Windows -> Nat] /\ MaxRuns \in Nat

Names   == 0..Max({MaxSeg[w] : w \in Windows})
Runs    == 1..MaxRuns
NoRun   == 0
NoList  == [run |-> NoRun, first |-> 0, last |-> 0]
Lists   == [run : Runs, first : Names, last : Names] \cup {NoList}
NoDate  == -1
NoTag   == -1
Dates   == Nat \cup {NoDate}
NoAnchor == [seq |-> 0, epoch |-> NoDate]
NoneServed == [list |-> NoList, cur |-> 0]

VARIABLES
  failover, window,  \* hls.json: failoverConfigured, window
  now,               \* the clock, moved by the segments FFmpeg finishes
  pc,                \* startHLS: "idle", or "threads" once FFmpeg is launched
  running,           \* m_hlsRunning, m_hlsProc
  run, cur,          \* FFmpeg: the run, the segment being written
  disk,              \* segments/: the run that wrote each name, NoRun if absent
  index,             \* index.m3u8
  monitor, victims,  \* m_hlsSegMonRunning; files a pass of it decided to remove
  inj,               \* playlist the metadata thread has read and not yet written
  server, anchor,    \* HTTP thread, s_anchorSeq and s_anchorEpoch
  served, moved,     \* history: the playlist served last, with cur at that time; a date changed
  staleEver,         \* history: an outdated playlist was put back
  putBack,           \* history: a playlist was put back where the last cleanup had removed it
  clobbered,         \* history: newer files removed on the word of an old scan
  crashes            \* history: FFmpeg died by itself

encVars  == <<running, run, cur, disk, now>>
listVars == <<index, staleEver, putBack>>
monVars  == <<monitor, victims, clobbered>>
webVars  == <<anchor, served, moved>>
vars == <<failover, window, pc, encVars, listVars, monVars, inj, server, webVars, crashes>>

Init ==
  /\ failover \in BOOLEAN /\ window \in Windows
  /\ now = SegSecs /\ pc = "idle"
  /\ running = FALSE /\ run = NoRun /\ cur = 0
  /\ disk = [n \in Names |-> NoRun]
  /\ index = NoList /\ staleEver = FALSE /\ putBack = FALSE
  /\ monitor = FALSE /\ victims = {} /\ clobbered = {}
  /\ inj = NoList
  /\ server = "none" /\ anchor = NoAnchor
  /\ served = NoneServed /\ moved = FALSE
  /\ crashes = FALSE

-----------------------------------------------------------------------------
(* Start and stop.                                                          *)

Retain == 3 * window

\* cleanupHlsOutputFiles, bypassed when failover is configured.
CleanDisk  == IF failover THEN disk ELSE [n \in Names |-> NoRun]
CleanIndex == IF failover THEN index ELSE NoList

\* startHLS up to launchFfmpeg: clean, then FFmpeg opens segment-0.  A
\* monitor and a server left over from a run that died are still at work.
StartLaunch ==
  /\ pc = "idle" /\ ~running /\ run < MaxRuns
  /\ run' = run + 1 /\ cur' = 0
  /\ disk' = [CleanDisk EXCEPT ![0] = run + 1]
  /\ index' = CleanIndex /\ putBack' = FALSE
  /\ running' = TRUE
  /\ served' = NoneServed
  /\ pc' = "threads"
  /\ UNCHANGED <<failover, window, now, staleEver, monVars, inj, server, anchor, moved, crashes>>

\* launchFfmpeg fails: the files are gone, nothing runs.
StartFails ==
  /\ pc = "idle" /\ ~running
  /\ disk' = CleanDisk /\ index' = CleanIndex /\ putBack' = FALSE
  /\ UNCHANGED <<failover, window, now, pc, running, run, cur, staleEver, monVars, inj, server, webVars,
                 crashes>>

\* The rest of startHLS: the old monitor finishes its pass and is joined, the
\* old server too; there is a new one if a port is configured.
StartThreads ==
  /\ pc = "threads"
  /\ victims = {}
  /\ monitor' = TRUE
  /\ server' \in {"none", "starting"}
  /\ pc' = "idle"
  /\ UNCHANGED <<failover, window, encVars, listVars, victims, clobbered, inj, webVars, crashes>>

\* Mutant: the index is forgotten in the cleanup.
StopHLSKeepsIndex ==
  /\ pc = "idle" /\ victims = {}
  /\ monitor' = FALSE /\ server' = "none" /\ running' = FALSE
  /\ disk' = CleanDisk /\ putBack' = FALSE
  /\ served' = NoneServed
  /\ UNCHANGED <<failover, window, now, pc, run, cur, index, staleEver, victims, clobbered, inj,
                 anchor, moved, crashes>>

\* Mutant: the monitor is told to stop and not joined.
StopHLSNoJoin ==
  /\ pc = "idle"
  /\ monitor' = FALSE /\ server' = "none" /\ running' = FALSE
  /\ disk' = CleanDisk /\ index' = CleanIndex /\ putBack' = FALSE
  /\ served' = NoneServed
  /\ UNCHANGED <<failover, window, now, pc, run, cur, staleEver, victims, clobbered, inj,
                 anchor, moved, crashes>>

\* stopHLS: monitor and server are joined, FFmpeg killed, the files removed.
StopHLS ==
  /\ pc = "idle" /\ victims = {}
  /\ monitor' = FALSE /\ server' = "none" /\ running' = FALSE
  /\ disk' = CleanDisk /\ index' = CleanIndex /\ putBack' = FALSE
  /\ served' = NoneServed
  /\ UNCHANGED <<failover, window, now, pc, run, cur, staleEver, victims, clobbered, inj,
                 anchor, moved, crashes>>

\* pollSinkProcesses notices that FFmpeg died: flag and handle are cleared,
\* the monitor and the server keep going.
FfmpegDies ==
  /\ pc = "idle" /\ running
  /\ running' = FALSE /\ crashes' = TRUE
  /\ UNCHANGED <<failover, window, now, pc, run, cur, disk, listVars, monVars, inj, server, webVars>>

-----------------------------------------------------------------------------
(* FFmpeg's segment muxer (external).                                       *)

\* Mutant: the first number of the list is not held at 0.
ListedNegative == [run |-> run, first |-> cur - window + 1, last |-> cur]

\* -segment_list_size: the last window segments.
Listed == [run |-> run, first |-> Max({0, cur - window + 1}), last |-> cur]

\* The list is replaced when a segment is complete; then the next one opens.
WriteSegment ==
  /\ running /\ cur < MaxSeg[window]
  /\ index' = Listed
  /\ cur' = cur + 1
  /\ disk' = [disk EXCEPT ![cur + 1] = run]
  /\ now' = now + SegSecs
  /\ UNCHANGED <<failover, window, pc, running, run, staleEver, putBack, monVars, inj, server, webVars,
                 crashes>>

-----------------------------------------------------------------------------
(* monitorHlsSegments.                                                      *)

Files == {n \in Names : disk[n] # NoRun}

Older(m, n) == disk[m] < disk[n] \/ (disk[m] = disk[n] /\ m < n)

\* Mutant: the window itself is taken for the number to keep.
OldestWindow == {n \in Files : Cardinality({m \in Files : Older(n, m)}) >= window}

\* All but the Retain newest.
Oldest == {n \in Files : Cardinality({m \in Files : Older(n, m)}) >= Retain}

\* The directory is listed and sorted.
MonitorScan ==
  /\ monitor /\ victims = {} /\ Oldest # {}
  /\ victims' = {[name |-> n, run |-> disk[n]] : n \in Oldest}
  /\ UNCHANGED <<failover, window, pc, encVars, listVars, monitor, clobbered, inj, server, webVars, crashes>>

\* The files are removed by name, whoever wrote them by now.
MonitorRemove ==
  LET names == {v.name : v \in victims} IN
  /\ victims # {}
  /\ disk' = [n \in Names |-> IF n \in names THEN NoRun ELSE disk[n]]
  /\ clobbered' = clobbered \cup
       {[name |-> v.name, run |-> disk[v.name]] : v \in {w \in victims : disk[w.name] > w.run}}
  /\ victims' = {}
  /\ UNCHANGED <<failover, window, now, pc, running, run, cur, listVars, monitor, inj, server, webVars,
                 crashes>>

-----------------------------------------------------------------------------
(* injectHlsMetadataIntoPlaylist, on the metadata thread.                   *)

InjectRead ==
  /\ running /\ pc = "idle"
  /\ inj = NoList /\ index # NoList
  /\ inj' = index
  /\ UNCHANGED <<failover, window, pc, encVars, listVars, monVars, server, webVars, crashes>>

\* The rename: the lines are those that were read, only a title changed.
InjectWrite ==
  /\ inj # NoList
  /\ index' = inj /\ inj' = NoList
  /\ staleEver' = (staleEver \/ inj # index)
  /\ putBack' = (putBack \/ index = NoList)
  /\ UNCHANGED <<failover, window, pc, encVars, monVars, server, webVars, crashes>>

-----------------------------------------------------------------------------
(* serveHlsHttp.                                                            *)

\* The socket is bound and listening.
ServerReady ==
  /\ server = "starting"
  /\ server' = "ready"
  /\ UNCHANGED <<failover, window, pc, encVars, listVars, monVars, inj, webVars, crashes>>

\* socket() or bind() fails: the thread ends, FFmpeg goes on without it.
ServerFails ==
  /\ server = "starting"
  /\ server' = "none"
  /\ UNCHANGED <<failover, window, pc, encVars, listVars, monVars, inj, webVars, crashes>>

\* Mutant: the date moves with the list, the number it belongs to does not.
NextAnchorSameSeq(first, t) ==
  IF anchor = NoAnchor \/ first < anchor.seq - ResetGap
  THEN [seq |-> first, epoch |-> t - (SegSecs \div 2)]
  ELSE IF first > anchor.seq
       THEN [anchor EXCEPT !.epoch = @ + (first - anchor.seq) * SegSecs]
       ELSE anchor

\* Set anew, at time t, for the first list and for one far behind, moved
\* forward with the list, left alone by one a little behind.
NextAnchor(first, t) ==
  IF anchor = NoAnchor \/ first < anchor.seq - ResetGap
  THEN [seq |-> first, epoch |-> t - (SegSecs \div 2)]
  ELSE IF first > anchor.seq
       THEN [seq |-> first, epoch |-> anchor.epoch + (first - anchor.seq) * SegSecs]
       ELSE anchor

DateOf(n, first, date) == date + (n - first) * SegSecs

\* Mutant: the search for the place of the tag does not end at the first fit.
TagAtLast(list, date, start) ==
  IF start > DateOf(list.last, list.first, date) THEN NoTag ELSE list.last

\* injectHlsScteDateRange, for a break that is open: its tag stands before the
\* first segment dated at its start or later; there is none, and no tag, for
\* a break that starts after the date of the last segment.
TagAt(list, date, start) ==
  LET after == {n \in list.first..list.last : DateOf(n, list.first, date) >= start}
  IN  IF after = {} THEN NoTag ELSE Min(after)

\* What the client gets: tags, titles and the order of lines change, the
\* segments stay as they were read.
Rebuilt == [list |-> index, cur |-> cur]

\* GET /hls/index.m3u8, late after the end of a segment: the first segment
\* gets the anchor's date, each following one SegSecs more.
Serve(late) ==
  LET a      == NextAnchor(index.first, now + late)
      old    == served.list
      common == (old.first..old.last) \cap (index.first..index.last) IN
  /\ server = "ready" /\ index # NoList
  /\ anchor' = a
  /\ served' = Rebuilt
  /\ moved' = (moved \/ (old.run = index.run /\ \E n \in common :
                          DateOf(n, old.first, anchor.epoch) # DateOf(n, index.first, a.epoch)))
  /\ UNCHANGED <<failover, window, pc, encVars, listVars, monVars, inj, server, crashes>>

Next ==
  \/ StartLaunch \/ StartFails \/ StartThreads \/ StopHLS \/ FfmpegDies
  \/ WriteSegment
  \/ MonitorScan \/ MonitorRemove
  \/ InjectRead \/ InjectWrite
  \/ ServerReady \/ ServerFails
  \/ \E late \in 0..SegSecs - 1 : Serve(late)

Spec == Init /\ [][Next]_vars

-----------------------------------------------------------------------------
(* Properties.                                                              *)

TypeOK ==
  /\ failover \in BOOLEAN /\ window \in Windows /\ now \in Nat /\ pc \in {"idle", "threads"}
  /\ running \in BOOLEAN /\ run \in 0..MaxRuns /\ cur \in Names
  /\ disk \in [Names -> 0..MaxRuns]
  /\ index \in Lists /\ staleEver \in BOOLEAN /\ putBack \in BOOLEAN
  /\ monitor \in BOOLEAN /\ server \in {"none", "starting", "ready"} /\ crashes \in BOOLEAN
  /\ victims \subseteq [name : Names, run : Runs]
  /\ clobbered \subseteq [name : Names, run : Runs]
  /\ inj \in Lists
  /\ anchor.seq \in Names /\ anchor.epoch \in Dates
  /\ served \in [list : Lists, cur : Names]
  /\ moved \in BOOLEAN

Wiped(r, n) == [name |-> n, run |-> r] \in clobbered

\* How many segments FFmpeg had completed, when the playlist was served, since
\* it wrote it: 0 for its latest, more for one the metadata thread put back.
Age == (served.cur - 1) - served.list.last

\* Keeping three windows of files is enough for slow clients: while a run
\* goes on, every segment of the playlist served last is still there, in the
\* version of this run, until FFmpeg has begun 2 * window further segments.
\* Two things shorten this.  A list that the metadata thread put back over a
\* newer one lasts for as many segments less as it is old: when it is
\* 2 * window old or more, its first segment may be gone when it is served.  A
\* file can be removed on the word of an older scan.  Nothing is said of a list
\* of an earlier run (kept by failover, or put back after a restart): its names
\* are taken anew.
PlaylistStaysPlayable ==
  LET l == served.list IN
  running /\ l.run = run /\ cur - served.cur < 2 * window - Age =>
    \A n \in l.first..l.last : disk[n] = run \/ Wiped(run, n)

\* The monitor removes a file newer than the one it listed only where runs
\* overlap on disk: files are kept over restarts (failover), or a run died
\* and its monitor is still at work when the next FFmpeg starts.
WipedExplained == clobbered # {} => failover \/ crashes

\* A segment keeps its date from one playlist served to the next, however far
\* the window moved in between, as long as no outdated playlist was put back
\* by the metadata thread and the process is in its first run.
DatesKept == moved => staleEver \/ run > 1

\* In the first run FFmpeg opens segment n at this time (n >= 0).
Began(n) == SegSecs * (n + 1)

FirstRunServed ==
  served # NoneServed /\ run = 1 /\ ~staleEver /\ ~crashes

\* The dates are a guess made when the first client comes, from the length of
\* the list it gets.  They are ahead of the time at which the segment began,
\* by less than a window and one segment, and stay so for the whole run.
DatesAhead ==
  FirstRunServed =>
    \A n \in served.list.first..served.list.last :
      LET ahead == DateOf(n, served.list.first, anchor.epoch) - Began(n)
      IN  0 < ahead /\ ahead < (window + 1) * SegSecs

\* What this does to the mark of a break in the audio: a break that began no
\* later than the last segment listed is marked, never after the first
\* segment that begins after it, but up to a window and a segment too early.
BreakMarked ==
  FirstRunServed =>
    LET l == served.list IN
    \A t \in 1..now :
      LET n == TagAt(l, anchor.epoch, t) IN
      /\ t <= Began(l.last) => n # NoTag
      /\ n # NoTag => Began(n) > t - (window + 1) * SegSecs
      /\ n \notin {NoTag, l.first} => Began(n) < t + SegSecs

(* What clients are told about time.                                        *)
DatesRight == DatesKept /\ DatesAhead /\ BreakMarked

\* After Stop nothing is left, except a playlist the metadata thread had read
\* before this Stop and put back after it.
CleanAfterStop ==
  ~running /\ ~monitor /\ ~failover /\ pc = "idle" =>
    /\ Files = {}
    /\ index # NoList => putBack
=============================================================================
