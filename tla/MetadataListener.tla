-------------------------- MODULE MetadataListener --------------------------
(***************************************************************************)
(* The metadata thread of a worker (listenMetaPort in worker.cpp): it      *)
(* listens on a port or dials a host, serves one source at a time, and     *)
(* emits what it has read as one event when the source has been silent for *)
(* a second.  The settings are in two files which metadata/start and       *)
(* metadata/stop (supervisor_api.cpp) rewrite, metadata.json in place: a   *)
(* reader between its two steps finds it empty and uses defaults.          *)
(*                                                                         *)
(* A packet is what one recv can return.  A second of silence is a step    *)
(* that finds nothing to read.  What becomes of an emitted event is in     *)
(* DispatchQueue, HlsPlayback and BreakRange; how the flag in              *)
(* runtime_state.json can be lost is in RuntimeStateFile.  The requests    *)
(* that change the settings are handled one at a time.                     *)
(***************************************************************************)
EXTENDS Naturals, Sequences, FiniteSets

CONSTANTS
  Ports, Hosts,   \* endpoints: ports to listen on, hosts to dial
  DefaultPort,    \* where it listens without settings
  Nowhere,        \* no endpoint
  Sources,        \* connections of sources, each used once
  MaxPackets,     \* bound on the packets of a source
  MaxSettings     \* bound on the requests that change the settings

Endpoints == Ports \cup Hosts
Nobody    == "nobody"
Empty     == "empty"

ASSUME MetaAssumption ==
  /\ Ports \cap Hosts = {} /\ DefaultPort \in Ports
  /\ Nowhere \notin Endpoints /\ Empty \notin Endpoints /\ Nobody \notin Sources
  /\ MaxPackets \in Nat /\ MaxSettings \in Nat

VARIABLES
  metaOn, metaFile,     \* metadataListenerRunning; endpoint in metadata.json, or Empty
  apiPc, apiOn, apiAt,  \* metadata/start, stop: place, what it will write
  metaPc, metaAt,       \* the thread: place, endpoint it works for
  metaOpen,             \* activeListenPort
  served, xmlData,      \* the source it serves, what it has read and not emitted
  conn, to,             \* of each source: state of its connection, endpoint it uses
  sent, received,       \* of each source: packets so far
  emitted,              \* history, per source: the packets of its events
  metaRun,              \* m_running
  settings,             \* counter behind the bound
  late,                 \* history: reads from a source the settings have left
  dropped,              \* history: sources whose connection the thread ended by itself
  kept                  \* history: sources every request has kept

apiVars    == <<metaOn, metaFile, apiPc, apiOn, apiAt, settings>>
threadVars == <<metaPc, metaAt, metaOpen, served, xmlData>>
packetVars == <<sent, received, emitted>>
metaVars   == <<apiVars, threadVars, conn, to, packetVars, metaRun, late, dropped, kept>>

MetaInit ==
  /\ metaOn \in BOOLEAN /\ metaFile \in Endpoints
  /\ apiPc = "idle" /\ apiOn = FALSE /\ apiAt = DefaultPort
  /\ metaPc = "loop" /\ metaAt = Nowhere /\ metaOpen = Nowhere
  /\ served = Nobody /\ xmlData = <<>>
  /\ conn = [s \in Sources |-> "none"] /\ to = [s \in Sources |-> Nowhere]
  /\ sent = [s \in Sources |-> 0] /\ received = sent
  /\ emitted = [s \in Sources |-> <<>>]
  /\ metaRun = TRUE /\ settings = 0 /\ late = 0 /\ dropped = {} /\ kept = {}

\* Mutant: an empty file names no endpoint.
ReadNothing == IF metaFile = Empty THEN Nowhere ELSE metaFile

\* What a reader of metadata.json takes the settings to be.
ReadEndpoint == IF metaFile = Empty THEN DefaultPort ELSE metaFile

\* sourceConfigChangeReason: the thread should work for something else.
Changed == ~metaOn \/ ReadEndpoint # metaAt

-----------------------------------------------------------------------------
(* The requests.                                                            *)

\* metadata/start and metadata/stop open the file for writing.
ApiTruncates(on, at) ==
  /\ apiPc = "idle" /\ settings < MaxSettings
  /\ apiPc' = "write" /\ apiOn' = on /\ apiAt' = at
  /\ metaFile' = Empty /\ settings' = settings + 1
  /\ kept' = {s \in kept : on /\ to[s] = at}
  /\ UNCHANGED <<metaOn, threadVars, conn, to, packetVars, metaRun, late, dropped>>

ApiWrites ==
  /\ apiPc = "write"
  /\ apiPc' = "flag" /\ metaFile' = apiAt
  /\ UNCHANGED <<metaOn, apiOn, apiAt, settings, threadVars, conn, to, packetVars, metaRun,
                 late, dropped, kept>>

\* writeRuntimeState.
ApiSetsFlag ==
  /\ apiPc = "flag"
  /\ apiPc' = "idle" /\ metaOn' = apiOn
  /\ UNCHANGED <<metaFile, apiOn, apiAt, settings, threadVars, conn, to, packetVars, metaRun,
                 late, dropped, kept>>

\* POST config/metadata: the file is replaced in one step.
ConfigSaved(at) ==
  /\ apiPc = "idle" /\ settings < MaxSettings
  /\ metaFile' = at /\ settings' = settings + 1
  /\ kept' = {s \in kept : to[s] = at}
  /\ UNCHANGED <<metaOn, apiPc, apiOn, apiAt, threadVars, conn, to, packetVars, metaRun,
                 late, dropped>>

\* ~Worker.
MetaStop ==
  /\ metaRun
  /\ metaRun' = FALSE /\ kept' = {}
  /\ UNCHANGED <<apiVars, threadVars, conn, to, packetVars, late, dropped>>

-----------------------------------------------------------------------------
(* Sources.                                                                 *)

Waiting(s) == conn[s] \in {"queued", "queuedClosed"}

SourceConnects(s) ==
  /\ conn[s] = "none" /\ metaOpen \in Ports
  /\ conn' = [conn EXCEPT ![s] = "queued"] /\ to' = [to EXCEPT ![s] = metaOpen]
  /\ UNCHANGED <<apiVars, threadVars, packetVars, metaRun, late, dropped, kept>>

SourceSends(s) ==
  /\ conn[s] \in {"queued", "open"} /\ sent[s] < MaxPackets
  /\ sent' = [sent EXCEPT ![s] = @ + 1]
  /\ UNCHANGED <<apiVars, threadVars, conn, to, received, emitted, metaRun, late, dropped, kept>>

SourceCloses(s) ==
  /\ conn[s] \in {"queued", "open"}
  /\ conn' = [conn EXCEPT ![s] = IF @ = "queued" THEN "queuedClosed" ELSE "closed"]
  /\ UNCHANGED <<apiVars, threadVars, to, packetVars, metaRun, late, dropped, kept>>

-----------------------------------------------------------------------------
(* The head of the thread's loop: leave, wait, listen or dial.              *)

\* With the listening socket the kernel closes the connections behind it.
HangUp == conn' = [s \in Sources |-> IF Waiting(s) THEN "gone" ELSE conn[s]]

CloseListen == metaOpen' = Nowhere /\ HangUp

LoopLeaves ==
  /\ metaPc = "loop" /\ ~metaRun
  /\ metaPc' = "gone"
  /\ CloseListen
  /\ UNCHANGED <<apiVars, metaAt, served, xmlData, to, packetVars, metaRun, late, dropped, kept>>

LoopOff ==
  /\ metaPc = "loop" /\ metaRun /\ ~metaOn
  /\ CloseListen
  /\ UNCHANGED <<apiVars, metaPc, metaAt, served, xmlData, to, packetVars, metaRun, late, dropped,
                 kept>>

LoopListens ==
  /\ metaPc = "loop" /\ metaRun /\ metaOn /\ ReadEndpoint \in Ports
  /\ metaPc' = "accept" /\ metaAt' = ReadEndpoint
  /\ metaOpen' = ReadEndpoint
  /\ IF metaOpen = ReadEndpoint THEN UNCHANGED conn ELSE HangUp
  /\ UNCHANGED <<apiVars, served, xmlData, to, packetVars, metaRun, late, dropped, kept>>

\* socket() or bind() fails, for example while another has the port.
BindFails ==
  /\ metaPc = "loop" /\ metaRun /\ metaOn /\ ReadEndpoint \in Ports \ {metaOpen}
  /\ CloseListen
  /\ UNCHANGED <<apiVars, metaPc, metaAt, served, xmlData, to, packetVars, metaRun, late, dropped,
                 kept>>

LoopDials ==
  /\ metaPc = "loop" /\ metaRun /\ metaOn /\ ReadEndpoint \in Hosts
  /\ metaPc' = "dial" /\ metaAt' = ReadEndpoint
  /\ CloseListen
  /\ UNCHANGED <<apiVars, served, xmlData, to, packetVars, metaRun, late, dropped, kept>>

-----------------------------------------------------------------------------
(* Coming to serve a source.                                                *)

\* A source the settings in force ask for.
Wanted(at) == metaRun /\ metaOn /\ metaFile = at /\ apiPc = "idle"

Serves(s, at) ==
  /\ metaPc' = "check" /\ served' = s /\ late' = 0
  /\ kept' = IF Wanted(at) THEN kept \cup {s} ELSE kept

NobodyCame ==
  /\ metaPc = "accept" /\ ~\E s \in Sources : Waiting(s)
  /\ metaPc' = "loop"
  /\ UNCHANGED <<apiVars, metaAt, metaOpen, served, xmlData, conn, to, packetVars, metaRun, late,
                 dropped, kept>>

Accept(s) ==
  /\ metaPc = "accept" /\ Waiting(s)
  /\ conn' = [conn EXCEPT ![s] = IF @ = "queued" THEN "open" ELSE "closed"]
  /\ Serves(s, to[s])
  /\ UNCHANGED <<apiVars, metaAt, metaOpen, xmlData, to, packetVars, metaRun, dropped>>

\* Also when host or port are not set.
DialFails ==
  /\ metaPc = "dial"
  /\ metaPc' = "loop"
  /\ UNCHANGED <<apiVars, metaAt, metaOpen, served, xmlData, conn, to, packetVars, metaRun, late,
                 dropped, kept>>

DialSucceeds(s) ==
  /\ metaPc = "dial" /\ conn[s] = "none"
  /\ conn' = [conn EXCEPT ![s] = "open"] /\ to' = [to EXCEPT ![s] = metaAt]
  /\ Serves(s, metaAt)
  /\ UNCHANGED <<apiVars, metaAt, metaOpen, xmlData, packetVars, metaRun, dropped>>

-----------------------------------------------------------------------------
(* processSocketUntilClose.                                                 *)

\* Mutant: the settings are looked at only when nothing is there to read.
CheckPassesBusy ==
  /\ metaPc = "check" /\ metaRun
  /\ sent[served] > received[served] \/ ~Changed
  /\ metaPc' = "select" /\ late' = IF Changed THEN late ELSE 0
  /\ UNCHANGED <<apiVars, metaAt, metaOpen, served, xmlData, conn, to, packetVars, metaRun, dropped,
                 kept>>

\* m_running and the settings, before each read.
CheckPasses ==
  /\ metaPc = "check" /\ metaRun /\ ~Changed
  /\ metaPc' = "select" /\ late' = 0
  /\ UNCHANGED <<apiVars, metaAt, metaOpen, served, xmlData, conn, to, packetVars, metaRun, dropped,
                 kept>>

CheckEnds ==
  /\ metaPc = "check" /\ (~metaRun \/ Changed)
  /\ metaPc' = "tail" /\ dropped' = dropped \cup {served}
  /\ UNCHANGED <<apiVars, metaAt, metaOpen, served, xmlData, conn, to, packetVars, metaRun, late,
                 kept>>

\* recv returns some of what is there.
Receive(n) ==
  /\ metaPc = "select" /\ n \in 1..(sent[served] - received[served])
  /\ received' = [received EXCEPT ![served] = @ + n]
  /\ xmlData' = xmlData \o [i \in 1..n |-> received[served] + i]
  /\ late' = IF Changed /\ apiPc = "idle" THEN late + 1 ELSE late
  /\ metaPc' = "check"
  /\ UNCHANGED <<apiVars, metaAt, metaOpen, served, conn, to, sent, emitted, metaRun, dropped, kept>>

\* emitMetadata; nothing happens without data.
Emit == emitted' = [emitted EXCEPT ![served] = @ \o xmlData]

\* Mutant: the data are not cleared.
SilenceKeepsData ==
  /\ metaPc = "select" /\ conn[served] = "open" /\ sent[served] = received[served]
  /\ Emit
  /\ metaPc' = "check"
  /\ UNCHANGED <<apiVars, metaAt, metaOpen, served, xmlData, conn, to, sent, received, metaRun, late,
                 dropped, kept>>

\* A second of silence.
Silence ==
  /\ metaPc = "select" /\ conn[served] = "open" /\ sent[served] = received[served]
  /\ Emit /\ xmlData' = <<>>
  /\ metaPc' = "check"
  /\ UNCHANGED <<apiVars, metaAt, metaOpen, served, conn, to, sent, received, metaRun, late, dropped,
                 kept>>

\* Mutant: the end is taken for the end before everything was read.
PeerGone ==
  /\ metaPc = "select" /\ conn[served] = "closed"
  /\ metaPc' = "tail"
  /\ UNCHANGED <<apiVars, metaAt, metaOpen, served, xmlData, conn, to, packetVars, metaRun, late,
                 dropped, kept>>

\* recv returns 0.
PeerClosed ==
  /\ metaPc = "select" /\ conn[served] = "closed" /\ sent[served] = received[served]
  /\ metaPc' = "tail"
  /\ UNCHANGED <<apiVars, metaAt, metaOpen, served, xmlData, conn, to, packetVars, metaRun, late,
                 dropped, kept>>

\* Mutant: the connection stays the thread's.
EmitRestStays ==
  /\ metaPc = "tail"
  /\ Emit /\ xmlData' = <<>>
  /\ conn' = [conn EXCEPT ![served] = "gone"]
  /\ metaPc' = "loop"
  /\ UNCHANGED <<apiVars, metaAt, metaOpen, served, to, sent, received, metaRun, late, dropped, kept>>

\* What is left is emitted, the connection closed.
EmitRest ==
  /\ metaPc = "tail"
  /\ Emit /\ xmlData' = <<>>
  /\ conn' = [conn EXCEPT ![served] = "gone"]
  /\ metaPc' = "loop" /\ served' = Nobody
  /\ UNCHANGED <<apiVars, metaAt, metaOpen, to, sent, received, metaRun, late, dropped, kept>>

-----------------------------------------------------------------------------
Api == \/ \E at \in Endpoints : ConfigSaved(at) \/ \E on \in BOOLEAN : ApiTruncates(on, at)
       \/ ApiWrites \/ ApiSetsFlag

Loop == LoopLeaves \/ LoopOff \/ LoopListens \/ BindFails \/ LoopDials \/ NobodyCame \/ DialFails

Serve == \/ CheckPasses \/ CheckEnds \/ Silence \/ PeerClosed \/ EmitRest
         \/ \E n \in 1..MaxPackets : Receive(n)

MetaNext ==
  \/ Api \/ MetaStop \/ Loop \/ Serve
  \/ \E s \in Sources : \/ SourceConnects(s) \/ SourceSends(s) \/ SourceCloses(s)
                        \/ Accept(s) \/ DialSucceeds(s)

\* The thread has left and the requests are answered.
MetaRest == metaPc = "gone" /\ apiPc = "idle" /\ UNCHANGED metaVars

MetaSpec == MetaInit /\ [][MetaNext]_metaVars

-----------------------------------------------------------------------------
(* Properties.                                                              *)

SettingsOK ==
  /\ metaOn \in BOOLEAN /\ metaFile \in Endpoints \cup {Empty}
  /\ apiPc \in {"idle", "write", "flag"} /\ apiOn \in BOOLEAN /\ apiAt \in Endpoints
  /\ metaFile = Empty <=> apiPc = "write"
  /\ settings \in 0..MaxSettings

ServingOK ==
  /\ metaPc \in {"loop", "accept", "dial", "check", "select", "tail", "gone"}
  /\ metaAt \in Endpoints \cup {Nowhere} /\ metaOpen \in Ports \cup {Nowhere}
  /\ metaPc \in {"accept", "dial", "check", "select", "tail"} => metaAt \in Endpoints
  /\ served \in Sources \cup {Nobody} /\ xmlData \in Seq(Nat)
  /\ metaPc \in {"check", "select", "tail"} <=> served # Nobody
  /\ served # Nobody => conn[served] \in {"open", "closed"} /\ to[served] = metaAt
  /\ served = Nobody => xmlData = <<>>
  /\ metaPc = "accept" => metaAt = metaOpen

SourcesOK ==
  /\ conn \in [Sources -> {"none", "queued", "queuedClosed", "open", "closed", "gone"}]
  /\ to \in [Sources -> Endpoints \cup {Nowhere}]
  /\ \A s \in Sources : Waiting(s) => to[s] = metaOpen
  /\ sent \in [Sources -> 0..MaxPackets] /\ received \in [Sources -> 0..MaxPackets]
  /\ emitted \in [Sources -> Seq(Nat)]

MetaTypeOK ==
  /\ SettingsOK /\ ServingOK /\ SourcesOK
  /\ metaRun \in BOOLEAN /\ late \in Nat
  /\ dropped \subseteq Sources /\ kept \subseteq Sources

(* Whatever is read from a source is emitted once and in order, across      *)
(* silence, the end of the stream, changed settings and the worker's end:   *)
(* emitMetadata takes the data and the thread forgets them, in each of the  *)
(* two places.                                                              *)
ReadIsEmitted ==
  \A s \in Sources :
    emitted[s] \o (IF served = s THEN xmlData ELSE <<>>) = [i \in 1..received[s] |-> i]

(* A source that was served and whose connection is over was heard to the   *)
(* end, unless the thread ended the connection because of the settings or   *)
(* the worker's end.                                                        *)
LossIsDropping ==
  \A s \in Sources :
    conn[s] = "gone" /\ (received[s] > 0 \/ s \in kept) => received[s] = sent[s] \/ s \in dropped

(* metadata.json is empty while metadata/start rewrites it, and the thread  *)
(* that looks takes the defaults for changed settings.  Requests that all   *)
(* keep a source in force may therefore disconnect it, but never one on the *)
(* default port.                                                            *)
KeptOnDefaultPort == \A s \in dropped \cap kept : to[s] # DefaultPort

(* When a request has changed the endpoint or the flag, the thread reads    *)
(* from the old source once at most before it leaves it, however busy the   *)
(* source is.                                                               *)
OneLateRead == late <= 1

(* Nothing a served source sends is swallowed: read once and emitted once,  *)
(* to the end of the connection unless the thread ends that.                *)
NothingSwallowed == ReadIsEmitted /\ LossIsDropping

(* The settings in force: left by the next read, not left for others'.      *)
SettingsInForce == KeptOnDefaultPort /\ OneLateRead
=============================================================================
