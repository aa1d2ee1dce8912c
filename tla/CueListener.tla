---------------------------- MODULE CueListener ----------------------------
(***************************************************************************)
(* The cue thread of a worker (listenCueTcpPort in worker.cpp): it listens *)
(* while the SCTE settings in metadata.json say so, serves one client at a *)
(* time until that closes, cuts the stream into messages by the framing in *)
(* force when it last looked at the settings, and hands each message to    *)
(* the gate of CueGate.  The file and m_running are those of               *)
(* MetadataListener.                                                       *)
(*                                                                         *)
(* A byte is a small number: 0 is a blank, 1 the newline, and the first    *)
(* byte of a message names its cue.  In a header the bytes are digits.     *)
(* The sizes of headers, frames and reads are constants here.             *)
(***************************************************************************)
EXTENDS CueGate, MetadataListener

CONSTANTS
  CuePorts,    \* values of scte.listenPort
  Base,        \* number of byte values
  CueOfByte,   \* the cue a message names with its first byte
  HeaderLen,   \* bytes of a length header, 4 in the code
  MaxFrame,    \* longest payload, 1 MiB in the code
  MaxChunk,    \* most bytes one recv returns, 4096 in the code
  MaxStream,   \* bound on the bytes of a client
  MaxClients   \* bound on the clients

ASSUME ListenerAssumption ==
  /\ Base \in Nat /\ CueOfByte \in [2..(Base - 1) -> Cues] /\ Nowhere \notin CuePorts
  /\ HeaderLen \in Nat \ {0} /\ MaxFrame \in Nat /\ MaxChunk \in Nat \ {0}
  /\ MaxStream \in Nat /\ MaxClients \in Nat

Bytes       == 0..(Base - 1)
Framings    == {"newline", "length-prefixed"}
CueSettings == [on : BOOLEAN, port : CuePorts, framing : Framings]

VARIABLES
  cueSet,        \* the SCTE settings in metadata.json
  cuePc,         \* the thread: place
  cueOpen,       \* activePort
  cueFlag,       \* m_cueListenerRunning, as published
  framing,       \* framing as read at the head of the loop
  buf, msgs,     \* bytes not yet cut, messages not yet processed
  got, heard,    \* history: bytes read from the client, messages processed
  clients,       \* counter behind the bound
  after,         \* history: clients accepted since the listener was switched off
  moved          \* history: the port was changed since the socket was opened

clientVars == <<buf, msgs, got, heard>>
cueVars    == <<cueSet, cuePc, cueOpen, cueFlag, framing, clientVars, clients, after, moved>>

CueInit ==
  /\ cueSet \in CueSettings
  /\ cuePc = "loop" /\ cueOpen = Nowhere /\ cueFlag = FALSE
  /\ framing = "newline"
  /\ buf = <<>> /\ msgs = <<>> /\ got = <<>> /\ heard = <<>>
  /\ clients = 0 /\ after = 0 /\ moved = FALSE

-----------------------------------------------------------------------------
(* parseFramedMessages: what a buffer holds, and what stays in it.          *)

\* trimCopy; an empty message is no message.
Trimmed(b) ==
  LET ink == {i \in DOMAIN b : b[i] > 1}
      lo  == CHOOSE i \in ink : \A j \in ink : i <= j
      hi  == CHOOSE i \in ink : \A j \in ink : i >= j
  IN  IF ink = {} THEN <<>> ELSE <<SubSeq(b, lo, hi)>>

\* One round of its loop, from offset o on: how it ends, what it gives, and
\* the offset after it.
Round(kind, out, next) == [kind |-> kind, out |-> out, next |-> next]

Line(b, o) ==
  LET nls == {i \in (o + 1)..Len(b) : b[i] = 1}
      nl  == CHOOSE i \in nls : \A j \in nls : i <= j
  IN  IF nls = {} THEN Round("partial", <<>>, o)
      ELSE Round("whole", Trimmed(SubSeq(b, o + 1, nl - 1)), nl)

\* The big-endian number in a header.
Number(h) ==
  LET value[i \in 0..Len(h)] == IF i = 0 THEN 0 ELSE value[i - 1] * Base + h[i]
  IN  value[Len(h)]

\* A header beyond the limit empties the buffer: nothing after it is kept.
Frame(b, o) ==
  LET from == o + HeaderLen
      size == Number(SubSeq(b, o + 1, from))
  IN  IF Len(b) < from THEN Round("partial", <<>>, o)
      ELSE IF size > MaxFrame THEN Round("oversized", <<>>, Len(b))
      ELSE IF Len(b) < from + size THEN Round("partial", <<>>, o)
      ELSE Round("whole", Trimmed(SubSeq(b, from + 1, from + size)), from + size)

RoundAt(f, b, o) == IF f = "newline" THEN Line(b, o) ELSE Frame(b, o)

\* The rounds from each offset on: the messages, and the offset up to which
\* the buffer is erased.
Rounds(f, b) ==
  LET rounds[o \in 0..Len(b)] ==
        LET r == RoundAt(f, b, o) IN
        IF r.kind = "whole" THEN [rounds[r.next] EXCEPT !.out = r.out \o @]
        ELSE [out |-> <<>>, stop |-> r.next, broken |-> r.kind = "oversized"]
  IN  rounds

Parse(f, b) ==
  LET all == Rounds(f, b)[0]
  IN  [out |-> all.out, rest |-> SubSeq(b, all.stop + 1, Len(b)), broken |-> all.broken]

-----------------------------------------------------------------------------
(* The settings.  POST config/metadata replaces the file; the requests of   *)
(* MetadataListener keep its SCTE part and leave it empty for a moment.     *)

CueSettingsSaved(set) ==
  /\ apiPc = "idle" /\ settings < MaxSettings
  /\ cueSet' = set /\ settings' = settings + 1
  /\ after' = IF set.on THEN 0 ELSE after
  /\ moved' = (moved \/ set.port # cueSet.port)
  /\ UNCHANGED <<cuePc, cueOpen, cueFlag, framing, clientVars, clients, vars,
                 metaOn, metaFile, apiPc, apiOn, apiAt, threadVars, conn, to, packetVars, metaRun,
                 late, dropped, kept>>

\* Settings read from the empty file switch the listener off.
ReadOn == metaFile # Empty /\ cueSet.on

-----------------------------------------------------------------------------
(* The head of the loop.                                                    *)

CueLeaves ==
  /\ cuePc = "loop" /\ ~metaRun
  /\ cuePc' = "gone" /\ cueOpen' = Nowhere /\ cueFlag' = FALSE
  /\ UNCHANGED <<cueSet, framing, clientVars, clients, after, moved, vars, metaVars>>

\* Mutant: the flag stays.
CueOffFlagStays ==
  /\ cuePc = "loop" /\ metaRun /\ ~ReadOn
  /\ cueOpen' = Nowhere
  /\ UNCHANGED <<cueSet, cuePc, cueFlag, framing, clientVars, clients, after, moved, vars, metaVars>>

CueOff ==
  /\ cuePc = "loop" /\ metaRun /\ ~ReadOn
  /\ cueOpen' = Nowhere /\ cueFlag' = FALSE
  /\ UNCHANGED <<cueSet, cuePc, framing, clientVars, clients, after, moved, vars, metaVars>>

\* The socket that is open already is kept, and so is the flag.
CueListens ==
  /\ cuePc = "loop" /\ metaRun /\ ReadOn
  /\ cuePc' = "accept" /\ framing' = cueSet.framing
  /\ cueOpen' = cueSet.port
  /\ IF cueOpen = cueSet.port THEN UNCHANGED <<cueFlag, moved>>
     ELSE cueFlag' = TRUE /\ moved' = FALSE
  /\ got' = <<>> /\ heard' = <<>>
  /\ UNCHANGED <<cueSet, buf, msgs, clients, after, vars, metaVars>>

\* Mutant: the thread goes on without a socket.
CueBindFailsGoesOn ==
  /\ cuePc = "loop" /\ metaRun /\ ReadOn /\ cueOpen # cueSet.port
  /\ cuePc' = "accept" /\ cueOpen' = Nowhere
  /\ UNCHANGED <<cueSet, cueFlag, framing, clientVars, clients, after, moved, vars, metaVars>>

\* The old socket is closed by then; nothing is said of the flag.
CueBindFails ==
  /\ cuePc = "loop" /\ metaRun /\ ReadOn /\ cueOpen # cueSet.port
  /\ cueOpen' = Nowhere
  /\ UNCHANGED <<cueSet, cuePc, cueFlag, framing, clientVars, clients, after, moved, vars, metaVars>>

NoClient ==
  /\ cuePc = "accept"
  /\ cuePc' = "loop"
  /\ UNCHANGED <<cueSet, cueOpen, cueFlag, framing, clientVars, clients, after, moved, vars, metaVars>>

CueAccepts ==
  /\ cuePc = "accept" /\ clients < MaxClients
  /\ cuePc' = "next" /\ clients' = clients + 1
  /\ after' = IF cueSet.on THEN after ELSE after + 1
  /\ UNCHANGED <<cueSet, cueOpen, cueFlag, framing, clientVars, moved, vars, metaVars>>

-----------------------------------------------------------------------------
(* A client.                                                                *)

\* Before each read only m_running is looked at.
WaitForBytes ==
  /\ cuePc = "next" /\ metaRun
  /\ cuePc' = "select"
  /\ UNCHANGED <<cueSet, cueOpen, cueFlag, framing, clientVars, clients, after, moved, vars, metaVars>>

\* Mutant: bytes behind the last whole message are forgotten.
CueReceivesNoRest(chunk) ==
  LET p == Parse(framing, buf \o chunk) IN
  /\ cuePc = "select" /\ Len(got) + Len(chunk) <= MaxStream
  /\ got' = got \o chunk /\ msgs' = p.out
  /\ buf' = IF p.out = <<>> THEN p.rest ELSE <<>>
  /\ cuePc' = IF p.out = <<>> THEN "next" ELSE "message"
  /\ UNCHANGED <<cueSet, cueOpen, cueFlag, framing, heard, clients, after, moved, vars, metaVars>>

CueReceives(chunk) ==
  LET p == Parse(framing, buf \o chunk) IN
  /\ cuePc = "select" /\ Len(got) + Len(chunk) <= MaxStream
  /\ got' = got \o chunk /\ msgs' = p.out /\ buf' = p.rest
  /\ cuePc' = IF p.out = <<>> THEN "next" ELSE "message"
  /\ UNCHANGED <<cueSet, cueOpen, cueFlag, framing, heard, clients, after, moved, vars, metaVars>>

\* processCueMessage: the cue goes through the gate, or the message is
\* rejected before it (delivery type, event ID, token, address).
Gate(m) ==
  \/ TcpRefused(CueOfByte[m[1]])
  \/ \E pass \in BOOLEAN : TcpAccepted(CueOfByte[m[1]], pass)
  \/ UNCHANGED vars

CueMessage ==
  /\ cuePc \in {"message", "last"}
  /\ Gate(Head(msgs))
  /\ heard' = Append(heard, Head(msgs)) /\ msgs' = Tail(msgs)
  /\ cuePc' = IF Len(msgs) > 1 THEN cuePc ELSE IF cuePc = "message" THEN "next" ELSE "loop"
  /\ UNCHANGED <<cueSet, cueOpen, cueFlag, framing, buf, got, clients, after, moved, metaVars>>

\* Mutant: the thread accepts again without a look at the settings.
ClientEndsStays ==
  LET rest == IF framing = "newline" THEN Trimmed(buf) ELSE <<>> IN
  /\ cuePc = "select" \/ (cuePc = "next" /\ ~metaRun)
  /\ msgs' = rest /\ buf' = <<>>
  /\ IF rest = <<>> THEN cuePc' = "accept" /\ got' = <<>> /\ heard' = <<>>
     ELSE cuePc' = "last" /\ UNCHANGED <<got, heard>>
  /\ UNCHANGED <<cueSet, cueOpen, cueFlag, framing, clients, after, moved, vars, metaVars>>

\* The client closes, or the worker ends: a last line needs no newline, a
\* frame that is not whole is lost.
ClientEnds ==
  LET rest == IF framing = "newline" THEN Trimmed(buf) ELSE <<>> IN
  /\ cuePc = "select" \/ (cuePc = "next" /\ ~metaRun)
  /\ msgs' = rest /\ buf' = <<>>
  /\ cuePc' = IF rest = <<>> THEN "loop" ELSE "last"
  /\ UNCHANGED <<cueSet, cueOpen, cueFlag, framing, got, heard, clients, after, moved, vars, metaVars>>

-----------------------------------------------------------------------------
CueLoop == CueLeaves \/ CueOff \/ CueListens \/ CueBindFails \/ NoClient \/ CueAccepts

Client == \/ WaitForBytes \/ CueMessage \/ ClientEnds
          \/ \E n \in 1..MaxChunk : \E chunk \in [1..n -> Bytes] : CueReceives(chunk)

\* The requests that matter to this thread leave the metadata endpoint alone.
FileSteps ==
  \/ \E set \in CueSettings : CueSettingsSaved(set)
  \/ /\ ApiTruncates(metaOn, metaFile) \/ ApiWrites \/ ApiSetsFlag \/ MetaStop
     /\ UNCHANGED <<cueVars, vars>>

CueNext == FileSteps \/ CueLoop \/ Client

CueRest == cuePc = "gone" /\ apiPc = "idle" /\ UNCHANGED <<cueVars, metaVars, vars>>

CueSpec == Init /\ MetaInit /\ CueInit /\ [][CueNext]_<<cueVars, metaVars, vars>>

-----------------------------------------------------------------------------
(* Properties.                                                              *)

CueTypeOK ==
  /\ cueSet \in CueSettings /\ cueFlag \in BOOLEAN /\ framing \in Framings
  /\ cuePc \in {"loop", "accept", "next", "select", "message", "last", "gone"}
  /\ cuePc \in {"accept", "next", "select", "message", "last"} => cueOpen \in CuePorts
  /\ cueOpen \in CuePorts \cup {Nowhere}
  /\ \A b \in {buf, got} : b \in Seq(Bytes) /\ Len(b) <= MaxStream
  /\ msgs # <<>> <=> cuePc \in {"message", "last"}
  /\ clients \in 0..MaxClients /\ after \in Nat /\ moved \in BOOLEAN

(* How TCP cuts the stream into chunks does not matter: the messages        *)
(* processed are those of the whole stream, each once and in order, with    *)
(* the unfinished last line of a client that closes.  After a header beyond *)
(* the limit this is true of what came before it only: what is thrown away  *)
(* then depends on the chunks.                                              *)
FramingExact ==
  LET p    == Parse(framing, got)
      end  == IF framing = "newline" /\ cuePc \in {"last", "loop", "gone"}
              THEN Trimmed(p.rest) ELSE <<>>
      all  == heard \o msgs
  IN  IF p.broken THEN Len(p.out) <= Len(all) /\ SubSeq(all, 1, Len(p.out)) = p.out
      ELSE all = p.out \o end

(* The settings are looked at only between clients.  Once the listener is   *)
(* switched off it accepts one more client at most (and serves it as long   *)
(* as it stays connected).                                                  *)
OneClientAfterOff == after <= 1

(* cueListenerRunning as the supervisor sees it: true whenever the socket   *)
(* is open; true without a socket only after a change of the port, when the *)
(* new port cannot be bound: that path closes the socket and leaves the     *)
(* flag.                                                                    *)
FlagNeedsSocket ==
  /\ cueOpen # Nowhere => cueFlag
  /\ cueFlag /\ cueOpen = Nowhere => moved

(* What metadata/start and the settings page asked of the cue port is what  *)
(* the thread does and says, but for one client and a port it cannot get.   *)
CueSettingsInForce == OneClientAfterOff /\ FlagNeedsSocket
=============================================================================
