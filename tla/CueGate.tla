------------------------------- MODULE CueGate -------------------------------
(***************************************************************************)
(* The rate limit and the dedupe window for SCTE cues of one encoder.  A   *)
(* cue comes in by HTTP, through a supervisor thread per connection        *)
(* (supervisor_api.cpp), or by TCP, through the worker's cue thread        *)
(* (worker.cpp).  Each process keeps its own record of recent cues.  The   *)
(* worker checks and records in one critical section; the supervisor       *)
(* checks under g_cueStateMutex, talks to the worker without it, and       *)
(* records afterwards.                                                     *)
(*                                                                         *)
(* Only cues that pass the checks of configuration, source, token and      *)
(* delivery type appear; the others leave before the gate.  The clock is   *)
(* read where the code reads it and never steps back.                      *)
(***************************************************************************)
EXTENDS Integers, Sequences, FiniteSets

CONSTANTS
  Handlers,      \* connection threads of the supervisor
  Cues,          \* cue values
  Matched,       \* the cue values some command row matches
  RateCount,     \* rateLimitCount, after clamping
  RateWindow,    \* rateLimitWindowSec
  DedupeWindow,  \* dedupeSeconds, 0 switches the check off
  MaxTime,       \* bound on the clock
  MaxRequests    \* bound on the cues sent

Never == 0
Times == 1..MaxTime

ASSUME CueAssumption ==
  /\ Matched \subseteq Cues
  /\ RateCount \in Nat \ {0} /\ RateWindow \in Nat \ {0} /\ DedupeWindow \in Nat
  /\ MaxTime \in Nat \ {0} /\ MaxRequests \in Nat
  /\ IsFiniteSet(Handlers) /\ Handlers # {}

VARIABLES
  now,               \* the clock
  times, last,       \* supervisor: recentCueTimesMs, lastByMatch
  wtimes, wlast,     \* worker: recentTimes, byCue
  hpc, hcue, hnow,   \* of each handler: place, cue, clock reading
  executed,          \* history: actions executed, with the cue, the clock reading, the route
  requests           \* counter behind the bound

httpVars == <<times, last, hpc, hcue, hnow>>
tcpVars  == <<wtimes, wlast>>
vars     == <<now, httpVars, tcpVars, executed, requests>>

Executions == [cue : Cues, at : Times, via : {"http", "tcp"}]

Init ==
  /\ now = 1
  /\ times = <<>> /\ last = [c \in Cues |-> Never]
  /\ wtimes = <<>> /\ wlast = [c \in Cues |-> Never]
  /\ hpc = [h \in Handlers |-> "idle"]
  /\ hcue \in [Handlers -> Cues] /\ hnow = [h \in Handlers |-> 1]
  /\ executed = <<>>
  /\ requests = 0

-----------------------------------------------------------------------------
(* The two checks, written twice in the code, alike.                        *)

\* while (front < floor) pop_front(): what lies behind a recent entry stays.
Prune(ts, t) ==
  LET recent == {i \in DOMAIN ts : ts[i] >= t - RateWindow}
      first  == CHOOSE i \in recent : \A j \in recent : i <= j
  IN  IF recent = {} THEN <<>> ELSE SubSeq(ts, first, Len(ts))

RateExceeded(ts) == Len(ts) >= RateCount

\* Mutant: the window excludes its last instant.
DuplicateLate(l, c, t) == l[c] # Never /\ DedupeWindow > 0 /\ t - l[c] < DedupeWindow - 1

Duplicate(l, c, t) == l[c] # Never /\ DedupeWindow > 0 /\ t - l[c] < DedupeWindow

Execution(c, t, route) == [cue |-> c, at |-> t, via |-> route]

-----------------------------------------------------------------------------
(* POST /api/encoder/{id}/cue.                                              *)

\* Mutant: the clock reading is rounded up.
ArriveRoundedUp(h, c) ==
  /\ hpc[h] = "idle"
  /\ requests < MaxRequests
  /\ hpc' = [hpc EXCEPT ![h] = "check"]
  /\ hcue' = [hcue EXCEPT ![h] = c]
  /\ hnow' = [hnow EXCEPT ![h] = now + 1]
  /\ requests' = requests + 1
  /\ UNCHANGED <<now, times, last, tcpVars, executed>>

\* A valid cue; the handler reads the clock.
Arrive(h, c) ==
  /\ hpc[h] = "idle"
  /\ requests < MaxRequests
  /\ hpc' = [hpc EXCEPT ![h] = "check"]
  /\ hcue' = [hcue EXCEPT ![h] = c]
  /\ hnow' = [hnow EXCEPT ![h] = now]
  /\ requests' = requests + 1
  /\ UNCHANGED <<now, times, last, tcpVars, executed>>

\* The first critical section; then the command rows, without side effect.
Check(h) ==
  LET c  == hcue[h]
      ts == Prune(times, hnow[h])
      ok == ~RateExceeded(ts) /\ ~Duplicate(last, c, hnow[h]) /\ c \in Matched IN
  /\ hpc[h] = "check"
  /\ times' = ts
  /\ hpc' = [hpc EXCEPT ![h] = IF ok THEN "send" ELSE "idle"]
  /\ UNCHANGED <<now, last, hcue, hnow, tcpVars, executed, requests>>

\* sendWorkerControlCommand: the worker executes the action (the ACK may
\* still be late or lost).
Deliver(h) ==
  /\ hpc[h] = "send"
  /\ executed' = Append(executed, Execution(hcue[h], hnow[h], "http"))
  /\ hpc' = [hpc EXCEPT ![h] = "record"]
  /\ UNCHANGED <<now, times, last, hcue, hnow, tcpVars, requests>>

\* The worker cannot be reached, or passthrough is off.
SendFails(h) ==
  /\ hpc[h] = "send"
  /\ hpc' = [hpc EXCEPT ![h] = "record"]
  /\ UNCHANGED <<now, times, last, hcue, hnow, tcpVars, executed, requests>>

\* Mutant: only the dedupe record is kept.
RecordCueOnly(h) ==
  /\ hpc[h] = "record"
  /\ last' = [last EXCEPT ![hcue[h]] = hnow[h]]
  /\ hpc' = [hpc EXCEPT ![h] = "idle"]
  /\ UNCHANGED <<now, times, hcue, hnow, tcpVars, executed, requests>>

\* Mutant: only the rate record is kept.
RecordTimeOnly(h) ==
  /\ hpc[h] = "record"
  /\ times' = Append(times, hnow[h])
  /\ hpc' = [hpc EXCEPT ![h] = "idle"]
  /\ UNCHANGED <<now, last, hcue, hnow, tcpVars, executed, requests>>

\* The second critical section, with the clock reading of the arrival.
Record(h) ==
  /\ hpc[h] = "record"
  /\ times' = Append(times, hnow[h])
  /\ last' = [last EXCEPT ![hcue[h]] = hnow[h]]
  /\ hpc' = [hpc EXCEPT ![h] = "idle"]
  /\ UNCHANGED <<now, hcue, hnow, tcpVars, executed, requests>>

-----------------------------------------------------------------------------
(* processCueMessage.                                                       *)

\* Rate limit or dedupe window: nothing but the pruning remains.
TcpRefused(c) ==
  LET ts == Prune(wtimes, now) IN
  /\ requests < MaxRequests
  /\ RateExceeded(ts) \/ Duplicate(wlast, c, now)
  /\ wtimes' = ts
  /\ requests' = requests + 1
  /\ UNCHANGED <<now, httpVars, wlast, executed>>

\* Mutant: one more cue than the limit is let through.
TcpOneTooMany(c, pass) ==
  LET ts == Prune(wtimes, now) IN
  /\ requests < MaxRequests
  /\ Len(ts) <= RateCount /\ ~Duplicate(wlast, c, now)
  /\ wtimes' = Append(ts, now)
  /\ wlast' = [wlast EXCEPT ![c] = now]
  /\ executed' = IF c \in Matched /\ pass THEN Append(executed, Execution(c, now, "tcp"))
                 ELSE executed
  /\ requests' = requests + 1
  /\ UNCHANGED <<now, httpVars>>

\* Checked and recorded in one critical section; then executed when a row
\* matches and passthrough is on.
TcpAccepted(c, pass) ==
  LET ts == Prune(wtimes, now) IN
  /\ requests < MaxRequests
  /\ ~RateExceeded(ts) /\ ~Duplicate(wlast, c, now)
  /\ wtimes' = Append(ts, now)
  /\ wlast' = [wlast EXCEPT ![c] = now]
  /\ executed' = IF c \in Matched /\ pass THEN Append(executed, Execution(c, now, "tcp"))
                 ELSE executed
  /\ requests' = requests + 1
  /\ UNCHANGED <<now, httpVars>>

Tick ==
  /\ now < MaxTime
  /\ now' = now + 1
  /\ UNCHANGED <<httpVars, tcpVars, executed, requests>>

-----------------------------------------------------------------------------
\* The bounds are reached and every request is answered.
Rest == /\ now = MaxTime /\ requests = MaxRequests
        /\ \A h \in Handlers : hpc[h] = "idle"
        /\ UNCHANGED vars

HandlerStep(h) == Check(h) \/ Deliver(h) \/ SendFails(h) \/ Record(h)

Next ==
  \/ \E h \in Handlers : HandlerStep(h) \/ \E c \in Cues : Arrive(h, c)
  \/ \E c \in Cues : TcpRefused(c) \/ \E pass \in BOOLEAN : TcpAccepted(c, pass)
  \/ Tick
  \/ Rest

Spec == Init /\ [][Next]_vars

-----------------------------------------------------------------------------
(* Properties.                                                              *)

TypeOK ==
  /\ now \in Times
  /\ times \in Seq(Times) /\ wtimes \in Seq(Times)
  /\ last \in [Cues -> Times \cup {Never}] /\ wlast \in [Cues -> Times \cup {Never}]
  /\ hpc \in [Handlers -> {"idle", "check", "send", "record"}]
  /\ hcue \in [Handlers -> Cues] /\ hnow \in [Handlers -> Times]
  /\ \A h \in Handlers : hnow[h] <= now
  /\ executed \in Seq(Executions)
  /\ requests \in 0..MaxRequests

\* The executions by a route whose clock reading lies in the window that ends at t.
InWindow(route, t) ==
  {i \in DOMAIN executed : /\ executed[i].via = route
                           /\ t - RateWindow <= executed[i].at /\ executed[i].at <= t}

\* The supervisor's executions of a cue in the dedupe window that starts at t.
RepeatsFrom(t, c) ==
  {i \in DOMAIN executed : /\ executed[i].via = "http" /\ executed[i].cue = c
                           /\ t <= executed[i].at /\ executed[i].at < t + DedupeWindow}

WithinLimit(route, limit) == \A t \in Times : Cardinality(InWindow(route, t)) <= limit

OncePerDedupeWindow(route) ==
  \A i, j \in DOMAIN executed :
    (/\ i < j /\ executed[i].cue = executed[j].cue
     /\ executed[i].via = route /\ executed[j].via = route)
    => executed[j].at - executed[i].at >= DedupeWindow \/ executed[i].at - executed[j].at >= DedupeWindow

(* The worker's gate: however the cues are timed, no closed window of       *)
(* rateLimitWindowSec holds more executions than rateLimitCount.            *)
TcpRate == WithinLimit("tcp", RateCount)

(* The worker's gate: the same cue is not executed twice within             *)
(* dedupeSeconds, also when other cues and refusals come between.           *)
TcpOnce == OncePerDedupeWindow("tcp")

\* Each connection after the first can let through two cues too many: one that
\* is checked before the others are recorded, and one that keeps its clock
\* reading until a later cue has pruned the records.
Overrun == 2 * (Cardinality(Handlers) - 1)

(* docs/SCTE_QA_TEST_PLAN.md, rate limit: "Excess cues rejected with        *)
(* rate-limit log".  The supervisor checks and records in two critical      *)
(* sections; with overlapping connections its gate promises this much, and  *)
(* exactly the limit when one connection at a time is served.               *)
HttpOverrun == WithinLimit("http", RateCount + Overrun)

(* docs/SCTE_QA_TEST_PLAN.md, dedupe: "Second cue deduped/replay-rejected   *)
(* with log entry".  The supervisor's gate executes one cue in a dedupe     *)
(* window no more than 1 + 2 + ... + n times, n connections: all of them    *)
(* can pass before the first records, and each of them, when it comes late  *)
(* with a clock reading from before the window, replaces the record by an   *)
(* older one and lets the others pass once more.                            *)
HttpRepeats ==
  \A t \in Times, c \in Cues :
    2 * Cardinality(RepeatsFrom(t, c)) <= Cardinality(Handlers) * (Cardinality(Handlers) + 1)

(* The worker's gate, one critical section, keeps both promises exactly.    *)
TcpGateExact == TcpRate /\ TcpOnce

(* The supervisor's gate, two critical sections, misses both by no more     *)
(* than its connections allow.                                              *)
HttpGateBounded == HttpOverrun /\ HttpRepeats
=============================================================================
