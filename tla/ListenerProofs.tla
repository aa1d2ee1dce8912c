--------------------------- MODULE ListenerProofs ---------------------------
(***************************************************************************)
(* Theorems about the four parts that MCListeners composes, for any values *)
(* of the constants: the worker's cue gate (CueGate), its metadata thread  *)
(* (MetadataListener), its cue thread (CueListener) and its HLS server     *)
(* (HlsServer); at the end about the composition.                          *)
(***************************************************************************)
EXTENDS MCListeners, FiniteSetTheorems, SequenceTheorems, WellFoundedInduction, TLAPS

-----------------------------------------------------------------------------
(* CueGate: the worker's dedupe window and rate limit.                      *)

\* The types the argument needs.
TcpTypes ==
  /\ now \in Times
  /\ wlast \in [Cues -> Times \cup {Never}]
  /\ hcue \in [Handlers -> Cues] /\ hnow \in [Handlers -> Times]
  /\ executed \in Seq(Executions)

\* byCue holds, for an executed cue, a time no earlier than any execution.
LastIsLatest ==
  /\ \A c \in Cues : wlast[c] <= now
  /\ \A i \in DOMAIN executed :
       executed[i].via = "tcp" => executed[i].at <= wlast[executed[i].cue]

CueInv == TcpTypes /\ LastIsLatest /\ TcpOnce

\* A new execution leaves the earlier ones in place.
LEMMA Extended ==
  ASSUME executed \in Seq(Executions), NEW e \in Executions,
         executed' = Append(executed, e)
  PROVE  /\ executed' \in Seq(Executions)
         /\ DOMAIN executed' = DOMAIN executed \cup {Len(executed) + 1}
         /\ DOMAIN executed = 1..Len(executed) /\ Len(executed) \in Nat
         /\ \A i \in DOMAIN executed : executed'[i] = executed[i] /\ executed[i] \in Executions
         /\ executed'[Len(executed) + 1] = e
  BY SMT

\* What is recorded for a cue is the latest execution and the clock does not
\* step back, so a cue that passes the check is far from all of its executions.
LEMMA CueInvariant == Spec => []CueInv
<1>1. Init => CueInv
  <2> SUFFICES ASSUME Init PROVE CueInv
    OBVIOUS
  <2>1. TcpTypes
    BY CueAssumption DEF Init, TcpTypes, Times, Never
  <2>2. LastIsLatest /\ TcpOnce
    BY DEF Init, LastIsLatest, TcpOnce, OncePerDedupeWindow, Never
  <2> QED
    BY <2>1, <2>2 DEF CueInv
<1>2. CueInv /\ [Next]_vars => CueInv'
  <2> SUFFICES ASSUME CueInv, [Next]_vars PROVE CueInv'
    OBVIOUS
  <2> USE DEF CueInv
  <2>0. \A i \in DOMAIN executed :
          executed[i].cue \in Cues /\ executed[i].at \in Int /\ executed[i].at >= 1
    <3>1. \A i \in DOMAIN executed : executed[i] \in Executions
      BY DEF TcpTypes
    <3> QED
      BY <3>1 DEF Executions, Times
  <2>1. ASSUME NEW h \in Handlers, NEW c \in Cues, Arrive(h, c) PROVE CueInv'
    BY <2>1 DEF Arrive, tcpVars, TcpTypes, LastIsLatest, TcpOnce, OncePerDedupeWindow
  <2>2. ASSUME NEW h \in Handlers, Check(h) \/ SendFails(h) \/ Record(h) PROVE CueInv'
    BY <2>2 DEF Check, SendFails, Record, tcpVars, TcpTypes, LastIsLatest, TcpOnce,
                OncePerDedupeWindow
  <2>3. ASSUME NEW h \in Handlers, Deliver(h) PROVE CueInv'
    <3> DEFINE e == Execution(hcue[h], hnow[h], "http")
    <3>1. e \in Executions /\ e.via = "http"
      BY DEF TcpTypes, Execution, Executions
    <3>2. executed \in Seq(Executions) /\ executed' = Append(executed, e)
      BY <2>3 DEF Deliver, TcpTypes
    <3> HIDE DEF e
    <3>3. /\ executed' \in Seq(Executions)
          /\ DOMAIN executed' = DOMAIN executed \cup {Len(executed) + 1}
          /\ \A i \in DOMAIN executed : executed'[i] = executed[i]
          /\ executed'[Len(executed) + 1] = e
      BY <3>1, <3>2, Extended
    <3>4. UNCHANGED <<now, wlast, hcue, hnow>>
      BY <2>3 DEF Deliver, tcpVars
    <3>5. TcpTypes' /\ LastIsLatest'
      BY <3>1, <3>3, <3>4 DEF TcpTypes, LastIsLatest
    <3>6. TcpOnce'
      BY <3>1, <3>3 DEF TcpOnce, OncePerDedupeWindow
    <3> QED
      BY <3>5, <3>6
  <2>4. ASSUME NEW c \in Cues, TcpRefused(c) PROVE CueInv'
    BY <2>4 DEF TcpRefused, httpVars, TcpTypes, LastIsLatest, TcpOnce, OncePerDedupeWindow
  <2>5. ASSUME NEW c \in Cues, NEW pass \in BOOLEAN, TcpAccepted(c, pass) PROVE CueInv'
    <3>1. /\ UNCHANGED <<now, hcue, hnow>> /\ wlast' = [wlast EXCEPT ![c] = now]
          /\ ~Duplicate(wlast, c, now)
      BY <2>5 DEF TcpAccepted, httpVars
    <3>2. now \in Int /\ DedupeWindow \in Nat /\ wlast[c] \in Int /\ wlast[c] <= now
      BY CueAssumption DEF TcpTypes, LastIsLatest, Times, Never
    <3>3. \A i \in DOMAIN executed :
            executed[i].via = "tcp" /\ executed[i].cue = c => now - executed[i].at >= DedupeWindow
      <4> SUFFICES ASSUME NEW i \in DOMAIN executed, executed[i].via = "tcp", executed[i].cue = c
                   PROVE  now - executed[i].at >= DedupeWindow
        OBVIOUS
      <4>1. executed[i].at \in Int /\ executed[i].at >= 1 /\ executed[i].at <= wlast[c]
        BY <2>0 DEF LastIsLatest
      <4>2. wlast[c] # Never
        BY <3>2, <4>1 DEF Never
      <4>3. ~(DedupeWindow > 0) \/ ~(now - wlast[c] < DedupeWindow)
        BY <3>1, <4>2 DEF Duplicate
      <4> QED
        BY <3>2, <4>1, <4>3
    <3>4. CASE UNCHANGED executed
      <4>1. TcpTypes' /\ TcpOnce'
        BY <3>1, <3>4 DEF TcpTypes, TcpOnce, OncePerDedupeWindow
      <4>2. LastIsLatest'
        <5>1. \A d \in Cues : /\ wlast[d] \in Int /\ wlast'[d] \in Int
                              /\ wlast[d] <= wlast'[d] /\ wlast'[d] <= now
          BY <3>1, <3>2 DEF TcpTypes, LastIsLatest, Times, Never
        <5> QED
          BY <2>0, <3>1, <3>4, <5>1 DEF LastIsLatest
      <4> QED
        BY <4>1, <4>2
    <3>5. CASE executed' = Append(executed, Execution(c, now, "tcp"))
      <4> DEFINE e == Execution(c, now, "tcp")
      <4>1. e \in Executions /\ e.via = "tcp" /\ e.cue = c /\ e.at = now
        BY DEF TcpTypes, Execution, Executions
      <4>2. executed \in Seq(Executions) /\ executed' = Append(executed, e)
        BY <3>5 DEF TcpTypes
      <4> HIDE DEF e
      <4>3. /\ executed' \in Seq(Executions)
            /\ DOMAIN executed' = DOMAIN executed \cup {Len(executed) + 1}
            /\ DOMAIN executed = 1..Len(executed) /\ Len(executed) \in Nat
            /\ \A i \in DOMAIN executed : executed'[i] = executed[i] /\ executed[i] \in Executions
            /\ executed'[Len(executed) + 1] = e
        BY <4>1, <4>2, Extended
      <4>4. TcpTypes'
        BY <3>1, <4>3 DEF TcpTypes
      <4>5. LastIsLatest'
        <5>1. \A d \in Cues : /\ wlast[d] \in Int /\ wlast'[d] \in Int
                              /\ wlast[d] <= wlast'[d] /\ wlast'[d] <= now
          BY <3>1, <3>2 DEF TcpTypes, LastIsLatest, Times, Never
        <5>2. wlast'[c] = now
          BY <3>1 DEF TcpTypes
        <5> QED
          BY <2>0, <3>1, <3>2, <4>1, <4>3, <5>1, <5>2 DEF LastIsLatest
      <4>6. TcpOnce'
        <5> SUFFICES ASSUME NEW i \in DOMAIN executed', NEW j \in DOMAIN executed', i < j,
                            executed'[i].cue = executed'[j].cue,
                            executed'[i].via = "tcp", executed'[j].via = "tcp"
                     PROVE  \/ executed'[j].at - executed'[i].at >= DedupeWindow
                            \/ executed'[i].at - executed'[j].at >= DedupeWindow
          BY DEF TcpOnce, OncePerDedupeWindow
        <5>1. i \in DOMAIN executed
          BY <4>3
        <5>2. CASE j \in DOMAIN executed
          BY <4>3, <5>1, <5>2 DEF TcpOnce, OncePerDedupeWindow
        <5>3. CASE j = Len(executed) + 1
          BY <3>3, <4>1, <4>3, <5>1, <5>3
        <5> QED
          BY <4>3, <5>2, <5>3
      <4> QED
        BY <4>4, <4>5, <4>6
    <3> QED
      BY <2>5, <3>4, <3>5 DEF TcpAccepted
  <2>6. CASE Tick
    <3>1. now' \in Times /\ now \in Int /\ now' = now + 1
      BY <2>6, CueAssumption DEF Tick, TcpTypes, Times
    <3>2. UNCHANGED <<wlast, hcue, hnow, executed>>
      BY <2>6 DEF Tick, httpVars, tcpVars
    <3>3. \A c \in Cues : wlast[c] \in Int /\ wlast[c] <= now
      BY DEF TcpTypes, LastIsLatest, Times, Never
    <3> QED
      BY <3>1, <3>2, <3>3 DEF TcpTypes, LastIsLatest, TcpOnce, OncePerDedupeWindow
  <2>7. CASE UNCHANGED vars
    BY <2>7 DEF vars, httpVars, tcpVars, TcpTypes, LastIsLatest, TcpOnce, OncePerDedupeWindow
  <2> QED
    BY <2>1, <2>2, <2>3, <2>4, <2>5, <2>6, <2>7 DEF Next, HandlerStep, Rest
<1>3. QED
  BY <1>1, <1>2, PTL DEF Spec

(* The worker's gate executes a cue at most once per dedupe window.         *)
THEOREM WorkerDedupe == Spec => []TcpOnce
<1>1. CueInv => TcpOnce
  BY DEF CueInv
<1> QED
  BY <1>1, CueInvariant, PTL

-----------------------------------------------------------------------------
(* The rate limit of the worker's gate.                                     *)

\* Entries no older than x, and executions the worker has let through since x.
Since(ts, x) == {j \in DOMAIN ts : ts[j] >= x}
TcpSince(x)  == {i \in DOMAIN executed : executed[i].via = "tcp" /\ executed[i].at >= x}

\* Every set of entries no older than x has a first one, from any place on:
\* what Prune chooses exists.  (Kept as a part of the invariant.)
From(ts, k, x) == {j \in DOMAIN ts : k <= j /\ ts[j] >= x}
HasFirst(ts) ==
  \A k \in Int, x \in Int : From(ts, k, x) # {} =>
    \E m \in From(ts, k, x) : \A j \in From(ts, k, x) : m <= j

\* The deque remembers all executions of the window that ends now.
Remembered == \A x \in Int : x >= now - RateWindow =>
                Cardinality(TcpSince(x)) <= Cardinality(Since(wtimes, x))

RateInv ==
  /\ wtimes \in Seq(Times)
  /\ HasFirst(wtimes) /\ Remembered /\ TcpRate

LEMMA FiniteDomain ==
  ASSUME NEW S, NEW s \in Seq(S), NEW D \in SUBSET DOMAIN s
  PROVE  /\ IsFiniteSet(D) /\ Cardinality(D) \in Nat
         /\ Cardinality(D) <= Len(s)
<1>1. DOMAIN s = 1..Len(s) /\ Len(s) \in Nat
  OBVIOUS
<1>2. IsFiniteSet(1..Len(s)) /\ Cardinality(1..Len(s)) = Len(s)
  <2>1. 1 \in Int /\ Len(s) \in Int
    BY <1>1
  <2>2. /\ IsFiniteSet(1..Len(s))
        /\ Cardinality(1..Len(s)) = IF 1 > Len(s) THEN 0 ELSE Len(s) - 1 + 1
    BY <2>1, FS_Interval
  <2> QED
    BY <1>1, <2>2
<1>3. IsFiniteSet(D) /\ Cardinality(D) <= Cardinality(1..Len(s))
  BY <1>1, <1>2, FS_Subset
<1>4. Cardinality(D) \in Nat
  BY <1>3, FS_CardinalityType
<1> QED
  BY <1>2, <1>3, <1>4

\* What stays after pruning is a suffix with all recent entries.
LEMMA Pruned ==
  ASSUME NEW ts \in Seq(Times), NEW t \in Int, HasFirst(ts)
  PROVE  \/ Prune(ts, t) = <<>> /\ Since(ts, t - RateWindow) = {}
         \/ \E m \in DOMAIN ts :
              /\ Prune(ts, t) = SubSeq(ts, m, Len(ts))
              /\ \A j \in Since(ts, t - RateWindow) : m <= j
<1> DEFINE recent == {i \in DOMAIN ts : ts[i] >= t - RateWindow}
           first  == CHOOSE i \in recent : \A j \in recent : i <= j
<1>1. Prune(ts, t) = IF recent = {} THEN <<>> ELSE SubSeq(ts, first, Len(ts))
  BY DEF Prune
<1>2. recent = Since(ts, t - RateWindow)
  BY DEF Since
<1>3. CASE recent = {}
  BY <1>1, <1>2, <1>3
<1>4. CASE recent # {}
  <2>1. recent = From(ts, 1, t - RateWindow) /\ t - RateWindow \in Int
    BY CueAssumption DEF From
  <2>2. \E m \in recent : \A j \in recent : m <= j
    BY <1>4, <2>1 DEF HasFirst
  <2>3. first \in recent /\ \A j \in recent : first <= j
    BY <2>2
  <2> HIDE DEF first
  <2> QED
    BY <1>1, <1>2, <1>4, <2>3
<1> QED
  BY <1>3, <1>4

LEMMA Suffix ==
  ASSUME NEW ts \in Seq(Times), NEW m \in DOMAIN ts, NEW us, us = SubSeq(ts, m, Len(ts))
  PROVE  /\ us \in Seq(Times) /\ Len(us) = Len(ts) - m + 1
         /\ \A j \in DOMAIN us : m + j - 1 \in DOMAIN ts /\ us[j] = ts[m + j - 1]
         /\ \A j \in DOMAIN ts : m <= j => j - m + 1 \in DOMAIN us
<1>1. DOMAIN ts = 1..Len(ts) /\ Len(ts) \in Nat /\ \A j \in m..Len(ts) : ts[j] \in Times
  OBVIOUS
<1>2. m \in Int /\ Len(ts) \in Int /\ 1 <= m /\ m <= Len(ts)
  BY <1>1
<1>3. /\ us \in Seq(Times) /\ Len(us) = Len(ts) - m + 1
      /\ \A j \in 1..(Len(ts) - m + 1) : us[j] = ts[m + j - 1]
  BY <1>1, <1>2, SubSeqProperties
<1>4. DOMAIN us = 1..(Len(ts) - m + 1)
  BY <1>3
<1> QED
  BY <1>1, <1>2, <1>3, <1>4

LEMMA PruneHasFirst ==
  ASSUME NEW ts \in Seq(Times), NEW t \in Int, HasFirst(ts)
  PROVE  Prune(ts, t) \in Seq(Times) /\ HasFirst(Prune(ts, t))
<1>1. CASE Prune(ts, t) = <<>>
  BY <1>1 DEF HasFirst, From
<1>2. ASSUME NEW m \in DOMAIN ts, Prune(ts, t) = SubSeq(ts, m, Len(ts))
      PROVE  Prune(ts, t) \in Seq(Times) /\ HasFirst(Prune(ts, t))
  <2> DEFINE us == Prune(ts, t)
  <2>1. /\ us \in Seq(Times) /\ m \in Int
        /\ \A j \in DOMAIN us : j \in Int /\ m + j - 1 \in DOMAIN ts /\ us[j] = ts[m + j - 1]
        /\ \A j \in DOMAIN ts : j \in Int /\ (m <= j => j - m + 1 \in DOMAIN us)
    BY <1>2, Suffix
  <2>2. \A j \in DOMAIN us : j >= 1
    BY <2>1
  <2> HIDE DEF us
  <2>3. SUFFICES ASSUME NEW k \in Int, NEW x \in Int, From(us, k, x) # {}
                 PROVE  \E n \in From(us, k, x) : \A j \in From(us, k, x) : n <= j
    BY <2>1 DEF HasFirst, us
  <2> DEFINE l == IF k >= 1 THEN m + k - 1 ELSE m
  <2>4. l \in Int
    BY <2>1
  <2>5. \A j \in From(us, k, x) : j \in Int /\ m + j - 1 \in From(ts, l, x)
    BY <2>1, <2>2 DEF From
  <2>6. PICK n \in From(ts, l, x) : \A j \in From(ts, l, x) : n <= j
    BY <2>3, <2>4, <2>5 DEF HasFirst
  <2>7. n \in Int /\ n - m + 1 \in DOMAIN us /\ us[n - m + 1] = ts[n] /\ k <= n - m + 1
    BY <2>1, <2>6 DEF From
  <2>8. n - m + 1 \in From(us, k, x)
    BY <2>6, <2>7 DEF From
  <2>9. \A j \in From(us, k, x) : n - m + 1 <= j
    BY <2>1, <2>5, <2>6, <2>7
  <2> QED
    BY <2>8, <2>9
<1> QED
  BY <1>1, <1>2, Pruned

LEMMA PruneKeeps ==
  ASSUME NEW ts \in Seq(Times), NEW t \in Int, HasFirst(ts),
         NEW x \in Int, x >= t - RateWindow
  PROVE  Cardinality(Since(ts, x)) <= Cardinality(Since(Prune(ts, t), x))
<1> DEFINE us == Prune(ts, t)
<1>1. us \in Seq(Times)
  BY PruneHasFirst
<1>2. Since(ts, x) \subseteq Since(ts, t - RateWindow)
  BY CueAssumption DEF Since, Times
<1>3. IsFiniteSet(Since(us, x)) /\ Cardinality(Since(us, x)) \in Nat
  BY <1>1, FiniteDomain DEF Since
<1>4. CASE us = <<>> /\ Since(ts, t - RateWindow) = {}
  <2>1. Since(ts, x) = {} /\ Cardinality(Since(ts, x)) = 0
    BY <1>2, <1>4, FS_EmptySet
  <2> QED
    BY <1>3, <2>1
<1>5. ASSUME NEW m \in DOMAIN ts, us = SubSeq(ts, m, Len(ts)),
             \A j \in Since(ts, t - RateWindow) : m <= j
      PROVE  Cardinality(Since(ts, x)) <= Cardinality(Since(us, x))
  <2> DEFINE f == [j \in Since(ts, x) |-> j - m + 1]
  <2>1. /\ m \in Int
        /\ \A j \in DOMAIN us : us[j] = ts[m + j - 1]
        /\ \A j \in DOMAIN ts : j \in Int /\ (m <= j => j - m + 1 \in DOMAIN us)
    BY <1>5, Suffix
  <2> HIDE DEF us
  <2>2. \A j \in Since(ts, x) : j \in Int /\ m <= j /\ j \in DOMAIN ts /\ ts[j] >= x
    BY <1>2, <1>5, <2>1 DEF Since
  <2>3. \A j \in Since(ts, x) : j - m + 1 \in Since(us, x)
    BY <2>1, <2>2 DEF Since
  <2>4. f \in Injection(Since(ts, x), Since(us, x))
    BY <2>1, <2>2, <2>3 DEF Injection, IsInjective
  <2> HIDE DEF f
  <2> QED
    BY <1>3, <2>4, FS_Injection
<1> QED
  BY <1>4, <1>5, Pruned

\* A new entry at the end.
LEMMA Appended ==
  ASSUME NEW ts \in Seq(Times), NEW t \in Times, HasFirst(ts)
  PROVE  /\ Append(ts, t) \in Seq(Times) /\ HasFirst(Append(ts, t))
         /\ Len(Append(ts, t)) = Len(ts) + 1
         /\ \A x \in Int : Cardinality(Since(Append(ts, t), x)) =
              Cardinality(Since(ts, x)) + (IF t >= x THEN 1 ELSE 0)
<1> DEFINE us == Append(ts, t)
           n  == Len(ts) + 1
<1>1. /\ us \in Seq(Times) /\ Len(us) = n /\ n \in Nat
      /\ DOMAIN us = DOMAIN ts \cup {n} /\ us[n] = t /\ n \notin DOMAIN ts
      /\ \A j \in DOMAIN ts : us[j] = ts[j] /\ j \in Int /\ j <= n
  OBVIOUS
<1>2. t \in Int
  BY DEF Times
<1> HIDE DEF us, n
<1>3. HasFirst(us)
  <2> SUFFICES ASSUME NEW k \in Int, NEW x \in Int, From(us, k, x) # {}
               PROVE  \E m \in From(us, k, x) : \A j \in From(us, k, x) : m <= j
    BY DEF HasFirst
  <2>1. From(us, k, x) \subseteq From(ts, k, x) \cup {n} /\ From(ts, k, x) \subseteq From(us, k, x)
    BY <1>1 DEF From
  <2>2. CASE From(ts, k, x) = {}
    BY <1>1, <2>1, <2>2
  <2>3. CASE From(ts, k, x) # {}
    <3>1. PICK m \in From(ts, k, x) : \A j \in From(ts, k, x) : m <= j
      BY <2>3 DEF HasFirst
    <3>2. m <= n
      BY <1>1 DEF From
    <3> QED
      BY <2>1, <3>1, <3>2
  <2> QED
    BY <2>2, <2>3
<1>4. ASSUME NEW x \in Int
      PROVE  Cardinality(Since(us, x)) = Cardinality(Since(ts, x)) + (IF t >= x THEN 1 ELSE 0)
  <2>1. IsFiniteSet(Since(ts, x)) /\ Cardinality(Since(ts, x)) \in Nat /\ n \notin Since(ts, x)
    BY <1>1, FiniteDomain DEF Since
  <2>2. CASE t >= x
    <3>1. Since(us, x) = Since(ts, x) \cup {n}
      BY <1>1, <2>2 DEF Since
    <3> QED
      BY <2>1, <2>2, <3>1, FS_AddElement
  <2>3. CASE ~(t >= x)
    <3>1. Since(us, x) = Since(ts, x)
      BY <1>1, <2>3 DEF Since
    <3> QED
      BY <2>1, <2>3, <3>1
  <2> QED
    BY <2>2, <2>3
<1> QED
  BY <1>1, <1>3, <1>4 DEF us, n

\* Arithmetic the provers do better without the rest.
LEMMA Later ==
  \A a, b, w, x \in Int : b >= a /\ x >= b - w => x >= a - w
  OBVIOUS

LEMMA OneMore ==
  \A a, b, c \in Int, p \in BOOLEAN :
    a <= b /\ b <= c => a + (IF p THEN 1 ELSE 0) <= c + (IF p THEN 1 ELSE 0)
  OBVIOUS

LEMMA NoLess ==
  \A a, b \in Int, p \in BOOLEAN : a <= b => a <= b + (IF p THEN 1 ELSE 0)
  OBVIOUS

\* A step that lets nothing through by TCP and keeps what is recent.
LEMMA NothingExecuted ==
  ASSUME TcpTypes, RateInv, now' \in Int, now' >= now,
         wtimes' \in Seq(Times), HasFirst(wtimes'),
         \A x \in Int : TcpSince(x)' = TcpSince(x),
         \A t \in Times : InWindow("tcp", t)' = InWindow("tcp", t),
         \A x \in Int : x >= now - RateWindow =>
           Cardinality(Since(wtimes, x)) <= Cardinality(Since(wtimes', x))
  PROVE  RateInv'
<1>1. TcpRate'
  BY DEF RateInv, TcpRate, WithinLimit
<1>2. ASSUME NEW x \in Int, x >= now' - RateWindow
      PROVE  Cardinality(TcpSince(x)') <= Cardinality(Since(wtimes', x))
  <2>1. now \in Int /\ RateWindow \in Int
    BY CueAssumption DEF TcpTypes, Times
  <2>2. x >= now - RateWindow
    BY <1>2, <2>1, Later, Zenon
  <2>3. Cardinality(TcpSince(x)) <= Cardinality(Since(wtimes, x))
    BY <2>2 DEF RateInv, Remembered
  <2>4. Cardinality(TcpSince(x)) \in Nat
    BY FiniteDomain DEF TcpTypes, TcpSince
  <2>5. /\ Cardinality(Since(wtimes, x)) \in Nat /\ Cardinality(Since(wtimes', x)) \in Nat
        /\ Cardinality(Since(wtimes, x)) <= Cardinality(Since(wtimes', x))
    BY <2>2, FiniteDomain DEF RateInv, Since
  <2> QED
    BY <2>3, <2>4, <2>5
<1>3. Remembered'
  BY <1>2 DEF Remembered
<1> QED
  BY <1>1, <1>3 DEF RateInv

LEMMA RateStep == TcpTypes /\ TcpTypes' /\ RateInv /\ [Next]_vars => RateInv'
<1> SUFFICES ASSUME TcpTypes, TcpTypes', RateInv, [Next]_vars PROVE RateInv'
  OBVIOUS
<1>0. /\ now \in Int /\ now' \in Int /\ RateWindow \in Nat /\ wtimes \in Seq(Times) /\ HasFirst(wtimes)
      /\ executed \in Seq(Executions)
      /\ \A x \in Int : Cardinality(Since(wtimes, x)) \in Int
  <2>1. \A x \in Int : Cardinality(Since(wtimes, x)) \in Nat
    BY FiniteDomain DEF Since, RateInv
  <2> QED
    BY <2>1, CueAssumption DEF TcpTypes, RateInv, Times
<1>1. ASSUME UNCHANGED <<wtimes, executed>>, now' >= now PROVE RateInv'
  <2>1. /\ \A x \in Int : TcpSince(x)' = TcpSince(x)
        /\ \A t \in Times : InWindow("tcp", t)' = InWindow("tcp", t)
    BY <1>1 DEF TcpSince, InWindow
  <2>2. \A x \in Int : Cardinality(Since(wtimes, x)) <= Cardinality(Since(wtimes', x))
    BY <1>0, <1>1
  <2>3. wtimes' \in Seq(Times) /\ HasFirst(wtimes')
    BY <1>0, <1>1
  <2> QED
    BY <1>0, <1>1, <2>1, <2>2, <2>3, NothingExecuted
<1>2. ASSUME NEW h \in Handlers, Deliver(h) PROVE RateInv'
  <2> DEFINE e == Execution(hcue[h], hnow[h], "http")
  <2>1. e \in Executions /\ e.via = "http"
    BY DEF TcpTypes, Execution, Executions
  <2>2. executed' = Append(executed, e) /\ UNCHANGED <<now, wtimes>>
    BY <1>2 DEF Deliver, tcpVars
  <2> HIDE DEF e
  <2>3. /\ DOMAIN executed' = DOMAIN executed \cup {Len(executed) + 1}
        /\ \A i \in DOMAIN executed : executed'[i] = executed[i]
        /\ executed'[Len(executed) + 1] = e
    BY <1>0, <2>1, <2>2, Extended
  <2>4. /\ \A x \in Int : TcpSince(x)' = TcpSince(x)
        /\ \A t \in Times : InWindow("tcp", t)' = InWindow("tcp", t)
    BY <2>1, <2>3 DEF TcpSince, InWindow
  <2>5. \A x \in Int : Cardinality(Since(wtimes, x)) <= Cardinality(Since(wtimes', x))
    BY <1>0, <2>2
  <2>6. wtimes' \in Seq(Times) /\ HasFirst(wtimes') /\ now' >= now
    BY <1>0, <2>2
  <2> QED
    BY <1>0, <2>4, <2>5, <2>6, NothingExecuted
<1>3. ASSUME NEW c \in Cues, TcpRefused(c) PROVE RateInv'
  <2>1. wtimes' = Prune(wtimes, now) /\ UNCHANGED <<now, executed>>
    BY <1>3 DEF TcpRefused
  <2>2. /\ \A x \in Int : TcpSince(x)' = TcpSince(x)
        /\ \A t \in Times : InWindow("tcp", t)' = InWindow("tcp", t)
    BY <2>1 DEF TcpSince, InWindow
  <2>3. \A x \in Int : x >= now - RateWindow =>
          Cardinality(Since(wtimes, x)) <= Cardinality(Since(wtimes', x))
    BY <1>0, <2>1, PruneKeeps
  <2>4. wtimes' \in Seq(Times) /\ HasFirst(wtimes') /\ now' >= now
    BY <1>0, <2>1, PruneHasFirst
  <2> QED
    BY <1>0, <2>2, <2>3, <2>4, NothingExecuted
<1>4. ASSUME NEW c \in Cues, NEW pass \in BOOLEAN, TcpAccepted(c, pass) PROVE RateInv'
  <2> DEFINE ts == Prune(wtimes, now)
             e  == Execution(c, now, "tcp")
  <2>1. /\ wtimes' = Append(ts, now) /\ now' = now /\ ~(Len(ts) >= RateCount)
        /\ executed' = executed \/ executed' = Append(executed, e)
    BY <1>4 DEF TcpAccepted, RateExceeded
  <2>2. ts \in Seq(Times) /\ HasFirst(ts)
    BY <1>0, PruneHasFirst
  <2>3. \A x \in Int : x >= now - RateWindow =>
          Cardinality(Since(wtimes, x)) <= Cardinality(Since(ts, x))
    BY <1>0, PruneKeeps
  <2>4. e \in Executions /\ e.via = "tcp" /\ e.at = now /\ now \in Times
    BY DEF TcpTypes, Execution, Executions
  <2> HIDE DEF ts, e
  <2>5. \A x \in Int : Cardinality(Since(ts, x)) \in Int
    <3>1. \A x \in Int : Cardinality(Since(ts, x)) \in Nat
      BY <2>2, FiniteDomain DEF Since
    <3> QED
      BY <3>1
  <2>6. /\ wtimes' \in Seq(Times) /\ HasFirst(wtimes') /\ Len(wtimes') = Len(ts) + 1
        /\ \A x \in Int : Cardinality(Since(wtimes', x)) =
             Cardinality(Since(ts, x)) + (IF now >= x THEN 1 ELSE 0)
    BY <2>1, <2>2, <2>4, Appended
  <2>7. CASE executed' = executed
    <3>1. /\ \A x \in Int : TcpSince(x)' = TcpSince(x)
          /\ \A t \in Times : InWindow("tcp", t)' = InWindow("tcp", t)
      BY <2>7 DEF TcpSince, InWindow
    <3>2. \A x \in Int : x >= now - RateWindow =>
            Cardinality(Since(wtimes, x)) <= Cardinality(Since(wtimes', x))
      <4> SUFFICES ASSUME NEW x \in Int, x >= now - RateWindow
                   PROVE  Cardinality(Since(wtimes, x)) <= Cardinality(Since(wtimes', x))
        OBVIOUS
      <4>1. /\ Cardinality(Since(wtimes, x)) \in Int /\ Cardinality(Since(ts, x)) \in Int
            /\ (now >= x) \in BOOLEAN
        <5>1. Cardinality(Since(wtimes, x)) \in Int /\ Cardinality(Since(ts, x)) \in Int
          BY <1>0, <2>5, Zenon
        <5>2. (now >= x) \in BOOLEAN
          BY <1>0
        <5> QED
          BY <5>1, <5>2
      <4>2. Cardinality(Since(wtimes, x)) <= Cardinality(Since(ts, x))
        BY <2>3
      <4>3. Cardinality(Since(wtimes', x)) =
              Cardinality(Since(ts, x)) + (IF now >= x THEN 1 ELSE 0)
        BY <2>6
      <4> QED
        BY <4>1, <4>2, <4>3, NoLess, Zenon
    <3> QED
      BY <1>0, <2>1, <2>6, <3>1, <3>2, NothingExecuted
  <2>8. CASE executed' = Append(executed, e)
    <3>1. /\ DOMAIN executed' = DOMAIN executed \cup {Len(executed) + 1}
          /\ DOMAIN executed = 1..Len(executed) /\ Len(executed) \in Nat
          /\ \A i \in DOMAIN executed : executed'[i] = executed[i]
          /\ executed'[Len(executed) + 1] = e
      BY <1>0, <2>4, <2>8, Extended
    <3> DEFINE n == Len(executed) + 1
    <3>2. n \notin DOMAIN executed
      BY <3>1
    <3>3. ASSUME NEW x \in Int, x >= now - RateWindow
          PROVE  Cardinality(TcpSince(x)') <= Cardinality(Since(wtimes', x))
      <4>1. Cardinality(TcpSince(x)) <= Cardinality(Since(wtimes, x))
        BY <3>3 DEF RateInv, Remembered
      <4>2. IsFiniteSet(TcpSince(x)) /\ Cardinality(TcpSince(x)) \in Nat /\ n \notin TcpSince(x)
        BY <1>0, <3>2, FiniteDomain DEF TcpSince
      <4>3. TcpSince(x)' = IF now >= x THEN TcpSince(x) \cup {n} ELSE TcpSince(x)
        BY <2>4, <3>1 DEF TcpSince
      <4>4. Cardinality(TcpSince(x)') =
              Cardinality(TcpSince(x)) + (IF now >= x THEN 1 ELSE 0)
        <5>1. Cardinality(TcpSince(x) \cup {n}) = Cardinality(TcpSince(x)) + 1
          BY <4>2, FS_AddElement
        <5>2. Cardinality(TcpSince(x)) + 0 = Cardinality(TcpSince(x))
          BY <4>2
        <5> QED
          BY <4>3, <5>1, <5>2, Zenon
      <4>5. Cardinality(Since(wtimes, x)) <= Cardinality(Since(ts, x))
        BY <2>3, <3>3
      <4>6. /\ Cardinality(TcpSince(x)) \in Int /\ Cardinality(Since(wtimes, x)) \in Int
            /\ Cardinality(Since(ts, x)) \in Int /\ (now >= x) \in BOOLEAN
        BY <1>0, <2>5, <4>2
      <4>7. Cardinality(Since(wtimes', x)) =
              Cardinality(Since(ts, x)) + (IF now >= x THEN 1 ELSE 0)
        BY <2>6
      <4> HIDE DEF n
      <4> QED
        BY <4>1, <4>4, <4>5, <4>6, <4>7, OneMore, Zenon
    <3>4. Remembered'
      BY <2>1, <3>3 DEF Remembered
    <3>5. ASSUME NEW t \in Times PROVE Cardinality(InWindow("tcp", t)') <= RateCount
      <4>1. t \in Int
        BY DEF Times
      <4>2. CASE t < now
        <5>0. ~(now <= t)
          BY <1>0, <4>1, <4>2
        <5>1. ~(executed'[n].at <= t)
          BY <2>4, <3>1, <5>0, Zenon
        <5>2. InWindow("tcp", t)' = InWindow("tcp", t)
          BY <3>1, <5>1, Zenon DEF InWindow
        <5> QED
          BY <5>2 DEF RateInv, TcpRate, WithinLimit
      <4>3. CASE ~(t < now)
        <5>1. t - RateWindow \in Int /\ t - RateWindow >= now - RateWindow
          BY <1>0, <4>1, <4>3
        <5>2. Cardinality(TcpSince(t - RateWindow)') <= Cardinality(Since(wtimes', t - RateWindow))
          BY <3>3, <5>1
        <5>3. /\ Cardinality(Since(wtimes', t - RateWindow)) <= Len(wtimes')
              /\ Cardinality(Since(wtimes', t - RateWindow)) \in Nat
          BY <2>6, FiniteDomain DEF Since
        <5>4. InWindow("tcp", t)' \subseteq TcpSince(t - RateWindow)'
          BY <1>0, <4>1 DEF InWindow, TcpSince
        <5>5. /\ IsFiniteSet(TcpSince(t - RateWindow)')
              /\ Cardinality(TcpSince(t - RateWindow)') \in Nat
          <6>1. executed' \in Seq(Executions)
            BY DEF TcpTypes
          <6>2. TcpSince(t - RateWindow)' \subseteq DOMAIN executed'
            BY DEF TcpSince
          <6> QED
            BY <6>1, <6>2, FiniteDomain
        <5>6. /\ Cardinality(InWindow("tcp", t)') <= Cardinality(TcpSince(t - RateWindow)')
              /\ IsFiniteSet(InWindow("tcp", t)')
          BY <5>4, <5>5, FS_Subset
        <5>7. Cardinality(InWindow("tcp", t)') \in Nat
          BY <5>6, FS_CardinalityType
        <5>8. Len(wtimes') <= RateCount
          BY <2>1, <2>2, <2>6, CueAssumption
        <5>9. Len(wtimes') \in Nat /\ RateCount \in Nat
          BY <2>6, CueAssumption
        <5> QED
          BY <5>2, <5>3, <5>5, <5>6, <5>7, <5>8, <5>9
      <4> QED
        BY <4>2, <4>3
    <3>6. TcpRate'
      BY <3>5 DEF TcpRate, WithinLimit
    <3> QED
      BY <2>6, <3>4, <3>6 DEF RateInv
  <2> QED
    BY <2>1, <2>7, <2>8
<1>5. CASE Tick
  BY <1>0, <1>1, <1>5 DEF Tick, tcpVars
<1>6. CASE UNCHANGED vars
  BY <1>0, <1>1, <1>6 DEF vars, tcpVars
<1>7. ASSUME NEW h \in Handlers, Check(h) \/ SendFails(h) \/ Record(h) PROVE RateInv'
  BY <1>0, <1>1, <1>7 DEF Check, SendFails, Record, tcpVars
<1>8. ASSUME NEW h \in Handlers, NEW c \in Cues, Arrive(h, c) PROVE RateInv'
  BY <1>0, <1>1, <1>8 DEF Arrive, tcpVars
<1> QED
  BY <1>2, <1>3, <1>4, <1>5, <1>6, <1>7, <1>8 DEF Next, HandlerStep, Rest

(* TcpRate: the worker's gate never executes more than rateLimitCount cues  *)
(* in a closed window of rateLimitWindowSec.  The argument: the deque holds *)
(* at most that many times, and those still in the window are all there.    *)
THEOREM WorkerRate == Spec => []TcpRate
<1>1. Init => RateInv
  <2> SUFFICES ASSUME Init PROVE RateInv
    OBVIOUS
  <2>1. wtimes = <<>> /\ executed = <<>> /\ wtimes \in Seq(Times)
    BY DEF Init
  <2>2. HasFirst(wtimes)
    BY <2>1 DEF HasFirst, From
  <2>3. /\ \A x \in Int : TcpSince(x) = {} /\ Since(wtimes, x) = {}
        /\ \A t \in Times : InWindow("tcp", t) = {}
    BY <2>1 DEF TcpSince, Since, InWindow
  <2>4. Cardinality({}) = 0 /\ 0 <= RateCount /\ 0 <= 0
    BY FS_EmptySet, CueAssumption
  <2>5. Remembered
    BY <2>3, <2>4, Zenon DEF Remembered
  <2>6. TcpRate
    BY <2>3, <2>4, Zenon DEF TcpRate, WithinLimit
  <2> QED
    BY <2>1, <2>2, <2>5, <2>6 DEF RateInv
<1>2. CueInv => TcpTypes
  BY DEF CueInv
<1>3. RateInv => TcpRate
  BY DEF RateInv
<1> QED
  BY <1>1, <1>2, <1>3, RateStep, CueInvariant, PTL DEF Spec

(* TcpGateExact: one critical section makes the worker's gate exact, for    *)
(* any limit and windows.                                                   *)
THEOREM WorkerGate == Spec => []TcpGateExact
  BY WorkerRate, WorkerDedupe, PTL DEF TcpGateExact

-----------------------------------------------------------------------------
(* CueGate: the supervisor's gate.                                          *)

\* The type invariant needs to know that pruning leaves a sequence.
GateInv == TypeOK /\ HasFirst(times) /\ HasFirst(wtimes)

LEMMA GateStep == GateInv /\ [Next]_vars => GateInv'
<1> SUFFICES ASSUME GateInv, [Next]_vars PROVE GateInv'
  OBVIOUS
<1> USE DEF GateInv, TypeOK
<1>0. /\ now \in Int /\ \A h \in Handlers : hnow[h] \in Int /\ hnow[h] \in Times /\ hcue[h] \in Cues
      /\ \A t \in Times : t \in Int /\ t >= 1
  BY DEF Times
<1>1. ASSUME NEW h \in Handlers, Check(h) PROVE GateInv'
  <2>1. Prune(times, hnow[h]) \in Seq(Times) /\ HasFirst(Prune(times, hnow[h]))
    BY <1>0, PruneHasFirst
  <2> QED
    BY <1>1, <2>1 DEF Check, tcpVars
<1>2. ASSUME NEW h \in Handlers, Deliver(h) PROVE GateInv'
  <2> DEFINE e == Execution(hcue[h], hnow[h], "http")
  <2>1. e \in Executions
    BY <1>0 DEF Execution, Executions
  <2>2. executed' = Append(executed, e) /\ UNCHANGED <<now, times, wtimes, last, wlast, hcue, hnow, requests>>
    BY <1>2 DEF Deliver, tcpVars
  <2>3. hpc' \in [Handlers -> {"idle", "check", "send", "record"}]
    BY <1>2 DEF Deliver
  <2> HIDE DEF e
  <2>4. executed' \in Seq(Executions)
    BY <2>1, <2>2
  <2> QED
    BY <2>2, <2>3, <2>4
<1>3. ASSUME NEW h \in Handlers, SendFails(h) PROVE GateInv'
  BY <1>3 DEF SendFails, tcpVars
<1>4. ASSUME NEW h \in Handlers, Record(h) PROVE GateInv'
  <2>1. times' \in Seq(Times) /\ HasFirst(times')
    BY <1>0, <1>4, Appended DEF Record
  <2> QED
    BY <1>0, <1>4, <2>1 DEF Record, tcpVars
<1>5. ASSUME NEW h \in Handlers, NEW c \in Cues, Arrive(h, c) PROVE GateInv'
  BY <1>0, <1>5, CueAssumption DEF Arrive, tcpVars
<1>6. ASSUME NEW c \in Cues, TcpRefused(c) PROVE GateInv'
  <2>1. Prune(wtimes, now) \in Seq(Times) /\ HasFirst(Prune(wtimes, now))
    BY <1>0, PruneHasFirst
  <2> QED
    BY <1>6, <2>1, CueAssumption DEF TcpRefused, httpVars
<1>7. ASSUME NEW c \in Cues, NEW pass \in BOOLEAN, TcpAccepted(c, pass) PROVE GateInv'
  <2> DEFINE e == Execution(c, now, "tcp")
             ts == Prune(wtimes, now)
  <2>1. e \in Executions
    BY DEF Execution, Executions
  <2>2. ts \in Seq(Times) /\ HasFirst(ts)
    BY <1>0, PruneHasFirst
  <2>3. /\ executed' = executed \/ executed' = Append(executed, e)
        /\ wtimes' = Append(ts, now) /\ wlast' = [wlast EXCEPT ![c] = now]
        /\ requests < MaxRequests /\ requests' = requests + 1
        /\ UNCHANGED <<now, times, last, hpc, hcue, hnow>>
    BY <1>7 DEF TcpAccepted, httpVars
  <2> HIDE DEF e, ts
  <2>4. executed' \in Seq(Executions)
    BY <2>1, <2>3, Extended
  <2>5. wtimes' \in Seq(Times) /\ HasFirst(wtimes')
    BY <2>2, <2>3, Appended
  <2> QED
    BY <2>3, <2>4, <2>5, CueAssumption
<1>8. CASE Tick
  BY <1>0, <1>8, CueAssumption DEF Tick, httpVars, tcpVars, Times
<1>9. CASE UNCHANGED vars
  BY <1>9 DEF vars, httpVars, tcpVars
<1> QED
  BY <1>1, <1>2, <1>3, <1>4, <1>5, <1>6, <1>7, <1>8, <1>9 DEF Next, HandlerStep, Rest

LEMMA GateInvariant == Spec => []GateInv
<1>1. Init => GateInv
  <2> SUFFICES ASSUME Init PROVE GateInv
    OBVIOUS
  <2>1. HasFirst(<<>>)
    BY DEF HasFirst, From
  <2> QED
    BY <2>1, CueAssumption DEF Init, GateInv, TypeOK, Times, Never
<1> QED
  BY <1>1, GateStep, PTL DEF Spec

(* TypeOK: the records of both gates hold clock readings, a handler's       *)
(* reading is never ahead of the clock.                                     *)
THEOREM GateTypes == Spec => []TypeOK
<1>1. GateInv => TypeOK
  BY DEF GateInv
<1> QED
  BY <1>1, GateInvariant, PTL

LEMMA PruneNoMore ==
  ASSUME NEW ts \in Seq(Times), NEW t \in Int, HasFirst(ts), NEW x \in Int
  PROVE  Cardinality(Since(Prune(ts, t), x)) <= Cardinality(Since(ts, x))
<1> DEFINE us == Prune(ts, t)
<1>1. us \in Seq(Times)
  BY PruneHasFirst
<1>2. IsFiniteSet(Since(ts, x)) /\ Cardinality(Since(ts, x)) \in Nat
  BY FiniteDomain DEF Since
<1>3. CASE us = <<>>
  <2>1. Since(us, x) = {} /\ Cardinality(Since(us, x)) = 0
    BY <1>3, FS_EmptySet DEF Since
  <2> QED
    BY <1>2, <2>1
<1>4. ASSUME NEW m \in DOMAIN ts, us = SubSeq(ts, m, Len(ts))
      PROVE  Cardinality(Since(us, x)) <= Cardinality(Since(ts, x))
  <2> DEFINE f == [j \in Since(us, x) |-> m + j - 1]
  <2>1. /\ m \in Int
        /\ \A j \in DOMAIN us : j \in Int /\ m + j - 1 \in DOMAIN ts /\ us[j] = ts[m + j - 1]
    BY <1>1, <1>4, Suffix
  <2> HIDE DEF us
  <2>2. \A j \in Since(us, x) : j \in Int /\ m + j - 1 \in Since(ts, x)
    BY <2>1 DEF Since
  <2>3. f \in Injection(Since(us, x), Since(ts, x))
    BY <2>1, <2>2 DEF Injection, IsInjective
  <2> HIDE DEF f
  <2> QED
    BY <1>2, <2>3, FS_Injection
<1> QED
  BY <1>3, <1>4, Pruned

\* Handlers between their two critical sections with a clock reading from x
\* on, those of them that will record next, and those that may still let an
\* execution into the window that ends at t.
Passed(x)  == {h \in Handlers : hpc[h] \in {"send", "record"} /\ hnow[h] >= x}
ToRecord(x) == {h \in Handlers : hpc[h] = "record" /\ hnow[h] >= x}
Pending(t) == {h \in Handlers : /\ hpc[h] \in {"check", "send"}
                                /\ t - RateWindow <= hnow[h] /\ hnow[h] <= t}

\* What the window that ends at t holds, until a handler with a later clock
\* reading prunes: all of it is recorded or about to be.
Accounted(t) ==
  LET x == t - RateWindow IN
  /\ Cardinality(InWindow("http", t)) <= Cardinality(Since(times, x)) + Cardinality(ToRecord(x))
  /\ Cardinality(Since(times, x)) + Cardinality(Passed(x)) <= RateCount + Cardinality(Handlers) - 1

\* After that only the handlers under way can add to it.
Closing(t) ==
  /\ now > t
  /\ Cardinality(InWindow("http", t)) + Cardinality(Pending(t)) <= RateCount + Overrun

OverrunInv == \A t \in Times : Accounted(t) \/ Closing(t)

LEMMA HandlerSets ==
  ASSUME NEW D \in SUBSET Handlers
  PROVE  /\ IsFiniteSet(D) /\ Cardinality(D) \in Nat /\ Cardinality(D) <= Cardinality(Handlers)
         /\ Cardinality(Handlers) \in Nat
         /\ D # Handlers => Cardinality(D) <= Cardinality(Handlers) - 1
         /\ \A h \in Handlers : D \cup {h} \in SUBSET Handlers
         /\ \A h \in Handlers : Cardinality(D \cup {h}) =
              IF h \in D THEN Cardinality(D) ELSE Cardinality(D) + 1
         /\ \A h \in Handlers : Cardinality(D \ {h}) =
              IF h \in D THEN Cardinality(D) - 1 ELSE Cardinality(D)
<1>1. IsFiniteSet(Handlers) /\ Cardinality(Handlers) \in Nat
  BY CueAssumption, FS_CardinalityType
<1>2. /\ IsFiniteSet(D) /\ Cardinality(D) <= Cardinality(Handlers)
      /\ Cardinality(Handlers) = Cardinality(D) => Handlers = D
  BY <1>1, FS_Subset
<1>3. Cardinality(D) \in Nat
  BY <1>2, FS_CardinalityType
<1> QED
  BY <1>1, <1>2, <1>3, FS_AddElement, FS_RemoveElement

LEMMA WindowSets ==
  ASSUME TypeOK, NEW t \in Times
  PROVE  /\ t \in Int /\ t - RateWindow \in Int
         /\ Cardinality(InWindow("http", t)) \in Nat
         /\ Cardinality(Since(times, t - RateWindow)) \in Nat
         /\ Cardinality(ToRecord(t - RateWindow)) \in Nat
         /\ Cardinality(Passed(t - RateWindow)) \in Nat
         /\ Cardinality(Pending(t)) \in Nat
         /\ Cardinality(ToRecord(t - RateWindow)) <= Cardinality(Passed(t - RateWindow))
         /\ Cardinality(Handlers) \in Nat /\ Cardinality(Handlers) >= 1 /\ RateCount \in Nat
<1>1. t \in Int /\ t - RateWindow \in Int /\ RateCount \in Nat
  BY CueAssumption DEF Times
<1>2. /\ Cardinality(InWindow("http", t)) \in Nat
      /\ Cardinality(Since(times, t - RateWindow)) \in Nat
  BY FiniteDomain DEF TypeOK, InWindow, Since
<1>3. /\ Cardinality(ToRecord(t - RateWindow)) \in Nat
      /\ Cardinality(Passed(t - RateWindow)) \in Nat /\ IsFiniteSet(Passed(t - RateWindow))
      /\ Cardinality(Pending(t)) \in Nat /\ Cardinality(Handlers) \in Nat
  BY HandlerSets DEF ToRecord, Passed, Pending
<1>4. Cardinality(ToRecord(t - RateWindow)) <= Cardinality(Passed(t - RateWindow))
  <2>1. ToRecord(t - RateWindow) \subseteq Passed(t - RateWindow)
    BY DEF ToRecord, Passed
  <2> QED
    BY <1>3, <2>1, FS_Subset
<1>5. Cardinality(Handlers) # 0
  BY CueAssumption, FS_EmptySet
<1> QED
  BY <1>1, <1>2, <1>3, <1>4, <1>5

\* A step that leaves the counts of a window alone; once the clock has passed
\* it, nobody joins those who may add to it.
LEMMA WindowKept ==
  ASSUME TypeOK, NEW t \in Times, Accounted(t) \/ Closing(t), now' \in Int, now' >= now,
         InWindow("http", t)' = InWindow("http", t),
         Since(times, t - RateWindow)' = Since(times, t - RateWindow),
         ToRecord(t - RateWindow)' = ToRecord(t - RateWindow),
         Passed(t - RateWindow)' = Passed(t - RateWindow),
         now > t => Pending(t)' = Pending(t)
  PROVE  (Accounted(t) \/ Closing(t))'
<1>1. t \in Int /\ now \in Int
  BY WindowSets DEF TypeOK, Times
<1>2. CASE Accounted(t)
  BY <1>2 DEF Accounted
<1>3. CASE Closing(t)
  BY <1>1, <1>3 DEF Closing
<1> QED
  BY <1>2, <1>3

LEMMA OverrunStep == GateInv /\ GateInv' /\ OverrunInv /\ [Next]_vars => OverrunInv'
<1> SUFFICES ASSUME GateInv, GateInv', OverrunInv, [Next]_vars, NEW t \in Times
             PROVE  (Accounted(t) \/ Closing(t))'
  BY DEF OverrunInv
<1> DEFINE x == t - RateWindow
<1>0. /\ TypeOK /\ TypeOK' /\ (Accounted(t) \/ Closing(t))
      /\ t \in Int /\ x \in Int /\ now \in Int /\ now' \in Int
      /\ times \in Seq(Times) /\ HasFirst(times)
      /\ hpc \in [Handlers -> {"idle", "check", "send", "record"}]
      /\ \A h \in Handlers : hnow[h] \in Int /\ hnow[h] \in Times /\ hnow[h] <= now
  BY WindowSets DEF GateInv, OverrunInv, TypeOK, Times
<1>1. ASSUME UNCHANGED <<times, hpc, hnow>>, now' >= now,
             InWindow("http", t)' = InWindow("http", t)
      PROVE  (Accounted(t) \/ Closing(t))'
  <2>1. /\ Since(times, x)' = Since(times, x) /\ ToRecord(x)' = ToRecord(x)
        /\ Passed(x)' = Passed(x) /\ Pending(t)' = Pending(t)
    BY <1>1 DEF Since, ToRecord, Passed, Pending
  <2> QED
    BY <1>0, <1>1, <2>1, WindowKept
<1>2. ASSUME NEW h \in Handlers, NEW c \in Cues, Arrive(h, c) PROVE (Accounted(t) \/ Closing(t))'
  <2>1. /\ hpc[h] = "idle" /\ hpc'[h] = "check" /\ hnow'[h] = now /\ UNCHANGED <<now, times, executed>>
        /\ \A g \in Handlers : g # h => hpc'[g] = hpc[g] /\ hnow'[g] = hnow[g]
    BY <1>0, <1>2 DEF Arrive, TypeOK
  <2>2. /\ InWindow("http", t)' = InWindow("http", t) /\ Since(times, x)' = Since(times, x)
        /\ ToRecord(x)' = ToRecord(x) /\ Passed(x)' = Passed(x)
    BY <2>1 DEF InWindow, Since, ToRecord, Passed
  <2>3. now > t => Pending(t)' = Pending(t)
    BY <1>0, <2>1 DEF Pending
  <2> QED
    BY <1>0, <2>1, <2>2, <2>3, WindowKept
<1>3. ASSUME NEW h \in Handlers, Check(h) PROVE (Accounted(t) \/ Closing(t))'
  <2> DEFINE ts == Prune(times, hnow[h])
  <2>1. /\ hpc[h] = "check" /\ times' = ts /\ UNCHANGED <<now, executed, hnow>>
        /\ \A g \in Handlers : g # h => hpc'[g] = hpc[g]
        /\ hpc'[h] = "idle" \/ (hpc'[h] = "send" /\ ~(Len(ts) >= RateCount))
    BY <1>0, <1>3 DEF Check, RateExceeded
  <2>2. InWindow("http", t)' = InWindow("http", t) /\ ToRecord(x)' = ToRecord(x)
    BY <2>1 DEF InWindow, ToRecord
  <2>3. /\ Cardinality(ToRecord(x)) <= Cardinality(Passed(x))
        /\ Cardinality(InWindow("http", t)) \in Nat /\ Cardinality(Since(times, x)) \in Nat
        /\ Cardinality(ToRecord(x)) \in Nat /\ Cardinality(Passed(x)) \in Nat /\ RateCount \in Nat
        /\ Cardinality(Handlers) \in Nat
    BY <1>0, WindowSets
  <2>4. Pending(t)' \subseteq Pending(t)
    BY <2>1 DEF Pending
  <2>5. /\ Cardinality(Pending(t)') <= Cardinality(Pending(t))
        /\ Cardinality(Pending(t)) \in Nat /\ Cardinality(Pending(t)') \in Nat
    <3>1. IsFiniteSet(Pending(t)) /\ Cardinality(Pending(t)) \in Nat
      BY HandlerSets DEF Pending
    <3>2. IsFiniteSet(Pending(t)') /\ Cardinality(Pending(t)') <= Cardinality(Pending(t))
      BY <2>4, <3>1, FS_Subset
    <3> QED
      BY <3>1, <3>2, FS_CardinalityType
  <2>6. CASE Closing(t)
    <3>1. Overrun \in Int
      BY <2>3 DEF Overrun
    <3>2. Closing(t)'
      BY <2>1, <2>2, <2>3, <2>5, <2>6, <3>1 DEF Closing
    <3> QED
      BY <3>2
  <2>7. CASE Accounted(t) /\ hnow[h] > t
    <3>1. now' > t
      BY <1>0, <2>1, <2>7
    <3>2. h \notin Pending(t)' /\ Pending(t)' \subseteq Handlers
      BY <1>0, <2>1, <2>7 DEF Pending
    <3>3. Cardinality(Pending(t)') <= Cardinality(Handlers) - 1
      BY <3>2, HandlerSets
    <3>4. Cardinality(InWindow("http", t)) <= RateCount + Cardinality(Handlers) - 1
      BY <2>3, <2>7 DEF Accounted
    <3>5. Overrun = Cardinality(Handlers) - 1 + Cardinality(Handlers) - 1
      BY <2>3 DEF Overrun
    <3>6. Cardinality(InWindow("http", t)') + Cardinality(Pending(t)') <= RateCount + Overrun
      BY <2>2, <2>3, <2>5, <3>3, <3>4, <3>5
    <3>7. Closing(t)'
      BY <3>1, <3>6 DEF Closing
    <3> QED
      BY <3>7
  <2>8. CASE Accounted(t) /\ ~(hnow[h] > t)
    <3>1. x >= hnow[h] - RateWindow
      BY <1>0, <2>8, CueAssumption
    <3>2. ts \in Seq(Times)
      BY <1>0, PruneHasFirst
    <3>3. Cardinality(Since(ts, x)) \in Nat /\ Cardinality(Since(ts, x)) <= Len(ts) /\ Len(ts) \in Nat
      BY <3>2, FiniteDomain DEF Since
    <3>4. Cardinality(Since(ts, x)) = Cardinality(Since(times, x))
      <4>1. Cardinality(Since(times, x)) <= Cardinality(Since(ts, x))
        BY <1>0, <3>1, PruneKeeps
      <4>2. Cardinality(Since(ts, x)) <= Cardinality(Since(times, x))
        BY <1>0, PruneNoMore
      <4> QED
        BY <2>3, <3>3, <4>1, <4>2
    <3>5. CASE hpc'[h] = "idle"
      <4>1. Passed(x)' = Passed(x)
        BY <2>1, <3>5 DEF Passed
      <4>2. Since(times, x)' = Since(ts, x)
        BY <2>1 DEF Since
      <4>3. Accounted(t)'
        BY <2>2, <2>8, <3>4, <4>1, <4>2 DEF Accounted
      <4> QED
        BY <4>3
    <3>6. CASE hpc'[h] = "send" /\ ~(Len(ts) >= RateCount)
      <4>1. Since(times, x)' = Since(ts, x)
        BY <2>1 DEF Since
      <4>2. Cardinality(Passed(x)') \in Nat /\ Cardinality(Passed(x)') <= Cardinality(Handlers)
        BY HandlerSets DEF Passed
      <4>3. Cardinality(Since(ts, x)) + Cardinality(Passed(x)') <= RateCount + Cardinality(Handlers) - 1
        BY <2>3, <3>3, <3>6, <4>2
      <4>4. Accounted(t)'
        BY <2>2, <2>8, <3>4, <4>1, <4>3 DEF Accounted
      <4> QED
        BY <4>4
    <3> QED
      BY <2>1, <3>5, <3>6
  <2> QED
    BY <1>0, <2>6, <2>7, <2>8
<1>4. ASSUME NEW h \in Handlers, Deliver(h) PROVE (Accounted(t) \/ Closing(t))'
  <2> DEFINE e == Execution(hcue[h], hnow[h], "http")
             n == Len(executed) + 1
  <2>1. /\ hpc[h] = "send" /\ hpc'[h] = "record" /\ UNCHANGED <<now, times, hnow>>
        /\ \A g \in Handlers : g # h => hpc'[g] = hpc[g]
        /\ executed' = Append(executed, e)
    BY <1>0, <1>4 DEF Deliver
  <2>2. e \in Executions /\ e.via = "http" /\ e.at = hnow[h]
    BY DEF GateInv, TypeOK, Execution, Executions
  <2> HIDE DEF e
  <2>3. /\ DOMAIN executed' = DOMAIN executed \cup {n} /\ n \notin DOMAIN executed
        /\ \A i \in DOMAIN executed : executed'[i] = executed[i]
        /\ executed'[n] = e
    <3>1. executed \in Seq(Executions)
      BY <1>0 DEF TypeOK
    <3>2. /\ DOMAIN executed' = DOMAIN executed \cup {n}
          /\ DOMAIN executed = 1..Len(executed) /\ Len(executed) \in Nat
          /\ \A i \in DOMAIN executed : executed'[i] = executed[i]
          /\ executed'[n] = e
      BY <2>1, <2>2, <3>1, Extended
    <3> QED
      BY <3>2
  <2> HIDE DEF n
  <2>4. Since(times, x)' = Since(times, x) /\ Passed(x)' = Passed(x)
    BY <2>1 DEF Since, Passed
  <2>5. /\ Cardinality(InWindow("http", t)) \in Nat /\ Cardinality(Since(times, x)) \in Nat
        /\ Cardinality(ToRecord(x)) \in Nat /\ Cardinality(Pending(t)) \in Nat /\ RateCount \in Nat
        /\ Cardinality(Handlers) \in Nat
    BY <1>0, WindowSets
  <2>6. ToRecord(x)' = IF hnow[h] >= x THEN ToRecord(x) \cup {h} ELSE ToRecord(x)
    BY <2>1 DEF ToRecord
  <2>7. Pending(t)' = IF x <= hnow[h] /\ hnow[h] <= t THEN Pending(t) \ {h} ELSE Pending(t)
    BY <2>1 DEF Pending
  <2>8. InWindow("http", t)' =
          IF x <= hnow[h] /\ hnow[h] <= t THEN InWindow("http", t) \cup {n} ELSE InWindow("http", t)
    BY <2>2, <2>3 DEF InWindow
  <2>9. h \notin ToRecord(x) /\ (x <= hnow[h] /\ hnow[h] <= t => h \in Pending(t))
    BY <2>1 DEF ToRecord, Pending
  <2>10. /\ Cardinality(ToRecord(x) \cup {h}) = Cardinality(ToRecord(x)) + 1
         /\ h \in Pending(t) => Cardinality(Pending(t) \ {h}) = Cardinality(Pending(t)) - 1
    <3>1. ToRecord(x) \in SUBSET Handlers /\ Pending(t) \in SUBSET Handlers
      BY DEF ToRecord, Pending
    <3> QED
      BY <2>9, <3>1, HandlerSets
  <2>11. Cardinality(InWindow("http", t) \cup {n}) = Cardinality(InWindow("http", t)) + 1
    <3>1. IsFiniteSet(InWindow("http", t)) /\ n \notin InWindow("http", t)
      BY <1>0, <2>3, FiniteDomain DEF TypeOK, InWindow
    <3> QED
      BY <3>1, FS_AddElement
  <2>12. CASE x <= hnow[h] /\ hnow[h] <= t
    <3>1. Cardinality(InWindow("http", t)') = Cardinality(InWindow("http", t)) + 1
      BY <2>8, <2>11, <2>12
    <3>2. Cardinality(ToRecord(x)') = Cardinality(ToRecord(x)) + 1
      BY <1>0, <2>6, <2>10, <2>12
    <3>3. Cardinality(Pending(t)') = Cardinality(Pending(t)) - 1
      BY <2>7, <2>9, <2>10, <2>12
    <3>4. Accounted(t) => Accounted(t)'
      BY <2>4, <2>5, <3>1, <3>2 DEF Accounted
    <3>5. Closing(t) => Closing(t)'
      BY <2>1, <2>5, <3>1, <3>3 DEF Closing
    <3> QED
      BY <1>0, <3>4, <3>5
  <2>13. CASE ~(x <= hnow[h] /\ hnow[h] <= t)
    <3>1. InWindow("http", t)' = InWindow("http", t) /\ Pending(t)' = Pending(t)
      BY <2>7, <2>8, <2>13
    <3>2. Cardinality(ToRecord(x)') >= Cardinality(ToRecord(x)) /\ Cardinality(ToRecord(x)') \in Nat
      BY <2>5, <2>6, <2>10
    <3>3. Accounted(t) => Accounted(t)'
      BY <2>4, <2>5, <3>1, <3>2 DEF Accounted
    <3>4. Closing(t) => Closing(t)'
      BY <2>1, <3>1 DEF Closing
    <3> QED
      BY <1>0, <3>3, <3>4
  <2> QED
    BY <2>12, <2>13
<1>5. ASSUME NEW h \in Handlers, SendFails(h) PROVE (Accounted(t) \/ Closing(t))'
  <2>1. /\ hpc[h] = "send" /\ hpc'[h] = "record" /\ UNCHANGED <<now, times, hnow, executed>>
        /\ \A g \in Handlers : g # h => hpc'[g] = hpc[g]
    BY <1>0, <1>5 DEF SendFails
  <2>2. /\ Since(times, x)' = Since(times, x) /\ Passed(x)' = Passed(x)
        /\ InWindow("http", t)' = InWindow("http", t)
    BY <2>1 DEF Since, Passed, InWindow
  <2>3. ToRecord(x) \subseteq ToRecord(x)' /\ Pending(t)' \subseteq Pending(t)
    BY <2>1 DEF ToRecord, Pending
  <2>4. /\ Cardinality(ToRecord(x)) <= Cardinality(ToRecord(x)')
        /\ Cardinality(Pending(t)') <= Cardinality(Pending(t))
        /\ Cardinality(ToRecord(x)') \in Nat /\ Cardinality(Pending(t)') \in Nat
    <3>1. ToRecord(x)' \in SUBSET Handlers /\ Pending(t) \in SUBSET Handlers /\ Pending(t)' \in SUBSET Handlers
      BY DEF ToRecord, Pending
    <3>2. /\ IsFiniteSet(ToRecord(x)') /\ IsFiniteSet(Pending(t))
          /\ Cardinality(ToRecord(x)') \in Nat /\ Cardinality(Pending(t)') \in Nat
      BY <3>1, HandlerSets
    <3> QED
      BY <2>3, <3>2, FS_Subset
  <2>5. /\ Cardinality(InWindow("http", t)) \in Nat /\ Cardinality(Since(times, x)) \in Nat
        /\ Cardinality(ToRecord(x)) \in Nat /\ Cardinality(Pending(t)) \in Nat /\ RateCount \in Nat
        /\ Cardinality(Handlers) \in Nat
    BY <1>0, WindowSets
  <2>6. Accounted(t) => Accounted(t)'
    BY <2>2, <2>4, <2>5 DEF Accounted
  <2>7. Closing(t) => Closing(t)'
    <3>1. Overrun \in Int
      BY <2>5 DEF Overrun
    <3> QED
      BY <2>1, <2>2, <2>4, <2>5, <3>1 DEF Closing
  <2> QED
    BY <1>0, <2>6, <2>7
<1>6. ASSUME NEW h \in Handlers, Record(h) PROVE (Accounted(t) \/ Closing(t))'
  <2>1. /\ hpc[h] = "record" /\ hpc'[h] = "idle" /\ UNCHANGED <<now, hnow, executed>>
        /\ \A g \in Handlers : g # h => hpc'[g] = hpc[g]
        /\ times' = Append(times, hnow[h])
    BY <1>0, <1>6 DEF Record
  <2>2. InWindow("http", t)' = InWindow("http", t) /\ Pending(t)' = Pending(t)
    BY <2>1 DEF InWindow, Pending
  <2>3. /\ Cardinality(InWindow("http", t)) \in Nat /\ Cardinality(Since(times, x)) \in Nat
        /\ Cardinality(ToRecord(x)) \in Nat /\ Cardinality(Passed(x)) \in Nat /\ RateCount \in Nat
        /\ Cardinality(Handlers) \in Nat
    BY <1>0, WindowSets
  <2>4. Cardinality(Since(times', x)) = Cardinality(Since(times, x)) + (IF hnow[h] >= x THEN 1 ELSE 0)
    BY <1>0, <2>1, Appended
  <2>5. /\ ToRecord(x)' = IF hnow[h] >= x THEN ToRecord(x) \ {h} ELSE ToRecord(x)
        /\ Passed(x)' = IF hnow[h] >= x THEN Passed(x) \ {h} ELSE Passed(x)
        /\ hnow[h] >= x => h \in ToRecord(x) /\ h \in Passed(x)
    BY <2>1 DEF ToRecord, Passed
  <2>6. /\ h \in ToRecord(x) => Cardinality(ToRecord(x) \ {h}) = Cardinality(ToRecord(x)) - 1
        /\ h \in Passed(x) => Cardinality(Passed(x) \ {h}) = Cardinality(Passed(x)) - 1
    <3>1. ToRecord(x) \in SUBSET Handlers /\ Passed(x) \in SUBSET Handlers
      BY DEF ToRecord, Passed
    <3> QED
      BY <3>1, HandlerSets
  <2>7. Since(times, x)' = Since(times', x)
    BY DEF Since
  <2>8. Accounted(t) => Accounted(t)'
    <3>1. CASE hnow[h] >= x
      <4>1. /\ Cardinality(ToRecord(x)') = Cardinality(ToRecord(x)) - 1
            /\ Cardinality(Passed(x)') = Cardinality(Passed(x)) - 1
            /\ Cardinality(Since(times, x)') = Cardinality(Since(times, x)) + 1
        BY <2>4, <2>5, <2>6, <2>7, <3>1
      <4> QED
        BY <2>2, <2>3, <4>1 DEF Accounted
    <3>2. CASE ~(hnow[h] >= x)
      <4>1. /\ ToRecord(x)' = ToRecord(x) /\ Passed(x)' = Passed(x)
            /\ Cardinality(Since(times, x)') = Cardinality(Since(times, x))
        BY <2>3, <2>4, <2>5, <2>7, <3>2
      <4> QED
        BY <2>2, <4>1 DEF Accounted
    <3> QED
      BY <3>1, <3>2
  <2>9. Closing(t) => Closing(t)'
    BY <2>1, <2>2 DEF Closing
  <2> QED
    BY <1>0, <2>8, <2>9
<1>7. ASSUME NEW c \in Cues, TcpRefused(c) PROVE (Accounted(t) \/ Closing(t))'
  <2>1. UNCHANGED <<now, times, hpc, hnow, executed>>
    BY <1>7 DEF TcpRefused, httpVars
  <2>2. InWindow("http", t)' = InWindow("http", t)
    BY <2>1 DEF InWindow
  <2> QED
    BY <1>0, <1>1, <2>1, <2>2
<1>8. ASSUME NEW c \in Cues, NEW pass \in BOOLEAN, TcpAccepted(c, pass) PROVE (Accounted(t) \/ Closing(t))'
  <2> DEFINE e == Execution(c, now, "tcp")
  <2>1. /\ UNCHANGED <<now, times, hpc, hnow>>
        /\ executed' = executed \/ executed' = Append(executed, e)
    BY <1>8 DEF TcpAccepted, httpVars
  <2>2. e \in Executions /\ e.via = "tcp"
    BY DEF GateInv, TypeOK, Execution, Executions
  <2> HIDE DEF e
  <2>3. executed \in Seq(Executions)
    BY <1>0 DEF TypeOK
  <2>4. CASE executed' = Append(executed, e)
    <3>1. /\ DOMAIN executed' = DOMAIN executed \cup {Len(executed) + 1}
          /\ \A i \in DOMAIN executed : executed'[i] = executed[i]
          /\ executed'[Len(executed) + 1] = e
      BY <2>2, <2>3, <2>4, Extended
    <3>2. InWindow("http", t)' = InWindow("http", t)
      BY <2>2, <3>1 DEF InWindow
    <3> QED
      BY <1>0, <1>1, <2>1, <3>2
  <2>5. CASE executed' = executed
    <3>1. InWindow("http", t)' = InWindow("http", t)
      BY <2>5 DEF InWindow
    <3> QED
      BY <1>0, <1>1, <2>1, <3>1
  <2> QED
    BY <2>1, <2>4, <2>5
<1>9. CASE Tick
  <2>1. UNCHANGED <<times, hpc, hnow, executed>> /\ now' >= now
    BY <1>0, <1>9 DEF Tick, httpVars
  <2>2. InWindow("http", t)' = InWindow("http", t)
    BY <2>1 DEF InWindow
  <2> QED
    BY <1>1, <2>1, <2>2
<1>10. CASE UNCHANGED vars
  <2>1. UNCHANGED <<now, times, hpc, hnow, executed>>
    BY <1>10 DEF vars, httpVars
  <2>2. InWindow("http", t)' = InWindow("http", t)
    BY <2>1 DEF InWindow
  <2> QED
    BY <1>0, <1>1, <2>1, <2>2
<1> QED
  BY <1>2, <1>3, <1>4, <1>5, <1>6, <1>7, <1>8, <1>9, <1>10 DEF Next, HandlerStep, Rest

(* HttpOverrun: overlapping connections let through at most two cues too    *)
(* many each.  The argument: until a connection with a later clock reading  *)
(* prunes, every execution of the window is in the record or about to be,   *)
(* and a connection that passes has seen fewer than rateLimitCount of them; *)
(* afterwards each of the other connections can still add one.              *)
THEOREM SupervisorRate == Spec => []HttpOverrun
<1>1. Init /\ GateInv => OverrunInv
  <2> SUFFICES ASSUME Init, GateInv, NEW t \in Times PROVE Accounted(t)
    BY DEF OverrunInv
  <2> DEFINE x == t - RateWindow
  <2>1. InWindow("http", t) = {} /\ Since(times, x) = {} /\ ToRecord(x) = {} /\ Passed(x) = {}
    BY DEF Init, InWindow, Since, ToRecord, Passed
  <2>2. Cardinality(Handlers) \in Nat /\ Cardinality(Handlers) >= 1 /\ RateCount \in Nat
    BY WindowSets DEF GateInv
  <2>3. /\ Cardinality(InWindow("http", t)) = 0 /\ Cardinality(Since(times, x)) = 0
        /\ Cardinality(ToRecord(x)) = 0 /\ Cardinality(Passed(x)) = 0
    BY <2>1, FS_EmptySet
  <2> QED
    BY <2>2, <2>3 DEF Accounted
<1>2. GateInv /\ OverrunInv => HttpOverrun
  <2> SUFFICES ASSUME GateInv, OverrunInv, NEW t \in Times
               PROVE  Cardinality(InWindow("http", t)) <= RateCount + Overrun
    BY DEF HttpOverrun, WithinLimit
  <2>1. Accounted(t) \/ Closing(t)
    BY DEF OverrunInv
  <2> QED
    BY <2>1, WindowSets DEF Accounted, Closing, Overrun, GateInv
<1> QED
  BY <1>1, <1>2, OverrunStep, GateInvariant, PTL DEF Spec

-----------------------------------------------------------------------------
(* CueGate: the dedupe window of the supervisor's gate.                     *)

\* n connections can execute a cue 1 + 2 + ... + n times: Tri(n + 1), halved.
Tri(n) == n * (n - 1)

LEMMA Triangular ==
  /\ \A n \in Nat : Tri(n) \in Nat /\ Tri(n + 1) = Tri(n) + 2 * n
  /\ \A m, n \in Nat : m <= n => Tri(m + 1) <= Tri(n + 1)
<1>1. ASSUME NEW n \in Nat PROVE Tri(n) \in Nat /\ Tri(n + 1) = Tri(n) + 2 * n
  BY SMT DEF Tri
<1>2. ASSUME NEW m \in Nat, NEW n \in Nat, m <= n PROVE Tri(m + 1) <= Tri(n + 1)
  <2>1. m * m <= n * n
    <3>1. m * m <= m * n /\ m * n <= n * n
      BY <1>2, SMT
    <3> QED
      BY <3>1, SMT
  <2> QED
    BY <1>2, <2>1, SMT DEF Tri
<1> QED
  BY <1>1, <1>2

\* Handlers under way with the cue and a clock reading in the window that
\* starts at t: before and after the worker's answer.  Fresh are all handlers
\* but those under way with the cue from before the window.
InDedupe(h, t, c) == hcue[h] = c /\ t <= hnow[h] /\ hnow[h] < t + DedupeWindow
Sending(t, c)  == {h \in Handlers : hpc[h] = "send" /\ InDedupe(h, t, c)}
Answered(t, c) == {h \in Handlers : hpc[h] = "record" /\ InDedupe(h, t, c)}
Fresh(t, c)    == {h \in Handlers : ~(hpc[h] # "idle" /\ hcue[h] = c /\ hnow[h] < t)}

\* The record does not hold the cue back in the window.
Open(t, c) == last[c] < t

RepeatsBound(t, c) ==
  LET n == Cardinality(RepeatsFrom(t, c))
      s == Cardinality(Sending(t, c))
      r == Cardinality(Answered(t, c))
      f == Cardinality(Fresh(t, c))
  IN  /\ Open(t, c)  => 2 * n <= Tri(f) + 2 * r
      /\ ~Open(t, c) => 2 * (n + s) <= Tri(f + 1)

\* Nothing is recorded or executed ahead of the clock.
NothingAhead ==
  /\ \A c \in Cues : last[c] <= now
  /\ \A i \in DOMAIN executed : executed[i].at <= now

RepeatsInv == NothingAhead /\ \A t \in Times, c \in Cues : RepeatsBound(t, c)

LEMMA RepeatsSets ==
  ASSUME TypeOK, NEW t \in Times, NEW c \in Cues
  PROVE  /\ IsFiniteSet(RepeatsFrom(t, c)) /\ Cardinality(RepeatsFrom(t, c)) \in Nat
         /\ Cardinality(Sending(t, c)) \in Nat /\ Cardinality(Answered(t, c)) \in Nat
         /\ Cardinality(Fresh(t, c)) \in Nat /\ Cardinality(Handlers) \in Nat
         /\ Cardinality(Fresh(t, c)) <= Cardinality(Handlers)
         /\ Cardinality(Sending(t, c)) + Cardinality(Answered(t, c)) <= Cardinality(Fresh(t, c))
<1>1. IsFiniteSet(RepeatsFrom(t, c)) /\ Cardinality(RepeatsFrom(t, c)) \in Nat
  BY FiniteDomain DEF TypeOK, RepeatsFrom
<1>2. /\ Sending(t, c) \in SUBSET Handlers /\ Answered(t, c) \in SUBSET Handlers
      /\ Fresh(t, c) \in SUBSET Handlers
  BY DEF Sending, Answered, Fresh
<1>3. /\ Cardinality(Sending(t, c)) \in Nat /\ Cardinality(Answered(t, c)) \in Nat
      /\ Cardinality(Fresh(t, c)) \in Nat /\ Cardinality(Handlers) \in Nat
      /\ Cardinality(Fresh(t, c)) <= Cardinality(Handlers)
      /\ IsFiniteSet(Sending(t, c)) /\ IsFiniteSet(Answered(t, c)) /\ IsFiniteSet(Fresh(t, c))
  BY <1>2, HandlerSets
<1>4. Sending(t, c) \cap Answered(t, c) = {}
  BY DEF Sending, Answered
<1>5. Sending(t, c) \cup Answered(t, c) \subseteq Fresh(t, c)
  <2>1. t \in Int /\ \A h \in Handlers : hnow[h] \in Int
    BY DEF TypeOK, Times
  <2> QED
    BY <2>1 DEF Sending, Answered, Fresh, InDedupe
<1>6. Cardinality(Sending(t, c) \cup Answered(t, c)) <= Cardinality(Fresh(t, c))
  BY <1>3, <1>5, FS_Subset
<1>7. Cardinality(Sending(t, c) \cup Answered(t, c)) =
        Cardinality(Sending(t, c)) + Cardinality(Answered(t, c))
  <2>1. Cardinality({}) = 0
    BY FS_EmptySet
  <2>2. Cardinality(Sending(t, c) \cup Answered(t, c)) =
          Cardinality(Sending(t, c)) + Cardinality(Answered(t, c)) - Cardinality({})
    BY <1>3, <1>4, FS_Union
  <2> QED
    BY <1>3, <2>1, <2>2
<1> QED
  BY <1>1, <1>3, <1>6, <1>7

\* How the counts of a window may move: the five kinds of steps.
LEMMA CountsMove ==
  ASSUME TypeOK, TypeOK', NEW t \in Times, NEW c \in Cues, RepeatsBound(t, c),
         Cardinality(Fresh(t, c)') = Cardinality(Fresh(t, c))
           \/ Cardinality(Fresh(t, c)') = Cardinality(Fresh(t, c)) + 1
  PROVE  /\ (/\ Open(t, c)' = Open(t, c) /\ RepeatsFrom(t, c)' = RepeatsFrom(t, c)
             /\ Answered(t, c)' = Answered(t, c)
             /\ Open(t, c) \/ Sending(t, c)' = Sending(t, c)) => RepeatsBound(t, c)'
         /\ (/\ Open(t, c)' = Open(t, c)
             /\ \/ Cardinality(RepeatsFrom(t, c)') = Cardinality(RepeatsFrom(t, c))
                \/ Cardinality(RepeatsFrom(t, c)') = Cardinality(RepeatsFrom(t, c)) + 1
             /\ Cardinality(Sending(t, c)') = Cardinality(Sending(t, c)) - 1
             /\ Cardinality(Answered(t, c)') = Cardinality(Answered(t, c)) + 1)
            => RepeatsBound(t, c)'
         /\ (/\ ~Open(t, c)' /\ RepeatsFrom(t, c)' = RepeatsFrom(t, c)
             /\ Sending(t, c)' = Sending(t, c)) => RepeatsBound(t, c)'
         /\ (/\ Open(t, c)' /\ RepeatsFrom(t, c)' = RepeatsFrom(t, c)
             /\ Answered(t, c)' = Answered(t, c)
             /\ Cardinality(Fresh(t, c)') = Cardinality(Fresh(t, c)) + 1) => RepeatsBound(t, c)'
<1> DEFINE n == Cardinality(RepeatsFrom(t, c))
           s == Cardinality(Sending(t, c))
           r == Cardinality(Answered(t, c))
           f == Cardinality(Fresh(t, c))
           np == Cardinality(RepeatsFrom(t, c)')
           sp == Cardinality(Sending(t, c)')
           rp == Cardinality(Answered(t, c)')
           fp == Cardinality(Fresh(t, c)')
<1>1. n \in Nat /\ s \in Nat /\ r \in Nat /\ f \in Nat /\ s + r <= f
  BY RepeatsSets
<1>2. np \in Nat /\ sp \in Nat /\ rp \in Nat /\ fp \in Nat
  <2>1. /\ (Sending(t, c)') \in SUBSET Handlers /\ (Answered(t, c)') \in SUBSET Handlers
        /\ (Fresh(t, c)') \in SUBSET Handlers
    BY DEF Sending, Answered, Fresh
  <2>2. np \in Nat
    <3>1. executed' \in Seq(Executions) /\ (RepeatsFrom(t, c)') \in SUBSET DOMAIN executed'
      BY DEF TypeOK, RepeatsFrom
    <3> QED
      BY <3>1, FiniteDomain
  <2> QED
    BY <2>1, <2>2, HandlerSets
<1>3. /\ Open(t, c) => 2 * n <= Tri(f) + 2 * r
      /\ ~Open(t, c) => 2 * (n + s) <= Tri(f + 1)
  BY DEF RepeatsBound
<1>4. SUFFICES
        /\ (Open(t, c)' = Open(t, c) /\ np = n /\ rp = r /\ (Open(t, c) \/ sp = s))
           => /\ Open(t, c)'  => 2 * np <= Tri(fp) + 2 * rp
              /\ ~Open(t, c)' => 2 * (np + sp) <= Tri(fp + 1)
        /\ (Open(t, c)' = Open(t, c) /\ (np = n \/ np = n + 1) /\ sp = s - 1 /\ rp = r + 1)
           => /\ Open(t, c)'  => 2 * np <= Tri(fp) + 2 * rp
              /\ ~Open(t, c)' => 2 * (np + sp) <= Tri(fp + 1)
        /\ (~Open(t, c)' /\ np = n /\ sp = s) => 2 * (np + sp) <= Tri(fp + 1)
        /\ (Open(t, c)' /\ np = n /\ rp = r /\ fp = f + 1) => 2 * np <= Tri(fp) + 2 * rp
  BY DEF RepeatsBound
<1>5. /\ Tri(f) \in Nat /\ Tri(f + 1) = Tri(f) + 2 * f /\ Tri(f + 1) \in Nat
      /\ Tri(f + 2) \in Nat /\ Tri(f + 2) >= Tri(f + 1)
  <2>1. f + 1 \in Nat /\ f + 2 = (f + 1) + 1
    BY <1>1
  <2> QED
    BY <1>1, <2>1, Triangular
<1>6. fp = f \/ fp = f + 1
  OBVIOUS
<1>7. /\ Tri(fp) \in Nat /\ Tri(fp) >= Tri(f) /\ Tri(fp + 1) \in Nat /\ Tri(fp + 1) >= Tri(f + 1)
      /\ fp = f + 1 => Tri(fp) = Tri(f + 1)
  <2>1. CASE fp = f
    BY <1>1, <1>5, <2>1
  <2>2. CASE fp = f + 1
    <3>1. fp + 1 = f + 2
      BY <1>1, <2>2
    <3>2. Tri(f + 1) >= Tri(f)
      BY <1>1, <1>5
    <3> QED
      BY <1>1, <1>5, <2>2, <3>1, <3>2
  <2> QED
    BY <1>6, <2>1, <2>2
<1> HIDE DEF n, s, r, f, np, sp, rp, fp
<1> QED
  BY <1>1, <1>2, <1>3, <1>5, <1>7

\* A step that touches neither record nor handlers, nor executes for the supervisor.
LEMMA RepeatsKept ==
  ASSUME TypeOK, TypeOK', RepeatsInv, UNCHANGED <<last, hpc, hcue, hnow>>,
         \A t \in Times, c \in Cues : RepeatsFrom(t, c)' = RepeatsFrom(t, c), NothingAhead'
  PROVE  RepeatsInv'
<1> SUFFICES ASSUME NEW t \in Times, NEW c \in Cues PROVE RepeatsBound(t, c)'
  BY DEF RepeatsInv
<1>1. /\ Sending(t, c)' = Sending(t, c) /\ Answered(t, c)' = Answered(t, c)
      /\ Fresh(t, c)' = Fresh(t, c) /\ Open(t, c)' = Open(t, c)
  BY DEF Sending, Answered, Fresh, InDedupe, Open
<1>2. RepeatsBound(t, c)
  BY DEF RepeatsInv
<1> QED
  BY <1>1, <1>2, CountsMove

LEMMA RepeatsStep == GateInv /\ GateInv' /\ RepeatsInv /\ [Next]_vars => RepeatsInv'
<1> SUFFICES ASSUME GateInv, GateInv', RepeatsInv, [Next]_vars PROVE RepeatsInv'
  OBVIOUS
<1>0. /\ TypeOK /\ TypeOK' /\ NothingAhead /\ now \in Int /\ now' \in Int
      /\ executed \in Seq(Executions)
      /\ \A i \in DOMAIN executed : executed[i].at \in Int
      /\ \A c \in Cues : last[c] \in Int /\ last[c] >= 0 /\ (last[c] >= 1 => last[c] # Never)
      /\ \A t \in Times : t \in Int /\ t >= 1
      /\ hpc \in [Handlers -> {"idle", "check", "send", "record"}]
      /\ DedupeWindow \in Nat
      /\ \A h \in Handlers : hcue[h] \in Cues /\ hnow[h] \in Int /\ hnow[h] \in Times /\ hnow[h] <= now
  <2>1. \A i \in DOMAIN executed : executed[i] \in Executions
    BY DEF GateInv, TypeOK
  <2>2. \A i \in DOMAIN executed : executed[i].at \in Int
    BY <2>1 DEF Executions, Times
  <2> QED
    BY <2>2, CueAssumption DEF GateInv, TypeOK, RepeatsInv, Times, Never
<1>1. ASSUME UNCHANGED <<executed, last, hpc, hcue, hnow>>, now' >= now PROVE RepeatsInv'
  <2>1. NothingAhead'
    BY <1>0, <1>1 DEF NothingAhead
  <2>2. \A t \in Times, c \in Cues : RepeatsFrom(t, c)' = RepeatsFrom(t, c)
    BY <1>1 DEF RepeatsFrom
  <2> QED
    BY <1>0, <1>1, <2>1, <2>2, RepeatsKept
<1>2. ASSUME NEW h \in Handlers, NEW d \in Cues, Arrive(h, d) PROVE RepeatsInv'
  <2>1. /\ hpc[h] = "idle" /\ hpc'[h] = "check" /\ hnow'[h] = now /\ hcue'[h] = d
        /\ UNCHANGED <<now, last, executed>>
        /\ \A g \in Handlers : g # h => hpc'[g] = hpc[g] /\ hnow'[g] = hnow[g] /\ hcue'[g] = hcue[g]
    BY <1>0, <1>2 DEF Arrive, TypeOK
  <2>2. NothingAhead'
    BY <1>0, <2>1 DEF NothingAhead
  <2>3. ASSUME NEW t \in Times, NEW c \in Cues PROVE RepeatsBound(t, c)'
    <3>1. Open(t, c)' = Open(t, c) /\ RepeatsFrom(t, c)' = RepeatsFrom(t, c)
      BY <2>1 DEF Open, RepeatsFrom
    <3>2. CASE now < t
      <4>1. Open(t, c)
        BY <1>0, <3>2 DEF Open, NothingAhead
      <4>2. RepeatsFrom(t, c) = {}
        BY <1>0, <3>2 DEF RepeatsFrom, NothingAhead
      <4>3. Cardinality(RepeatsFrom(t, c)') = 0
        BY <3>1, <4>2, FS_EmptySet
      <4>4. (Answered(t, c)') \in SUBSET Handlers /\ (Fresh(t, c)') \in SUBSET Handlers
        BY DEF Answered, Fresh
      <4>5. Cardinality(Answered(t, c)') \in Nat /\ Cardinality(Fresh(t, c)') \in Nat
        BY <4>4, HandlerSets
      <4>6. Tri(Cardinality(Fresh(t, c)')) \in Nat
        BY <4>5, Triangular
      <4> QED
        BY <3>1, <4>1, <4>3, <4>5, <4>6 DEF RepeatsBound
    <3>3. CASE ~(now < t)
      <4>1. /\ Sending(t, c)' = Sending(t, c) /\ Answered(t, c)' = Answered(t, c)
        BY <2>1 DEF Sending, Answered, InDedupe
      <4>2. Fresh(t, c)' = Fresh(t, c)
        BY <2>1, <3>3 DEF Fresh
      <4>3. RepeatsBound(t, c)
        BY DEF RepeatsInv
      <4> QED
        BY <1>0, <3>1, <4>1, <4>2, <4>3, CountsMove
    <3> QED
      BY <3>2, <3>3
  <2> QED
    BY <2>2, <2>3 DEF RepeatsInv
<1>3. ASSUME NEW h \in Handlers, Check(h) PROVE RepeatsInv'
  <2>1. /\ hpc[h] = "check" /\ UNCHANGED <<now, last, executed, hcue, hnow>>
        /\ \A g \in Handlers : g # h => hpc'[g] = hpc[g]
        /\ hpc'[h] = "idle" \/ (hpc'[h] = "send" /\ ~Duplicate(last, hcue[h], hnow[h]))
    BY <1>0, <1>3 DEF Check
  <2>2. NothingAhead'
    BY <1>0, <2>1 DEF NothingAhead
  <2>3. ASSUME NEW t \in Times, NEW c \in Cues PROVE RepeatsBound(t, c)'
    <3>1. Open(t, c)' = Open(t, c) /\ RepeatsFrom(t, c)' = RepeatsFrom(t, c)
      BY <2>1 DEF Open, RepeatsFrom
    <3>2. Answered(t, c)' = Answered(t, c)
      BY <2>1 DEF Answered, InDedupe
    <3>3. Fresh(t, c)' = Fresh(t, c) \/ (h \notin Fresh(t, c) /\ Fresh(t, c)' = Fresh(t, c) \cup {h})
      BY <2>1 DEF Fresh
    <3>4. \/ Cardinality(Fresh(t, c)') = Cardinality(Fresh(t, c))
          \/ Cardinality(Fresh(t, c)') = Cardinality(Fresh(t, c)) + 1
      <4>1. Fresh(t, c) \in SUBSET Handlers
        BY DEF Fresh
      <4> QED
        BY <3>3, <4>1, HandlerSets
    <3>5. Open(t, c) \/ Sending(t, c)' = Sending(t, c)
      <4>1. CASE hpc'[h] = "send" /\ InDedupe(h, t, c)
        <5>1. ~Duplicate(last, c, hnow[h]) /\ t <= hnow[h] /\ hnow[h] < t + DedupeWindow
          BY <2>1, <4>1 DEF InDedupe
        <5>2. last[c] < t
          BY <1>0, <5>1 DEF Duplicate
        <5> QED
          BY <5>2 DEF Open
      <4>2. CASE ~(hpc'[h] = "send" /\ InDedupe(h, t, c))
        <5>1. h \notin Sending(t, c) /\ h \notin Sending(t, c)'
          BY <2>1, <4>2 DEF Sending, InDedupe
        <5>2. \A g \in Handlers : g # h => (g \in Sending(t, c) <=> g \in Sending(t, c)')
          BY <2>1 DEF Sending, InDedupe
        <5> QED
          BY <5>1, <5>2 DEF Sending
      <4> QED
        BY <4>1, <4>2
    <3>6. RepeatsBound(t, c)
      BY DEF RepeatsInv
    <3> QED
      BY <1>0, <3>1, <3>2, <3>4, <3>5, <3>6, CountsMove
  <2> QED
    BY <2>2, <2>3 DEF RepeatsInv
<1>4. ASSUME NEW h \in Handlers,
             hpc[h] = "send", hpc' = [hpc EXCEPT ![h] = "record"],
             UNCHANGED <<now, last, hcue, hnow>>,
             \/ executed' = executed
             \/ executed' = Append(executed, Execution(hcue[h], hnow[h], "http"))
      PROVE  RepeatsInv'
  <2> DEFINE e == Execution(hcue[h], hnow[h], "http")
             k == Len(executed) + 1
  <2>1. /\ hpc'[h] = "record" /\ \A g \in Handlers : g # h => hpc'[g] = hpc[g]
    BY <1>0, <1>4
  <2>2. e \in Executions /\ e.cue = hcue[h] /\ e.at = hnow[h]
    BY DEF GateInv, TypeOK, Execution, Executions
  <2> HIDE DEF e
  <2>3. \/ executed' = executed
        \/ /\ DOMAIN executed' = DOMAIN executed \cup {k} /\ k \notin DOMAIN executed
           /\ \A i \in DOMAIN executed : executed'[i] = executed[i]
           /\ executed'[k] = e
    <3>1. CASE executed' = Append(executed, e)
      <4>1. /\ DOMAIN executed' = DOMAIN executed \cup {k}
            /\ DOMAIN executed = 1..Len(executed) /\ Len(executed) \in Nat
            /\ \A i \in DOMAIN executed : executed'[i] = executed[i]
            /\ executed'[k] = e
        BY <1>0, <2>2, <3>1, Extended
      <4> QED
        BY <4>1
    <3> QED
      BY <1>4, <3>1 DEF e
  <2> HIDE DEF k
  <2>4. NothingAhead'
    <3>1. \A i \in DOMAIN executed' : executed'[i].at <= now
      BY <1>0, <2>2, <2>3 DEF NothingAhead
    <3> QED
      BY <1>0, <1>4, <3>1 DEF NothingAhead
  <2>5. ASSUME NEW t \in Times, NEW c \in Cues PROVE RepeatsBound(t, c)'
    <3>1. Open(t, c)' = Open(t, c) /\ Fresh(t, c)' = Fresh(t, c)
      BY <1>4, <2>1 DEF Open, Fresh
    <3>2. RepeatsBound(t, c)
      BY DEF RepeatsInv
    <3>3. CASE InDedupe(h, t, c)
      <4>1. /\ Sending(t, c)' = Sending(t, c) \ {h} /\ h \in Sending(t, c)
            /\ Answered(t, c)' = Answered(t, c) \cup {h} /\ h \notin Answered(t, c)
        BY <1>4, <2>1, <3>3 DEF Sending, Answered, InDedupe
      <4>2. /\ Cardinality(Sending(t, c)') = Cardinality(Sending(t, c)) - 1
            /\ Cardinality(Answered(t, c)') = Cardinality(Answered(t, c)) + 1
        <5>1. Sending(t, c) \in SUBSET Handlers /\ Answered(t, c) \in SUBSET Handlers
          BY DEF Sending, Answered
        <5> QED
          BY <4>1, <5>1, HandlerSets
      <4>3. \/ RepeatsFrom(t, c)' = RepeatsFrom(t, c)
            \/ RepeatsFrom(t, c)' = RepeatsFrom(t, c) \cup {k}
        BY <2>3 DEF RepeatsFrom
      <4>4. \/ Cardinality(RepeatsFrom(t, c)') = Cardinality(RepeatsFrom(t, c))
            \/ Cardinality(RepeatsFrom(t, c)') = Cardinality(RepeatsFrom(t, c)) + 1
        <5>1. IsFiniteSet(RepeatsFrom(t, c))
          BY <1>0, RepeatsSets
        <5> QED
          BY <4>3, <5>1, FS_AddElement
      <4> QED
        BY <1>0, <3>1, <3>2, <4>2, <4>4, CountsMove
    <3>4. CASE ~InDedupe(h, t, c)
      <4>1. Sending(t, c)' = Sending(t, c) /\ Answered(t, c)' = Answered(t, c)
        BY <1>4, <2>1, <3>4 DEF Sending, Answered, InDedupe
      <4>2. RepeatsFrom(t, c)' = RepeatsFrom(t, c)
        BY <2>2, <2>3, <3>4 DEF RepeatsFrom, InDedupe
      <4> QED
        BY <1>0, <3>1, <3>2, <4>1, <4>2, CountsMove
    <3> QED
      BY <3>3, <3>4
  <2> QED
    BY <2>4, <2>5 DEF RepeatsInv
<1>5. ASSUME NEW h \in Handlers, Record(h) PROVE RepeatsInv'
  <2>1. /\ hpc[h] = "record" /\ hpc'[h] = "idle" /\ UNCHANGED <<now, hnow, hcue, executed>>
        /\ \A g \in Handlers : g # h => hpc'[g] = hpc[g]
        /\ last'[hcue[h]] = hnow[h] /\ \A c \in Cues : c # hcue[h] => last'[c] = last[c]
    BY <1>0, <1>5 DEF Record, TypeOK
  <2>2. NothingAhead'
    BY <1>0, <2>1 DEF NothingAhead
  <2>3. ASSUME NEW t \in Times, NEW c \in Cues PROVE RepeatsBound(t, c)'
    <3>1. RepeatsFrom(t, c)' = RepeatsFrom(t, c) /\ Sending(t, c)' = Sending(t, c)
      BY <2>1 DEF RepeatsFrom, Sending, InDedupe
    <3>2. RepeatsBound(t, c) /\ Fresh(t, c) \in SUBSET Handlers
      BY DEF RepeatsInv, Fresh
    <3>3. CASE hcue[h] # c
      <4>1. /\ Answered(t, c)' = Answered(t, c) /\ Fresh(t, c)' = Fresh(t, c)
            /\ Open(t, c)' = Open(t, c)
        BY <2>1, <3>3 DEF Answered, Fresh, Open, InDedupe
      <4> QED
        BY <1>0, <3>1, <3>2, <4>1, CountsMove
    <3>4. CASE hcue[h] = c /\ hnow[h] < t
      <4>1. /\ Open(t, c)' /\ h \notin Fresh(t, c) /\ Fresh(t, c)' = Fresh(t, c) \cup {h}
        BY <2>1, <3>4 DEF Open, Fresh
      <4>2. Answered(t, c)' = Answered(t, c)
        BY <1>0, <2>1, <3>4 DEF Answered, InDedupe
      <4>3. Cardinality(Fresh(t, c)') = Cardinality(Fresh(t, c)) + 1
        BY <3>2, <4>1, HandlerSets
      <4> QED
        BY <1>0, <3>1, <3>2, <4>1, <4>2, <4>3, CountsMove
    <3>5. CASE hcue[h] = c /\ ~(hnow[h] < t)
      <4>1. ~Open(t, c)' /\ Fresh(t, c)' = Fresh(t, c)
        BY <2>1, <3>5 DEF Open, Fresh
      <4> QED
        BY <1>0, <3>1, <3>2, <4>1, CountsMove
    <3> QED
      BY <3>3, <3>4, <3>5
  <2> QED
    BY <2>2, <2>3 DEF RepeatsInv
<1>6. ASSUME NEW c \in Cues, TcpRefused(c) PROVE RepeatsInv'
  BY <1>0, <1>1, <1>6 DEF TcpRefused, httpVars
<1>7. ASSUME NEW d \in Cues, NEW pass \in BOOLEAN, TcpAccepted(d, pass) PROVE RepeatsInv'
  <2> DEFINE e == Execution(d, now, "tcp")
  <2>1. /\ UNCHANGED <<now, last, hpc, hcue, hnow>>
        /\ executed' = executed \/ executed' = Append(executed, e)
    BY <1>7 DEF TcpAccepted, httpVars
  <2>2. e \in Executions /\ e.via = "tcp" /\ e.at = now
    BY DEF GateInv, TypeOK, Execution, Executions
  <2> HIDE DEF e
  <2>3. CASE executed' = Append(executed, e)
    <3>1. /\ DOMAIN executed' = DOMAIN executed \cup {Len(executed) + 1}
          /\ \A i \in DOMAIN executed : executed'[i] = executed[i]
          /\ executed'[Len(executed) + 1] = e
      BY <1>0, <2>2, <2>3, Extended
    <3>2. \A t \in Times, c \in Cues : RepeatsFrom(t, c)' = RepeatsFrom(t, c)
      BY <2>2, <3>1 DEF RepeatsFrom
    <3>3. NothingAhead'
      BY <1>0, <2>1, <2>2, <3>1 DEF NothingAhead
    <3> QED
      BY <1>0, <2>1, <3>2, <3>3, RepeatsKept
  <2>4. CASE executed' = executed
    BY <1>0, <1>1, <2>1, <2>4
  <2> QED
    BY <2>1, <2>3, <2>4
<1>8. CASE Tick
  BY <1>0, <1>1, <1>8 DEF Tick, httpVars
<1>9. CASE UNCHANGED vars
  BY <1>0, <1>1, <1>9 DEF vars, httpVars
<1>10. ASSUME NEW h \in Handlers, Deliver(h) PROVE RepeatsInv'
  BY <1>4, <1>10 DEF Deliver
<1>11. ASSUME NEW h \in Handlers, SendFails(h) PROVE RepeatsInv'
  BY <1>4, <1>11 DEF SendFails
<1> QED
  BY <1>2, <1>3, <1>5, <1>6, <1>7, <1>8, <1>9, <1>10, <1>11 DEF Next, HandlerStep, Rest

(* HttpRepeats: n connections execute a cue at most 1 + 2 + ... + n times   *)
(* in a dedupe window.  The argument: while the record holds the window     *)
(* closed nobody passes the check; it opens again only by the record of a   *)
(* connection with an older clock reading, which thereby has become one     *)
(* more that can pass, and what passes before the window closes is no more  *)
(* than those connections.                                                  *)
THEOREM SupervisorDedupe == Spec => []HttpRepeats
<1>1. Init /\ GateInv => RepeatsInv
  <2> SUFFICES ASSUME Init, GateInv PROVE RepeatsInv
    OBVIOUS
  <2>1. TypeOK /\ NothingAhead
    BY DEF GateInv, Init, NothingAhead, Never
  <2>2. ASSUME NEW t \in Times, NEW c \in Cues PROVE RepeatsBound(t, c)
    <3>1. Open(t, c) /\ RepeatsFrom(t, c) = {}
      BY DEF Init, Open, RepeatsFrom, Never, Times
    <3>2. Cardinality(RepeatsFrom(t, c)) = 0
      BY <3>1, FS_EmptySet
    <3>3. Cardinality(Fresh(t, c)) \in Nat /\ Cardinality(Answered(t, c)) \in Nat
      BY <2>1, RepeatsSets
    <3>4. Tri(Cardinality(Fresh(t, c))) \in Nat
      BY <3>3, Triangular
    <3> QED
      BY <3>1, <3>2, <3>3, <3>4 DEF RepeatsBound
  <2> QED
    BY <2>1, <2>2 DEF RepeatsInv
<1>2. GateInv /\ RepeatsInv => HttpRepeats
  <2> SUFFICES ASSUME GateInv, RepeatsInv, NEW t \in Times, NEW c \in Cues
               PROVE  2 * Cardinality(RepeatsFrom(t, c))
                        <= Cardinality(Handlers) * (Cardinality(Handlers) + 1)
    BY DEF HttpRepeats
  <2> DEFINE n == Cardinality(RepeatsFrom(t, c))
             s == Cardinality(Sending(t, c))
             r == Cardinality(Answered(t, c))
             f == Cardinality(Fresh(t, c))
             H == Cardinality(Handlers)
  <2>1. n \in Nat /\ s \in Nat /\ r \in Nat /\ f \in Nat /\ s + r <= f /\ H \in Nat /\ f <= H
    BY RepeatsSets DEF GateInv
  <2>2. 2 * n <= Tri(f) + 2 * r \/ 2 * (n + s) <= Tri(f + 1)
    BY DEF RepeatsInv, RepeatsBound
  <2>3. Tri(f) \in Nat /\ Tri(f + 1) = Tri(f) + 2 * f /\ Tri(f + 1) <= Tri(H + 1)
    BY <2>1, Triangular
  <2>4. Tri(H + 1) = H * (H + 1)
    BY <2>1 DEF Tri
  <2>5. H * (H + 1) \in Nat
    BY <2>1
  <2> HIDE DEF n, s, r, f, H
  <2>6. 2 * n <= Tri(f + 1)
    BY <2>1, <2>2, <2>3
  <2>7. Tri(f + 1) \in Nat /\ Tri(H + 1) \in Nat
    BY <2>1, <2>3, <2>4, <2>5
  <2>8. 2 * n <= H * (H + 1)
    BY <2>1, <2>3, <2>4, <2>6, <2>7
  <2> QED
    BY <2>8 DEF n, H
<1> QED
  BY <1>1, <1>2, RepeatsStep, GateInvariant, PTL DEF Spec

(* HttpGateBounded: the supervisor's gate misses both promises by no more   *)
(* than its connections allow, for any limit, windows and number of them.   *)
THEOREM SupervisorGate == Spec => []HttpGateBounded
  BY SupervisorRate, SupervisorDedupe, PTL DEF HttpGateBounded

-----------------------------------------------------------------------------
(* MetadataListener.                                                        *)

LEMMA MetaTypeStep == MetaTypeOK /\ [MetaNext]_metaVars => MetaTypeOK'
<1> SUFFICES ASSUME MetaTypeOK, [MetaNext]_metaVars PROVE MetaTypeOK'
  OBVIOUS
<1> USE MetaAssumption DEF MetaTypeOK
<1> USE DEF metaVars, apiVars, threadVars, packetVars
<1>1. ASSUME NEW at \in Endpoints, ConfigSaved(at) PROVE MetaTypeOK'
  <2>1. SettingsOK'
    BY <1>1 DEF ConfigSaved, SettingsOK, Endpoints
  <2>2. ServingOK'
    BY <1>1 DEF ConfigSaved, ServingOK, SettingsOK, SourcesOK, Endpoints, Waiting
  <2>3. SourcesOK'
    BY <1>1 DEF ConfigSaved, SourcesOK, ServingOK, SettingsOK, Endpoints, Waiting
  <2> QED
    BY <1>1, <2>1, <2>2, <2>3 DEF ConfigSaved
<1>2. ASSUME NEW on \in BOOLEAN, NEW at \in Endpoints, ApiTruncates(on, at) PROVE MetaTypeOK'
  <2>1. SettingsOK'
    BY <1>2 DEF ApiTruncates, SettingsOK, Endpoints
  <2>2. ServingOK'
    BY <1>2 DEF ApiTruncates, ServingOK, SettingsOK, SourcesOK, Endpoints, Waiting
  <2>3. SourcesOK'
    BY <1>2 DEF ApiTruncates, SourcesOK, ServingOK, SettingsOK, Endpoints, Waiting
  <2> QED
    BY <1>2, <2>1, <2>2, <2>3 DEF ApiTruncates
<1>3. ASSUME ApiWrites PROVE MetaTypeOK'
  <2>1. SettingsOK'
    BY <1>3 DEF ApiWrites, SettingsOK, Endpoints
  <2>2. ServingOK'
    BY <1>3 DEF ApiWrites, ServingOK, SettingsOK, SourcesOK, Endpoints, Waiting
  <2>3. SourcesOK'
    BY <1>3 DEF ApiWrites, SourcesOK, ServingOK, SettingsOK, Endpoints, Waiting
  <2> QED
    BY <1>3, <2>1, <2>2, <2>3 DEF ApiWrites
<1>4. ASSUME ApiSetsFlag PROVE MetaTypeOK'
  <2>1. SettingsOK'
    BY <1>4 DEF ApiSetsFlag, SettingsOK, Endpoints
  <2>2. ServingOK'
    BY <1>4 DEF ApiSetsFlag, ServingOK, SettingsOK, SourcesOK, Endpoints, Waiting
  <2>3. SourcesOK'
    BY <1>4 DEF ApiSetsFlag, SourcesOK, ServingOK, SettingsOK, Endpoints, Waiting
  <2> QED
    BY <1>4, <2>1, <2>2, <2>3 DEF ApiSetsFlag
<1>5. ASSUME MetaStop PROVE MetaTypeOK'
  <2>1. SettingsOK'
    BY <1>5 DEF MetaStop, SettingsOK, Endpoints
  <2>2. ServingOK'
    BY <1>5 DEF MetaStop, ServingOK, SettingsOK, SourcesOK, Endpoints, Waiting
  <2>3. SourcesOK'
    BY <1>5 DEF MetaStop, SourcesOK, ServingOK, SettingsOK, Endpoints, Waiting
  <2> QED
    BY <1>5, <2>1, <2>2, <2>3 DEF MetaStop
<1>6. ASSUME LoopLeaves PROVE MetaTypeOK'
  <2>1. SettingsOK'
    BY <1>6 DEF LoopLeaves, CloseListen, HangUp, Waiting, SettingsOK, Endpoints
  <2>2. ServingOK'
    BY <1>6 DEF LoopLeaves, CloseListen, HangUp, Waiting, ServingOK, SettingsOK, SourcesOK,
         Endpoints
  <2>3. SourcesOK'
    BY <1>6 DEF LoopLeaves, CloseListen, HangUp, Waiting, SourcesOK, ServingOK, SettingsOK,
         Endpoints
  <2> QED
    BY <1>6, <2>1, <2>2, <2>3 DEF LoopLeaves, CloseListen, HangUp, Waiting
<1>7. ASSUME LoopOff PROVE MetaTypeOK'
  <2>1. SettingsOK'
    BY <1>7 DEF LoopOff, CloseListen, HangUp, Waiting, SettingsOK, Endpoints
  <2>2. ServingOK'
    BY <1>7 DEF LoopOff, CloseListen, HangUp, Waiting, ServingOK, SettingsOK, SourcesOK, Endpoints
  <2>3. SourcesOK'
    BY <1>7 DEF LoopOff, CloseListen, HangUp, Waiting, SourcesOK, ServingOK, SettingsOK, Endpoints
  <2> QED
    BY <1>7, <2>1, <2>2, <2>3 DEF LoopOff, CloseListen, HangUp, Waiting
<1>8. ASSUME LoopListens PROVE MetaTypeOK'
  <2>1. SettingsOK'
    BY <1>8 DEF LoopListens, HangUp, Waiting, ReadEndpoint, SettingsOK, Endpoints
  <2>2. ServingOK'
    BY <1>8 DEF LoopListens, HangUp, Waiting, ReadEndpoint, ServingOK, SettingsOK, SourcesOK,
         Endpoints
  <2>3. SourcesOK'
    BY <1>8 DEF LoopListens, HangUp, Waiting, ReadEndpoint, SourcesOK, ServingOK, SettingsOK,
         Endpoints
  <2> QED
    BY <1>8, <2>1, <2>2, <2>3 DEF LoopListens, HangUp, Waiting, ReadEndpoint
<1>9. ASSUME BindFails PROVE MetaTypeOK'
  <2>1. SettingsOK'
    BY <1>9 DEF BindFails, CloseListen, HangUp, Waiting, ReadEndpoint, SettingsOK, Endpoints
  <2>2. ServingOK'
    BY <1>9 DEF BindFails, CloseListen, HangUp, Waiting, ReadEndpoint, ServingOK, SettingsOK,
         SourcesOK, Endpoints
  <2>3. SourcesOK'
    BY <1>9 DEF BindFails, CloseListen, HangUp, Waiting, ReadEndpoint, SourcesOK, ServingOK,
         SettingsOK, Endpoints
  <2> QED
    BY <1>9, <2>1, <2>2, <2>3 DEF BindFails, CloseListen, HangUp, Waiting, ReadEndpoint
<1>10. ASSUME LoopDials PROVE MetaTypeOK'
  <2>1. SettingsOK'
    BY <1>10 DEF LoopDials, CloseListen, HangUp, Waiting, ReadEndpoint, SettingsOK, Endpoints
  <2>2. ServingOK'
    BY <1>10 DEF LoopDials, CloseListen, HangUp, Waiting, ReadEndpoint, ServingOK, SettingsOK,
         SourcesOK, Endpoints
  <2>3. SourcesOK'
    BY <1>10 DEF LoopDials, CloseListen, HangUp, Waiting, ReadEndpoint, SourcesOK, ServingOK,
         SettingsOK, Endpoints
  <2> QED
    BY <1>10, <2>1, <2>2, <2>3 DEF LoopDials, CloseListen, HangUp, Waiting, ReadEndpoint
<1>11. ASSUME NobodyCame PROVE MetaTypeOK'
  <2>1. SettingsOK'
    BY <1>11 DEF NobodyCame, Waiting, SettingsOK, Endpoints
  <2>2. ServingOK'
    BY <1>11 DEF NobodyCame, Waiting, ServingOK, SettingsOK, SourcesOK, Endpoints
  <2>3. SourcesOK'
    BY <1>11 DEF NobodyCame, Waiting, SourcesOK, ServingOK, SettingsOK, Endpoints
  <2> QED
    BY <1>11, <2>1, <2>2, <2>3 DEF NobodyCame, Waiting
<1>12. ASSUME DialFails PROVE MetaTypeOK'
  <2>1. SettingsOK'
    BY <1>12 DEF DialFails, SettingsOK, Endpoints
  <2>2. ServingOK'
    BY <1>12 DEF DialFails, ServingOK, SettingsOK, SourcesOK, Endpoints, Waiting
  <2>3. SourcesOK'
    BY <1>12 DEF DialFails, SourcesOK, ServingOK, SettingsOK, Endpoints, Waiting
  <2> QED
    BY <1>12, <2>1, <2>2, <2>3 DEF DialFails
<1>13. ASSUME CheckPasses PROVE MetaTypeOK'
  <2>1. SettingsOK'
    BY <1>13 DEF CheckPasses, Changed, ReadEndpoint, SettingsOK, Endpoints
  <2>2. ServingOK'
    BY <1>13 DEF CheckPasses, Changed, ReadEndpoint, ServingOK, SettingsOK, SourcesOK, Endpoints,
         Waiting
  <2>3. SourcesOK'
    BY <1>13 DEF CheckPasses, Changed, ReadEndpoint, SourcesOK, ServingOK, SettingsOK, Endpoints,
         Waiting
  <2> QED
    BY <1>13, <2>1, <2>2, <2>3 DEF CheckPasses, Changed, ReadEndpoint
<1>14. ASSUME CheckEnds PROVE MetaTypeOK'
  <2>1. SettingsOK'
    BY <1>14 DEF CheckEnds, Changed, ReadEndpoint, SettingsOK, Endpoints
  <2>2. ServingOK'
    BY <1>14 DEF CheckEnds, Changed, ReadEndpoint, ServingOK, SettingsOK, SourcesOK, Endpoints,
         Waiting
  <2>3. SourcesOK'
    BY <1>14 DEF CheckEnds, Changed, ReadEndpoint, SourcesOK, ServingOK, SettingsOK, Endpoints,
         Waiting
  <2> QED
    BY <1>14, <2>1, <2>2, <2>3 DEF CheckEnds, Changed, ReadEndpoint, ServingOK
<1>15. ASSUME Silence PROVE MetaTypeOK'
  <2>1. SettingsOK'
    BY <1>15 DEF Silence, Emit, SettingsOK, Endpoints
  <2>2. ServingOK'
    BY <1>15 DEF Silence, Emit, ServingOK, SettingsOK, SourcesOK, Endpoints, Waiting
  <2>3. SourcesOK'
    BY <1>15 DEF Silence, Emit, SourcesOK, ServingOK, SettingsOK, Endpoints, Waiting
  <2> QED
    BY <1>15, <2>1, <2>2, <2>3 DEF Silence, Emit
<1>16. ASSUME PeerClosed PROVE MetaTypeOK'
  <2>1. SettingsOK'
    BY <1>16 DEF PeerClosed, SettingsOK, Endpoints
  <2>2. ServingOK'
    BY <1>16 DEF PeerClosed, ServingOK, SettingsOK, SourcesOK, Endpoints, Waiting
  <2>3. SourcesOK'
    BY <1>16 DEF PeerClosed, SourcesOK, ServingOK, SettingsOK, Endpoints, Waiting
  <2> QED
    BY <1>16, <2>1, <2>2, <2>3 DEF PeerClosed
<1>17. ASSUME EmitRest PROVE MetaTypeOK'
  <2>1. SettingsOK'
    BY <1>17 DEF EmitRest, Emit, SettingsOK, Endpoints
  <2>2. ServingOK'
    BY <1>17 DEF EmitRest, Emit, ServingOK, SettingsOK, SourcesOK, Endpoints, Waiting
  <2>3. SourcesOK'
    BY <1>17 DEF EmitRest, Emit, SourcesOK, ServingOK, SettingsOK, Endpoints, Waiting
  <2> QED
    BY <1>17, <2>1, <2>2, <2>3 DEF EmitRest, Emit
<1>18. ASSUME NEW n \in 1..MaxPackets, Receive(n) PROVE MetaTypeOK'
  <2>1. SettingsOK'
    BY <1>18 DEF Receive, Changed, ReadEndpoint, SettingsOK, Endpoints
  <2>2. ServingOK'
    BY <1>18 DEF Receive, Changed, ReadEndpoint, ServingOK, SettingsOK, SourcesOK, Endpoints,
         Waiting
  <2>3. SourcesOK'
    BY <1>18 DEF Receive, Changed, ReadEndpoint, SourcesOK, ServingOK, SettingsOK, Endpoints,
         Waiting
  <2> QED
    BY <1>18, <2>1, <2>2, <2>3 DEF Receive, Changed, ReadEndpoint
<1>19. ASSUME NEW s \in Sources, SourceConnects(s) PROVE MetaTypeOK'
  <2>1. SettingsOK'
    BY <1>19 DEF SourceConnects, SettingsOK, Endpoints
  <2>2. ServingOK'
    BY <1>19 DEF SourceConnects, ServingOK, SettingsOK, SourcesOK, Endpoints, Waiting
  <2>3. SourcesOK'
    BY <1>19 DEF SourceConnects, SourcesOK, ServingOK, SettingsOK, Endpoints, Waiting
  <2> QED
    BY <1>19, <2>1, <2>2, <2>3 DEF SourceConnects
<1>20. ASSUME NEW s \in Sources, SourceSends(s) PROVE MetaTypeOK'
  <2>1. SettingsOK'
    BY <1>20 DEF SourceSends, SettingsOK, Endpoints
  <2>2. ServingOK'
    BY <1>20 DEF SourceSends, ServingOK, SettingsOK, SourcesOK, Endpoints, Waiting
  <2>3. SourcesOK'
    BY <1>20 DEF SourceSends, SourcesOK, ServingOK, SettingsOK, Endpoints, Waiting
  <2> QED
    BY <1>20, <2>1, <2>2, <2>3 DEF SourceSends
<1>21. ASSUME NEW s \in Sources, SourceCloses(s) PROVE MetaTypeOK'
  <2>1. SettingsOK'
    BY <1>21 DEF SourceCloses, SettingsOK, Endpoints
  <2>2. ServingOK'
    BY <1>21 DEF SourceCloses, ServingOK, SettingsOK, SourcesOK, Endpoints, Waiting
  <2>3. SourcesOK'
    BY <1>21 DEF SourceCloses, SourcesOK, ServingOK, SettingsOK, Endpoints, Waiting
  <2> QED
    BY <1>21, <2>1, <2>2, <2>3 DEF SourceCloses
<1>22. ASSUME NEW s \in Sources, Accept(s) PROVE MetaTypeOK'
  <2>1. SettingsOK'
    BY <1>22 DEF Accept, Serves, Wanted, Waiting, SettingsOK, Endpoints
  <2>2. ServingOK'
    BY <1>22 DEF Accept, Serves, Wanted, Waiting, ServingOK, SettingsOK, SourcesOK, Endpoints
  <2>3. SourcesOK'
    BY <1>22 DEF Accept, Serves, Wanted, Waiting, SourcesOK, ServingOK, SettingsOK, Endpoints
  <2> QED
    BY <1>22, <2>1, <2>2, <2>3 DEF Accept, Serves, Wanted, Waiting
<1>23. ASSUME NEW s \in Sources, DialSucceeds(s) PROVE MetaTypeOK'
  <2>1. SettingsOK'
    BY <1>23 DEF DialSucceeds, Serves, Wanted, SettingsOK, Endpoints
  <2>2. ServingOK'
    BY <1>23 DEF DialSucceeds, Serves, Wanted, ServingOK, SettingsOK, SourcesOK, Endpoints, Waiting
  <2>3. SourcesOK'
    BY <1>23 DEF DialSucceeds, Serves, Wanted, SourcesOK, ServingOK, SettingsOK, Endpoints, Waiting
  <2> QED
    BY <1>23, <2>1, <2>2, <2>3 DEF DialSucceeds, Serves, Wanted
<1>24. CASE UNCHANGED metaVars
  BY <1>24 DEF SettingsOK, ServingOK, SourcesOK, Waiting
<1> QED
  BY <1>1, <1>2, <1>3, <1>4, <1>5, <1>6, <1>7, <1>8, <1>9, <1>10, <1>11, <1>12, <1>13, <1>14,
       <1>15, <1>16, <1>17, <1>18, <1>19, <1>20, <1>21, <1>22, <1>23, <1>24 DEF MetaNext, Api,
       Loop, Serve

LEMMA MetaInitially == MetaInit => MetaTypeOK
<1> SUFFICES ASSUME MetaInit PROVE MetaTypeOK
  OBVIOUS
<1> USE MetaAssumption
<1>1. SettingsOK
  <2>1. metaFile # Empty /\ apiAt \in Endpoints
    BY DEF MetaInit, Endpoints
  <2> QED
    <3>1. metaOn \in BOOLEAN /\ apiOn \in BOOLEAN
      BY DEF MetaInit
    <3>2. (metaFile = Empty <=> apiPc = "write") /\ apiPc \in {"idle", "write", "flag"}
      BY <2>1 DEF MetaInit
    <3>3. metaFile \in Endpoints \cup {Empty} /\ settings \in 0..MaxSettings
      BY DEF MetaInit
    <3> QED
      BY <2>1, <3>1, <3>2, <3>3 DEF SettingsOK
<1>2. ServingOK
  BY DEF MetaInit, ServingOK
<1>3. SourcesOK
  BY DEF MetaInit, SourcesOK, Waiting
<1> QED
  BY <1>1, <1>2, <1>3 DEF MetaInit, MetaTypeOK

(* MetaTypeOK: whoever is served is connected to the endpoint the thread    *)
(* works for, and the file is empty only while a request rewrites it.       *)
THEOREM MetaTypeCorrect == MetaSpec => []MetaTypeOK
  BY MetaInitially, MetaTypeStep, PTL DEF MetaSpec

-----------------------------------------------------------------------------
(* What the settings say while a source is kept: no request under way will  *)
(* send it away, so an empty file is the only reason to drop it.            *)
KeptInv ==
  /\ \A s \in dropped : conn[s] \in {"open", "closed", "gone"}
  /\ \A s \in kept :
       /\ conn[s] \in {"open", "closed", "gone"}
       /\ metaRun /\ metaOn /\ metaFile \in {to[s], Empty}
       /\ apiPc # "idle" => apiOn /\ apiAt = to[s]
       /\ s \in dropped => to[s] # DefaultPort

LEMMA KeptStep == MetaTypeOK /\ KeptInv /\ [MetaNext]_metaVars => KeptInv'
<1> SUFFICES ASSUME MetaTypeOK, KeptInv, [MetaNext]_metaVars PROVE KeptInv'
  OBVIOUS
<1> USE MetaAssumption DEF KeptInv, MetaTypeOK, SettingsOK, ServingOK, SourcesOK
<1> USE DEF metaVars, apiVars, threadVars, packetVars
<1>1. ASSUME NEW at \in Endpoints, ConfigSaved(at) PROVE KeptInv'
  BY <1>1 DEF ConfigSaved
<1>2. ASSUME NEW on \in BOOLEAN, NEW at \in Endpoints, ApiTruncates(on, at) PROVE KeptInv'
  BY <1>2 DEF ApiTruncates
<1>3. ASSUME ApiWrites PROVE KeptInv'
  BY <1>3 DEF ApiWrites
<1>4. ASSUME ApiSetsFlag PROVE KeptInv'
  BY <1>4 DEF ApiSetsFlag
<1>5. ASSUME MetaStop PROVE KeptInv'
  BY <1>5 DEF MetaStop
<1>6. ASSUME LoopLeaves PROVE KeptInv'
  BY <1>6 DEF LoopLeaves, CloseListen, HangUp, Waiting
<1>7. ASSUME LoopOff PROVE KeptInv'
  BY <1>7 DEF LoopOff, CloseListen, HangUp, Waiting
<1>8. ASSUME LoopListens PROVE KeptInv'
  BY <1>8 DEF LoopListens, HangUp, Waiting, ReadEndpoint
<1>9. ASSUME BindFails PROVE KeptInv'
  BY <1>9 DEF BindFails, CloseListen, HangUp, Waiting, ReadEndpoint
<1>10. ASSUME LoopDials PROVE KeptInv'
  BY <1>10 DEF LoopDials, CloseListen, HangUp, Waiting, ReadEndpoint
<1>11. ASSUME NobodyCame PROVE KeptInv'
  BY <1>11 DEF NobodyCame, Waiting
<1>12. ASSUME DialFails PROVE KeptInv'
  BY <1>12 DEF DialFails
<1>13. ASSUME CheckPasses PROVE KeptInv'
  BY <1>13 DEF CheckPasses, Changed, ReadEndpoint
<1>14. ASSUME CheckEnds PROVE KeptInv'
  BY <1>14 DEF CheckEnds, Changed, ReadEndpoint
<1>15. ASSUME Silence PROVE KeptInv'
  BY <1>15 DEF Silence, Emit
<1>16. ASSUME PeerClosed PROVE KeptInv'
  BY <1>16 DEF PeerClosed
<1>17. ASSUME EmitRest PROVE KeptInv'
  BY <1>17 DEF EmitRest, Emit
<1>18. ASSUME NEW n \in 1..MaxPackets, Receive(n) PROVE KeptInv'
  BY <1>18 DEF Receive, Changed, ReadEndpoint
<1>19. ASSUME NEW s \in Sources, SourceConnects(s) PROVE KeptInv'
  BY <1>19 DEF SourceConnects
<1>20. ASSUME NEW s \in Sources, SourceSends(s) PROVE KeptInv'
  BY <1>20 DEF SourceSends
<1>21. ASSUME NEW s \in Sources, SourceCloses(s) PROVE KeptInv'
  BY <1>21 DEF SourceCloses
<1>22. ASSUME NEW s \in Sources, Accept(s) PROVE KeptInv'
  <2>1. /\ kept' = IF Wanted(to[s]) THEN kept \cup {s} ELSE kept
        /\ UNCHANGED <<metaRun, metaOn, metaFile, apiPc, apiOn, apiAt, to, dropped>>
    BY <1>22 DEF Accept, Serves
  <2>2. /\ conn'[s] \in {"open", "closed"} /\ s \notin dropped
        /\ \A x \in Sources : x # s => conn'[x] = conn[x]
    BY <1>22 DEF Accept, Waiting
  <2> QED
    BY <2>1, <2>2 DEF Wanted
<1>23. ASSUME NEW s \in Sources, DialSucceeds(s) PROVE KeptInv'
  BY <1>23 DEF DialSucceeds, Serves, Wanted
<1>24. CASE UNCHANGED metaVars
  BY <1>24
<1> QED
  BY <1>1, <1>2, <1>3, <1>4, <1>5, <1>6, <1>7, <1>8, <1>9, <1>10, <1>11, <1>12, <1>13, <1>14,
       <1>15, <1>16, <1>17, <1>18, <1>19, <1>20, <1>21, <1>22, <1>23, <1>24 DEF MetaNext, Api,
       Loop, Serve

(* KeptOnDefaultPort: requests that all keep a source drop it only where    *)
(* the defaults differ from its endpoint.                                   *)
THEOREM DefaultPortKept == MetaSpec => []KeptOnDefaultPort
<1>1. MetaInit => KeptInv
  BY DEF MetaInit, KeptInv
<1>2. KeptInv => KeptOnDefaultPort
  BY DEF KeptInv, KeptOnDefaultPort
<1> QED
  BY <1>1, <1>2, KeptStep, MetaTypeCorrect, PTL DEF MetaSpec

-----------------------------------------------------------------------------
(* Between the check and the read nothing was read from a source that the   *)
(* settings have left. *)
LateInv == late <= 1 /\ (metaPc = "select" => late = 0)

LEMMA LateStep == MetaTypeOK /\ LateInv /\ [MetaNext]_metaVars => LateInv'
<1> SUFFICES ASSUME MetaTypeOK, LateInv, [MetaNext]_metaVars PROVE LateInv'
  OBVIOUS
<1> USE MetaAssumption DEF LateInv, MetaTypeOK
<1> USE DEF metaVars, apiVars, threadVars, packetVars
<1>1. ASSUME NEW at \in Endpoints, ConfigSaved(at) PROVE LateInv'
  BY <1>1 DEF ConfigSaved
<1>2. ASSUME NEW on \in BOOLEAN, NEW at \in Endpoints, ApiTruncates(on, at) PROVE LateInv'
  BY <1>2 DEF ApiTruncates
<1>3. ASSUME ApiWrites PROVE LateInv'
  BY <1>3 DEF ApiWrites
<1>4. ASSUME ApiSetsFlag PROVE LateInv'
  BY <1>4 DEF ApiSetsFlag
<1>5. ASSUME MetaStop PROVE LateInv'
  BY <1>5 DEF MetaStop
<1>6. ASSUME LoopLeaves PROVE LateInv'
  BY <1>6 DEF LoopLeaves, CloseListen, HangUp, Waiting
<1>7. ASSUME LoopOff PROVE LateInv'
  BY <1>7 DEF LoopOff, CloseListen, HangUp, Waiting
<1>8. ASSUME LoopListens PROVE LateInv'
  BY <1>8 DEF LoopListens, HangUp, Waiting, ReadEndpoint
<1>9. ASSUME BindFails PROVE LateInv'
  BY <1>9 DEF BindFails, CloseListen, HangUp, Waiting, ReadEndpoint
<1>10. ASSUME LoopDials PROVE LateInv'
  BY <1>10 DEF LoopDials, CloseListen, HangUp, Waiting, ReadEndpoint
<1>11. ASSUME NobodyCame PROVE LateInv'
  BY <1>11 DEF NobodyCame, Waiting
<1>12. ASSUME DialFails PROVE LateInv'
  BY <1>12 DEF DialFails
<1>13. ASSUME CheckPasses PROVE LateInv'
  BY <1>13 DEF CheckPasses, Changed, ReadEndpoint
<1>14. ASSUME CheckEnds PROVE LateInv'
  BY <1>14 DEF CheckEnds, Changed, ReadEndpoint
<1>15. ASSUME Silence PROVE LateInv'
  BY <1>15 DEF Silence, Emit
<1>16. ASSUME PeerClosed PROVE LateInv'
  BY <1>16 DEF PeerClosed
<1>17. ASSUME EmitRest PROVE LateInv'
  BY <1>17 DEF EmitRest, Emit
<1>18. ASSUME NEW n \in 1..MaxPackets, Receive(n) PROVE LateInv'
  BY <1>18 DEF Receive, Changed, ReadEndpoint
<1>19. ASSUME NEW s \in Sources, SourceConnects(s) PROVE LateInv'
  BY <1>19 DEF SourceConnects
<1>20. ASSUME NEW s \in Sources, SourceSends(s) PROVE LateInv'
  BY <1>20 DEF SourceSends
<1>21. ASSUME NEW s \in Sources, SourceCloses(s) PROVE LateInv'
  BY <1>21 DEF SourceCloses
<1>22. ASSUME NEW s \in Sources, Accept(s) PROVE LateInv'
  BY <1>22 DEF Accept, Serves, Wanted, Waiting
<1>23. ASSUME NEW s \in Sources, DialSucceeds(s) PROVE LateInv'
  BY <1>23 DEF DialSucceeds, Serves, Wanted
<1>24. CASE UNCHANGED metaVars
  BY <1>24
<1> QED
  BY <1>1, <1>2, <1>3, <1>4, <1>5, <1>6, <1>7, <1>8, <1>9, <1>10, <1>11, <1>12, <1>13, <1>14,
       <1>15, <1>16, <1>17, <1>18, <1>19, <1>20, <1>21, <1>22, <1>23, <1>24 DEF MetaNext, Api,
       Loop, Serve

(* OneLateRead: each read is preceded by a comparison of the settings.      *)
THEOREM AtMostOneLateRead == MetaSpec => []OneLateRead
<1>1. MetaInit => LateInv
  BY DEF MetaInit, LateInv
<1>2. LateInv => OneLateRead
  BY DEF LateInv, OneLateRead
<1> QED
  BY <1>1, <1>2, LateStep, MetaTypeCorrect, PTL DEF MetaSpec

-----------------------------------------------------------------------------
(* Who waits has not been read from, and the tail is reached by dropping or *)
(* at the end of the stream. *)
LossInv ==
  /\ \A s \in Sources : Waiting(s) \/ conn[s] = "none" => received[s] = 0 /\ s \notin kept
  /\ metaPc = "tail" => \/ served \in dropped
                        \/ conn[served] = "closed" /\ received[served] = sent[served]
  /\ LossIsDropping

LEMMA LossStep == MetaTypeOK /\ LossInv /\ [MetaNext]_metaVars => LossInv'
<1> SUFFICES ASSUME MetaTypeOK, LossInv, [MetaNext]_metaVars PROVE LossInv'
  OBVIOUS
<1> USE MetaAssumption DEF LossInv, MetaTypeOK, SettingsOK, ServingOK, SourcesOK, LossIsDropping, Waiting
<1> USE DEF metaVars, apiVars, threadVars, packetVars
<1>1. ASSUME NEW at \in Endpoints, ConfigSaved(at) PROVE LossInv'
  BY <1>1 DEF ConfigSaved
<1>2. ASSUME NEW on \in BOOLEAN, NEW at \in Endpoints, ApiTruncates(on, at) PROVE LossInv'
  BY <1>2 DEF ApiTruncates
<1>3. ASSUME ApiWrites PROVE LossInv'
  BY <1>3 DEF ApiWrites
<1>4. ASSUME ApiSetsFlag PROVE LossInv'
  BY <1>4 DEF ApiSetsFlag
<1>5. ASSUME MetaStop PROVE LossInv'
  BY <1>5 DEF MetaStop
<1>6. ASSUME LoopLeaves PROVE LossInv'
  BY <1>6 DEF LoopLeaves, CloseListen, HangUp, Waiting
<1>7. ASSUME LoopOff PROVE LossInv'
  BY <1>7 DEF LoopOff, CloseListen, HangUp, Waiting
<1>8. ASSUME LoopListens PROVE LossInv'
  <2>1. CASE metaOpen = ReadEndpoint
    BY <1>8, <2>1 DEF LoopListens
  <2>2. CASE metaOpen # ReadEndpoint
    <3>1. UNCHANGED <<received, sent, kept, dropped>> /\ metaPc' = "accept"
      BY <1>8 DEF LoopListens
    <3>2. \A s \in Sources : conn'[s] = IF Waiting(s) THEN "gone" ELSE conn[s]
      BY <1>8, <2>2 DEF LoopListens, HangUp
    <3>3. \A s \in Sources : ~Waiting(s)' /\ (conn'[s] = "none" => conn[s] = "none")
      BY <3>2
    <3>4. \A s \in Sources : conn'[s] = "gone" => Waiting(s) \/ conn[s] = "gone"
      BY <3>2
    <3>5. LossIsDropping'
      <4> SUFFICES ASSUME NEW s \in Sources, conn'[s] = "gone", received[s] > 0 \/ s \in kept
                   PROVE  received[s] = sent[s] \/ s \in dropped
        BY <3>1
      <4>1. received[s] \in Nat
        BY DEF SourcesOK
      <4>2. Waiting(s) => received[s] = 0 /\ s \notin kept
        OBVIOUS
      <4>3. conn[s] = "gone"
        BY <3>4, <4>1, <4>2
      <4> QED
        BY <4>3
    <3> QED
      BY <3>1, <3>3, <3>5
  <2> QED
    BY <2>1, <2>2
<1>9. ASSUME BindFails PROVE LossInv'
  BY <1>9 DEF BindFails, CloseListen, HangUp, Waiting, ReadEndpoint
<1>10. ASSUME LoopDials PROVE LossInv'
  BY <1>10 DEF LoopDials, CloseListen, HangUp, Waiting, ReadEndpoint
<1>11. ASSUME NobodyCame PROVE LossInv'
  BY <1>11 DEF NobodyCame, Waiting
<1>12. ASSUME DialFails PROVE LossInv'
  BY <1>12 DEF DialFails
<1>13. ASSUME CheckPasses PROVE LossInv'
  BY <1>13 DEF CheckPasses, Changed, ReadEndpoint
<1>14. ASSUME CheckEnds PROVE LossInv'
  BY <1>14 DEF CheckEnds, Changed, ReadEndpoint
<1>15. ASSUME Silence PROVE LossInv'
  BY <1>15 DEF Silence, Emit
<1>16. ASSUME PeerClosed PROVE LossInv'
  BY <1>16 DEF PeerClosed
<1>17. ASSUME EmitRest PROVE LossInv'
  BY <1>17 DEF EmitRest, Emit
<1>18. ASSUME NEW n \in 1..MaxPackets, Receive(n) PROVE LossInv'
  BY <1>18 DEF Receive, Changed, ReadEndpoint
<1>19. ASSUME NEW s \in Sources, SourceConnects(s) PROVE LossInv'
  BY <1>19 DEF SourceConnects
<1>20. ASSUME NEW s \in Sources, SourceSends(s) PROVE LossInv'
  BY <1>20 DEF SourceSends
<1>21. ASSUME NEW s \in Sources, SourceCloses(s) PROVE LossInv'
  BY <1>21 DEF SourceCloses
<1>22. ASSUME NEW s \in Sources, Accept(s) PROVE LossInv'
  BY <1>22 DEF Accept, Serves, Wanted, Waiting
<1>23. ASSUME NEW s \in Sources, DialSucceeds(s) PROVE LossInv'
  BY <1>23 DEF DialSucceeds, Serves, Wanted
<1>24. CASE UNCHANGED metaVars
  BY <1>24
<1> QED
  BY <1>1, <1>2, <1>3, <1>4, <1>5, <1>6, <1>7, <1>8, <1>9, <1>10, <1>11, <1>12, <1>13, <1>14,
       <1>15, <1>16, <1>17, <1>18, <1>19, <1>20, <1>21, <1>22, <1>23, <1>24 DEF MetaNext, Api,
       Loop, Serve

(* LossIsDropping: what a served source sent is read to the end or the      *)
(* thread itself ended the connection.                                      *)
THEOREM LossOnlyByDropping == MetaSpec => []LossIsDropping
<1>1. MetaInit => LossInv
  BY DEF MetaInit, LossInv, LossIsDropping, Waiting
<1>2. LossInv => LossIsDropping
  BY DEF LossInv
<1> QED
  BY <1>1, <1>2, LossStep, MetaTypeCorrect, PTL DEF MetaSpec

-----------------------------------------------------------------------------
(* Counting on from m continues counting to m. *)
LEMMA Counting ==
  ASSUME NEW m \in Nat, NEW n \in Nat
  PROVE  [i \in 1..m |-> i] \o [i \in 1..n |-> m + i] = [i \in 1..(m + n) |-> i]
<1> DEFINE a == [i \in 1..m |-> i]
           b == [i \in 1..n |-> m + i]
<1>1. a \in Seq(Nat) /\ Len(a) = m /\ b \in Seq(Nat) /\ Len(b) = n
  OBVIOUS
<1>2. \A i \in 1..(m + n) : (a \o b)[i] = i
  BY <1>1
<1>3. DOMAIN (a \o b) = 1..(m + n) /\ a \o b \in Seq(Nat)
  BY <1>1
<1> QED
  BY <1>2, <1>3

LEMMA Joining ==
  ASSUME NEW a \in Seq(Nat), NEW b \in Seq(Nat), NEW c \in Seq(Nat)
  PROVE  a \o (b \o c) = (a \o b) \o c /\ a \o <<>> = a
  OBVIOUS

(* The first m packets, and the n after them. *)
First(m) == [i \in 1..m |-> i]
More(m, n) == [i \in 1..n |-> m + i]

(* What follows in the data continues what was emitted. *)
LEMMA Continuing ==
  ASSUME NEW a \in Seq(Nat), NEW b \in Seq(Nat), NEW m \in Nat, NEW n \in Nat,
         a \o b = First(m)
  PROVE  a \o (b \o More(m, n)) = First(m + n)
<1>1. More(m, n) \in Seq(Nat)
  BY DEF More
<1>2. First(m) \o More(m, n) = First(m + n)
  BY Counting DEF First, More
<1>3. a \o (b \o More(m, n)) = (a \o b) \o More(m, n)
  BY <1>1, Joining
<1> QED
  BY <1>2, <1>3


LEMMA DataStep == MetaTypeOK /\ ReadIsEmitted /\ [MetaNext]_metaVars => ReadIsEmitted'
<1> SUFFICES ASSUME MetaTypeOK, ReadIsEmitted, [MetaNext]_metaVars PROVE ReadIsEmitted'
  OBVIOUS
<1> USE MetaAssumption
<1> USE DEF metaVars, apiVars, threadVars, packetVars
<1>1. ASSUME NEW at \in Endpoints, ConfigSaved(at) PROVE ReadIsEmitted'
  BY <1>1 DEF ConfigSaved, ReadIsEmitted
<1>2. ASSUME NEW on \in BOOLEAN, NEW at \in Endpoints, ApiTruncates(on, at) PROVE ReadIsEmitted'
  BY <1>2 DEF ApiTruncates, ReadIsEmitted
<1>3. ASSUME ApiWrites PROVE ReadIsEmitted'
  BY <1>3 DEF ApiWrites, ReadIsEmitted
<1>4. ASSUME ApiSetsFlag PROVE ReadIsEmitted'
  BY <1>4 DEF ApiSetsFlag, ReadIsEmitted
<1>5. ASSUME MetaStop PROVE ReadIsEmitted'
  BY <1>5 DEF MetaStop, ReadIsEmitted
<1>6. ASSUME LoopLeaves PROVE ReadIsEmitted'
  BY <1>6 DEF LoopLeaves, CloseListen, HangUp, Waiting, ReadIsEmitted
<1>7. ASSUME LoopOff PROVE ReadIsEmitted'
  BY <1>7 DEF LoopOff, CloseListen, HangUp, Waiting, ReadIsEmitted
<1>8. ASSUME LoopListens PROVE ReadIsEmitted'
  BY <1>8 DEF LoopListens, HangUp, Waiting, ReadEndpoint, ReadIsEmitted
<1>9. ASSUME BindFails PROVE ReadIsEmitted'
  BY <1>9 DEF BindFails, CloseListen, HangUp, Waiting, ReadEndpoint, ReadIsEmitted
<1>10. ASSUME LoopDials PROVE ReadIsEmitted'
  BY <1>10 DEF LoopDials, CloseListen, HangUp, Waiting, ReadEndpoint, ReadIsEmitted
<1>11. ASSUME NobodyCame PROVE ReadIsEmitted'
  BY <1>11 DEF NobodyCame, Waiting, ReadIsEmitted
<1>12. ASSUME DialFails PROVE ReadIsEmitted'
  BY <1>12 DEF DialFails, ReadIsEmitted
<1>13. ASSUME CheckPasses PROVE ReadIsEmitted'
  BY <1>13 DEF CheckPasses, Changed, ReadEndpoint, ReadIsEmitted
<1>14. ASSUME CheckEnds PROVE ReadIsEmitted'
  BY <1>14 DEF CheckEnds, Changed, ReadEndpoint, ReadIsEmitted
<1>15. ASSUME Silence PROVE ReadIsEmitted'
  <2>1. served \in Sources /\ xmlData \in Seq(Nat) /\ \A s \in Sources : emitted[s] \in Seq(Nat)
    BY <1>15 DEF Silence, MetaTypeOK, ServingOK, SourcesOK
  <2>2. /\ emitted'[served] = emitted[served] \o xmlData /\ xmlData' = <<>> /\ received' = received
        /\ \A s \in Sources : s # served => emitted'[s] = emitted[s]
    BY <1>15, <2>1 DEF Silence, Emit, MetaTypeOK, SourcesOK
  <2> SUFFICES ASSUME NEW s \in Sources
               PROVE  emitted'[s] \o (IF served' = s THEN xmlData' ELSE <<>>)
                      = [i \in 1..received'[s] |-> i]
    BY DEF ReadIsEmitted
  <2>3. emitted'[s] \o (IF served' = s THEN xmlData' ELSE <<>>) = emitted'[s] \o <<>>
    BY <2>2
  <2>4. emitted'[s] \o <<>> = emitted[s] \o (IF served = s THEN xmlData ELSE <<>>)
    <3>1. CASE s = served
      <4>1. emitted[s] \o xmlData \in Seq(Nat)
        BY <2>1
      <4> QED
        BY <2>2, <3>1, <4>1, Joining
    <3>2. CASE s # served
      BY <2>2, <3>2
    <3> QED
      BY <3>1, <3>2
  <2> QED
    BY <2>2, <2>3, <2>4 DEF ReadIsEmitted
<1>16. ASSUME PeerClosed PROVE ReadIsEmitted'
  BY <1>16 DEF PeerClosed, ReadIsEmitted
<1>17. ASSUME EmitRest PROVE ReadIsEmitted'
  <2>1. served \in Sources /\ xmlData \in Seq(Nat) /\ \A s \in Sources : emitted[s] \in Seq(Nat)
    BY <1>17 DEF EmitRest, MetaTypeOK, ServingOK, SourcesOK
  <2>2. /\ emitted'[served] = emitted[served] \o xmlData /\ xmlData' = <<>> /\ received' = received
        /\ \A s \in Sources : s # served => emitted'[s] = emitted[s]
    BY <1>17, <2>1 DEF EmitRest, Emit, MetaTypeOK, SourcesOK
  <2> SUFFICES ASSUME NEW s \in Sources
               PROVE  emitted'[s] \o (IF served' = s THEN xmlData' ELSE <<>>)
                      = [i \in 1..received'[s] |-> i]
    BY DEF ReadIsEmitted
  <2>3. emitted'[s] \o (IF served' = s THEN xmlData' ELSE <<>>) = emitted'[s] \o <<>>
    BY <2>2
  <2>4. emitted'[s] \o <<>> = emitted[s] \o (IF served = s THEN xmlData ELSE <<>>)
    <3>1. CASE s = served
      <4>1. emitted[s] \o xmlData \in Seq(Nat)
        BY <2>1
      <4> QED
        BY <2>2, <3>1, <4>1, Joining
    <3>2. CASE s # served
      BY <2>2, <3>2
    <3> QED
      BY <3>1, <3>2
  <2> QED
    BY <2>2, <2>3, <2>4 DEF ReadIsEmitted
<1>18. ASSUME NEW n \in 1..MaxPackets, Receive(n) PROVE ReadIsEmitted'
  <2>1. /\ served \in Sources /\ xmlData \in Seq(Nat) /\ emitted[served] \in Seq(Nat)
        /\ received[served] \in Nat /\ n \in Nat
    BY <1>18 DEF Receive, MetaTypeOK, ServingOK, SourcesOK
  <2>2. /\ emitted' = emitted /\ served' = served
        /\ xmlData' = xmlData \o More(received[served], n)
        /\ received'[served] = received[served] + n
        /\ \A s \in Sources : s # served => received'[s] = received[s]
    BY <1>18, <2>1 DEF Receive, More, MetaTypeOK, SourcesOK
  <2>3. emitted[served] \o xmlData = First(received[served])
    BY <2>1 DEF ReadIsEmitted, First
  <2>4. emitted[served] \o (xmlData \o More(received[served], n)) = First(received[served] + n)
    BY <2>1, <2>3, Continuing
  <2>5. emitted'[served] \o xmlData' = First(received'[served])
    BY <2>2, <2>4
  <2> QED
    BY <2>2, <2>5 DEF ReadIsEmitted, First
<1>19. ASSUME NEW s \in Sources, SourceConnects(s) PROVE ReadIsEmitted'
  BY <1>19 DEF SourceConnects, ReadIsEmitted
<1>20. ASSUME NEW s \in Sources, SourceSends(s) PROVE ReadIsEmitted'
  BY <1>20 DEF SourceSends, ReadIsEmitted
<1>21. ASSUME NEW s \in Sources, SourceCloses(s) PROVE ReadIsEmitted'
  BY <1>21 DEF SourceCloses, ReadIsEmitted
<1>22. ASSUME NEW s \in Sources, Accept(s) PROVE ReadIsEmitted'
  BY <1>22 DEF Accept, Serves, MetaTypeOK, ServingOK, SourcesOK, ReadIsEmitted
<1>23. ASSUME NEW s \in Sources, DialSucceeds(s) PROVE ReadIsEmitted'
  BY <1>23 DEF DialSucceeds, Serves, MetaTypeOK, ServingOK, SourcesOK, ReadIsEmitted
<1>24. CASE UNCHANGED metaVars
  BY <1>24 DEF ReadIsEmitted
<1> QED
  BY <1>1, <1>2, <1>3, <1>4, <1>5, <1>6, <1>7, <1>8, <1>9, <1>10, <1>11, <1>12, <1>13, <1>14,
       <1>15, <1>16, <1>17, <1>18, <1>19, <1>20, <1>21, <1>22, <1>23, <1>24 DEF MetaNext, Api,
       Loop, Serve

(* ReadIsEmitted: every packet that was read is in one event, in order.     *)
THEOREM EverythingReadIsEmitted == MetaSpec => []ReadIsEmitted
<1>1. MetaInit => ReadIsEmitted
  BY MetaAssumption DEF MetaInit, ReadIsEmitted
<1> QED
  BY <1>1, DataStep, MetaTypeCorrect, PTL DEF MetaSpec

(* NothingSwallowed: what a served source sends is read and emitted.        *)
THEOREM SourcesAreHeard == MetaSpec => []NothingSwallowed
  BY EverythingReadIsEmitted, LossOnlyByDropping, PTL DEF NothingSwallowed

(* SettingsInForce: a changed setting is followed after one read, and one   *)
(* that was not changed is left for the defaults only.                      *)
THEOREM SettingsFollowed == MetaSpec => []SettingsInForce
  BY DefaultPortKept, AtMostOneLateRead, PTL DEF SettingsInForce

-----------------------------------------------------------------------------
(* CueListener.                                                             *)

(* While the listener is on, and from the look at the settings to the next  *)
(* client, nobody was accepted after a switch. *)
AfterInv ==
  /\ after <= 1
  /\ cueSet.on \/ cuePc = "accept" => after = 0

(* The socket is the configured one unless a request has moved the port. *)
OpenInv ==
  /\ cueSet.port # Nowhere
  /\ cueOpen # Nowhere /\ cueOpen # cueSet.port => moved
  /\ FlagNeedsSocket

LEMMA AfterStep == AfterInv /\ [CueNext]_<<cueVars, metaVars, vars>> => AfterInv'
<1> SUFFICES ASSUME AfterInv, [CueNext]_<<cueVars, metaVars, vars>> PROVE AfterInv'
  OBVIOUS
<1> USE DEF AfterInv
<1> USE DEF cueVars, clientVars
<1>1. ASSUME NEW set \in CueSettings, CueSettingsSaved(set) PROVE AfterInv'
  BY <1>1 DEF CueSettingsSaved
<1>2. ASSUME CueLeaves PROVE AfterInv'
  BY <1>2 DEF CueLeaves
<1>3. ASSUME CueOff PROVE AfterInv'
  BY <1>3 DEF CueOff, ReadOn
<1>4. ASSUME CueListens PROVE AfterInv'
  BY <1>4 DEF CueListens, ReadOn
<1>5. ASSUME CueBindFails PROVE AfterInv'
  BY <1>5 DEF CueBindFails, ReadOn
<1>6. ASSUME NoClient PROVE AfterInv'
  BY <1>6 DEF NoClient
<1>7. ASSUME CueAccepts PROVE AfterInv'
  BY <1>7 DEF CueAccepts
<1>8. ASSUME WaitForBytes PROVE AfterInv'
  BY <1>8 DEF WaitForBytes
<1>9. ASSUME CueMessage PROVE AfterInv'
  BY <1>9 DEF CueMessage
<1>10. ASSUME ClientEnds PROVE AfterInv'
  BY <1>10 DEF ClientEnds
<1>11. ASSUME NEW chunk, CueReceives(chunk) PROVE AfterInv'
  BY <1>11 DEF CueReceives
<1>12. CASE UNCHANGED cueVars
  BY <1>12
<1> QED
  BY <1>1, <1>2, <1>3, <1>4, <1>5, <1>6, <1>7, <1>8, <1>9, <1>10, <1>11, <1>12 DEF CueNext,
       CueLoop, Client, FileSteps

(* OneClientAfterOff: the settings are read again before the listening      *)
(* socket is looked at a second time.                                       *)
THEOREM OneMoreClient == CueSpec => []OneClientAfterOff
<1>1. CueInit => AfterInv
  BY ListenerAssumption DEF CueInit, CueSettings, AfterInv, OneClientAfterOff
<1>2. AfterInv => OneClientAfterOff
  BY DEF AfterInv, OneClientAfterOff
<1> QED
  BY <1>1, <1>2, AfterStep, PTL DEF CueSpec

LEMMA OpenStep == OpenInv /\ [CueNext]_<<cueVars, metaVars, vars>> => OpenInv'
<1> SUFFICES ASSUME OpenInv, [CueNext]_<<cueVars, metaVars, vars>> PROVE OpenInv'
  OBVIOUS
<1> USE DEF OpenInv, FlagNeedsSocket
<1> USE DEF cueVars, clientVars
<1>1. ASSUME NEW set \in CueSettings, CueSettingsSaved(set) PROVE OpenInv'
  <2>1. set.port # Nowhere
    BY ListenerAssumption DEF CueSettings
  <2> QED
    BY <1>1, <2>1 DEF CueSettingsSaved
<1>2. ASSUME CueLeaves PROVE OpenInv'
  BY <1>2 DEF CueLeaves
<1>3. ASSUME CueOff PROVE OpenInv'
  BY <1>3 DEF CueOff, ReadOn
<1>4. ASSUME CueListens PROVE OpenInv'
  BY <1>4 DEF CueListens, ReadOn
<1>5. ASSUME CueBindFails PROVE OpenInv'
  BY <1>5 DEF CueBindFails, ReadOn
<1>6. ASSUME NoClient PROVE OpenInv'
  BY <1>6 DEF NoClient
<1>7. ASSUME CueAccepts PROVE OpenInv'
  BY <1>7 DEF CueAccepts
<1>8. ASSUME WaitForBytes PROVE OpenInv'
  BY <1>8 DEF WaitForBytes
<1>9. ASSUME CueMessage PROVE OpenInv'
  BY <1>9 DEF CueMessage
<1>10. ASSUME ClientEnds PROVE OpenInv'
  BY <1>10 DEF ClientEnds
<1>11. ASSUME NEW chunk, CueReceives(chunk) PROVE OpenInv'
  BY <1>11 DEF CueReceives
<1>12. CASE UNCHANGED cueVars
  BY <1>12
<1> QED
  BY <1>1, <1>2, <1>3, <1>4, <1>5, <1>6, <1>7, <1>8, <1>9, <1>10, <1>11, <1>12 DEF CueNext,
       CueLoop, Client, FileSteps

(* FlagNeedsSocket: only the path of a port that cannot be bound separates  *)
(* the flag from the socket.                                                *)
THEOREM FlagIsTrue == CueSpec => []FlagNeedsSocket
<1>1. CueInit => OpenInv
  BY ListenerAssumption DEF CueInit, CueSettings, OpenInv, FlagNeedsSocket
<1>2. OpenInv => FlagNeedsSocket
  BY DEF OpenInv, FlagNeedsSocket
<1> QED
  BY <1>1, <1>2, OpenStep, PTL DEF CueSpec

(* CueSettingsInForce: one client late, and a flag that lies only about a   *)
(* port that could not be bound.                                            *)
THEOREM CueSettingsFollowed == CueSpec => []CueSettingsInForce
  BY OneMoreClient, FlagIsTrue, PTL DEF CueSettingsInForce

-----------------------------------------------------------------------------
(* CueListener: the framing.                                                *)

LEMMA Least ==
  ASSUME NEW T \in SUBSET Nat, T # {}
  PROVE  \E m \in T : \A n \in T : m <= n
<1>1. PICK m \in T : \A n \in T : ~(<<n, m>> \in OpToRel(<, Nat))
  BY WFMin, NatLessThanWellFounded, Zenon
<1>2. \A n \in T : ~(n < m)
  BY <1>1, Zenon DEF OpToRel
<1> QED
  BY <1>2

\* What a number has if all smaller ones have it, all numbers have.
LEMMA Upward ==
  ASSUME NEW T, \A n \in Nat : (\A m \in Nat : m < n => m \in T) => n \in T
  PROVE  Nat \subseteq T
<1> SUFFICES ASSUME Nat \ T # {} PROVE FALSE
  OBVIOUS
<1>1. PICK n \in Nat \ T : \A m \in Nat \ T : n <= m
  BY Least
<1>2. \A m \in Nat : m < n => m \in T
  BY <1>1
<1> QED
  BY <1>1, <1>2

\* The same from above, for offsets: the rounds go on at greater ones.
LEMMA Downward ==
  ASSUME NEW N \in Nat, NEW T,
         \A n \in 0..N : (\A m \in 0..N : m > n => m \in T) => n \in T
  PROVE  0..N \subseteq T
<1> DEFINE U == {k \in Nat : k <= N => N - k \in T}
<1>1. ASSUME NEW k \in Nat, \A j \in Nat : j < k => j \in U PROVE k \in U
  <2> SUFFICES ASSUME k <= N PROVE N - k \in T
    OBVIOUS
  <2>1. \A m \in 0..N : m > N - k => m \in T
    <3> SUFFICES ASSUME NEW m \in 0..N, m > N - k PROVE m \in T
      OBVIOUS
    <3>1. N - m \in Nat /\ N - m < k /\ N - m <= N /\ N - (N - m) = m
      OBVIOUS
    <3> QED
      BY <1>1, <3>1
  <2> QED
    BY <2>1
<1>2. Nat \subseteq U
  <2> HIDE DEF U
  <2> QED
    BY <1>1, Upward
<1>3. \A n \in 0..N : N - n \in Nat /\ N - n <= N /\ N - (N - n) = n
  OBVIOUS
<1> QED
  BY <1>2, <1>3

\* What is left of a buffer when the first s bytes are erased.
Behind(d, s) == SubSeq(d, s + 1, Len(d))

LEMMA Erased ==
  ASSUME NEW d \in Seq(Bytes), NEW s \in 0..Len(d)
  PROVE  /\ Behind(d, s) \in Seq(Bytes) /\ Len(Behind(d, s)) = Len(d) - s
         /\ \A i \in 1..Len(d) - s : Behind(d, s)[i] = d[s + i]
<1>1. PICK n \in Nat : n = Len(d)
  BY LenProperties
<1>2. \A i \in 1..n : d[i] \in Bytes
  BY <1>1, ElementOfSeq
<1>3. \A i \in s + 1..n : d[i] \in Bytes
  BY <1>1, <1>2
<1>4. s + 1 \in Int /\ n \in Int
  BY <1>1
<1>5. /\ SubSeq(d, s + 1, n) \in Seq(Bytes)
      /\ Len(SubSeq(d, s + 1, n)) = IF s + 1 <= n THEN n - (s + 1) + 1 ELSE 0
      /\ \A i \in 1..n - (s + 1) + 1 : SubSeq(d, s + 1, n)[i] = d[s + 1 + i - 1]
  BY <1>3, <1>4, SubSeqProperties
<1>6. n - (s + 1) + 1 = n - s /\ \A i \in 1..n - s : s + 1 + i - 1 = s + i
  BY <1>1
<1>7. Len(SubSeq(d, s + 1, n)) = n - s
  BY <1>1, <1>5, <1>6
<1> QED
  BY <1>1, <1>5, <1>6, <1>7 DEF Behind

\* The pieces of two buffers that hold the same bytes are the same.
LEMMA SamePiece ==
  ASSUME NEW a \in Seq(Bytes), NEW b \in Seq(Bytes), NEW k \in Nat, NEW m \in Nat, NEW n \in Nat,
         m >= 1, n <= Len(a), k + n <= Len(b), \A i \in m..n : a[i] = b[k + i]
  PROVE  SubSeq(a, m, n) = SubSeq(b, k + m, k + n)
<1>1. Len(a) \in Nat /\ Len(b) \in Nat
  BY LenProperties
<1>2. \A i \in m..n : a[i] \in Bytes
  BY <1>1, ElementOfSeq
<1>3. \A i \in k + m..k + n : i - k \in m..n /\ k + (i - k) = i
  OBVIOUS
<1>4. \A i \in k + m..k + n : b[i] \in Bytes
  BY <1>2, <1>3
<1>5. /\ SubSeq(a, m, n) \in Seq(Bytes)
      /\ Len(SubSeq(a, m, n)) = IF m <= n THEN n - m + 1 ELSE 0
      /\ \A i \in 1..n - m + 1 : SubSeq(a, m, n)[i] = a[m + i - 1]
  BY <1>2, SubSeqProperties
<1>6. k + m \in Int /\ k + n \in Int
  OBVIOUS
<1>7. /\ SubSeq(b, k + m, k + n) \in Seq(Bytes)
      /\ Len(SubSeq(b, k + m, k + n)) = IF k + m <= k + n THEN (k + n) - (k + m) + 1 ELSE 0
      /\ \A i \in 1..(k + n) - (k + m) + 1 : SubSeq(b, k + m, k + n)[i] = b[(k + m) + i - 1]
  BY <1>4, <1>6, SubSeqProperties
<1>8. /\ (k + n) - (k + m) + 1 = n - m + 1
      /\ \A i \in Int : (k + m) + i - 1 = k + (m + i - 1)
      /\ \A i \in 1..n - m + 1 : m + i - 1 \in m..n
      /\ k + m <= k + n <=> m <= n
  OBVIOUS
<1>9. Len(SubSeq(a, m, n)) = Len(SubSeq(b, k + m, k + n))
  BY <1>5, <1>7, <1>8
<1>10. \A i \in 1..Len(SubSeq(a, m, n)) : i \in 1..n - m + 1
  BY <1>5
<1>11. \A i \in 1..Len(SubSeq(a, m, n)) : SubSeq(a, m, n)[i] = SubSeq(b, k + m, k + n)[i]
  BY <1>5, <1>7, <1>8, <1>10
<1> QED
  BY <1>5, <1>7, <1>9, <1>11, SeqEqual

\* A message is not blank at its beginning.
Messages == {m \in Seq(Bytes) : m # <<>> /\ m[1] > 1}

LEMMA TrimmedType ==
  ASSUME NEW b \in Seq(Bytes)
  PROVE  Trimmed(b) \in Seq(Messages)
<1> DEFINE ink == {i \in DOMAIN b : b[i] > 1}
           lo  == CHOOSE i \in ink : \A j \in ink : i <= j
           hi  == CHOOSE i \in ink : \A j \in ink : i >= j
<1>1. PICK n \in Nat : n = Len(b) /\ DOMAIN b = 1..n
  BY LenProperties
<1>2. ink \in SUBSET Nat /\ ink \subseteq 1..n /\ \A i \in 1..n : b[i] \in Bytes
  BY <1>1, ElementOfSeq
<1>3. CASE ink = {}
  BY <1>3, EmptySeq DEF Trimmed
<1>4. CASE ink # {}
  <2> HIDE DEF ink
  <2>1. lo \in ink /\ \A j \in ink : lo <= j
    <3>1. \E i \in ink : \A j \in ink : i <= j
      BY <1>2, <1>4, Least
    <3> QED
      BY <3>1
  <2>2. hi \in ink
    <3> DEFINE U == {k \in Nat : n - k \in ink}
    <3>1. U \in SUBSET Nat
      OBVIOUS
    <3>2. \A i \in ink : n - i \in Nat /\ n - (n - i) = i
      BY <1>2
    <3>3. U # {}
      BY <1>4, <3>2
    <3>4. PICK k \in U : \A j \in U : k <= j
      BY <3>1, <3>3, Least
    <3>5. \A j \in ink : n - j \in U
      BY <3>2
    <3>6. n - k \in ink /\ \A j \in ink : n - k >= j
      <4>1. \A j \in ink : k <= n - j /\ j \in Nat
        BY <1>2, <3>4, <3>5
      <4> QED
        BY <3>4, <4>1
    <3> QED
      BY <3>6
  <2>3. lo \in 1..n /\ hi \in 1..n /\ lo <= hi /\ b[lo] > 1
    BY <1>2, <2>1, <2>2 DEF ink
  <2> HIDE DEF lo, hi
  <2>4. \A i \in lo..hi : b[i] \in Bytes
    BY <1>2, <2>3
  <2>5. /\ SubSeq(b, lo, hi) \in Seq(Bytes)
        /\ Len(SubSeq(b, lo, hi)) = hi - lo + 1
        /\ SubSeq(b, lo, hi)[1] = b[lo]
    <3>1. lo \in Int /\ hi \in Int /\ 1 \in 1..hi - lo + 1 /\ lo + 1 - 1 = lo
      BY <2>3
    <3> QED
      BY <2>3, <2>4, <3>1, SubSeqProperties
  <2>6. SubSeq(b, lo, hi) # <<>>
    <3>1. hi - lo + 1 # 0
      BY <2>3
    <3> QED
      BY <2>5, <3>1, EmptySeq
  <2>7. SubSeq(b, lo, hi) \in Messages
    BY <2>3, <2>5, <2>6 DEF Messages
  <2>8. Trimmed(b) = <<SubSeq(b, lo, hi)>>
    BY <1>4 DEF Trimmed, ink, lo, hi
  <2> QED
    BY <2>7, <2>8
<1> QED
  BY <1>3, <1>4

LEMMA NumberType ==
  ASSUME NEW h \in Seq(Bytes)
  PROVE  Number(h) \in Nat
<1> DEFINE Eq(g, n) == g = [i \in 0..n |-> IF i = 0 THEN 0 ELSE g[i - 1] * Base + h[i]]
           Defined  == {n \in Nat : \E g : Eq(g, n)}
<1>1. ASSUME NEW n \in Nat, \A m \in Nat : m < n => m \in Defined PROVE n \in Defined
  <2>1. CASE n = 0
    <3> DEFINE g == [i \in 0..0 |-> 0]
    <3>1. Eq(g, 0)
      OBVIOUS
    <3> QED
      BY <2>1, <3>1
  <2>2. CASE n # 0
    <3>1. n - 1 \in Nat /\ n - 1 < n
      BY <2>2
    <3>2. PICK g : Eq(g, n - 1)
      BY <1>1, <3>1
    <3> DEFINE k == [i \in 0..n |-> IF i = 0 THEN 0 ELSE g[i - 1] * Base + h[i]]
    <3>3. \A i \in 0..n - 1 : g[i] = IF i = 0 THEN 0 ELSE g[i - 1] * Base + h[i]
      <4> HIDE DEF k
      <4> QED
        BY <3>2
    <3>4. \A i \in 0..n - 1 : i \in 0..n
      OBVIOUS
    <3>5. \A i \in 0..n - 1 : k[i] = IF i = 0 THEN 0 ELSE g[i - 1] * Base + h[i]
      BY <3>4
    <3>6. \A i \in 0..n - 1 : k[i] = g[i]
      BY <3>3, <3>5
    <3>7. \A i \in 0..n : i # 0 => i - 1 \in 0..n - 1
      OBVIOUS
    <3>8. \A i \in 0..n : (IF i = 0 THEN 0 ELSE g[i - 1] * Base + h[i])
                          = IF i = 0 THEN 0 ELSE k[i - 1] * Base + h[i]
      <4> HIDE DEF k
      <4> QED
        BY <3>6, <3>7
    <3>9. Eq(k, n)
      BY <3>8
    <3> QED
      BY <3>9
  <2> QED
    BY <2>1, <2>2
<1>2. Nat \subseteq Defined
  <2> HIDE DEF Defined
  <2> QED
    BY <1>1, Upward
<1>3. PICK n \in Nat : n = Len(h)
  BY LenProperties
<1> DEFINE value == CHOOSE g : Eq(g, n)
<1>4. Eq(value, n)
  <2>1. \E g : Eq(g, n)
    BY <1>2
  <2> HIDE DEF Eq
  <2> QED
    BY <2>1
<1>5. Number(h) = value[n]
  BY <1>3 DEF Number
<1> HIDE DEF value
<1>6. \A i \in 0..n : value[i] = IF i = 0 THEN 0 ELSE value[i - 1] * Base + h[i]
  BY <1>4
<1>7. \A i \in 1..n : h[i] \in Nat
  BY <1>3, ElementOfSeq, ListenerAssumption DEF Bytes
<1> DEFINE T == {i \in Nat : i <= n => value[i] \in Nat}
<1>8. ASSUME NEW i \in Nat, \A m \in Nat : m < i => m \in T PROVE i \in T
  <2> SUFFICES ASSUME i <= n PROVE value[i] \in Nat
    OBVIOUS
  <2>1. CASE i = 0
    BY <1>6, <2>1
  <2>2. CASE i # 0
    <3>1. i - 1 \in Nat /\ i - 1 < i /\ i - 1 <= n /\ i \in 1..n /\ i \in 0..n
      BY <2>2
    <3>2. value[i - 1] \in Nat /\ h[i] \in Nat /\ Base \in Nat
      BY <1>7, <1>8, <3>1, ListenerAssumption
    <3>3. \A x, y, z \in Nat : x * y + z \in Nat
      OBVIOUS
    <3>4. value[i - 1] * Base + h[i] \in Nat
      BY <3>2, <3>3
    <3> QED
      BY <1>6, <2>2, <3>1, <3>4
  <2> QED
    BY <2>1, <2>2
<1>9. Nat \subseteq T
  <2> HIDE DEF T
  <2> QED
    BY <1>8, Upward
<1> QED
  BY <1>5, <1>9

\* The newline at which a line ends.
NewLines(b, o) == {i \in (o + 1)..Len(b) : b[i] = 1}
FirstOf(S) == CHOOSE i \in S : \A j \in S : i <= j

LEMMA FirstIs ==
  ASSUME NEW S \in SUBSET Nat, S # {}
  PROVE  FirstOf(S) \in S /\ \A j \in S : FirstOf(S) <= j
<1>1. \E i \in S : \A j \in S : i <= j
  BY Least
<1> QED
  BY <1>1 DEF FirstOf

LEMMA LineIs ==
  ASSUME NEW b, NEW o
  PROVE  LET nl == FirstOf(NewLines(b, o))
         IN  Line(b, o) = IF NewLines(b, o) = {} THEN Round("partial", <<>>, o)
                          ELSE Round("whole", Trimmed(SubSeq(b, o + 1, nl - 1)), nl)
  BY DEF Line, FirstOf, NewLines

LEMMA PieceType ==
  ASSUME NEW b \in Seq(Bytes), NEW m \in Nat, NEW n \in Int, m >= 1, n <= Len(b)
  PROVE  SubSeq(b, m, n) \in Seq(Bytes)
<1>1. PICK k \in Nat : k = Len(b)
  BY LenProperties
<1>2. \A i \in m..n : i \in 1..Len(b)
  BY <1>1
<1>3. \A i \in m..n : b[i] \in Bytes
  BY <1>2, ElementOfSeq
<1> QED
  BY <1>3, SubSeqProperties

LEMMA RoundType ==
  ASSUME NEW f, NEW b \in Seq(Bytes), NEW o \in 0..Len(b)
  PROVE  LET r == RoundAt(f, b, o)
         IN  /\ r.kind \in {"partial", "whole", "oversized"}
             /\ r.kind = "whole" => r.next \in o + 1..Len(b) /\ r.out \in Seq(Messages)
             /\ r.kind = "partial" => r.next = o
             /\ r.kind = "oversized" => r.next = Len(b)
<1>1. PICK n \in Nat : n = Len(b)
  BY LenProperties
<1>2. CASE f = "newline"
  <2> DEFINE nls == NewLines(b, o)
             nl  == FirstOf(nls)
  <2>1. RoundAt(f, b, o) = IF nls = {} THEN Round("partial", <<>>, o)
                           ELSE Round("whole", Trimmed(SubSeq(b, o + 1, nl - 1)), nl)
    BY <1>2, LineIs DEF RoundAt
  <2>2. nls \in SUBSET Nat /\ nls \subseteq o + 1..n
    BY <1>1 DEF NewLines
  <2>3. nls # {} => nl \in nls
    BY <2>2, FirstIs
  <2> HIDE DEF nls, nl
  <2>4. ASSUME nls # {} PROVE nl \in o + 1..n /\ Trimmed(SubSeq(b, o + 1, nl - 1)) \in Seq(Messages)
    <3>1. nl \in o + 1..n
      BY <2>2, <2>3, <2>4
    <3>2. o + 1 \in Nat /\ o + 1 >= 1 /\ nl - 1 \in Int /\ nl - 1 <= Len(b)
      BY <1>1, <3>1
    <3> QED
      BY <3>1, <3>2, PieceType, TrimmedType
  <2>5. /\ Round("partial", <<>>, o).kind = "partial" /\ Round("partial", <<>>, o).next = o
        /\ \A x, y : Round("whole", x, y).kind = "whole" /\ Round("whole", x, y).next = y
                     /\ Round("whole", x, y).out = x
    BY DEF Round
  <2> QED
    BY <1>1, <2>1, <2>4, <2>5
<1>3. CASE f # "newline"
  <2> DEFINE from == o + HeaderLen
             size == Number(SubSeq(b, o + 1, from))
  <2>1. RoundAt(f, b, o) =
          IF Len(b) < from THEN Round("partial", <<>>, o)
          ELSE IF size > MaxFrame THEN Round("oversized", <<>>, Len(b))
          ELSE IF Len(b) < from + size THEN Round("partial", <<>>, o)
          ELSE Round("whole", Trimmed(SubSeq(b, from + 1, from + size)), from + size)
    BY <1>3 DEF RoundAt, Frame
  <2>2. from \in Nat /\ from >= o + 1
    BY <1>1, ListenerAssumption
  <2> HIDE DEF from
  <2>3. ASSUME ~(n < from) PROVE size \in Nat
    <3>1. o + 1 \in Nat /\ o + 1 >= 1 /\ from \in Int /\ from <= Len(b)
      BY <1>1, <2>2, <2>3
    <3> QED
      BY <3>1, PieceType, NumberType
  <2>4. ASSUME ~(n < from), ~(n < from + size)
        PROVE  /\ from + size \in o + 1..n
               /\ Trimmed(SubSeq(b, from + 1, from + size)) \in Seq(Messages)
    <3> HIDE DEF size
    <3>1. from + size \in o + 1..n
      BY <1>1, <2>2, <2>3, <2>4
    <3>2. from + 1 \in Nat /\ from + 1 >= 1 /\ from + size \in Int /\ from + size <= Len(b)
      BY <1>1, <2>2, <3>1
    <3> QED
      BY <3>1, <3>2, PieceType, TrimmedType
  <2> HIDE DEF size
  <2>5. /\ Round("partial", <<>>, o).kind = "partial" /\ Round("partial", <<>>, o).next = o
        /\ \A y : Round("oversized", <<>>, y).kind = "oversized"
                  /\ Round("oversized", <<>>, y).next = y
        /\ \A x, y : Round("whole", x, y).kind = "whole" /\ Round("whole", x, y).next = y
                     /\ Round("whole", x, y).out = x
    BY DEF Round
  <2> QED
    BY <1>1, <2>1, <2>4, <2>5
<1> QED
  BY <1>2, <1>3

\* d is a and then c.
Joined(d, a, c) == d = a \o c

\* Bytes that come later do not change what a round made of a whole message
\* or of a header beyond the limit.
LEMMA RoundExtended ==
  ASSUME NEW f, NEW a \in Seq(Bytes), NEW c \in Seq(Bytes), NEW d \in Seq(Bytes), Joined(d, a, c),
         NEW o \in 0..Len(a)
  PROVE  LET r == RoundAt(f, a, o)
         IN  /\ r.kind = "whole" => RoundAt(f, d, o) = r
             /\ r.kind = "oversized" => RoundAt(f, d, o).kind = "oversized"
<1>1. PICK n \in Nat : n = Len(a)
  BY LenProperties
<1>2. Len(d) \in Nat /\ Len(d) >= n /\ \A i \in 1..n : d[i] = a[i]
  <2>1. /\ Len(a \o c) = Len(a) + Len(c) /\ Len(c) \in Nat
        /\ \A i \in 1..Len(a) + Len(c) : (a \o c)[i] = IF i <= Len(a) THEN a[i] ELSE c[i - Len(a)]
    BY ConcatProperties, LenProperties
  <2>2. \A i \in 1..n : i \in 1..Len(a) + Len(c) /\ i <= Len(a)
    BY <1>1, <2>1
  <2>3. \A i \in 1..n : (a \o c)[i] = a[i]
    BY <2>1, <2>2
  <2>4. Len(a \o c) \in Nat /\ Len(a \o c) >= n
    BY <1>1, <2>1
  <2> QED
    BY <2>3, <2>4, Zenon DEF Joined
<1>3. \A i, j \in Nat : i >= 1 /\ j <= n => SubSeq(d, i, j) = SubSeq(a, i, j)
  <2> SUFFICES ASSUME NEW i \in Nat, NEW j \in Nat, i >= 1, j <= n
               PROVE  SubSeq(d, i, j) = SubSeq(a, i, j)
    OBVIOUS
  <2>1. 0 + j <= Len(d) /\ j <= Len(a) /\ 0 + i = i /\ 0 + j = j
    BY <1>1, <1>2
  <2>2. \A x \in i..j : a[x] = d[0 + x]
    BY <1>2
  <2> QED
    BY <1>2, <2>1, <2>2, SamePiece
<1>4. CASE f = "newline"
  <2>1. PICK S : S = NewLines(a, o) /\ S = {i \in (o + 1)..n : a[i] = 1}
    BY <1>1 DEF NewLines
  <2>2. PICK T : T = NewLines(d, o) /\ T = {i \in (o + 1)..Len(d) : d[i] = 1}
    BY DEF NewLines
  <2>3. RoundAt(f, a, o) = IF S = {} THEN Round("partial", <<>>, o)
                           ELSE Round("whole", Trimmed(SubSeq(a, o + 1, FirstOf(S) - 1)), FirstOf(S))
    BY <1>4, <2>1, LineIs DEF RoundAt
  <2>4. RoundAt(f, d, o) = IF T = {} THEN Round("partial", <<>>, o)
                           ELSE Round("whole", Trimmed(SubSeq(d, o + 1, FirstOf(T) - 1)), FirstOf(T))
    BY <1>4, <2>2, LineIs DEF RoundAt
  <2>5. CASE S # {}
    <3>1. S \in SUBSET Nat /\ T \in SUBSET Nat
      BY <1>1, <1>2, <2>1, <2>2
    <3>2. FirstOf(S) \in S /\ \A j \in S : FirstOf(S) <= j
      BY <2>5, <3>1, FirstIs
    <3>3. PICK x \in Nat : x = FirstOf(S) /\ x \in o + 1..n
      BY <1>1, <2>1, <3>1, <3>2
    <3>4. x \in T /\ \A j \in T : x <= j
      <4>1. x \in T
        BY <1>1, <1>2, <2>1, <2>2, <3>2, <3>3
      <4>2. \A j \in T : j > n \/ j \in S
        BY <1>1, <1>2, <2>1, <2>2
      <4>3. \A j \in T : j > n => x <= j
        BY <1>1, <2>2, <3>3
      <4> QED
        BY <3>2, <3>3, <4>1, <4>2, <4>3
    <3>5. FirstOf(T) \in T /\ \A j \in T : FirstOf(T) <= j
      BY <3>1, <3>4, FirstIs
    <3>6. PICK y \in Nat : y = FirstOf(T)
      BY <3>1, <3>5
    <3>7. x = y
      <4>1. x <= y /\ y <= x
        BY <3>4, <3>5, <3>6
      <4> QED
        BY <4>1
    <3>8. o + 1 \in Nat /\ o + 1 >= 1 /\ x - 1 \in Nat /\ x - 1 <= n
      BY <1>1, <3>3
    <3>9. SubSeq(d, o + 1, x - 1) = SubSeq(a, o + 1, x - 1)
      BY <1>3, <3>8
    <3> QED
      BY <2>3, <2>4, <2>5, <3>3, <3>4, <3>6, <3>7, <3>9 DEF Round
  <2>6. CASE S = {}
    BY <2>3, <2>6 DEF Round
  <2> QED
    BY <2>5, <2>6
<1>5. CASE f # "newline"
  <2>1. PICK from \in Nat : from = o + HeaderLen /\ from >= o + 1
    BY <1>1, ListenerAssumption
  <2>2. \A b : RoundAt(f, b, o) =
          IF Len(b) < from THEN Round("partial", <<>>, o)
          ELSE IF Number(SubSeq(b, o + 1, from)) > MaxFrame THEN Round("oversized", <<>>, Len(b))
          ELSE IF Len(b) < from + Number(SubSeq(b, o + 1, from)) THEN Round("partial", <<>>, o)
          ELSE Round("whole", Trimmed(SubSeq(b, from + 1, from + Number(SubSeq(b, o + 1, from)))),
                     from + Number(SubSeq(b, o + 1, from)))
    BY <1>5, <2>1 DEF RoundAt, Frame
  <2>3. CASE n < from
    BY <1>1, <2>2, <2>3 DEF Round
  <2>4. CASE ~(n < from)
    <3>1. SubSeq(d, o + 1, from) = SubSeq(a, o + 1, from)
      <4>1. o + 1 \in Nat /\ o + 1 >= 1 /\ from <= n
        BY <1>1, <2>1, <2>4
      <4> QED
        BY <1>3, <2>1, <4>1
    <3>2. PICK size \in Nat : size = Number(SubSeq(a, o + 1, from))
      <4>1. o + 1 \in Nat /\ o + 1 >= 1 /\ from \in Int /\ from <= Len(a)
        BY <1>1, <2>1, <2>4
      <4> QED
        BY <4>1, PieceType, NumberType
    <3>3. RoundAt(f, a, o) =
            IF size > MaxFrame THEN Round("oversized", <<>>, Len(a))
            ELSE IF n < from + size THEN Round("partial", <<>>, o)
            ELSE Round("whole", Trimmed(SubSeq(a, from + 1, from + size)), from + size)
      BY <1>1, <2>2, <2>4, <3>2
    <3>4. RoundAt(f, d, o) =
            IF size > MaxFrame THEN Round("oversized", <<>>, Len(d))
            ELSE IF Len(d) < from + size THEN Round("partial", <<>>, o)
            ELSE Round("whole", Trimmed(SubSeq(d, from + 1, from + size)), from + size)
      <4>1. ~(Len(d) < from)
        BY <1>1, <1>2, <2>1, <2>4
      <4> QED
        BY <2>2, <3>1, <3>2, <4>1
    <3>5. CASE size > MaxFrame
      BY <3>3, <3>4, <3>5 DEF Round
    <3>6. CASE ~(size > MaxFrame) /\ n < from + size
      BY <3>3, <3>6 DEF Round
    <3>7. CASE ~(size > MaxFrame) /\ ~(n < from + size)
      <4>1. from + 1 \in Nat /\ from + 1 >= 1 /\ from + size \in Nat /\ from + size <= n
        BY <2>1, <3>2, <3>7
      <4>2. SubSeq(d, from + 1, from + size) = SubSeq(a, from + 1, from + size)
        BY <1>3, <4>1
      <4>3. ~(Len(d) < from + size)
        BY <1>2, <4>1
      <4>4. RoundAt(f, d, o) = RoundAt(f, a, o)
        BY <3>3, <3>4, <3>7, <4>2, <4>3
      <4>5. RoundAt(f, a, o).kind = "whole"
        BY <3>3, <3>7 DEF Round
      <4> QED
        BY <4>4, <4>5
    <3> QED
      BY <3>5, <3>6, <3>7
  <2> QED
    BY <2>3, <2>4
<1> QED
  BY <1>4, <1>5

\* A round in the buffer whose first s bytes are erased is the round s bytes
\* further on in the whole buffer.
LEMMA RoundShifted ==
  ASSUME NEW f, NEW d \in Seq(Bytes), NEW s \in 0..Len(d), NEW k \in 0..Len(d) - s
  PROVE  LET r == RoundAt(f, Behind(d, s), k)
             q == RoundAt(f, d, s + k)
         IN  q.kind = r.kind /\ q.out = r.out /\ q.next = s + r.next
<1> DEFINE e == Behind(d, s)
<1>1. PICK n \in Nat : n = Len(d)
  BY LenProperties
<1>2. e \in Seq(Bytes) /\ Len(e) = n - s /\ \A i \in 1..n - s : e[i] = d[s + i]
  BY <1>1, Erased
<1> HIDE DEF e
<1>3. PICK l \in Nat : l = n - s /\ Len(e) = l /\ n = s + l /\ s \in Nat /\ k \in Nat /\ k <= l
  <2>1. s \in Nat /\ s <= n /\ k \in Nat /\ k <= n - s
    BY <1>1
  <2>2. n - s \in Nat /\ n = s + (n - s)
    BY <2>1
  <2> QED
    BY <1>2, <2>1, <2>2
<1>4. \A i, j \in Nat : i >= 1 /\ j <= l => SubSeq(e, i, j) = SubSeq(d, s + i, s + j)
  <2> SUFFICES ASSUME NEW i \in Nat, NEW j \in Nat, i >= 1, j <= l
               PROVE  SubSeq(e, i, j) = SubSeq(d, s + i, s + j)
    OBVIOUS
  <2>1. s + j <= Len(d) /\ j <= Len(e)
    BY <1>1, <1>3
  <2>2. \A x \in i..j : e[x] = d[s + x]
    BY <1>2, <1>3
  <2> QED
    BY <1>2, <1>3, <2>1, <2>2, SamePiece
<1>5. CASE f = "newline"
  <2>1. PICK S : S = NewLines(e, k) /\ S = {i \in (k + 1)..l : e[i] = 1}
    BY <1>3 DEF NewLines
  <2>2. PICK T : T = NewLines(d, s + k) /\ T = {i \in (s + k + 1)..n : d[i] = 1}
    BY <1>1 DEF NewLines
  <2>3. RoundAt(f, e, k) = IF S = {} THEN Round("partial", <<>>, k)
                           ELSE Round("whole", Trimmed(SubSeq(e, k + 1, FirstOf(S) - 1)), FirstOf(S))
    BY <1>5, <2>1, LineIs DEF RoundAt
  <2>4. RoundAt(f, d, s + k) =
          IF T = {} THEN Round("partial", <<>>, s + k)
          ELSE Round("whole", Trimmed(SubSeq(d, s + k + 1, FirstOf(T) - 1)), FirstOf(T))
    BY <1>5, <2>2, LineIs DEF RoundAt
  <2>5. S \in SUBSET Nat /\ T \in SUBSET Nat
    BY <1>3, <2>1, <2>2
  <2>6. \A i \in S : s + i \in T
    <3> SUFFICES ASSUME NEW i \in S PROVE s + i \in T
      OBVIOUS
    <3>1. i \in k + 1..l /\ e[i] = 1
      BY <2>1
    <3>2. s + i \in s + k + 1..n /\ i \in 1..n - s
      BY <1>3, <3>1
    <3> QED
      BY <1>2, <2>2, <3>1, <3>2
  <2>7. \A j \in T : j - s \in S /\ s + (j - s) = j
    <3> SUFFICES ASSUME NEW j \in T PROVE j - s \in S /\ s + (j - s) = j
      OBVIOUS
    <3>1. j \in s + k + 1..n /\ d[j] = 1
      BY <2>2
    <3>2. j - s \in k + 1..l /\ j - s \in 1..n - s /\ s + (j - s) = j
      BY <1>3, <3>1
    <3> QED
      BY <1>2, <2>1, <3>1, <3>2
  <2>8. CASE S # {}
    <3>1. FirstOf(S) \in S /\ \A j \in S : FirstOf(S) <= j
      BY <2>5, <2>8, FirstIs
    <3>2. PICK x \in Nat : x = FirstOf(S) /\ x \in k + 1..l
      BY <1>3, <2>1, <2>5, <3>1
    <3>3. s + x \in T /\ \A j \in T : s + x <= j
      <4>1. \A j \in T : x <= j - s /\ j \in Nat
        BY <2>5, <2>7, <3>1, <3>2
      <4> QED
        BY <1>3, <2>6, <3>1, <3>2, <4>1
    <3>4. FirstOf(T) \in T /\ \A j \in T : FirstOf(T) <= j
      BY <2>5, <3>3, FirstIs
    <3>5. PICK y \in Nat : y = FirstOf(T)
      BY <2>5, <3>4
    <3>6. y = s + x
      <4>1. s + x <= y /\ y <= s + x /\ s + x \in Nat
        BY <1>3, <3>3, <3>4, <3>5
      <4> QED
        BY <4>1
    <3>7. /\ k + 1 \in Nat /\ k + 1 >= 1 /\ x - 1 \in Nat /\ x - 1 <= l
          /\ s + (k + 1) = s + k + 1 /\ s + (x - 1) = y - 1
      BY <1>3, <3>2, <3>6
    <3>8. SubSeq(e, k + 1, x - 1) = SubSeq(d, s + (k + 1), s + (x - 1))
      BY <1>4, <3>7
    <3>9. SubSeq(e, k + 1, x - 1) = SubSeq(d, s + k + 1, y - 1)
      BY <3>7, <3>8
    <3>10. RoundAt(f, e, k) = Round("whole", Trimmed(SubSeq(e, k + 1, x - 1)), x)
      BY <2>3, <2>8, <3>2
    <3>11. RoundAt(f, d, s + k) = Round("whole", Trimmed(SubSeq(e, k + 1, x - 1)), s + x)
      BY <2>4, <3>3, <3>5, <3>6, <3>9
    <3> QED
      BY <3>10, <3>11 DEF Round, e
  <2>9. CASE S = {}
    <3>1. T = {}
      BY <2>7, <2>9
    <3> QED
      BY <2>3, <2>4, <2>9, <3>1 DEF Round, e
  <2> QED
    BY <2>8, <2>9
<1>6. CASE f # "newline"
  <2>1. PICK from \in Nat : from = k + HeaderLen /\ from >= k + 1 /\ s + from = s + k + HeaderLen
    BY <1>3, ListenerAssumption
  <2>2. RoundAt(f, e, k) =
          IF Len(e) < from THEN Round("partial", <<>>, k)
          ELSE IF Number(SubSeq(e, k + 1, from)) > MaxFrame THEN Round("oversized", <<>>, Len(e))
          ELSE IF Len(e) < from + Number(SubSeq(e, k + 1, from)) THEN Round("partial", <<>>, k)
          ELSE Round("whole", Trimmed(SubSeq(e, from + 1, from + Number(SubSeq(e, k + 1, from)))),
                     from + Number(SubSeq(e, k + 1, from)))
    BY <1>6, <2>1 DEF RoundAt, Frame
  <2>3. RoundAt(f, d, s + k) =
          IF n < s + from THEN Round("partial", <<>>, s + k)
          ELSE IF Number(SubSeq(d, s + k + 1, s + from)) > MaxFrame THEN Round("oversized", <<>>, n)
          ELSE IF n < s + from + Number(SubSeq(d, s + k + 1, s + from))
               THEN Round("partial", <<>>, s + k)
          ELSE Round("whole", Trimmed(SubSeq(d, s + from + 1,
                                             s + from + Number(SubSeq(d, s + k + 1, s + from)))),
                     s + from + Number(SubSeq(d, s + k + 1, s + from)))
    BY <1>1, <1>6, <2>1 DEF RoundAt, Frame
  <2>4. CASE l < from
    <3>1. n < s + from
      BY <1>3, <2>4
    <3>2. RoundAt(f, e, k) = Round("partial", <<>>, k)
      BY <1>3, <2>2, <2>4
    <3>3. RoundAt(f, d, s + k) = Round("partial", <<>>, s + k)
      BY <2>3, <3>1
    <3> QED
      BY <3>2, <3>3 DEF Round, e
  <2>5. CASE ~(l < from)
    <3>1. SubSeq(d, s + k + 1, s + from) = SubSeq(e, k + 1, from)
      <4>1. k + 1 \in Nat /\ k + 1 >= 1 /\ from <= l /\ s + (k + 1) = s + k + 1
        BY <1>3, <2>1, <2>5
      <4>2. SubSeq(e, k + 1, from) = SubSeq(d, s + (k + 1), s + from)
        BY <1>4, <2>1, <4>1
      <4> QED
        BY <4>1, <4>2
    <3>2. PICK size \in Nat : size = Number(SubSeq(e, k + 1, from))
      <4>1. k + 1 \in Nat /\ k + 1 >= 1 /\ from \in Int /\ from <= Len(e)
        BY <1>3, <2>1, <2>5
      <4> QED
        BY <1>2, <4>1, PieceType, NumberType
    <3>3. RoundAt(f, e, k) =
            IF size > MaxFrame THEN Round("oversized", <<>>, l)
            ELSE IF l < from + size THEN Round("partial", <<>>, k)
            ELSE Round("whole", Trimmed(SubSeq(e, from + 1, from + size)), from + size)
      BY <1>3, <2>2, <2>5, <3>2
    <3>4. RoundAt(f, d, s + k) =
            IF size > MaxFrame THEN Round("oversized", <<>>, n)
            ELSE IF n < s + from + size THEN Round("partial", <<>>, s + k)
            ELSE Round("whole", Trimmed(SubSeq(d, s + from + 1, s + from + size)), s + from + size)
      <4>1. ~(n < s + from)
        BY <1>3, <2>1, <2>5
      <4> QED
        BY <2>3, <3>1, <3>2, <4>1
    <3>5. CASE size > MaxFrame
      BY <1>3, <3>3, <3>4, <3>5 DEF Round, e
    <3>6. CASE ~(size > MaxFrame) /\ l < from + size
      <4>1. n < s + from + size
        BY <1>3, <2>1, <3>2, <3>6
      <4> QED
        BY <3>3, <3>4, <3>6, <4>1 DEF Round, e
    <3>7. CASE ~(size > MaxFrame) /\ ~(l < from + size)
      <4>1. /\ from + 1 \in Nat /\ from + 1 >= 1 /\ from + size \in Nat /\ from + size <= l
            /\ s + (from + 1) = s + from + 1 /\ s + (from + size) = s + from + size
        <5>1. from + size \in Nat /\ from + 1 \in Nat /\ from + 1 >= 1
          BY <2>1, <3>2
        <5>2. s + (from + 1) = s + from + 1 /\ s + (from + size) = s + from + size
          BY <1>3, <2>1, <3>2
        <5>3. from + size <= l
          BY <1>3, <3>7, <5>1
        <5> QED
          BY <5>1, <5>2, <5>3
      <4>5. ~(n < s + from + size)
        <5>1. from + size <= l /\ from + size \in Nat
          BY <1>3, <2>1, <3>2, <3>7
        <5>2. s + (from + size) <= s + l
          BY <1>3, <5>1
        <5> QED
          BY <1>3, <4>1, <5>1, <5>2
      <4>2. SubSeq(e, from + 1, from + size) = SubSeq(d, s + (from + 1), s + (from + size))
        BY <1>4, <4>1
      <4>3. RoundAt(f, e, k) = Round("whole", Trimmed(SubSeq(e, from + 1, from + size)), from + size)
        BY <3>3, <3>7
      <4>4. RoundAt(f, d, s + k)
              = Round("whole", Trimmed(SubSeq(e, from + 1, from + size)), s + (from + size))
        BY <3>4, <3>7, <4>1, <4>2, <4>5
      <4> QED
        BY <4>3, <4>4 DEF Round, e
    <3> QED
      BY <3>5, <3>6, <3>7
  <2> QED
    BY <2>4, <2>5
<1> QED
  BY <1>5, <1>6

\* One entry of Rounds, from the entries at greater offsets in g.
Entry(f, b, g, o) ==
  LET r == RoundAt(f, b, o) IN
  IF r.kind = "whole" THEN [g[r.next] EXCEPT !.out = r.out \o @]
  ELSE [out |-> <<>>, stop |-> r.next, broken |-> r.kind = "oversized"]

Results == [out : Seq(Messages), stop : Nat, broken : BOOLEAN]

\* The recursive function exists: no round goes back.
LEMMA RoundsDefined ==
  ASSUME NEW f, NEW b \in Seq(Bytes)
  PROVE  Rounds(f, b) = [o \in 0..Len(b) |-> Entry(f, b, Rounds(f, b), o)]
<1>1. PICK N \in Nat : N = Len(b)
  BY LenProperties
<1>2. \A o \in 0..N : RoundAt(f, b, o).kind = "whole" => RoundAt(f, b, o).next \in o + 1..N
  BY <1>1, RoundType
<1> DEFINE Eq(g, x) == g = [o \in x..N |-> Entry(f, b, g, o)]
           Defined  == {x \in 0..N + 1 : \E g : Eq(g, x)}
<1>3. ASSUME NEW x \in 0..N + 1, \A m \in 0..N + 1 : m > x => m \in Defined PROVE x \in Defined
  <2>1. CASE x = N + 1
    <3> DEFINE g == [o \in x..N |-> 0]
    <3>1. x..N = {}
      BY <2>1
    <3>2. Eq(g, x)
      BY <3>1
    <3> QED
      BY <3>2
  <2>2. CASE x # N + 1
    <3>1. x \in 0..N /\ x + 1 \in 0..N + 1 /\ x + 1 > x
      BY <2>2
    <3>2. PICK g : Eq(g, x + 1)
      BY <1>3, <3>1
    <3> DEFINE h == [o \in x..N |-> Entry(f, b, g, o)]
    <3>3. \A o \in x + 1..N : g[o] = Entry(f, b, g, o)
      <4> HIDE DEF h
      <4> QED
        BY <3>2
    <3>4. \A o \in x + 1..N : o \in x..N
      BY <3>1
    <3>5. \A o \in x + 1..N : h[o] = g[o]
      BY <3>3, <3>4
    <3> HIDE DEF h
    <3>6. ASSUME NEW o \in x..N PROVE Entry(f, b, h, o) = Entry(f, b, g, o)
      <4>1. o \in 0..N
        BY <3>1, <3>6
      <4>2. CASE RoundAt(f, b, o).kind = "whole"
        <5>1. RoundAt(f, b, o).next \in x + 1..N
          <6>1. PICK y : y = RoundAt(f, b, o).next
            OBVIOUS
          <6>2. y \in o + 1..N /\ o \in x..N
            BY <1>2, <4>1, <4>2, <6>1
          <6>3. y \in x + 1..N
            BY <3>1, <6>2
          <6> QED
            BY <6>1, <6>3
        <5>2. h[RoundAt(f, b, o).next] = g[RoundAt(f, b, o).next]
          BY <3>5, <5>1
        <5> QED
          BY <5>2 DEF Entry
      <4>3. CASE RoundAt(f, b, o).kind # "whole"
        BY <4>3 DEF Entry
      <4> QED
        BY <4>2, <4>3
    <3>7. h = [o \in x..N |-> Entry(f, b, h, o)]
      BY <3>6 DEF h
    <3>8. Eq(h, x)
      BY <3>7
    <3> QED
      BY <3>8
  <2> QED
    BY <2>1, <2>2
<1>4. 0..N + 1 \subseteq Defined
  <2> HIDE DEF Defined
  <2>1. N + 1 \in Nat
    OBVIOUS
  <2> QED
    BY <1>3, <2>1, Downward
<1>5. \E g : Eq(g, 0)
  <2>1. 0 \in 0..N + 1
    OBVIOUS
  <2> QED
    BY <1>4, <2>1
<1> DEFINE R == CHOOSE g : Eq(g, 0)
<1>6. Rounds(f, b) = R
  BY <1>1 DEF Rounds, Entry
<1>7. Eq(R, 0)
  <2> HIDE DEF Eq
  <2> QED
    BY <1>5
<1> QED
  BY <1>1, <1>6, <1>7

LEMMA RoundsType ==
  ASSUME NEW f, NEW b \in Seq(Bytes)
  PROVE  \A o \in 0..Len(b) : Rounds(f, b)[o] \in Results /\ Rounds(f, b)[o].stop \in o..Len(b)
<1>1. PICK N \in Nat : N = Len(b)
  BY LenProperties
<1>2. PICK R : R = Rounds(f, b)
  OBVIOUS
<1>3. \A o \in 0..N : R[o] = Entry(f, b, R, o)
  BY <1>1, <1>2, RoundsDefined
<1> DEFINE T == {o \in 0..N : R[o] \in Results /\ R[o].stop \in o..N}
<1>4. ASSUME NEW o \in 0..N, \A m \in 0..N : m > o => m \in T PROVE o \in T
  <2>1. PICK r : r = RoundAt(f, b, o)
    OBVIOUS
  <2>2. /\ r.kind \in {"partial", "whole", "oversized"}
        /\ r.kind = "whole" => r.next \in o + 1..N /\ r.out \in Seq(Messages)
        /\ r.kind = "partial" => r.next = o
        /\ r.kind = "oversized" => r.next = N
    BY <1>1, <2>1, RoundType
  <2>3. CASE r.kind = "whole"
    <3>1. PICK y \in 0..N : y = r.next /\ y > o
      BY <2>2, <2>3
    <3>2. R[y] \in Results /\ R[y].stop \in y..N
      BY <1>4, <3>1
    <3>3. R[o] = [R[y] EXCEPT !.out = r.out \o @]
      BY <1>3, <2>1, <2>3, <3>1 DEF Entry
    <3>4. r.out \o R[y].out \in Seq(Messages)
      BY <2>2, <2>3, <3>2, ConcatProperties DEF Results
    <3>5. R[o] \in Results /\ R[o].stop = R[y].stop
      BY <3>2, <3>3, <3>4 DEF Results
    <3> QED
      BY <3>1, <3>2, <3>5
  <2>4. CASE r.kind # "whole"
    <3>1. R[o] = [out |-> <<>>, stop |-> r.next, broken |-> r.kind = "oversized"]
      BY <1>3, <2>1, <2>4 DEF Entry
    <3>2. r.next \in o..N /\ r.next \in Nat
      BY <2>2, <2>4
    <3>3. <<>> \in Seq(Messages)
      BY EmptySeq
    <3>4. R[o] \in Results
      BY <3>1, <3>2, <3>3 DEF Results
    <3> QED
      BY <3>1, <3>2, <3>4
  <2> QED
    BY <2>3, <2>4
<1>5. 0..N \subseteq T
  <2> HIDE DEF T
  <2> QED
    BY <1>4, Downward
<1> QED
  BY <1>1, <1>2, <1>5

\* What a round adds to those after it.
Leads(r, R, o, n) ==
  /\ r.kind = "whole" => /\ r.next \in o + 1..n /\ r.out \in Seq(Messages)
                         /\ R[r.next] \in Results
                         /\ R[o].out = r.out \o R[r.next].out
                         /\ R[o].stop = R[r.next].stop /\ R[o].broken = R[r.next].broken
  /\ r.kind # "whole" => /\ R[o].out = <<>> /\ R[o].stop = r.next
                         /\ R[o].broken = (r.kind = "oversized")

LEMMA RoundsAt ==
  ASSUME NEW f, NEW b \in Seq(Bytes), NEW o \in 0..Len(b)
  PROVE  Leads(RoundAt(f, b, o), Rounds(f, b), o, Len(b))
<1>1. PICK N \in Nat : N = Len(b)
  BY LenProperties
<1>2. PICK r : r = RoundAt(f, b, o)
  OBVIOUS
<1>3. PICK R : R = Rounds(f, b)
  OBVIOUS
<1>4. R[o] = IF r.kind = "whole" THEN [R[r.next] EXCEPT !.out = r.out \o @]
             ELSE [out |-> <<>>, stop |-> r.next, broken |-> r.kind = "oversized"]
  <2>1. R[o] = Entry(f, b, R, o)
    BY <1>3, RoundsDefined
  <2> QED
    BY <1>2, <2>1 DEF Entry
<1>5. r.kind = "whole" => r.next \in o + 1..N /\ r.out \in Seq(Messages)
  BY <1>1, <1>2, RoundType
<1>6. CASE r.kind = "whole"
  <2>1. PICK y \in 0..N : y = r.next
    BY <1>5, <1>6
  <2>2. R[y] \in Results
    BY <1>1, <1>3, RoundsType
  <2>3. R[o] = [R[y] EXCEPT !.out = r.out \o @]
    BY <1>4, <1>6, <2>1
  <2>4. R[o].out = r.out \o R[y].out /\ R[o].stop = R[y].stop /\ R[o].broken = R[y].broken
    BY <2>2, <2>3 DEF Results
  <2>5. Leads(r, R, o, N)
    BY <1>5, <1>6, <2>1, <2>2, <2>4 DEF Leads
  <2> QED
    BY <1>1, <1>2, <1>3, <2>5
<1>7. CASE r.kind # "whole"
  <2>1. /\ R[o].out = <<>> /\ R[o].stop = r.next
        /\ R[o].broken = (r.kind = "oversized")
    BY <1>4, <1>7
  <2>2. Leads(r, R, o, N)
    BY <1>7, <2>1 DEF Leads
  <2> QED
    BY <1>1, <1>2, <1>3, <2>2
<1> QED
  BY <1>6, <1>7

LEMMA RoundsShifted ==
  ASSUME NEW f, NEW d \in Seq(Bytes), NEW s \in 0..Len(d)
  PROVE  \A k \in 0..Len(d) - s :
           LET x == Rounds(f, Behind(d, s))[k]
               y == Rounds(f, d)[s + k]
           IN  y.out = x.out /\ y.stop = s + x.stop /\ y.broken = x.broken
<1>1. PICK n \in Nat : n = Len(d)
  BY LenProperties
<1>2. PICK e \in Seq(Bytes) : e = Behind(d, s) /\ Len(e) = n - s
  BY <1>1, Erased
<1>3. PICK l \in Nat : l = n - s /\ n = s + l /\ s \in Nat
  <2>1. s \in Nat /\ s <= n
    BY <1>1
  <2>2. n - s \in Nat /\ n = s + (n - s)
    BY <2>1
  <2> QED
    BY <2>1, <2>2
<1>4. PICK X : X = Rounds(f, e)
  OBVIOUS
<1>5. PICK Y : Y = Rounds(f, d)
  OBVIOUS
<1> DEFINE Same(k) == Y[s + k].out = X[k].out /\ Y[s + k].stop = s + X[k].stop
                      /\ Y[s + k].broken = X[k].broken
           T       == {k \in 0..l : Same(k)}
<1>6. ASSUME NEW k \in 0..l, \A m \in 0..l : m > k => m \in T PROVE k \in T
  <2>1. PICK r : r = RoundAt(f, e, k)
    OBVIOUS
  <2>2. PICK q : q = RoundAt(f, d, s + k)
    OBVIOUS
  <2>3. q.kind = r.kind /\ q.out = r.out /\ q.next = s + r.next
    BY <1>1, <1>2, <1>3, <2>1, <2>2, RoundShifted
  <2>4. s + k \in 0..Len(d) /\ k \in 0..Len(e)
    BY <1>1, <1>2, <1>3
  <2>5. /\ r.kind = "whole" => /\ r.next \in k + 1..Len(e)
                               /\ X[k].out = r.out \o X[r.next].out
                               /\ X[k].stop = X[r.next].stop /\ X[k].broken = X[r.next].broken
        /\ r.kind # "whole" => /\ X[k].out = <<>> /\ X[k].stop = r.next
                               /\ X[k].broken = (r.kind = "oversized")
    <3>1. Leads(RoundAt(f, e, k), Rounds(f, e), k, Len(e))
      BY <2>4, RoundsAt
    <3>2. Leads(r, X, k, Len(e))
      BY <1>4, <2>1, <3>1
    <3> QED
      BY <3>2 DEF Leads
  <2>6. /\ q.kind = "whole" => /\ Y[s + k].out = q.out \o Y[q.next].out
                               /\ Y[s + k].stop = Y[q.next].stop
                               /\ Y[s + k].broken = Y[q.next].broken
        /\ q.kind # "whole" => /\ Y[s + k].out = <<>> /\ Y[s + k].stop = q.next
                               /\ Y[s + k].broken = (q.kind = "oversized")
    <3>1. Leads(RoundAt(f, d, s + k), Rounds(f, d), s + k, Len(d))
      BY <2>4, RoundsAt
    <3>2. Leads(q, Y, s + k, Len(d))
      BY <1>5, <2>2, <3>1
    <3> QED
      BY <3>2 DEF Leads
  <2>7. CASE r.kind = "whole"
    <3>1. r.next \in 0..l /\ r.next > k
      <4>1. PICK y : y = r.next
        OBVIOUS
      <4>2. y \in k + 1..l
        BY <1>2, <1>3, <2>5, <2>7, <4>1
      <4>3. y \in 0..l /\ y > k
        BY <4>2
      <4> QED
        BY <4>1, <4>3
    <3>2. Same(r.next)
      BY <1>6, <3>1
    <3> QED
      BY <2>3, <2>5, <2>6, <2>7, <3>2
  <2>8. CASE r.kind # "whole"
    BY <2>3, <2>5, <2>6, <2>8
  <2> QED
    BY <2>7, <2>8
<1>7. 0..l \subseteq T
  <2> HIDE DEF T
  <2> QED
    BY <1>6, Downward
<1> QED
  BY <1>1, <1>2, <1>3, <1>4, <1>5, <1>7

\* From offset o on the rounds of Z are those of X, and then more.
GoesOn(X, Z, o) ==
  /\ X[o].broken => Z[o].broken /\ Z[o].out = X[o].out
  /\ ~X[o].broken => /\ Z[o].out = X[o].out \o Z[X[o].stop].out
                     /\ Z[o].stop = Z[X[o].stop].stop
                     /\ Z[o].broken = Z[X[o].stop].broken

\* What was cut from a part of the stream is cut from the whole too, and the
\* rounds go on where they stopped.
LEMMA RoundsExtended ==
  ASSUME NEW f, NEW a \in Seq(Bytes), NEW c \in Seq(Bytes), NEW d \in Seq(Bytes), Joined(d, a, c)
  PROVE  \A o \in 0..Len(a) : GoesOn(Rounds(f, a), Rounds(f, d), o)
<1>1. PICK n \in Nat : n = Len(a)
  BY LenProperties
<1>2. Len(d) \in Nat /\ n <= Len(d)
  <2>1. Len(a \o c) = Len(a) + Len(c) /\ Len(c) \in Nat
    BY ConcatProperties, LenProperties
  <2>2. Len(a \o c) \in Nat /\ n <= Len(a \o c)
    BY <1>1, <2>1
  <2> QED
    BY <2>2, Zenon DEF Joined
<1>3. PICK X : X = Rounds(f, a)
  OBVIOUS
<1>4. PICK Z : Z = Rounds(f, d)
  OBVIOUS
<1> DEFINE T == {o \in 0..n : GoesOn(X, Z, o)}
<1>5. ASSUME NEW o \in 0..n, \A m \in 0..n : m > o => m \in T PROVE o \in T
  <2>1. PICK r : r = RoundAt(f, a, o)
    OBVIOUS
  <2>2. PICK q : q = RoundAt(f, d, o)
    OBVIOUS
  <2>3. /\ r.kind \in {"partial", "whole", "oversized"}
        /\ r.kind = "partial" => r.next = o
    BY <1>1, <2>1, RoundType
  <2>4. /\ r.kind = "whole" => q = r
        /\ r.kind = "oversized" => q.kind = "oversized"
    <3>1. o \in 0..Len(a)
      BY <1>1
    <3> QED
      BY <2>1, <2>2, <3>1, RoundExtended
  <2>5. o \in 0..Len(a) /\ o \in 0..Len(d)
    BY <1>1, <1>2
  <2>6. /\ r.kind = "whole" => /\ r.next \in o + 1..n /\ r.out \in Seq(Messages)
                               /\ X[r.next] \in Results
                               /\ X[o].out = r.out \o X[r.next].out
                               /\ X[o].stop = X[r.next].stop /\ X[o].broken = X[r.next].broken
        /\ r.kind # "whole" => /\ X[o].out = <<>> /\ X[o].stop = r.next
                               /\ X[o].broken = (r.kind = "oversized")
    <3>1. Leads(RoundAt(f, a, o), Rounds(f, a), o, Len(a))
      BY <2>5, RoundsAt
    <3>2. Leads(r, X, o, n)
      BY <1>1, <1>3, <2>1, <3>1
    <3> QED
      BY <3>2 DEF Leads
  <2>7. /\ q.kind = "whole" => /\ Z[o].out = q.out \o Z[q.next].out
                               /\ Z[o].stop = Z[q.next].stop /\ Z[o].broken = Z[q.next].broken
        /\ q.kind # "whole" => /\ Z[o].out = <<>> /\ Z[o].broken = (q.kind = "oversized")
    <3>1. Leads(RoundAt(f, d, o), Rounds(f, d), o, Len(d))
      BY <2>5, RoundsAt
    <3>2. Leads(q, Z, o, Len(d))
      BY <1>4, <2>2, <3>1
    <3> QED
      BY <3>2 DEF Leads
  <2>8. CASE r.kind = "whole"
    <3>1. PICK y : y = r.next
      OBVIOUS
    <3>2. y \in 0..n /\ y > o
      <4>1. y \in o + 1..n
        BY <2>6, <2>8, <3>1
      <4> QED
        BY <4>1
    <3>3. GoesOn(X, Z, y)
      BY <1>5, <3>2
    <3>4. CASE X[y].broken
      BY <2>4, <2>6, <2>7, <2>8, <3>1, <3>3, <3>4 DEF GoesOn
    <3>5. CASE ~X[y].broken
      <4>1. PICK t : t = X[y].stop /\ t = X[o].stop
        BY <2>6, <2>8, <3>1
      <4>2. Z[y].out = X[y].out \o Z[t].out
        BY <3>3, <3>5, <4>1 DEF GoesOn
      <4>3. Z[t].out \in Seq(Messages)
        <5>1. t \in y..n
          BY <1>1, <1>3, <3>2, <4>1, RoundsType
        <5>2. t \in 0..Len(d)
          BY <1>2, <3>2, <5>1
        <5> QED
          BY <1>4, <5>2, RoundsType DEF Results
      <4>4. r.out \in Seq(Messages) /\ X[y].out \in Seq(Messages)
        BY <2>6, <2>8, <3>1 DEF Results
      <4>5. r.out \o (X[y].out \o Z[t].out) = (r.out \o X[y].out) \o Z[t].out
        <5>1. PICK u \in Seq(Messages), v \in Seq(Messages), w \in Seq(Messages) :
                u = r.out /\ v = X[y].out /\ w = Z[t].out
          BY <4>3, <4>4
        <5>2. u \o (v \o w) = (u \o v) \o w
          BY ConcatAssociative
        <5> QED
          BY <5>1, <5>2
      <4>6. Z[o].out = X[o].out \o Z[t].out
        BY <2>4, <2>6, <2>7, <2>8, <3>1, <4>2, <4>5
      <4>7. Z[o].stop = Z[t].stop /\ Z[o].broken = Z[t].broken /\ ~X[o].broken
        BY <2>4, <2>6, <2>7, <2>8, <3>1, <3>3, <3>5, <4>1 DEF GoesOn
      <4> QED
        BY <4>1, <4>6, <4>7 DEF GoesOn
    <3> QED
      BY <3>4, <3>5
  <2>9. CASE r.kind = "partial"
    <3>1. X[o].out = <<>> /\ X[o].stop = o /\ ~X[o].broken
      BY <2>3, <2>6, <2>9
    <3>2. Z[o].out \in Seq(Messages)
      BY <1>4, <2>5, RoundsType DEF Results
    <3>3. <<>> \o Z[o].out = Z[o].out
      BY <3>2, ConcatEmptySeq
    <3> QED
      BY <3>1, <3>3 DEF GoesOn
  <2>10. CASE r.kind = "oversized"
    BY <2>4, <2>6, <2>7, <2>10 DEF GoesOn
  <2> QED
    BY <2>3, <2>8, <2>9, <2>10
<1>6. 0..n \subseteq T
  <2> HIDE DEF T
  <2> QED
    BY <1>5, Downward
<1> QED
  BY <1>1, <1>2, <1>3, <1>4, <1>6

LEMMA ParseType ==
  ASSUME NEW f, NEW b \in Seq(Bytes)
  PROVE  LET p == Parse(f, b)
         IN  /\ p.out \in Seq(Messages) /\ p.rest \in Seq(Bytes) /\ p.broken \in BOOLEAN
             /\ Len(p.rest) <= Len(b)
<1>1. PICK n \in Nat : n = Len(b)
  BY LenProperties
<1>2. PICK x : x = Rounds(f, b)[0]
  OBVIOUS
<1>3. x \in Results /\ x.stop \in 0..n
  <2>1. 0 \in 0..Len(b)
    BY <1>1
  <2> QED
    BY <1>1, <1>2, <2>1, RoundsType
<1>4. Parse(f, b) = [out |-> x.out, rest |-> Behind(b, x.stop), broken |-> x.broken]
  BY <1>2 DEF Parse, Behind
<1>5. Behind(b, x.stop) \in Seq(Bytes) /\ Len(Behind(b, x.stop)) <= Len(b)
  BY <1>1, <1>3, Erased
<1> QED
  BY <1>3, <1>4, <1>5 DEF Results

\* What was cut off in r is that of p and then that of q, if p went to the end.
Adds(p, q, r) ==
  /\ p.broken => r.broken /\ r.out = p.out
  /\ ~p.broken => r.out = p.out \o q.out /\ r.rest = q.rest /\ r.broken = q.broken

\* Cutting a part of the stream and then what it left with what came after
\* is cutting the whole.
LEMMA ParseExtended ==
  ASSUME NEW f, NEW a \in Seq(Bytes), NEW c \in Seq(Bytes),
         NEW d \in Seq(Bytes), Joined(d, a, c),
         NEW b, Joined(b, Parse(f, a).rest, c)
  PROVE  Adds(Parse(f, a), Parse(f, b), Parse(f, d))
<1>1. PICK n \in Nat, m \in Nat : n = Len(a) /\ m = Len(c)
  BY LenProperties
<1>2. /\ Len(d) = n + m
      /\ \A i \in 1..n + m : d[i] = IF i <= n THEN a[i] ELSE c[i - n]
  <2>1. /\ a \o c \in Seq(Bytes) /\ Len(a \o c) = Len(a) + Len(c)
        /\ \A i \in 1..Len(a) + Len(c) : (a \o c)[i] = IF i <= Len(a) THEN a[i] ELSE c[i - Len(a)]
    BY ConcatProperties
  <2> QED
    BY <1>1, <2>1, Zenon DEF Joined
<1>3. PICK x : x = Rounds(f, a)[0]
  OBVIOUS
<1>4. PICK s \in Nat : s = x.stop /\ s <= n /\ x \in Results
  <2>1. 0 \in 0..Len(a)
    BY <1>1
  <2>2. x \in Results /\ x.stop \in 0..n
    BY <1>1, <1>3, <2>1, RoundsType
  <2> QED
    BY <2>2
<1>5. s \in 0..Len(a) /\ s \in 0..Len(d)
  BY <1>1, <1>2, <1>4
<1>6. PICK e \in Seq(Bytes) : e = Behind(d, s) /\ Len(e) = (n + m) - s
                              /\ \A i \in 1..(n + m) - s : e[i] = d[s + i]
  <2>1. /\ Behind(d, s) \in Seq(Bytes) /\ Len(Behind(d, s)) = Len(d) - s
        /\ \A i \in 1..Len(d) - s : Behind(d, s)[i] = d[s + i]
    BY <1>5, Erased
  <2> QED
    BY <1>2, <2>1, Zenon
<1>7. PICK rest \in Seq(Bytes) : rest = Behind(a, s) /\ Len(rest) = n - s
                                 /\ \A i \in 1..n - s : rest[i] = a[s + i]
  BY <1>1, <1>5, Erased
<1>8. rest \o c = e
  <2>1. /\ rest \o c \in Seq(Bytes) /\ Len(rest \o c) = (n - s) + m
        /\ \A i \in 1..(n - s) + m : (rest \o c)[i] = IF i <= n - s THEN rest[i] ELSE c[i - (n - s)]
    <3>1. /\ rest \o c \in Seq(Bytes) /\ Len(rest \o c) = Len(rest) + Len(c)
          /\ \A i \in 1..Len(rest) + Len(c) :
               (rest \o c)[i] = IF i <= Len(rest) THEN rest[i] ELSE c[i - Len(rest)]
      BY ConcatProperties
    <3> QED
      BY <1>1, <1>7, <3>1, Zenon
  <2>2. (n - s) + m = (n + m) - s /\ (n - s) + m \in Nat /\ n - s \in Nat
    BY <1>4
  <2>3. ASSUME NEW i \in 1..(n - s) + m PROVE (rest \o c)[i] = e[i]
    <3>1. s + i \in 1..n + m /\ i \in 1..(n + m) - s
      BY <1>4, <2>2
    <3>2. CASE i <= n - s
      <4>1. i \in 1..n - s /\ s + i <= n
        BY <1>4, <3>2
      <4> QED
        BY <1>2, <1>6, <1>7, <2>1, <3>1, <3>2, <4>1
    <3>3. CASE ~(i <= n - s)
      <4>1. ~(s + i <= n) /\ i - (n - s) = (s + i) - n
        BY <1>4, <3>3
      <4> QED
        BY <1>2, <1>6, <2>1, <3>1, <3>3, <4>1
    <3> QED
      BY <3>2, <3>3
  <2>4. Len(rest \o c) = Len(e)
    BY <1>6, <2>1, <2>2
  <2> QED
    BY <1>6, <2>1, <2>3, <2>4, SeqEqual
<1>9. PICK y : y = Rounds(f, e)[0]
  OBVIOUS
<1>10. PICK t \in Nat : t = y.stop /\ t <= (n + m) - s /\ y \in Results
  <2>1. (n + m) - s \in Nat
    BY <1>4
  <2>2. 0 \in 0..Len(e)
    BY <1>6, <2>1
  <2>3. y \in Results /\ y.stop \in 0..(n + m) - s
    BY <1>6, <1>9, <2>2, RoundsType
  <2> QED
    BY <2>1, <2>3
<1>11. PICK w : w = Rounds(f, d)[s]
  OBVIOUS
<1>12. w.out = y.out /\ w.stop = s + t /\ w.broken = y.broken
  <2>1. 0 \in 0..Len(d) - s /\ s + 0 = s
    BY <1>2, <1>4
  <2> QED
    BY <1>5, <1>6, <1>9, <1>10, <1>11, <2>1, RoundsShifted
<1>13. Behind(e, t) = Behind(d, s + t)
  <2>1. PICK l \in Nat : l = (n + m) - s /\ t <= l /\ n + m = s + l
    <3>1. (n + m) - s \in Nat /\ n + m = s + ((n + m) - s)
      BY <1>4
    <3> QED
      BY <1>10, <3>1
  <2>8. Len(e) = l /\ Len(d) = s + l
    BY <1>2, <1>6, <2>1
  <2>2. t \in 0..Len(e) /\ s + t \in 0..Len(d)
    <3>1. t \in 0..l /\ s + t \in 0..s + l
      BY <2>1
    <3> QED
      BY <2>8, <3>1
  <2>3. PICK g \in Seq(Bytes) : /\ g = Behind(e, t) /\ Len(g) = Len(e) - t
                                /\ \A i \in 1..Len(e) - t : g[i] = e[t + i]
    BY <2>2, Erased
  <2>4. PICK h \in Seq(Bytes) : /\ h = Behind(d, s + t) /\ Len(h) = Len(d) - (s + t)
                                /\ \A i \in 1..Len(d) - (s + t) : h[i] = d[s + t + i]
    BY <2>2, Erased
  <2>5. Len(e) - t = l - t /\ Len(d) - (s + t) = l - t /\ l - t \in Nat
    <3>1. (s + l) - (s + t) = l - t /\ l - t \in Nat
      BY <2>1
    <3> QED
      BY <2>8, <3>1
  <2>6. ASSUME NEW i \in 1..l - t PROVE g[i] = h[i]
    <3>1. t + i \in 1..l /\ s + (t + i) = s + t + i
      BY <2>1
    <3> QED
      BY <1>6, <2>1, <2>3, <2>4, <2>5, <3>1
  <2>7. g = h
    BY <2>3, <2>4, <2>5, <2>6, SeqEqual
  <2> QED
    BY <2>3, <2>4, <2>7
<1>14. PICK z : z = Rounds(f, d)[0]
  OBVIOUS
<1>15. /\ x.broken => z.broken /\ z.out = x.out
       /\ ~x.broken => z.out = x.out \o w.out /\ z.stop = w.stop /\ z.broken = w.broken
  <2>1. 0 \in 0..Len(a)
    BY <1>1
  <2>2. PICK u, v : u = Rounds(f, a) /\ v = Rounds(f, d)
    OBVIOUS
  <2>4. GoesOn(u, v, 0)
    BY <2>1, <2>2, RoundsExtended
  <2> QED
    BY <1>3, <1>4, <1>11, <1>14, <2>2, <2>4 DEF GoesOn
<1>16. /\ Parse(f, a) = [out |-> x.out, rest |-> rest, broken |-> x.broken]
       /\ Parse(f, e) = [out |-> y.out, rest |-> Behind(e, t), broken |-> y.broken]
       /\ Parse(f, d) = [out |-> z.out, rest |-> Behind(d, z.stop), broken |-> z.broken]
  BY <1>3, <1>4, <1>7, <1>9, <1>10, <1>14 DEF Parse, Behind
<1>17. CASE x.broken
  <2>1. Parse(f, d).broken /\ Parse(f, d).out = Parse(f, a).out /\ Parse(f, a).broken
    BY <1>15, <1>16, <1>17
  <2> QED
    BY <2>1 DEF Adds
<1>18. CASE ~x.broken
  <2>1. z.stop = s + t /\ z.out = x.out \o y.out /\ z.broken = y.broken
    BY <1>12, <1>15, <1>18
  <2>2. /\ Parse(f, d).out = Parse(f, a).out \o Parse(f, e).out
        /\ Parse(f, d).rest = Parse(f, e).rest
        /\ Parse(f, d).broken = Parse(f, e).broken /\ ~Parse(f, a).broken
    <3>1. Parse(f, a).out = x.out /\ Parse(f, a).broken = x.broken
      BY <1>16
    <3>2. /\ Parse(f, e).out = y.out /\ Parse(f, e).broken = y.broken
          /\ Parse(f, e).rest = Behind(e, t)
      BY <1>16
    <3>3. /\ Parse(f, d).out = z.out /\ Parse(f, d).broken = z.broken
          /\ Parse(f, d).rest = Behind(d, z.stop)
      BY <1>16
    <3> QED
      BY <1>13, <1>18, <2>1, <3>1, <3>2, <3>3, Zenon
  <2>3. Parse(f, a).rest = rest
    BY <1>16
  <2>4. b = e
    BY <1>8, <2>3, Zenon DEF Joined
  <2> QED
    BY <2>2, <2>4, Zenon DEF Adds
<1> QED
  BY <1>17, <1>18

-----------------------------------------------------------------------------
(* CueListener: types and framing of the cue thread.                        *)

\* What is cut from what was read is what was handed on, and what is left of
\* it is in the buffer until the client is gone.
StreamInv ==
  /\ msgs \in Seq(Messages) /\ heard \in Seq(Messages)
  /\ Len(buf) <= Len(got)
  /\ cuePc \in {"loop", "accept", "last", "gone"} => buf = <<>>
  /\ cuePc = "accept" => got = <<>> /\ heard = <<>>
  /\ cuePc \in {"next", "select", "message"} /\ ~Parse(framing, got).broken
       => buf = Parse(framing, got).rest
  /\ FramingExact

ListenInv == CueTypeOK /\ StreamInv

\* out is the beginning of all.
StartsWith(all, out) == Len(out) <= Len(all) /\ SubSeq(all, 1, Len(out)) = out

LEMMA StartsWithAll ==
  ASSUME NEW s \in Seq(Messages), NEW t \in Seq(Messages)
  PROVE  StartsWith(s \o t, s)
<1>1. s \o t \in Seq(Messages) /\ Len(s \o t) = Len(s) + Len(t) /\ Len(s) \in Nat /\ Len(t) \in Nat
  BY ConcatProperties, LenProperties
<1>2. Len(s) <= Len(s \o t)
  BY <1>1
<1>3. CASE Len(s) = 0
  <2>1. SubSeq(s \o t, 1, Len(s)) = <<>> /\ s = <<>>
    BY <1>3, SubSeqEmpty, EmptySeq
  <2> QED
    BY <1>2, <2>1 DEF StartsWith
<1>4. CASE Len(s) # 0
  <2>1. 1 \in 1..Len(s) /\ Len(s) \in 1..Len(s)
    BY <1>1, <1>4
  <2>2. SubSeq(s \o t, 1, Len(s)) = SubSeq(s, 1, Len(s))
    BY <2>1, SubSeqOfConcat1
  <2>3. SubSeq(s, 1, Len(s)) = s
    BY SubSeqFull
  <2> QED
    BY <1>2, <2>2, <2>3 DEF StartsWith
<1> QED
  BY <1>3, <1>4

LEMMA StartsWithMore ==
  ASSUME NEW s \in Seq(Messages), NEW t \in Seq(Messages), NEW u \in Seq(Messages), StartsWith(s, u)
  PROVE  StartsWith(s \o t, u)
<1>1. s \o t \in Seq(Messages) /\ Len(s \o t) = Len(s) + Len(t)
  BY ConcatProperties
<1>2. Len(s) \in Nat /\ Len(t) \in Nat /\ Len(u) \in Nat /\ Len(u) <= Len(s)
  BY LenProperties DEF StartsWith
<1>3. Len(u) <= Len(s \o t)
  BY <1>1, <1>2
<1>4. CASE Len(u) = 0
  <2>1. SubSeq(s \o t, 1, Len(u)) = <<>> /\ u = <<>>
    BY <1>4, SubSeqEmpty, EmptySeq
  <2> QED
    BY <1>3, <2>1 DEF StartsWith
<1>5. CASE Len(u) # 0
  <2>1. 1 \in 1..Len(s) /\ Len(u) \in 1..Len(s)
    BY <1>2, <1>5
  <2>2. SubSeq(s \o t, 1, Len(u)) = SubSeq(s, 1, Len(u))
    BY <2>1, SubSeqOfConcat1
  <2> QED
    BY <1>3, <2>2 DEF StartsWith
<1> QED
  BY <1>4, <1>5

LEMMA HeadMoves ==
  ASSUME NEW S, NEW s \in Seq(S), NEW t \in Seq(S), t # <<>>
  PROVE  Append(s, Head(t)) \o Tail(t) = s \o t
<1>1. Head(t) \in S /\ Tail(t) \in Seq(S)
  BY HeadTailProperties
<1>2. Append(s, Head(t)) = s \o <<Head(t)>> /\ <<Head(t)>> \in Seq(S)
  BY <1>1, AppendIsConcat
<1>3. <<Head(t)>> \o Tail(t) = t
  <2>1. 1 \in 1..Len(t) /\ Len(t) \in 1..Len(t)
    BY EmptySeq, LenProperties
  <2>2. SubSeq(t, 1, Len(t)) = <<t[1]>> \o SubSeq(t, 2, Len(t))
    <3>1. 1 + 1 = 2
      OBVIOUS
    <3> QED
      BY <2>1, <3>1, SubSeqRecursiveFirst
  <2>3. Head(t) = t[1] /\ Tail(t) = SubSeq(t, 2, Len(t)) /\ SubSeq(t, 1, Len(t)) = t
    BY TailIsSubSeq, SubSeqFull
  <2> QED
    BY <2>2, <2>3, Zenon
<1>4. (s \o <<Head(t)>>) \o Tail(t) = s \o (<<Head(t)>> \o Tail(t))
  BY <1>1, <1>2, ConcatAssociative
<1> QED
  BY <1>2, <1>3, <1>4, Zenon

\* Nothing is cut from nothing.
LEMMA ParseEmpty ==
  ASSUME NEW f
  PROVE  Parse(f, <<>>) = [out |-> <<>>, rest |-> <<>>, broken |-> FALSE]
<1>1. PICK b \in Seq(Bytes) : b = <<>> /\ Len(b) = 0
  BY EmptySeq
<1>2. PICK r : r = RoundAt(f, b, 0)
  OBVIOUS
<1>3. 0 \in 0..Len(b)
  BY <1>1
<1>4. r.kind = "partial" /\ r.next = 0
  <2>1. CASE f = "newline"
    <3>1. NewLines(b, 0) = {}
      BY <1>1 DEF NewLines
    <3>2. RoundAt(f, b, 0) = Round("partial", <<>>, 0)
      BY <2>1, <3>1, LineIs DEF RoundAt
    <3> QED
      BY <1>2, <3>2 DEF Round
  <2>2. CASE f # "newline"
    <3>1. Len(b) < 0 + HeaderLen
      BY <1>1, ListenerAssumption
    <3>2. RoundAt(f, b, 0) = Round("partial", <<>>, 0)
      BY <2>2, <3>1 DEF RoundAt, Frame
    <3> QED
      BY <1>2, <3>2 DEF Round
  <2> QED
    BY <2>1, <2>2
<1>5. PICK x : x = Rounds(f, b)[0]
  OBVIOUS
<1>6. x.out = <<>> /\ x.stop = 0 /\ x.broken = FALSE
  <2>1. Leads(RoundAt(f, b, 0), Rounds(f, b), 0, Len(b))
    BY <1>3, RoundsAt
  <2>2. Leads(r, Rounds(f, b), 0, Len(b))
    BY <1>2, <2>1
  <2> QED
    BY <1>4, <1>5, <2>2 DEF Leads
<1>7. SubSeq(b, 0 + 1, Len(b)) = <<>>
  BY <1>1, SubSeqEmpty
<1>8. Parse(f, b) = [out |-> x.out, rest |-> SubSeq(b, x.stop + 1, Len(b)), broken |-> x.broken]
  BY <1>5 DEF Parse
<1> QED
  BY <1>1, <1>6, <1>7, <1>8

\* FramingExact, with names for its parts.
LastLine == IF framing = "newline" /\ cuePc \in {"last", "loop", "gone"}
            THEN Trimmed(Parse(framing, got).rest) ELSE <<>>

LEMMA ExactIs ==
  FramingExact = IF Parse(framing, got).broken
                 THEN StartsWith(heard \o msgs, Parse(framing, got).out)
                 ELSE heard \o msgs = Parse(framing, got).out \o LastLine
  BY DEF FramingExact, StartsWith, LastLine

LEMMA NothingTrimmed == Trimmed(<<>>) = <<>>
  BY DEF Trimmed

\* Steps that leave the bytes and messages of the client alone.
LEMMA ClientKept ==
  ASSUME CueTypeOK, StreamInv, UNCHANGED <<framing, clientVars>>,
         \/ cuePc' = cuePc
         \/ cuePc = "loop" /\ cuePc' = "gone"
         \/ cuePc = "accept" /\ cuePc' \in {"loop", "next"}
         \/ cuePc = "next" /\ cuePc' = "select"
  PROVE  StreamInv' /\ (msgs # <<>> <=> cuePc \in {"message", "last"})'
<1>0. UNCHANGED <<framing, buf, msgs, got, heard>>
  BY DEF clientVars
<1>1. PICK p : p = Parse(framing, got) /\ Parse(framing', got') = p
  BY <1>0
<1>2. /\ FramingExact = IF p.broken THEN StartsWith(heard \o msgs, p.out)
                        ELSE heard \o msgs = p.out \o LastLine
      /\ FramingExact' = IF p.broken THEN StartsWith(heard \o msgs, p.out)
                         ELSE heard \o msgs = p.out \o LastLine'
  <2>1. FramingExact = IF p.broken THEN StartsWith(heard \o msgs, p.out)
                       ELSE heard \o msgs = p.out \o LastLine
    BY <1>1, ExactIs
  <2>2. FramingExact' = IF Parse(framing, got)'.broken
                        THEN StartsWith(heard \o msgs, Parse(framing, got).out)'
                        ELSE (heard \o msgs)' = Parse(framing, got)'.out \o LastLine'
    BY DEF FramingExact, StartsWith, LastLine
  <2>3. FramingExact' = IF p.broken THEN StartsWith(heard \o msgs, p.out)
                        ELSE heard \o msgs = p.out \o LastLine'
    BY <1>0, <1>1, <2>2 DEF StartsWith
  <2> QED
    BY <2>1, <2>3
<1>3. CASE cuePc = "accept" /\ cuePc' \in {"loop", "next"}
  <2>1. got = <<>> /\ heard = <<>> /\ buf = <<>> /\ msgs = <<>>
    BY <1>3 DEF StreamInv, CueTypeOK
  <2>2. p = [out |-> <<>>, rest |-> <<>>, broken |-> FALSE]
    BY <1>1, <2>1, ParseEmpty
  <2>3. LastLine = <<>> /\ LastLine' = <<>>
    BY <1>0, <1>1, <1>3, <2>2, NothingTrimmed DEF LastLine
  <2>4. buf' = <<>> /\ msgs' = <<>> /\ heard' = <<>> /\ got' = <<>>
    BY <1>0, <2>1
  <2>5. FramingExact'
    <3>1. FramingExact /\ ~p.broken
      BY <2>2 DEF StreamInv
    <3>2. heard \o msgs = p.out \o LastLine
      BY <1>2, <3>1
    <3> QED
      BY <1>2, <2>3, <3>1, <3>2
  <2>6. Parse(framing', got') = p /\ p.rest = <<>>
    BY <1>1, <2>2
  <2>7. msgs' \in Seq(Messages) /\ heard' \in Seq(Messages) /\ Len(buf') <= Len(got')
    BY <1>0 DEF StreamInv
  <2>8. StreamInv'
    BY <1>3, <2>4, <2>5, <2>6, <2>7 DEF StreamInv
  <2> QED
    BY <1>3, <2>4, <2>8
<1>4. CASE ~(cuePc = "accept" /\ cuePc' \in {"loop", "next"})
  <2>1. LastLine' = LastLine
    BY <1>0, <1>4 DEF LastLine
  <2> QED
    BY <1>0, <1>1, <1>2, <1>4, <2>1 DEF StreamInv, CueTypeOK
<1> QED
  BY <1>3, <1>4

\* The types of what belongs to no client.
SettingsTypes ==
  /\ cueSet \in CueSettings /\ cueFlag \in BOOLEAN /\ framing \in Framings
  /\ cuePc \in {"loop", "accept", "next", "select", "message", "last", "gone"}
  /\ cuePc \in {"accept", "next", "select", "message", "last"} => cueOpen \in CuePorts
  /\ cueOpen \in CuePorts \cup {Nowhere}
  /\ clients \in 0..MaxClients /\ after \in Nat /\ moved \in BOOLEAN

BufferTypes == \A b \in {buf, got} : b \in Seq(Bytes) /\ Len(b) <= MaxStream

LEMMA CueTypeIs ==
  /\ CueTypeOK <=> SettingsTypes /\ BufferTypes /\ (msgs # <<>> <=> cuePc \in {"message", "last"})
  /\ CueTypeOK' <=> /\ SettingsTypes' /\ BufferTypes'
                    /\ (msgs # <<>> <=> cuePc \in {"message", "last"})'
<1>1. CueTypeOK <=> SettingsTypes /\ BufferTypes /\ (msgs # <<>> <=> cuePc \in {"message", "last"})
  BY Zenon DEF CueTypeOK, SettingsTypes, BufferTypes
<1>2. CueTypeOK' <=> /\ SettingsTypes' /\ BufferTypes'
                     /\ (msgs # <<>> <=> cuePc \in {"message", "last"})'
  BY Zenon DEF CueTypeOK, SettingsTypes, BufferTypes
<1> QED
  BY <1>1, <1>2

\* What becomes of the client leaves the settings' types alone.
LEMMA SettingsTypesStep ==
  ASSUME SettingsTypes, [CueNext]_<<cueVars, metaVars, vars>>
  PROVE  SettingsTypes'
<1> USE DEF SettingsTypes, cueVars, clientVars
<1>1. ASSUME NEW set \in CueSettings, CueSettingsSaved(set) PROVE SettingsTypes'
  BY <1>1 DEF CueSettingsSaved
<1>2. ASSUME CueLeaves PROVE SettingsTypes'
  BY <1>2 DEF CueLeaves
<1>3. ASSUME CueOff PROVE SettingsTypes'
  BY <1>3 DEF CueOff
<1>4. ASSUME CueListens PROVE SettingsTypes'
  BY <1>4 DEF CueListens, CueSettings
<1>5. ASSUME CueBindFails PROVE SettingsTypes'
  BY <1>5 DEF CueBindFails
<1>6. ASSUME NoClient PROVE SettingsTypes'
  BY <1>6 DEF NoClient
<1>7. ASSUME CueAccepts PROVE SettingsTypes'
  <2>1. clients' \in 0..MaxClients
    BY <1>7, ListenerAssumption DEF CueAccepts
  <2>2. after' \in Nat
    BY <1>7 DEF CueAccepts
  <2> QED
    BY <1>7, <2>1, <2>2 DEF CueAccepts
<1>8. ASSUME WaitForBytes PROVE SettingsTypes'
  BY <1>8 DEF WaitForBytes
<1>9. ASSUME CueMessage PROVE SettingsTypes'
  <2>1. /\ cuePc' \in {"message", "last", "next", "loop"}
        /\ UNCHANGED <<cueSet, cueOpen, cueFlag, framing, clients, after, moved>>
        /\ cuePc \in {"message", "last"}
    BY <1>9 DEF CueMessage
  <2> QED
    BY <2>1
<1>10. ASSUME ClientEnds PROVE SettingsTypes'
  <2>1. /\ cuePc' \in {"last", "loop"} /\ cuePc \in {"select", "next"}
        /\ UNCHANGED <<cueSet, cueOpen, cueFlag, framing, clients, after, moved>>
    BY <1>10, Zenon DEF ClientEnds
  <2> QED
    BY <2>1
<1>11. ASSUME NEW chunk, CueReceives(chunk) PROVE SettingsTypes'
  <2>1. /\ cuePc' \in {"message", "next"} /\ cuePc = "select"
        /\ UNCHANGED <<cueSet, cueOpen, cueFlag, framing, clients, after, moved>>
    BY <1>11, Zenon DEF CueReceives
  <2> QED
    BY <2>1
<1>12. CASE UNCHANGED cueVars
  BY <1>12
<1> QED
  BY <1>1, <1>2, <1>3, <1>4, <1>5, <1>6, <1>7, <1>8, <1>9, <1>10, <1>11, <1>12 DEF CueNext,
       CueLoop, Client, FileSteps

\* What the buffers are to one another, whatever the place.
LEMMA CueReceivesStep ==
  ASSUME ListenInv, NEW n \in 1..MaxChunk, NEW chunk \in [1..n -> Bytes], CueReceives(chunk)
  PROVE  StreamInv' /\ BufferTypes' /\ (msgs # <<>> <=> cuePc \in {"message", "last"})'
<1>1. PICK c \in Seq(Bytes) : c = chunk
  <2>1. n \in Nat /\ chunk \in UNION {[1..k -> Bytes] : k \in Nat}
    BY ListenerAssumption
  <2> QED
    BY <2>1, SeqDef
<1>2. /\ got \in Seq(Bytes) /\ buf \in Seq(Bytes) /\ Len(got) \in Nat /\ Len(buf) \in Nat
      /\ Len(c) \in Nat /\ Len(buf) <= Len(got)
  BY LenProperties DEF ListenInv, CueTypeOK, StreamInv
<1>3. PICK b \in Seq(Bytes), d \in Seq(Bytes) :
        /\ Joined(b, buf, c) /\ Joined(d, got, c)
        /\ b = buf \o chunk /\ d = got \o chunk
        /\ Len(b) = Len(buf) + Len(c) /\ Len(d) = Len(got) + Len(c)
  <2>1. buf \o c \in Seq(Bytes) /\ Len(buf \o c) = Len(buf) + Len(c)
    BY <1>2, ConcatProperties
  <2>2. got \o c \in Seq(Bytes) /\ Len(got \o c) = Len(got) + Len(c)
    BY <1>2, ConcatProperties
  <2> QED
    BY <1>1, <2>1, <2>2, Zenon DEF Joined
<1>4. PICK p, q, r : p = Parse(framing, got) /\ q = Parse(framing, b) /\ r = Parse(framing, d)
  OBVIOUS
<1>5. /\ cuePc = "select" /\ Len(got) + Len(c) <= MaxStream
      /\ got' = d /\ msgs' = q.out /\ buf' = q.rest
      /\ cuePc' = IF q.out = <<>> THEN "next" ELSE "message"
      /\ framing' = framing /\ heard' = heard
  BY <1>1, <1>3, <1>4 DEF CueReceives
<1>6. /\ q.out \in Seq(Messages) /\ q.rest \in Seq(Bytes) /\ q.broken \in BOOLEAN
      /\ Len(q.rest) <= Len(b)
  BY <1>4, ParseType
<1>7. p.out \in Seq(Messages) /\ p.broken \in BOOLEAN
  BY <1>2, <1>4, ParseType
<1>8. BufferTypes'
  <2>1. Len(q.rest) \in Nat
    BY <1>6, LenProperties
  <2>2. Len(d) <= MaxStream /\ Len(q.rest) <= MaxStream
    BY <1>2, <1>3, <1>5, <1>6, <2>1, ListenerAssumption
  <2> QED
    BY <1>5, <1>6, <2>2 DEF BufferTypes
<1>9. Len(buf') <= Len(got')
  <2>1. Len(q.rest) \in Nat
    BY <1>6, LenProperties
  <2> QED
    BY <1>2, <1>3, <1>5, <1>6, <2>1
<1>10. (msgs # <<>> <=> cuePc \in {"message", "last"})'
  BY <1>5
<1>11. PICK m \in Seq(Messages) : m = q.out /\ msgs' = m
  BY <1>5, <1>6
<1>12. msgs = <<>> /\ heard \in Seq(Messages) /\ heard \o msgs = heard
  <2>1. msgs = <<>> /\ heard \in Seq(Messages)
    BY <1>5 DEF ListenInv, CueTypeOK, StreamInv
  <2> QED
    BY <2>1, ConcatEmptySeq
<1>13. Parse(framing', got') = r
  BY <1>4, <1>5
<1>14. ~p.broken => buf = p.rest /\ heard = p.out
  <2>1. SUFFICES ASSUME ~p.broken PROVE buf = p.rest /\ heard = p.out
    OBVIOUS
  <2>2. FramingExact /\ buf = p.rest
    BY <1>4, <1>5, <2>1 DEF ListenInv, StreamInv
  <2>3. heard \o msgs = p.out \o LastLine
    BY <1>4, <2>1, <2>2, ExactIs
  <2>4. LastLine = <<>>
    BY <1>5 DEF LastLine
  <2>5. p.out \o LastLine = p.out
    BY <1>7, <2>4, ConcatEmptySeq
  <2> QED
    BY <1>12, <2>2, <2>3, <2>5, Zenon
<1>15. p.broken => StartsWith(heard, p.out)
  <2>1. SUFFICES ASSUME p.broken PROVE StartsWith(heard, p.out)
    OBVIOUS
  <2>2. FramingExact
    BY DEF ListenInv, StreamInv
  <2>3. StartsWith(heard \o msgs, p.out)
    BY <1>4, <2>1, <2>2, ExactIs
  <2> QED
    BY <1>12, <2>3, Zenon
<1>16. LastLine' = <<>>
  BY <1>5 DEF LastLine
<1>17. StartsWith(heard \o m, heard)
  BY <1>12, StartsWithAll
<1>18. r.out \in Seq(Messages)
  BY <1>4, ParseType
<1>19. CASE p.broken
  <2>1. PICK e \in Seq(Bytes) : Joined(e, p.rest, c)
    <3>1. p.rest \in Seq(Bytes)
      BY <1>2, <1>4, ParseType
    <3>2. p.rest \o c \in Seq(Bytes)
      BY <3>1, ConcatProperties
    <3> QED
      BY <3>2, Zenon DEF Joined
  <2>2. Adds(p, Parse(framing, e), r)
    <3>1. Joined(e, Parse(framing, got).rest, c)
      BY <1>4, <2>1
    <3>2. Adds(Parse(framing, got), Parse(framing, e), Parse(framing, d))
      BY <1>2, <1>3, <3>1, ParseExtended
    <3> QED
      BY <1>4, <3>2
  <2>3. r.broken /\ r.out = p.out
    BY <1>19, <2>2 DEF Adds
  <2>4. StartsWith(heard \o m, p.out)
    BY <1>7, <1>12, <1>15, <1>19, StartsWithMore
  <2>5. FramingExact'
    <3>1. StartsWith(heard \o m, r.out)
      BY <2>3, <2>4, Zenon
    <3>2. (heard \o msgs)' = heard \o m
      BY <1>5, <1>11, Zenon
    <3>3. StartsWith((heard \o msgs)', r.out)
      BY <3>1, <3>2, Zenon
    <3> QED
      BY <1>13, <2>3, <3>3 DEF FramingExact, StartsWith
  <2>6. cuePc' \in {"next", "select", "message"} /\ ~Parse(framing, got)'.broken
          => buf' = Parse(framing, got)'.rest
    BY <1>13, <2>3
  <2> QED
    BY <1>5, <1>8, <1>9, <1>10, <1>11, <1>12, <2>5, <2>6 DEF StreamInv
<1>20. CASE ~p.broken
  <2>1. Adds(p, q, r)
    <3>1. Joined(b, Parse(framing, got).rest, c)
      BY <1>3, <1>4, <1>14, <1>20
    <3>2. Adds(Parse(framing, got), Parse(framing, b), Parse(framing, d))
      BY <1>2, <1>3, <3>1, ParseExtended
    <3> QED
      BY <1>4, <3>2
  <2>2. r.out = p.out \o q.out /\ r.rest = q.rest /\ r.broken = q.broken
    BY <1>20, <2>1 DEF Adds
  <2>3. r.out = heard \o m
    BY <1>11, <1>14, <1>20, <2>2, Zenon
  <2>4. FramingExact'
    <3>1. (heard \o msgs)' = heard \o m
      BY <1>5, <1>11, Zenon
    <3>2. (heard \o msgs)' = r.out
      BY <2>3, <3>1, Zenon
    <3>3. r.out \o <<>> = r.out
      BY <1>18, ConcatEmptySeq
    <3>4. StartsWith(r.out, r.out)
      BY <1>18, SubSeqFull, LenProperties DEF StartsWith
    <3>5. FramingExact' = IF r.broken THEN StartsWith((heard \o msgs)', r.out)
                          ELSE (heard \o msgs)' = r.out \o LastLine'
      BY <1>13 DEF FramingExact, StartsWith, LastLine
    <3>6. FramingExact' = IF r.broken THEN StartsWith(r.out, r.out) ELSE r.out = r.out \o <<>>
      BY <1>16, <3>2, <3>5, Zenon
    <3> QED
      BY <3>3, <3>4, <3>6
  <2>5. cuePc' \in {"next", "select", "message"} /\ ~Parse(framing, got)'.broken
          => buf' = Parse(framing, got)'.rest
    BY <1>5, <1>13, <2>2
  <2> QED
    BY <1>5, <1>8, <1>9, <1>10, <1>11, <1>12, <2>4, <2>5 DEF StreamInv
<1> QED
  BY <1>7, <1>8, <1>10, <1>19, <1>20

LEMMA CueMessageStep ==
  ASSUME ListenInv, CueMessage
  PROVE  StreamInv' /\ BufferTypes' /\ (msgs # <<>> <=> cuePc \in {"message", "last"})'
<1>1. /\ cuePc \in {"message", "last"} /\ msgs # <<>> /\ msgs \in Seq(Messages)
      /\ heard \in Seq(Messages) /\ FramingExact /\ Len(buf) <= Len(got) /\ BufferTypes
  BY Zenon DEF CueMessage, ListenInv, CueTypeOK, StreamInv, BufferTypes
<1>2. /\ heard' = Append(heard, Head(msgs)) /\ msgs' = Tail(msgs)
      /\ cuePc' = IF Len(msgs) > 1 THEN cuePc ELSE IF cuePc = "message" THEN "next" ELSE "loop"
      /\ framing' = framing /\ buf' = buf /\ got' = got
  BY DEF CueMessage
<1>3. /\ Head(msgs) \in Messages /\ Tail(msgs) \in Seq(Messages)
      /\ Len(Tail(msgs)) = Len(msgs) - 1 /\ Len(msgs) \in Nat \ {0}
  BY <1>1, HeadTailProperties, EmptySeq, LenProperties
<1>4. Append(heard, Head(msgs)) \in Seq(Messages)
  BY <1>1, <1>3, AppendProperties
<1>5. (heard \o msgs)' = heard \o msgs
  <2>1. Append(heard, Head(msgs)) \o Tail(msgs) = heard \o msgs
    BY <1>1, HeadMoves
  <2>2. (heard \o msgs)' = Append(heard, Head(msgs)) \o Tail(msgs)
    BY <1>2, Zenon
  <2> QED
    BY <2>1, <2>2, Zenon
<1>6. (msgs # <<>> <=> cuePc \in {"message", "last"})'
  <2>1. Tail(msgs) # <<>> <=> Len(msgs) > 1
    <3>1. Tail(msgs) = <<>> <=> Len(Tail(msgs)) = 0
      BY <1>3, EmptySeq
    <3> QED
      BY <1>3, <3>1
  <2> QED
    BY <1>1, <1>2, <2>1
<1>7. LastLine' = LastLine
  <2>1. cuePc' \in {"last", "loop", "gone"} <=> cuePc \in {"last", "loop", "gone"}
    BY <1>1, <1>2
  <2>2. Parse(framing, got)' = Parse(framing, got)
    BY <1>2
  <2> QED
    BY <1>2, <2>1, <2>2 DEF LastLine
<1>8. FramingExact'
  <2>1. PICK p : p = Parse(framing, got) /\ Parse(framing, got)' = p
    BY <1>2
  <2>2. PICK h : h = heard \o msgs /\ (heard \o msgs)' = h
    BY <1>5, Zenon
  <2>3. IF p.broken THEN StartsWith(h, p.out) ELSE h = p.out \o LastLine
    BY <1>1, <2>1, <2>2, ExactIs
  <2>4. FramingExact' = IF p.broken THEN StartsWith(h, p.out) ELSE h = p.out \o LastLine'
    BY <2>1, <2>2 DEF FramingExact, StartsWith, LastLine
  <2> QED
    BY <1>7, <2>3, <2>4, Zenon
<1>9. /\ cuePc' = "loop" => buf' = <<>>
      /\ cuePc' = "last" => buf' = <<>>
      /\ cuePc' \notin {"accept", "gone"}
  BY <1>1, <1>2 DEF ListenInv, StreamInv
<1>10. cuePc' \in {"next", "select", "message"} /\ ~Parse(framing, got)'.broken
         => buf' = Parse(framing, got)'.rest
  <2>1. cuePc' \in {"next", "select", "message"} => cuePc = "message"
    BY <1>1, <1>2
  <2> QED
    BY <1>2, <2>1 DEF ListenInv, StreamInv
<1>11. BufferTypes'
  BY <1>1, <1>2 DEF BufferTypes
<1> QED
  BY <1>1, <1>2, <1>3, <1>4, <1>6, <1>8, <1>9, <1>10, <1>11 DEF StreamInv

LEMMA ClientEndsStep ==
  ASSUME ListenInv, ClientEnds
  PROVE  StreamInv' /\ BufferTypes' /\ (msgs # <<>> <=> cuePc \in {"message", "last"})'
<1>1. PICK rest : rest = IF framing = "newline" THEN Trimmed(buf) ELSE <<>>
  OBVIOUS
<1>2. /\ cuePc \in {"next", "select"} /\ msgs' = rest /\ buf' = <<>>
      /\ cuePc' = IF rest = <<>> THEN "loop" ELSE "last"
      /\ framing' = framing /\ got' = got /\ heard' = heard
  BY <1>1 DEF ClientEnds
<1>3. /\ buf \in Seq(Bytes) /\ got \in Seq(Bytes) /\ Len(got) \in Nat /\ Len(got) <= MaxStream
      /\ msgs = <<>> /\ heard \in Seq(Messages) /\ FramingExact
  BY <1>2, LenProperties DEF ListenInv, CueTypeOK, StreamInv
<1>4. rest \in Seq(Messages)
  BY <1>1, <1>3, TrimmedType, EmptySeq
<1>5. /\ <<>> \in Seq(Bytes) /\ Len(<<>>) = 0 /\ Len(buf') <= Len(got')
  BY <1>2, <1>3, EmptySeq
<1>6. BufferTypes'
  <2>1. buf' \in Seq(Bytes) /\ Len(buf') <= MaxStream
    BY <1>2, <1>5, ListenerAssumption
  <2>2. got' \in Seq(Bytes) /\ Len(got') <= MaxStream
    BY <1>2, <1>3
  <2> QED
    BY <2>1, <2>2 DEF BufferTypes
<1>7. PICK p : p = Parse(framing, got) /\ Parse(framing, got)' = p
  BY <1>2
<1>8. heard \o msgs = heard
  BY <1>3, ConcatEmptySeq
<1>9. (heard \o msgs)' = heard \o rest
  BY <1>2, Zenon
<1>10. LastLine' = IF framing = "newline" THEN Trimmed(p.rest) ELSE <<>>
  BY <1>2, <1>7 DEF LastLine
<1>11. FramingExact' = IF p.broken THEN StartsWith(heard \o rest, p.out)
                       ELSE heard \o rest = p.out \o LastLine'
  BY <1>7, <1>9 DEF FramingExact, StartsWith, LastLine
<1>12. CASE p.broken
  <2>1. StartsWith(heard \o msgs, p.out)
    BY <1>3, <1>7, <1>12, ExactIs
  <2>2. StartsWith(heard, p.out)
    BY <1>8, <2>1, Zenon
  <2>3. p.out \in Seq(Messages)
    BY <1>3, <1>7, ParseType
  <2>4. StartsWith(heard \o rest, p.out)
    BY <1>3, <1>4, <2>2, <2>3, StartsWithMore
  <2>5. FramingExact'
    BY <1>11, <1>12, <2>4, Zenon
  <2> QED
    BY <1>2, <1>3, <1>4, <1>5, <1>6, <2>5 DEF StreamInv
<1>13. CASE ~p.broken
  <2>1. heard \o msgs = p.out \o LastLine /\ buf = p.rest
    BY <1>2, <1>3, <1>7, <1>13, ExactIs DEF ListenInv, StreamInv
  <2>2. LastLine = <<>>
    BY <1>2 DEF LastLine
  <2>3. p.out \o LastLine = p.out
    <3>1. p.out \in Seq(Messages)
      BY <1>3, <1>7, ParseType
    <3> QED
      BY <2>2, <3>1, ConcatEmptySeq
  <2>4. heard = p.out
    BY <1>8, <2>1, <2>3, Zenon
  <2>5. LastLine' = rest
    BY <1>1, <1>10, <2>1, Zenon
  <2>6. FramingExact'
    BY <1>11, <1>13, <2>4, <2>5, Zenon
  <2> QED
    BY <1>2, <1>3, <1>4, <1>5, <1>6, <2>6 DEF StreamInv
<1> QED
  BY <1>12, <1>13

LEMMA ListenStep == ListenInv /\ [CueNext]_<<cueVars, metaVars, vars>> => ListenInv'
<1> SUFFICES ASSUME ListenInv, [CueNext]_<<cueVars, metaVars, vars>> PROVE ListenInv'
  OBVIOUS
<1>1. SettingsTypes' /\ CueTypeOK /\ StreamInv /\ BufferTypes
  BY CueTypeIs, SettingsTypesStep DEF ListenInv
<1>2. SUFFICES StreamInv' /\ BufferTypes' /\ (msgs # <<>> <=> cuePc \in {"message", "last"})'
  BY <1>1, CueTypeIs DEF ListenInv
<1> DEFINE Goal == StreamInv' /\ BufferTypes' /\ (msgs # <<>> <=> cuePc \in {"message", "last"})'
<1>3. ASSUME UNCHANGED <<framing, clientVars>>,
             \/ cuePc' = cuePc
             \/ cuePc = "loop" /\ cuePc' = "gone"
             \/ cuePc = "accept" /\ cuePc' \in {"loop", "next"}
             \/ cuePc = "next" /\ cuePc' = "select"
      PROVE  Goal
  <2>1. BufferTypes'
    BY <1>1, <1>3 DEF BufferTypes, clientVars
  <2> QED
    BY <1>1, <1>3, <2>1, ClientKept
<1> HIDE DEF Goal
<1>4. ASSUME NEW set \in CueSettings, CueSettingsSaved(set) PROVE Goal
  BY <1>3, <1>4 DEF CueSettingsSaved
<1>5. ASSUME CueLeaves PROVE Goal
  BY <1>3, <1>5 DEF CueLeaves
<1>6. ASSUME CueOff PROVE Goal
  BY <1>3, <1>6 DEF CueOff
<1>7. ASSUME CueListens PROVE Goal
  <2>1. /\ cuePc = "loop" /\ cuePc' = "accept" /\ got' = <<>> /\ heard' = <<>>
        /\ buf' = buf /\ msgs' = msgs
    BY <1>7 DEF CueListens
  <2>2. buf = <<>> /\ msgs = <<>>
    BY <1>1, <2>1 DEF StreamInv, CueTypeOK
  <2>3. BufferTypes'
    BY <1>1, <2>1, <2>2, EmptySeq DEF BufferTypes
  <2>4. Parse(framing, got)' = [out |-> <<>>, rest |-> <<>>, broken |-> FALSE]
    BY <2>1, ParseEmpty
  <2>5. FramingExact'
    <3>1. LastLine' = <<>>
      BY <2>1 DEF LastLine
    <3>2. FramingExact' = ((heard \o msgs)' = <<>> \o LastLine')
      <4>1. PICK p : p = Parse(framing, got)' /\ p.broken = FALSE /\ p.out = <<>>
        BY <2>4
      <4>2. FramingExact' = IF p.broken THEN StartsWith((heard \o msgs)', p.out)
                            ELSE (heard \o msgs)' = p.out \o LastLine'
        BY <4>1 DEF FramingExact, StartsWith, LastLine
      <4> QED
        BY <4>1, <4>2, Zenon
    <3>3. (heard \o msgs)' = <<>> \o <<>>
      BY <2>1, <2>2, Zenon
    <3> QED
      BY <3>1, <3>2, <3>3, Zenon
  <2>6. msgs' \in Seq(Messages) /\ heard' \in Seq(Messages) /\ Len(buf') <= Len(got')
    BY <2>1, <2>2, EmptySeq
  <2> QED
    BY <2>1, <2>2, <2>3, <2>5, <2>6 DEF StreamInv, Goal
<1>8. ASSUME CueBindFails PROVE Goal
  BY <1>3, <1>8 DEF CueBindFails
<1>9. ASSUME NoClient PROVE Goal
  BY <1>3, <1>9 DEF NoClient
<1>10. ASSUME CueAccepts PROVE Goal
  BY <1>3, <1>10 DEF CueAccepts
<1>11. ASSUME WaitForBytes PROVE Goal
  BY <1>3, <1>11 DEF WaitForBytes
<1>12. ASSUME CueMessage PROVE Goal
  BY <1>12, CueMessageStep DEF Goal
<1>13. ASSUME ClientEnds PROVE Goal
  BY <1>13, ClientEndsStep DEF Goal
<1>14. ASSUME NEW n \in 1..MaxChunk, NEW chunk \in [1..n -> Bytes], CueReceives(chunk) PROVE Goal
  BY <1>14, CueReceivesStep DEF Goal
<1>15. ASSUME UNCHANGED <<framing, buf, msgs, got, heard, cuePc>> PROVE Goal
  <2>1. UNCHANGED <<framing, clientVars>> /\ cuePc' = cuePc
    BY <1>15 DEF clientVars
  <2> QED
    BY <1>3, <2>1
<1>16. Goal
  <2>1. CASE FileSteps
    BY <1>4, <1>15, <2>1 DEF FileSteps, cueVars, clientVars
  <2>2. CASE CueLoop
    BY <1>5, <1>6, <1>7, <1>8, <1>9, <1>10, <2>2 DEF CueLoop
  <2>3. CASE Client
    BY <1>11, <1>12, <1>13, <1>14, <2>3 DEF Client
  <2>4. CASE UNCHANGED <<cueVars, metaVars, vars>>
    BY <1>15, <2>4 DEF cueVars, clientVars
  <2> QED
    BY <2>1, <2>2, <2>3, <2>4 DEF CueNext
<1> QED
  BY <1>16 DEF Goal

LEMMA ListenInitially == CueInit => ListenInv
<1> SUFFICES ASSUME CueInit PROVE ListenInv
  OBVIOUS
<1>1. /\ buf = <<>> /\ got = <<>> /\ msgs = <<>> /\ heard = <<>> /\ framing = "newline"
      /\ cuePc = "loop"
  BY DEF CueInit
<1>2. CueTypeOK
  <2>1. SettingsTypes
    <3>1. 0 \in 0..MaxClients /\ 0 \in Nat
      BY ListenerAssumption
    <3> QED
      BY <3>1 DEF CueInit, SettingsTypes, Framings
  <2>2. BufferTypes
    BY <1>1, EmptySeq, ListenerAssumption DEF BufferTypes
  <2> QED
    BY <1>1, <2>1, <2>2, CueTypeIs
<1>3. Parse(framing, got) = [out |-> <<>>, rest |-> <<>>, broken |-> FALSE]
  BY <1>1, ParseEmpty
<1>4. FramingExact
  <2>1. LastLine = <<>>
    BY <1>3, NothingTrimmed DEF LastLine
  <2>2. FramingExact = (heard \o msgs = <<>> \o LastLine)
    <3>1. PICK p : p = Parse(framing, got) /\ p.broken = FALSE /\ p.out = <<>>
      BY <1>3
    <3>2. FramingExact = IF p.broken THEN StartsWith(heard \o msgs, p.out)
                         ELSE heard \o msgs = p.out \o LastLine
      BY <3>1, ExactIs
    <3> QED
      BY <3>1, <3>2, Zenon
  <2> QED
    BY <1>1, <2>1, <2>2, Zenon
<1>5. msgs \in Seq(Messages) /\ heard \in Seq(Messages) /\ Len(buf) <= Len(got)
  BY <1>1, EmptySeq
<1> QED
  BY <1>1, <1>2, <1>4, <1>5 DEF ListenInv, StreamInv

LEMMA ListenInvariant == CueSpec => []ListenInv
<1> QED
  BY ListenInitially, ListenStep, PTL DEF CueSpec

(* FramingExact: the messages the cue thread processes are those of the     *)
(* whole stream, however recv has cut it.  The buffer is always what        *)
(* cutting everything read so far leaves (StreamInv), and cutting a part    *)
(* and then its rest with what follows is cutting the whole                 *)
(* (ParseExtended), for both framings and any sizes.                        *)
THEOREM FramingIsExact == CueSpec => []FramingExact
<1>1. ListenInv => FramingExact
  BY DEF ListenInv, StreamInv
<1> QED
  BY <1>1, ListenInvariant, PTL

-----------------------------------------------------------------------------
(* HlsServer.                                                               *)

(* A start makes a thread only when none is left; a worker that is gone has *)
(* none.                                                                    *)
SpawnInv ==
  /\ closerPc["command"] = "spawn" => serverPc = "none"
  /\ ~Up => serverPc = "none"

(* Whoever closes the socket has cleared the flag, and waits for the thread *)
(* with the flag cleared; only a start after SIGTERM sets it meanwhile.     *)
FlagInv ==
  /\ closerPc["command"] \in {"read", "close", "join"} => ~httpRunning
  /\ closerPc["main"] \in {"read", "close", "join", "last"} => ~httpRunning \/ lateStart
  /\ DeafExplained

(* A client answered without the flag was the last: the thread is about to  *)
(* look at the flag, or past it.                                            *)
AnswerInv ==
  /\ answers \in {0, 1}
  /\ answers = 1 /\ Up => ~httpRunning /\ serverPc \in {"test", "close", "clear", "ended"}

(* The open client connection is the one being served. *)
ClientInv ==
  /\ \A f \in Fds : fdTable[f] = WebClient => serverPc = "recv" /\ f = cfd
  /\ serverPc = "recv" => sfd # cfd

(* The thread's numbers that do not refer to what it thinks. *)
SocketLost == serverPc \in {"bind", "publish", "test", "select", "accept", "recv", "close"}
                /\ fdTable[sfd] # Listener(owner)

ClientLost == serverPc = "recv" /\ fdTable[cfd] # WebClient

Lost == (IF SocketLost THEN 1 ELSE 0) + (IF ClientLost THEN 1 ELSE 0)

(* As long as no other thread has closed what was not its own, each stop    *)
(* has either taken a descriptor from another thread or one from the server *)
(* thread, whose close of that number may take one from another thread.     *)
ForeignInv ==
  /\ foreign <= shutdowns
  /\ ~disturbed => foreign + Lost <= shutdowns

HlsInv == HlsTypeOK /\ SpawnInv /\ OneServerSocket /\ FlagInv /\ AnswerInv /\ ClientInv /\ ForeignInv

(* The four kinds of things a descriptor can refer to are different. *)
LEMMA Kinds ==
  /\ \A x \in Things : x \in Theirs \/ x = Closed \/ x = WebClient \/ \E g \in Starts : x = Listener(g)
  /\ \A x \in Theirs : x.kind = "other"
  /\ Closed.kind = "closed" /\ WebClient.kind = "client"
  /\ \A g : Listener(g).kind = "server"
  /\ \A o \in Others : Thing(o) \in Theirs
  /\ Closed # WebClient /\ Closed \notin Theirs /\ WebClient \notin Theirs
  /\ \A g : Listener(g) # Closed /\ Listener(g) # WebClient /\ Listener(g) \notin Theirs
<1>1. /\ \A x \in Theirs : x.kind = "other"
      /\ Closed.kind = "closed" /\ WebClient.kind = "client"
      /\ \A g : Listener(g).kind = "server"
  BY DEF Theirs, Thing, Closed, WebClient, Listener
<1>2. \A o \in Others : Thing(o) \in Theirs
  BY DEF Theirs
<1> QED
  BY <1>1, <1>2 DEF Things

LEMMA TableStep ==
  ASSUME HlsTypeOK, [HlsNext]_hlsVars
  PROVE  TableOK'
<1> USE ServerAssumption DEF HlsTypeOK, TableOK, StartOK, ServerOK, CloserOK, Things, Theirs,
     Starts, NoFd
<1> USE DEF tableVars, otherVars, childVars, serverVars, cellVars, portVars, startVars, closerVars
<1>1. ASSUME NEW o \in Others, OtherOpens(o) PROVE TableOK'
  BY <1>1 DEF OtherOpens, Lowest
<1>2. ASSUME NEW o \in Others, OtherCloses(o) PROVE TableOK'
  BY <1>2 DEF OtherCloses
<1>3. ASSUME NEW c \in Outputs, OutputStarts(c) PROVE TableOK'
  BY <1>3 DEF OutputStarts, Forks, Begins
<1>4. ASSUME NEW c \in Outputs, OutputEnds(c) PROVE TableOK'
  BY <1>4 DEF OutputEnds, Gone
<1>5. ASSUME HlsDies PROVE TableOK'
  BY <1>5 DEF HlsDies, Gone
<1>6. ASSUME PollHls PROVE TableOK'
  BY <1>6 DEF PollHls
<1>7. ASSUME NEW t \in Closers, Up, ClearsFlag(t) PROVE TableOK'
  BY <1>7 DEF ClearsFlag, At
<1>8. ASSUME NEW t \in Closers, Up, ReadsSocket(t) PROVE TableOK'
  BY <1>8 DEF ReadsSocket, At
<1>9. ASSUME NEW t \in Closers, Up, ClosesSocket(t) PROVE TableOK'
  BY <1>9 DEF ClosesSocket, Close, At
<1>10. ASSUME NEW p \in BOOLEAN, Up, StartForks(p) PROVE TableOK'
  BY <1>10 DEF StartForks, Forks, Begins, At
<1>11. ASSUME Up, StartTests PROVE TableOK'
  BY <1>11 DEF StartTests, At
<1>12. ASSUME Up, StopTests PROVE TableOK'
  BY <1>12 DEF StopTests, Begins, At
<1>13. ASSUME Up, CommandJoins PROVE TableOK'
  BY <1>13 DEF CommandJoins, Joins, At
<1>14. ASSUME Up, StartSpawns PROVE TableOK'
  BY <1>14 DEF StartSpawns, At
<1>15. ASSUME Up, StartEnds PROVE TableOK'
  BY <1>15 DEF StartEnds, At
<1>16. ASSUME Up, StopEnds PROVE TableOK'
  BY <1>16 DEF StopEnds, Gone, At
<1>17. ASSUME MainKills PROVE TableOK'
  BY <1>17 DEF MainKills, Gone, At
<1>18. ASSUME MainTests PROVE TableOK'
  BY <1>18 DEF MainTests, At
<1>19. ASSUME MainJoins PROVE TableOK'
  BY <1>19 DEF MainJoins, Joins, At
<1>20. ASSUME MainExits PROVE TableOK'
  BY <1>20 DEF MainExits, Exit, At
<1>21. ASSUME JoinedTwice PROVE TableOK'
  BY <1>21 DEF JoinedTwice, Exit, At
<1>22. ASSUME NoSocket PROVE TableOK'
  BY <1>22 DEF NoSocket, ServerGoes
<1>23. ASSUME OpensSocket PROVE TableOK'
  BY <1>23 DEF OpensSocket, Lowest, ServerGoes
<1>24. ASSUME BindsAndListens PROVE TableOK'
  BY <1>24 DEF BindsAndListens, ServerGoes
<1>25. ASSUME BindRefused PROVE TableOK'
  BY <1>25 DEF BindRefused, Close, ServerGoes
<1>26. ASSUME GivesUp PROVE TableOK'
  BY <1>26 DEF GivesUp, ServerGoes
<1>27. ASSUME PublishesSocket PROVE TableOK'
  BY <1>27 DEF PublishesSocket, ServerGoes
<1>28. ASSUME TestsFlag PROVE TableOK'
  BY <1>28 DEF TestsFlag, ServerGoes
<1>29. ASSUME NothingReady PROVE TableOK'
  BY <1>29 DEF NothingReady, ServerGoes
<1>30. ASSUME ClientReady PROVE TableOK'
  BY <1>30 DEF ClientReady, ServerGoes
<1>31. ASSUME AcceptsClient PROVE TableOK'
  BY <1>31 DEF AcceptsClient, Lowest, ServerGoes
<1>32. ASSUME AcceptFails PROVE TableOK'
  BY <1>32 DEF AcceptFails, ServerGoes
<1>33. ASSUME AnswersClient PROVE TableOK'
  BY <1>33 DEF AnswersClient, Close, ServerGoes
<1>34. ASSUME ServerCloses PROVE TableOK'
  BY <1>34 DEF ServerCloses, Close, ServerGoes
<1>35. ASSUME ClearsSocket PROVE TableOK'
  BY <1>35 DEF ClearsSocket, ServerGoes
<1>36. CASE UNCHANGED hlsVars
  BY <1>36 DEF hlsVars
<1> QED
  BY <1>1, <1>2, <1>3, <1>4, <1>5, <1>6, <1>7, <1>8, <1>9, <1>10, <1>11, <1>12, <1>13, <1>14,
       <1>15, <1>16, <1>17, <1>18, <1>19, <1>20, <1>21, <1>22, <1>23, <1>24, <1>25, <1>26, <1>27,
       <1>28, <1>29, <1>30, <1>31, <1>32, <1>33, <1>34, <1>35, <1>36
  DEF HlsNext, Environment, Shutdown, Command, MainExit, Server

LEMMA ChildStep ==
  ASSUME HlsTypeOK, [HlsNext]_hlsVars
  PROVE  ChildOK'
<1> USE ServerAssumption DEF HlsTypeOK, ChildOK, Ffmpegs, StartOK, ServerOK, OpenSockets,
     PortHolders
<1> USE DEF tableVars, otherVars, childVars, serverVars, cellVars, portVars, startVars, closerVars
<1>1. ASSUME NEW o \in Others, OtherOpens(o) PROVE ChildOK'
  BY <1>1 DEF OtherOpens, Lowest
<1>2. ASSUME NEW o \in Others, OtherCloses(o) PROVE ChildOK'
  BY <1>2 DEF OtherCloses
<1>3. ASSUME NEW c \in Outputs, OutputStarts(c) PROVE ChildOK'
  BY <1>3 DEF OutputStarts, Forks, Begins
<1>4. ASSUME NEW c \in Outputs, OutputEnds(c) PROVE ChildOK'
  BY <1>4 DEF OutputEnds, Gone
<1>5. ASSUME HlsDies PROVE ChildOK'
  BY <1>5 DEF HlsDies, Gone
<1>6. ASSUME PollHls PROVE ChildOK'
  BY <1>6 DEF PollHls
<1>7. ASSUME NEW t \in Closers, Up, ClearsFlag(t) PROVE ChildOK'
  BY <1>7 DEF ClearsFlag, At
<1>8. ASSUME NEW t \in Closers, Up, ReadsSocket(t) PROVE ChildOK'
  BY <1>8 DEF ReadsSocket, At
<1>9. ASSUME NEW t \in Closers, Up, ClosesSocket(t) PROVE ChildOK'
  BY <1>9 DEF ClosesSocket, Close, At
<1>10. ASSUME NEW p \in BOOLEAN, Up, StartForks(p) PROVE ChildOK'
  BY <1>10 DEF StartForks, Forks, Begins, At
<1>11. ASSUME Up, StartTests PROVE ChildOK'
  BY <1>11 DEF StartTests, At
<1>12. ASSUME Up, StopTests PROVE ChildOK'
  BY <1>12 DEF StopTests, Begins, At
<1>13. ASSUME Up, CommandJoins PROVE ChildOK'
  BY <1>13 DEF CommandJoins, Joins, At
<1>14. ASSUME Up, StartSpawns PROVE ChildOK'
  BY <1>14 DEF StartSpawns, At
<1>15. ASSUME Up, StartEnds PROVE ChildOK'
  BY <1>15 DEF StartEnds, At
<1>16. ASSUME Up, StopEnds PROVE ChildOK'
  BY <1>16 DEF StopEnds, Gone, At
<1>17. ASSUME MainKills PROVE ChildOK'
  BY <1>17 DEF MainKills, Gone, At
<1>18. ASSUME MainTests PROVE ChildOK'
  BY <1>18 DEF MainTests, At
<1>19. ASSUME MainJoins PROVE ChildOK'
  BY <1>19 DEF MainJoins, Joins, At
<1>20. ASSUME MainExits PROVE ChildOK'
  BY <1>20 DEF MainExits, Exit, At
<1>21. ASSUME JoinedTwice PROVE ChildOK'
  BY <1>21 DEF JoinedTwice, Exit, At
<1>22. ASSUME NoSocket PROVE ChildOK'
  BY <1>22 DEF NoSocket, ServerGoes
<1>23. ASSUME OpensSocket PROVE ChildOK'
  BY <1>23 DEF OpensSocket, Lowest, ServerGoes
<1>24. ASSUME BindsAndListens PROVE ChildOK'
  BY <1>24 DEF BindsAndListens, ServerGoes
<1>25. ASSUME BindRefused PROVE ChildOK'
  BY <1>25 DEF BindRefused, Close, ServerGoes
<1>26. ASSUME GivesUp PROVE ChildOK'
  BY <1>26 DEF GivesUp, ServerGoes
<1>27. ASSUME PublishesSocket PROVE ChildOK'
  BY <1>27 DEF PublishesSocket, ServerGoes
<1>28. ASSUME TestsFlag PROVE ChildOK'
  BY <1>28 DEF TestsFlag, ServerGoes
<1>29. ASSUME NothingReady PROVE ChildOK'
  BY <1>29 DEF NothingReady, ServerGoes
<1>30. ASSUME ClientReady PROVE ChildOK'
  BY <1>30 DEF ClientReady, ServerGoes
<1>31. ASSUME AcceptsClient PROVE ChildOK'
  BY <1>31 DEF AcceptsClient, Lowest, ServerGoes
<1>32. ASSUME AcceptFails PROVE ChildOK'
  BY <1>32 DEF AcceptFails, ServerGoes
<1>33. ASSUME AnswersClient PROVE ChildOK'
  BY <1>33 DEF AnswersClient, Close, ServerGoes
<1>34. ASSUME ServerCloses PROVE ChildOK'
  BY <1>34 DEF ServerCloses, Close, ServerGoes
<1>35. ASSUME ClearsSocket PROVE ChildOK'
  BY <1>35 DEF ClearsSocket, ServerGoes
<1>36. CASE UNCHANGED hlsVars
  BY <1>36 DEF hlsVars
<1> QED
  BY <1>1, <1>2, <1>3, <1>4, <1>5, <1>6, <1>7, <1>8, <1>9, <1>10, <1>11, <1>12, <1>13, <1>14,
       <1>15, <1>16, <1>17, <1>18, <1>19, <1>20, <1>21, <1>22, <1>23, <1>24, <1>25, <1>26, <1>27,
       <1>28, <1>29, <1>30, <1>31, <1>32, <1>33, <1>34, <1>35, <1>36
  DEF HlsNext, Environment, Shutdown, Command, MainExit, Server

LEMMA StartStep ==
  ASSUME HlsTypeOK, [HlsNext]_hlsVars
  PROVE  StartOK'
<1> USE ServerAssumption DEF HlsTypeOK, StartOK, CloserOK, Closers, CommandPlaces, MainPlaces,
     Starts
<1> USE DEF tableVars, otherVars, childVars, serverVars, cellVars, portVars, startVars, closerVars
<1>1. ASSUME NEW o \in Others, OtherOpens(o) PROVE StartOK'
  BY <1>1 DEF OtherOpens, Lowest
<1>2. ASSUME NEW o \in Others, OtherCloses(o) PROVE StartOK'
  BY <1>2 DEF OtherCloses
<1>3. ASSUME NEW c \in Outputs, OutputStarts(c) PROVE StartOK'
  BY <1>3 DEF OutputStarts, Forks, Begins
<1>4. ASSUME NEW c \in Outputs, OutputEnds(c) PROVE StartOK'
  BY <1>4 DEF OutputEnds, Gone
<1>5. ASSUME HlsDies PROVE StartOK'
  BY <1>5 DEF HlsDies, Gone
<1>6. ASSUME PollHls PROVE StartOK'
  BY <1>6 DEF PollHls
<1>7. ASSUME NEW t \in Closers, Up, ClearsFlag(t) PROVE StartOK'
  BY <1>7 DEF ClearsFlag, At
<1>8. ASSUME NEW t \in Closers, Up, ReadsSocket(t) PROVE StartOK'
  BY <1>8 DEF ReadsSocket, At
<1>9. ASSUME NEW t \in Closers, Up, ClosesSocket(t) PROVE StartOK'
  BY <1>9 DEF ClosesSocket, Close, At
<1>10. ASSUME NEW p \in BOOLEAN, Up, StartForks(p) PROVE StartOK'
  BY <1>10 DEF StartForks, Forks, Begins, At
<1>11. ASSUME Up, StartTests PROVE StartOK'
  BY <1>11 DEF StartTests, At
<1>12. ASSUME Up, StopTests PROVE StartOK'
  BY <1>12 DEF StopTests, Begins, At
<1>13. ASSUME Up, CommandJoins PROVE StartOK'
  BY <1>13 DEF CommandJoins, Joins, At
<1>14. ASSUME Up, StartSpawns PROVE StartOK'
  BY <1>14 DEF StartSpawns, At
<1>15. ASSUME Up, StartEnds PROVE StartOK'
  BY <1>15 DEF StartEnds, At
<1>16. ASSUME Up, StopEnds PROVE StartOK'
  BY <1>16 DEF StopEnds, Gone, At
<1>17. ASSUME MainKills PROVE StartOK'
  BY <1>17 DEF MainKills, Gone, At
<1>18. ASSUME MainTests PROVE StartOK'
  BY <1>18 DEF MainTests, At
<1>19. ASSUME MainJoins PROVE StartOK'
  BY <1>19 DEF MainJoins, Joins, At
<1>20. ASSUME MainExits PROVE StartOK'
  BY <1>20 DEF MainExits, Exit, At
<1>21. ASSUME JoinedTwice PROVE StartOK'
  BY <1>21 DEF JoinedTwice, Exit, At
<1>22. ASSUME NoSocket PROVE StartOK'
  BY <1>22 DEF NoSocket, ServerGoes
<1>23. ASSUME OpensSocket PROVE StartOK'
  BY <1>23 DEF OpensSocket, Lowest, ServerGoes
<1>24. ASSUME BindsAndListens PROVE StartOK'
  BY <1>24 DEF BindsAndListens, ServerGoes
<1>25. ASSUME BindRefused PROVE StartOK'
  BY <1>25 DEF BindRefused, Close, ServerGoes
<1>26. ASSUME GivesUp PROVE StartOK'
  BY <1>26 DEF GivesUp, ServerGoes
<1>27. ASSUME PublishesSocket PROVE StartOK'
  BY <1>27 DEF PublishesSocket, ServerGoes
<1>28. ASSUME TestsFlag PROVE StartOK'
  BY <1>28 DEF TestsFlag, ServerGoes
<1>29. ASSUME NothingReady PROVE StartOK'
  BY <1>29 DEF NothingReady, ServerGoes
<1>30. ASSUME ClientReady PROVE StartOK'
  BY <1>30 DEF ClientReady, ServerGoes
<1>31. ASSUME AcceptsClient PROVE StartOK'
  BY <1>31 DEF AcceptsClient, Lowest, ServerGoes
<1>32. ASSUME AcceptFails PROVE StartOK'
  BY <1>32 DEF AcceptFails, ServerGoes
<1>33. ASSUME AnswersClient PROVE StartOK'
  BY <1>33 DEF AnswersClient, Close, ServerGoes
<1>34. ASSUME ServerCloses PROVE StartOK'
  BY <1>34 DEF ServerCloses, Close, ServerGoes
<1>35. ASSUME ClearsSocket PROVE StartOK'
  BY <1>35 DEF ClearsSocket, ServerGoes
<1>36. CASE UNCHANGED hlsVars
  BY <1>36 DEF hlsVars
<1> QED
  BY <1>1, <1>2, <1>3, <1>4, <1>5, <1>6, <1>7, <1>8, <1>9, <1>10, <1>11, <1>12, <1>13, <1>14,
       <1>15, <1>16, <1>17, <1>18, <1>19, <1>20, <1>21, <1>22, <1>23, <1>24, <1>25, <1>26, <1>27,
       <1>28, <1>29, <1>30, <1>31, <1>32, <1>33, <1>34, <1>35, <1>36
  DEF HlsNext, Environment, Shutdown, Command, MainExit, Server

LEMMA ServerStep ==
  ASSUME HlsTypeOK, [HlsNext]_hlsVars
  PROVE  ServerOK'
<1> USE ServerAssumption DEF HlsTypeOK, StartOK, ServerOK, ServerPlaces, CloserOK, Closers,
     Starts, Fds, NoFd
<1> USE DEF tableVars, otherVars, childVars, serverVars, cellVars, portVars, startVars, closerVars
<1>1. ASSUME NEW o \in Others, OtherOpens(o) PROVE ServerOK'
  BY <1>1 DEF OtherOpens, Lowest
<1>2. ASSUME NEW o \in Others, OtherCloses(o) PROVE ServerOK'
  BY <1>2 DEF OtherCloses
<1>3. ASSUME NEW c \in Outputs, OutputStarts(c) PROVE ServerOK'
  BY <1>3 DEF OutputStarts, Forks, Begins
<1>4. ASSUME NEW c \in Outputs, OutputEnds(c) PROVE ServerOK'
  BY <1>4 DEF OutputEnds, Gone
<1>5. ASSUME HlsDies PROVE ServerOK'
  BY <1>5 DEF HlsDies, Gone
<1>6. ASSUME PollHls PROVE ServerOK'
  BY <1>6 DEF PollHls
<1>7. ASSUME NEW t \in Closers, Up, ClearsFlag(t) PROVE ServerOK'
  BY <1>7 DEF ClearsFlag, At
<1>8. ASSUME NEW t \in Closers, Up, ReadsSocket(t) PROVE ServerOK'
  BY <1>8 DEF ReadsSocket, At
<1>9. ASSUME NEW t \in Closers, Up, ClosesSocket(t) PROVE ServerOK'
  BY <1>9 DEF ClosesSocket, Close, At
<1>10. ASSUME NEW p \in BOOLEAN, Up, StartForks(p) PROVE ServerOK'
  BY <1>10 DEF StartForks, Forks, Begins, At
<1>11. ASSUME Up, StartTests PROVE ServerOK'
  BY <1>11 DEF StartTests, At
<1>12. ASSUME Up, StopTests PROVE ServerOK'
  BY <1>12 DEF StopTests, Begins, At
<1>13. ASSUME Up, CommandJoins PROVE ServerOK'
  BY <1>13 DEF CommandJoins, Joins, At
<1>14. ASSUME Up, StartSpawns PROVE ServerOK'
  BY <1>14 DEF StartSpawns, At
<1>15. ASSUME Up, StartEnds PROVE ServerOK'
  BY <1>15 DEF StartEnds, At
<1>16. ASSUME Up, StopEnds PROVE ServerOK'
  BY <1>16 DEF StopEnds, Gone, At
<1>17. ASSUME MainKills PROVE ServerOK'
  BY <1>17 DEF MainKills, Gone, At
<1>18. ASSUME MainTests PROVE ServerOK'
  BY <1>18 DEF MainTests, At
<1>19. ASSUME MainJoins PROVE ServerOK'
  BY <1>19 DEF MainJoins, Joins, At
<1>20. ASSUME MainExits PROVE ServerOK'
  BY <1>20 DEF MainExits, Exit, At
<1>21. ASSUME JoinedTwice PROVE ServerOK'
  BY <1>21 DEF JoinedTwice, Exit, At
<1>22. ASSUME NoSocket PROVE ServerOK'
  BY <1>22 DEF NoSocket, ServerGoes
<1>23. ASSUME OpensSocket PROVE ServerOK'
  BY <1>23 DEF OpensSocket, Lowest, ServerGoes
<1>24. ASSUME BindsAndListens PROVE ServerOK'
  BY <1>24 DEF BindsAndListens, ServerGoes
<1>25. ASSUME BindRefused PROVE ServerOK'
  BY <1>25 DEF BindRefused, Close, ServerGoes
<1>26. ASSUME GivesUp PROVE ServerOK'
  BY <1>26 DEF GivesUp, ServerGoes
<1>27. ASSUME PublishesSocket PROVE ServerOK'
  BY <1>27 DEF PublishesSocket, ServerGoes
<1>28. ASSUME TestsFlag PROVE ServerOK'
  BY <1>28 DEF TestsFlag, ServerGoes
<1>29. ASSUME NothingReady PROVE ServerOK'
  BY <1>29 DEF NothingReady, ServerGoes
<1>30. ASSUME ClientReady PROVE ServerOK'
  BY <1>30 DEF ClientReady, ServerGoes
<1>31. ASSUME AcceptsClient PROVE ServerOK'
  BY <1>31 DEF AcceptsClient, Lowest, ServerGoes
<1>32. ASSUME AcceptFails PROVE ServerOK'
  BY <1>32 DEF AcceptFails, ServerGoes
<1>33. ASSUME AnswersClient PROVE ServerOK'
  BY <1>33 DEF AnswersClient, Close, ServerGoes
<1>34. ASSUME ServerCloses PROVE ServerOK'
  BY <1>34 DEF ServerCloses, Close, ServerGoes
<1>35. ASSUME ClearsSocket PROVE ServerOK'
  BY <1>35 DEF ClearsSocket, ServerGoes
<1>36. CASE UNCHANGED hlsVars
  BY <1>36 DEF hlsVars
<1> QED
  BY <1>1, <1>2, <1>3, <1>4, <1>5, <1>6, <1>7, <1>8, <1>9, <1>10, <1>11, <1>12, <1>13, <1>14,
       <1>15, <1>16, <1>17, <1>18, <1>19, <1>20, <1>21, <1>22, <1>23, <1>24, <1>25, <1>26, <1>27,
       <1>28, <1>29, <1>30, <1>31, <1>32, <1>33, <1>34, <1>35, <1>36
  DEF HlsNext, Environment, Shutdown, Command, MainExit, Server

LEMMA CloserStep ==
  ASSUME HlsTypeOK, [HlsNext]_hlsVars
  PROVE  CloserOK'
<1> USE ServerAssumption DEF HlsTypeOK, ServerOK, CloserOK, Closers, CommandPlaces, MainPlaces,
     Fds, NoFd
<1> USE DEF tableVars, otherVars, childVars, serverVars, cellVars, portVars, startVars, closerVars
<1>1. ASSUME NEW o \in Others, OtherOpens(o) PROVE CloserOK'
  BY <1>1 DEF OtherOpens, Lowest
<1>2. ASSUME NEW o \in Others, OtherCloses(o) PROVE CloserOK'
  BY <1>2 DEF OtherCloses
<1>3. ASSUME NEW c \in Outputs, OutputStarts(c) PROVE CloserOK'
  BY <1>3 DEF OutputStarts, Forks, Begins
<1>4. ASSUME NEW c \in Outputs, OutputEnds(c) PROVE CloserOK'
  BY <1>4 DEF OutputEnds, Gone
<1>5. ASSUME HlsDies PROVE CloserOK'
  BY <1>5 DEF HlsDies, Gone
<1>6. ASSUME PollHls PROVE CloserOK'
  BY <1>6 DEF PollHls
<1>7. ASSUME NEW t \in Closers, Up, ClearsFlag(t) PROVE CloserOK'
  BY <1>7 DEF ClearsFlag, At
<1>8. ASSUME NEW t \in Closers, Up, ReadsSocket(t) PROVE CloserOK'
  BY <1>8 DEF ReadsSocket, At
<1>9. ASSUME NEW t \in Closers, Up, ClosesSocket(t) PROVE CloserOK'
  BY <1>9 DEF ClosesSocket, Close, At
<1>10. ASSUME NEW p \in BOOLEAN, Up, StartForks(p) PROVE CloserOK'
  BY <1>10 DEF StartForks, Forks, Begins, At
<1>11. ASSUME Up, StartTests PROVE CloserOK'
  BY <1>11 DEF StartTests, At
<1>12. ASSUME Up, StopTests PROVE CloserOK'
  BY <1>12 DEF StopTests, Begins, At
<1>13. ASSUME Up, CommandJoins PROVE CloserOK'
  BY <1>13 DEF CommandJoins, Joins, At
<1>14. ASSUME Up, StartSpawns PROVE CloserOK'
  BY <1>14 DEF StartSpawns, At
<1>15. ASSUME Up, StartEnds PROVE CloserOK'
  BY <1>15 DEF StartEnds, At
<1>16. ASSUME Up, StopEnds PROVE CloserOK'
  BY <1>16 DEF StopEnds, Gone, At
<1>17. ASSUME MainKills PROVE CloserOK'
  BY <1>17 DEF MainKills, Gone, At
<1>18. ASSUME MainTests PROVE CloserOK'
  BY <1>18 DEF MainTests, At
<1>19. ASSUME MainJoins PROVE CloserOK'
  BY <1>19 DEF MainJoins, Joins, At
<1>20. ASSUME MainExits PROVE CloserOK'
  BY <1>20 DEF MainExits, Exit, At
<1>21. ASSUME JoinedTwice PROVE CloserOK'
  BY <1>21 DEF JoinedTwice, Exit, At
<1>22. ASSUME NoSocket PROVE CloserOK'
  BY <1>22 DEF NoSocket, ServerGoes
<1>23. ASSUME OpensSocket PROVE CloserOK'
  BY <1>23 DEF OpensSocket, Lowest, ServerGoes
<1>24. ASSUME BindsAndListens PROVE CloserOK'
  BY <1>24 DEF BindsAndListens, ServerGoes
<1>25. ASSUME BindRefused PROVE CloserOK'
  BY <1>25 DEF BindRefused, Close, ServerGoes
<1>26. ASSUME GivesUp PROVE CloserOK'
  BY <1>26 DEF GivesUp, ServerGoes
<1>27. ASSUME PublishesSocket PROVE CloserOK'
  BY <1>27 DEF PublishesSocket, ServerGoes
<1>28. ASSUME TestsFlag PROVE CloserOK'
  BY <1>28 DEF TestsFlag, ServerGoes
<1>29. ASSUME NothingReady PROVE CloserOK'
  BY <1>29 DEF NothingReady, ServerGoes
<1>30. ASSUME ClientReady PROVE CloserOK'
  BY <1>30 DEF ClientReady, ServerGoes
<1>31. ASSUME AcceptsClient PROVE CloserOK'
  BY <1>31 DEF AcceptsClient, Lowest, ServerGoes
<1>32. ASSUME AcceptFails PROVE CloserOK'
  BY <1>32 DEF AcceptFails, ServerGoes
<1>33. ASSUME AnswersClient PROVE CloserOK'
  BY <1>33 DEF AnswersClient, Close, ServerGoes
<1>34. ASSUME ServerCloses PROVE CloserOK'
  BY <1>34 DEF ServerCloses, Close, ServerGoes
<1>35. ASSUME ClearsSocket PROVE CloserOK'
  BY <1>35 DEF ClearsSocket, ServerGoes
<1>36. CASE UNCHANGED hlsVars
  BY <1>36 DEF hlsVars
<1> QED
  BY <1>1, <1>2, <1>3, <1>4, <1>5, <1>6, <1>7, <1>8, <1>9, <1>10, <1>11, <1>12, <1>13, <1>14,
       <1>15, <1>16, <1>17, <1>18, <1>19, <1>20, <1>21, <1>22, <1>23, <1>24, <1>25, <1>26, <1>27,
       <1>28, <1>29, <1>30, <1>31, <1>32, <1>33, <1>34, <1>35, <1>36
  DEF HlsNext, Environment, Shutdown, Command, MainExit, Server

LEMMA SpawnStep ==
  ASSUME HlsTypeOK, SpawnInv, [HlsNext]_hlsVars
  PROVE  SpawnInv'
<1> USE ServerAssumption DEF SpawnInv, Up, HlsTypeOK, CloserOK, Closers
<1> USE DEF tableVars, otherVars, childVars, serverVars, cellVars, portVars, startVars, closerVars
<1>1. ASSUME NEW o \in Others, OtherOpens(o) PROVE SpawnInv'
  BY <1>1 DEF OtherOpens, Lowest
<1>2. ASSUME NEW o \in Others, OtherCloses(o) PROVE SpawnInv'
  BY <1>2 DEF OtherCloses
<1>3. ASSUME NEW c \in Outputs, OutputStarts(c) PROVE SpawnInv'
  BY <1>3 DEF OutputStarts, Forks, Begins
<1>4. ASSUME NEW c \in Outputs, OutputEnds(c) PROVE SpawnInv'
  BY <1>4 DEF OutputEnds, Gone
<1>5. ASSUME HlsDies PROVE SpawnInv'
  BY <1>5 DEF HlsDies, Gone
<1>6. ASSUME PollHls PROVE SpawnInv'
  BY <1>6 DEF PollHls
<1>7. ASSUME NEW t \in Closers, Up, ClearsFlag(t) PROVE SpawnInv'
  BY <1>7 DEF ClearsFlag, At
<1>8. ASSUME NEW t \in Closers, Up, ReadsSocket(t) PROVE SpawnInv'
  BY <1>8 DEF ReadsSocket, At
<1>9. ASSUME NEW t \in Closers, Up, ClosesSocket(t) PROVE SpawnInv'
  BY <1>9 DEF ClosesSocket, Close, At
<1>10. ASSUME NEW p \in BOOLEAN, Up, StartForks(p) PROVE SpawnInv'
  BY <1>10 DEF StartForks, Forks, Begins, At
<1>11. ASSUME Up, StartTests PROVE SpawnInv'
  BY <1>11 DEF StartTests, At
<1>12. ASSUME Up, StopTests PROVE SpawnInv'
  BY <1>12 DEF StopTests, Begins, At
<1>13. ASSUME Up, CommandJoins PROVE SpawnInv'
  BY <1>13 DEF CommandJoins, Joins, At
<1>14. ASSUME Up, StartSpawns PROVE SpawnInv'
  BY <1>14 DEF StartSpawns, At
<1>15. ASSUME Up, StartEnds PROVE SpawnInv'
  BY <1>15 DEF StartEnds, At
<1>16. ASSUME Up, StopEnds PROVE SpawnInv'
  BY <1>16 DEF StopEnds, Gone, At
<1>17. ASSUME MainKills PROVE SpawnInv'
  BY <1>17 DEF MainKills, Gone, At
<1>18. ASSUME MainTests PROVE SpawnInv'
  BY <1>18 DEF MainTests, At
<1>19. ASSUME MainJoins PROVE SpawnInv'
  BY <1>19 DEF MainJoins, Joins, At
<1>20. ASSUME MainExits PROVE SpawnInv'
  BY <1>20 DEF MainExits, Exit, At
<1>21. ASSUME JoinedTwice PROVE SpawnInv'
  BY <1>21 DEF JoinedTwice, Exit, At
<1>22. ASSUME NoSocket PROVE SpawnInv'
  BY <1>22 DEF NoSocket, ServerGoes
<1>23. ASSUME OpensSocket PROVE SpawnInv'
  BY <1>23 DEF OpensSocket, Lowest, ServerGoes
<1>24. ASSUME BindsAndListens PROVE SpawnInv'
  BY <1>24 DEF BindsAndListens, ServerGoes
<1>25. ASSUME BindRefused PROVE SpawnInv'
  BY <1>25 DEF BindRefused, Close, ServerGoes
<1>26. ASSUME GivesUp PROVE SpawnInv'
  BY <1>26 DEF GivesUp, ServerGoes
<1>27. ASSUME PublishesSocket PROVE SpawnInv'
  BY <1>27 DEF PublishesSocket, ServerGoes
<1>28. ASSUME TestsFlag PROVE SpawnInv'
  BY <1>28 DEF TestsFlag, ServerGoes
<1>29. ASSUME NothingReady PROVE SpawnInv'
  BY <1>29 DEF NothingReady, ServerGoes
<1>30. ASSUME ClientReady PROVE SpawnInv'
  BY <1>30 DEF ClientReady, ServerGoes
<1>31. ASSUME AcceptsClient PROVE SpawnInv'
  BY <1>31 DEF AcceptsClient, Lowest, ServerGoes
<1>32. ASSUME AcceptFails PROVE SpawnInv'
  BY <1>32 DEF AcceptFails, ServerGoes
<1>33. ASSUME AnswersClient PROVE SpawnInv'
  BY <1>33 DEF AnswersClient, Close, ServerGoes
<1>34. ASSUME ServerCloses PROVE SpawnInv'
  BY <1>34 DEF ServerCloses, Close, ServerGoes
<1>35. ASSUME ClearsSocket PROVE SpawnInv'
  BY <1>35 DEF ClearsSocket, ServerGoes
<1>36. CASE UNCHANGED hlsVars
  BY <1>36 DEF hlsVars
<1> QED
  BY <1>1, <1>2, <1>3, <1>4, <1>5, <1>6, <1>7, <1>8, <1>9, <1>10, <1>11, <1>12, <1>13, <1>14,
       <1>15, <1>16, <1>17, <1>18, <1>19, <1>20, <1>21, <1>22, <1>23, <1>24, <1>25, <1>26, <1>27,
       <1>28, <1>29, <1>30, <1>31, <1>32, <1>33, <1>34, <1>35, <1>36
  DEF HlsNext, Environment, Shutdown, Command, MainExit, Server

LEMMA SocketStep ==
  ASSUME HlsTypeOK, SpawnInv, OneServerSocket, [HlsNext]_hlsVars
  PROVE  OneServerSocket'
<1> USE ServerAssumption DEF SpawnInv, OneServerSocket, HlsTypeOK, TableOK, ServerOK, CloserOK,
     Closers, ServerPlaces
<1> USE DEF tableVars, otherVars, childVars, serverVars, cellVars, portVars, startVars, closerVars
<1>1. ASSUME NEW o \in Others, OtherOpens(o) PROVE OneServerSocket'
  BY <1>1, Kinds DEF OtherOpens, Lowest
<1>2. ASSUME NEW o \in Others, OtherCloses(o) PROVE OneServerSocket'
  BY <1>2, Kinds DEF OtherCloses
<1>3. ASSUME NEW c \in Outputs, OutputStarts(c) PROVE OneServerSocket'
  BY <1>3 DEF OutputStarts, Forks, Begins
<1>4. ASSUME NEW c \in Outputs, OutputEnds(c) PROVE OneServerSocket'
  BY <1>4 DEF OutputEnds, Gone
<1>5. ASSUME HlsDies PROVE OneServerSocket'
  BY <1>5 DEF HlsDies, Gone
<1>6. ASSUME PollHls PROVE OneServerSocket'
  BY <1>6 DEF PollHls
<1>7. ASSUME NEW t \in Closers, Up, ClearsFlag(t) PROVE OneServerSocket'
  BY <1>7 DEF ClearsFlag, At
<1>8. ASSUME NEW t \in Closers, Up, ReadsSocket(t) PROVE OneServerSocket'
  BY <1>8 DEF ReadsSocket, At
<1>9. ASSUME NEW t \in Closers, Up, ClosesSocket(t) PROVE OneServerSocket'
  BY <1>9, Kinds DEF ClosesSocket, Close, At
<1>10. ASSUME NEW p \in BOOLEAN, Up, StartForks(p) PROVE OneServerSocket'
  BY <1>10 DEF StartForks, Forks, Begins, At
<1>11. ASSUME Up, StartTests PROVE OneServerSocket'
  BY <1>11 DEF StartTests, At
<1>12. ASSUME Up, StopTests PROVE OneServerSocket'
  BY <1>12 DEF StopTests, Begins, At
<1>13. ASSUME Up, CommandJoins PROVE OneServerSocket'
  BY <1>13 DEF CommandJoins, Joins, At
<1>14. ASSUME Up, StartSpawns PROVE OneServerSocket'
  BY <1>14 DEF StartSpawns, At
<1>15. ASSUME Up, StartEnds PROVE OneServerSocket'
  BY <1>15 DEF StartEnds, At
<1>16. ASSUME Up, StopEnds PROVE OneServerSocket'
  BY <1>16 DEF StopEnds, Gone, At
<1>17. ASSUME MainKills PROVE OneServerSocket'
  BY <1>17 DEF MainKills, Gone, At
<1>18. ASSUME MainTests PROVE OneServerSocket'
  BY <1>18 DEF MainTests, At
<1>19. ASSUME MainJoins PROVE OneServerSocket'
  BY <1>19 DEF MainJoins, Joins, At
<1>20. ASSUME MainExits PROVE OneServerSocket'
  BY <1>20, Kinds DEF MainExits, Exit, At
<1>21. ASSUME JoinedTwice PROVE OneServerSocket'
  BY <1>21, Kinds DEF JoinedTwice, Exit, At
<1>22. ASSUME NoSocket PROVE OneServerSocket'
  BY <1>22 DEF NoSocket, ServerGoes
<1>23. ASSUME OpensSocket PROVE OneServerSocket'
  BY <1>23, Kinds DEF OpensSocket, Lowest, ServerGoes
<1>24. ASSUME BindsAndListens PROVE OneServerSocket'
  BY <1>24 DEF BindsAndListens, ServerGoes
<1>25. ASSUME BindRefused PROVE OneServerSocket'
  BY <1>25, Kinds DEF BindRefused, Close, ServerGoes
<1>26. ASSUME GivesUp PROVE OneServerSocket'
  BY <1>26 DEF GivesUp, ServerGoes
<1>27. ASSUME PublishesSocket PROVE OneServerSocket'
  BY <1>27 DEF PublishesSocket, ServerGoes
<1>28. ASSUME TestsFlag PROVE OneServerSocket'
  BY <1>28 DEF TestsFlag, ServerGoes
<1>29. ASSUME NothingReady PROVE OneServerSocket'
  BY <1>29 DEF NothingReady, ServerGoes
<1>30. ASSUME ClientReady PROVE OneServerSocket'
  BY <1>30 DEF ClientReady, ServerGoes
<1>31. ASSUME AcceptsClient PROVE OneServerSocket'
  BY <1>31, Kinds DEF AcceptsClient, Lowest, ServerGoes
<1>32. ASSUME AcceptFails PROVE OneServerSocket'
  BY <1>32 DEF AcceptFails, ServerGoes
<1>33. ASSUME AnswersClient PROVE OneServerSocket'
  BY <1>33, Kinds DEF AnswersClient, Close, ServerGoes
<1>34. ASSUME ServerCloses PROVE OneServerSocket'
  BY <1>34, Kinds DEF ServerCloses, Close, ServerGoes
<1>35. ASSUME ClearsSocket PROVE OneServerSocket'
  BY <1>35 DEF ClearsSocket, ServerGoes
<1>36. CASE UNCHANGED hlsVars
  BY <1>36 DEF hlsVars
<1> QED
  BY <1>1, <1>2, <1>3, <1>4, <1>5, <1>6, <1>7, <1>8, <1>9, <1>10, <1>11, <1>12, <1>13, <1>14,
       <1>15, <1>16, <1>17, <1>18, <1>19, <1>20, <1>21, <1>22, <1>23, <1>24, <1>25, <1>26, <1>27,
       <1>28, <1>29, <1>30, <1>31, <1>32, <1>33, <1>34, <1>35, <1>36
  DEF HlsNext, Environment, Shutdown, Command, MainExit, Server

LEMMA FlagStep ==
  ASSUME HlsTypeOK, SpawnInv, ClientInv, FlagInv, [HlsNext]_hlsVars
  PROVE  FlagInv'
<1> USE ServerAssumption DEF SpawnInv, ClientInv, FlagInv, DeafExplained, HlsTypeOK, TableOK,
     ServerOK, CloserOK, Closers, ServerPlaces
<1> USE DEF tableVars, otherVars, childVars, serverVars, cellVars, portVars, startVars, closerVars
<1>1. ASSUME NEW o \in Others, OtherOpens(o) PROVE FlagInv'
  BY <1>1, Kinds DEF OtherOpens, Lowest
<1>2. ASSUME NEW o \in Others, OtherCloses(o) PROVE FlagInv'
  BY <1>2, Kinds DEF OtherCloses
<1>3. ASSUME NEW c \in Outputs, OutputStarts(c) PROVE FlagInv'
  BY <1>3 DEF OutputStarts, Forks, Begins
<1>4. ASSUME NEW c \in Outputs, OutputEnds(c) PROVE FlagInv'
  BY <1>4 DEF OutputEnds, Gone
<1>5. ASSUME HlsDies PROVE FlagInv'
  BY <1>5 DEF HlsDies, Gone
<1>6. ASSUME PollHls PROVE FlagInv'
  BY <1>6 DEF PollHls
<1>7. ASSUME NEW t \in Closers, Up, ClearsFlag(t) PROVE FlagInv'
  BY <1>7 DEF ClearsFlag, At
<1>8. ASSUME NEW t \in Closers, Up, ReadsSocket(t) PROVE FlagInv'
  BY <1>8 DEF ReadsSocket, At
<1>9. ASSUME NEW t \in Closers, Up, ClosesSocket(t) PROVE FlagInv'
  BY <1>9, Kinds DEF ClosesSocket, Close, At
<1>10. ASSUME NEW p \in BOOLEAN, Up, StartForks(p) PROVE FlagInv'
  BY <1>10 DEF StartForks, Forks, Begins, At
<1>11. ASSUME Up, StartTests PROVE FlagInv'
  BY <1>11 DEF StartTests, At
<1>12. ASSUME Up, StopTests PROVE FlagInv'
  BY <1>12 DEF StopTests, Begins, At
<1>13. ASSUME Up, CommandJoins PROVE FlagInv'
  BY <1>13 DEF CommandJoins, Joins, At
<1>14. ASSUME Up, StartSpawns PROVE FlagInv'
  BY <1>14 DEF StartSpawns, At
<1>15. ASSUME Up, StartEnds PROVE FlagInv'
  BY <1>15 DEF StartEnds, At
<1>16. ASSUME Up, StopEnds PROVE FlagInv'
  BY <1>16 DEF StopEnds, Gone, At
<1>17. ASSUME MainKills PROVE FlagInv'
  BY <1>17 DEF MainKills, Gone, At
<1>18. ASSUME MainTests PROVE FlagInv'
  BY <1>18 DEF MainTests, At
<1>19. ASSUME MainJoins PROVE FlagInv'
  BY <1>19 DEF MainJoins, Joins, At
<1>20. ASSUME MainExits PROVE FlagInv'
  BY <1>20, Kinds DEF MainExits, Exit, At
<1>21. ASSUME JoinedTwice PROVE FlagInv'
  BY <1>21, Kinds DEF JoinedTwice, Exit, At
<1>22. ASSUME NoSocket PROVE FlagInv'
  BY <1>22 DEF NoSocket, ServerGoes
<1>23. ASSUME OpensSocket PROVE FlagInv'
  BY <1>23, Kinds DEF OpensSocket, Lowest, ServerGoes
<1>24. ASSUME BindsAndListens PROVE FlagInv'
  BY <1>24 DEF BindsAndListens, ServerGoes
<1>25. ASSUME BindRefused PROVE FlagInv'
  BY <1>25, Kinds DEF BindRefused, Close, ServerGoes
<1>26. ASSUME GivesUp PROVE FlagInv'
  BY <1>26 DEF GivesUp, ServerGoes
<1>27. ASSUME PublishesSocket PROVE FlagInv'
  BY <1>27 DEF PublishesSocket, ServerGoes
<1>28. ASSUME TestsFlag PROVE FlagInv'
  BY <1>28 DEF TestsFlag, ServerGoes
<1>29. ASSUME NothingReady PROVE FlagInv'
  BY <1>29 DEF NothingReady, ServerGoes
<1>30. ASSUME ClientReady PROVE FlagInv'
  BY <1>30 DEF ClientReady, ServerGoes
<1>31. ASSUME AcceptsClient PROVE FlagInv'
  BY <1>31, Kinds DEF AcceptsClient, Lowest, ServerGoes
<1>32. ASSUME AcceptFails PROVE FlagInv'
  BY <1>32 DEF AcceptFails, ServerGoes
<1>33. ASSUME AnswersClient PROVE FlagInv'
  BY <1>33, Kinds DEF AnswersClient, Close, ServerGoes
<1>34. ASSUME ServerCloses PROVE FlagInv'
  BY <1>34, Kinds DEF ServerCloses, Close, ServerGoes
<1>35. ASSUME ClearsSocket PROVE FlagInv'
  BY <1>35 DEF ClearsSocket, ServerGoes
<1>36. CASE UNCHANGED hlsVars
  BY <1>36 DEF hlsVars
<1> QED
  BY <1>1, <1>2, <1>3, <1>4, <1>5, <1>6, <1>7, <1>8, <1>9, <1>10, <1>11, <1>12, <1>13, <1>14,
       <1>15, <1>16, <1>17, <1>18, <1>19, <1>20, <1>21, <1>22, <1>23, <1>24, <1>25, <1>26, <1>27,
       <1>28, <1>29, <1>30, <1>31, <1>32, <1>33, <1>34, <1>35, <1>36
  DEF HlsNext, Environment, Shutdown, Command, MainExit, Server

LEMMA AnswerStep ==
  ASSUME HlsTypeOK, SpawnInv, AnswerInv, [HlsNext]_hlsVars
  PROVE  AnswerInv'
<1> USE ServerAssumption DEF SpawnInv, AnswerInv, Up, HlsTypeOK, ServerOK, CloserOK, Closers,
     ServerPlaces
<1> USE DEF tableVars, otherVars, childVars, serverVars, cellVars, portVars, startVars, closerVars
<1>1. ASSUME NEW o \in Others, OtherOpens(o) PROVE AnswerInv'
  BY <1>1 DEF OtherOpens, Lowest
<1>2. ASSUME NEW o \in Others, OtherCloses(o) PROVE AnswerInv'
  BY <1>2 DEF OtherCloses
<1>3. ASSUME NEW c \in Outputs, OutputStarts(c) PROVE AnswerInv'
  BY <1>3 DEF OutputStarts, Forks, Begins
<1>4. ASSUME NEW c \in Outputs, OutputEnds(c) PROVE AnswerInv'
  BY <1>4 DEF OutputEnds, Gone
<1>5. ASSUME HlsDies PROVE AnswerInv'
  BY <1>5 DEF HlsDies, Gone
<1>6. ASSUME PollHls PROVE AnswerInv'
  BY <1>6 DEF PollHls
<1>7. ASSUME NEW t \in Closers, Up, ClearsFlag(t) PROVE AnswerInv'
  BY <1>7 DEF ClearsFlag, At
<1>8. ASSUME NEW t \in Closers, Up, ReadsSocket(t) PROVE AnswerInv'
  BY <1>8 DEF ReadsSocket, At
<1>9. ASSUME NEW t \in Closers, Up, ClosesSocket(t) PROVE AnswerInv'
  BY <1>9 DEF ClosesSocket, Close, At
<1>10. ASSUME NEW p \in BOOLEAN, Up, StartForks(p) PROVE AnswerInv'
  BY <1>10 DEF StartForks, Forks, Begins, At
<1>11. ASSUME Up, StartTests PROVE AnswerInv'
  BY <1>11 DEF StartTests, At
<1>12. ASSUME Up, StopTests PROVE AnswerInv'
  BY <1>12 DEF StopTests, Begins, At
<1>13. ASSUME Up, CommandJoins PROVE AnswerInv'
  BY <1>13 DEF CommandJoins, Joins, At
<1>14. ASSUME Up, StartSpawns PROVE AnswerInv'
  BY <1>14 DEF StartSpawns, At
<1>15. ASSUME Up, StartEnds PROVE AnswerInv'
  BY <1>15 DEF StartEnds, At
<1>16. ASSUME Up, StopEnds PROVE AnswerInv'
  BY <1>16 DEF StopEnds, Gone, At
<1>17. ASSUME MainKills PROVE AnswerInv'
  BY <1>17 DEF MainKills, Gone, At
<1>18. ASSUME MainTests PROVE AnswerInv'
  BY <1>18 DEF MainTests, At
<1>19. ASSUME MainJoins PROVE AnswerInv'
  BY <1>19 DEF MainJoins, Joins, At
<1>20. ASSUME MainExits PROVE AnswerInv'
  BY <1>20 DEF MainExits, Exit, At
<1>21. ASSUME JoinedTwice PROVE AnswerInv'
  BY <1>21 DEF JoinedTwice, Exit, At
<1>22. ASSUME NoSocket PROVE AnswerInv'
  BY <1>22 DEF NoSocket, ServerGoes
<1>23. ASSUME OpensSocket PROVE AnswerInv'
  BY <1>23 DEF OpensSocket, Lowest, ServerGoes
<1>24. ASSUME BindsAndListens PROVE AnswerInv'
  BY <1>24 DEF BindsAndListens, ServerGoes
<1>25. ASSUME BindRefused PROVE AnswerInv'
  BY <1>25 DEF BindRefused, Close, ServerGoes
<1>26. ASSUME GivesUp PROVE AnswerInv'
  BY <1>26 DEF GivesUp, ServerGoes
<1>27. ASSUME PublishesSocket PROVE AnswerInv'
  BY <1>27 DEF PublishesSocket, ServerGoes
<1>28. ASSUME TestsFlag PROVE AnswerInv'
  BY <1>28 DEF TestsFlag, ServerGoes
<1>29. ASSUME NothingReady PROVE AnswerInv'
  BY <1>29 DEF NothingReady, ServerGoes
<1>30. ASSUME ClientReady PROVE AnswerInv'
  BY <1>30 DEF ClientReady, ServerGoes
<1>31. ASSUME AcceptsClient PROVE AnswerInv'
  BY <1>31 DEF AcceptsClient, Lowest, ServerGoes
<1>32. ASSUME AcceptFails PROVE AnswerInv'
  BY <1>32 DEF AcceptFails, ServerGoes
<1>33. ASSUME AnswersClient PROVE AnswerInv'
  BY <1>33 DEF AnswersClient, Close, ServerGoes
<1>34. ASSUME ServerCloses PROVE AnswerInv'
  BY <1>34 DEF ServerCloses, Close, ServerGoes
<1>35. ASSUME ClearsSocket PROVE AnswerInv'
  BY <1>35 DEF ClearsSocket, ServerGoes
<1>36. CASE UNCHANGED hlsVars
  BY <1>36 DEF hlsVars
<1> QED
  BY <1>1, <1>2, <1>3, <1>4, <1>5, <1>6, <1>7, <1>8, <1>9, <1>10, <1>11, <1>12, <1>13, <1>14,
       <1>15, <1>16, <1>17, <1>18, <1>19, <1>20, <1>21, <1>22, <1>23, <1>24, <1>25, <1>26, <1>27,
       <1>28, <1>29, <1>30, <1>31, <1>32, <1>33, <1>34, <1>35, <1>36
  DEF HlsNext, Environment, Shutdown, Command, MainExit, Server

LEMMA ClientStep ==
  ASSUME HlsTypeOK, SpawnInv, ClientInv, [HlsNext]_hlsVars
  PROVE  ClientInv'
<1> USE ServerAssumption DEF SpawnInv, ClientInv, Up, HlsTypeOK, TableOK, ServerOK, CloserOK,
     Closers, ServerPlaces
<1> USE DEF tableVars, otherVars, childVars, serverVars, cellVars, portVars, startVars, closerVars
<1>1. ASSUME NEW o \in Others, OtherOpens(o) PROVE ClientInv'
  BY <1>1, Kinds DEF OtherOpens, Lowest
<1>2. ASSUME NEW o \in Others, OtherCloses(o) PROVE ClientInv'
  BY <1>2, Kinds DEF OtherCloses
<1>3. ASSUME NEW c \in Outputs, OutputStarts(c) PROVE ClientInv'
  BY <1>3 DEF OutputStarts, Forks, Begins
<1>4. ASSUME NEW c \in Outputs, OutputEnds(c) PROVE ClientInv'
  BY <1>4 DEF OutputEnds, Gone
<1>5. ASSUME HlsDies PROVE ClientInv'
  BY <1>5 DEF HlsDies, Gone
<1>6. ASSUME PollHls PROVE ClientInv'
  BY <1>6 DEF PollHls
<1>7. ASSUME NEW t \in Closers, Up, ClearsFlag(t) PROVE ClientInv'
  BY <1>7 DEF ClearsFlag, At
<1>8. ASSUME NEW t \in Closers, Up, ReadsSocket(t) PROVE ClientInv'
  BY <1>8 DEF ReadsSocket, At
<1>9. ASSUME NEW t \in Closers, Up, ClosesSocket(t) PROVE ClientInv'
  BY <1>9, Kinds DEF ClosesSocket, Close, At
<1>10. ASSUME NEW p \in BOOLEAN, Up, StartForks(p) PROVE ClientInv'
  BY <1>10 DEF StartForks, Forks, Begins, At
<1>11. ASSUME Up, StartTests PROVE ClientInv'
  BY <1>11 DEF StartTests, At
<1>12. ASSUME Up, StopTests PROVE ClientInv'
  BY <1>12 DEF StopTests, Begins, At
<1>13. ASSUME Up, CommandJoins PROVE ClientInv'
  BY <1>13 DEF CommandJoins, Joins, At
<1>14. ASSUME Up, StartSpawns PROVE ClientInv'
  BY <1>14 DEF StartSpawns, At
<1>15. ASSUME Up, StartEnds PROVE ClientInv'
  BY <1>15 DEF StartEnds, At
<1>16. ASSUME Up, StopEnds PROVE ClientInv'
  BY <1>16 DEF StopEnds, Gone, At
<1>17. ASSUME MainKills PROVE ClientInv'
  BY <1>17 DEF MainKills, Gone, At
<1>18. ASSUME MainTests PROVE ClientInv'
  BY <1>18 DEF MainTests, At
<1>19. ASSUME MainJoins PROVE ClientInv'
  BY <1>19 DEF MainJoins, Joins, At
<1>20. ASSUME MainExits PROVE ClientInv'
  BY <1>20, Kinds DEF MainExits, Exit, At
<1>21. ASSUME JoinedTwice PROVE ClientInv'
  BY <1>21, Kinds DEF JoinedTwice, Exit, At
<1>22. ASSUME NoSocket PROVE ClientInv'
  BY <1>22 DEF NoSocket, ServerGoes
<1>23. ASSUME OpensSocket PROVE ClientInv'
  BY <1>23, Kinds DEF OpensSocket, Lowest, ServerGoes
<1>24. ASSUME BindsAndListens PROVE ClientInv'
  BY <1>24 DEF BindsAndListens, ServerGoes
<1>25. ASSUME BindRefused PROVE ClientInv'
  BY <1>25, Kinds DEF BindRefused, Close, ServerGoes
<1>26. ASSUME GivesUp PROVE ClientInv'
  BY <1>26 DEF GivesUp, ServerGoes
<1>27. ASSUME PublishesSocket PROVE ClientInv'
  BY <1>27 DEF PublishesSocket, ServerGoes
<1>28. ASSUME TestsFlag PROVE ClientInv'
  BY <1>28 DEF TestsFlag, ServerGoes
<1>29. ASSUME NothingReady PROVE ClientInv'
  BY <1>29 DEF NothingReady, ServerGoes
<1>30. ASSUME ClientReady PROVE ClientInv'
  BY <1>30 DEF ClientReady, ServerGoes
<1>31. ASSUME AcceptsClient PROVE ClientInv'
  BY <1>31, Kinds DEF AcceptsClient, Lowest, ServerGoes
<1>32. ASSUME AcceptFails PROVE ClientInv'
  BY <1>32 DEF AcceptFails, ServerGoes
<1>33. ASSUME AnswersClient PROVE ClientInv'
  BY <1>33, Kinds DEF AnswersClient, Close, ServerGoes
<1>34. ASSUME ServerCloses PROVE ClientInv'
  BY <1>34, Kinds DEF ServerCloses, Close, ServerGoes
<1>35. ASSUME ClearsSocket PROVE ClientInv'
  BY <1>35 DEF ClearsSocket, ServerGoes
<1>36. CASE UNCHANGED hlsVars
  BY <1>36 DEF hlsVars
<1> QED
  BY <1>1, <1>2, <1>3, <1>4, <1>5, <1>6, <1>7, <1>8, <1>9, <1>10, <1>11, <1>12, <1>13, <1>14,
       <1>15, <1>16, <1>17, <1>18, <1>19, <1>20, <1>21, <1>22, <1>23, <1>24, <1>25, <1>26, <1>27,
       <1>28, <1>29, <1>30, <1>31, <1>32, <1>33, <1>34, <1>35, <1>36
  DEF HlsNext, Environment, Shutdown, Command, MainExit, Server

LEMMA ForeignStep ==
  ASSUME HlsTypeOK, SpawnInv, OneServerSocket, ClientInv, ForeignInv, [HlsNext]_hlsVars
  PROVE  ForeignInv'
<1> USE ServerAssumption DEF SpawnInv, OneServerSocket, ClientInv, ForeignInv, Lost, SocketLost,
     ClientLost, HlsTypeOK, TableOK, ServerOK, CloserOK, Closers, ServerPlaces
<1> USE DEF tableVars, otherVars, childVars, serverVars, cellVars, portVars, startVars, closerVars
<1>1. ASSUME NEW o \in Others, OtherOpens(o) PROVE ForeignInv'
  BY <1>1, Kinds DEF OtherOpens, Lowest
<1>2. ASSUME NEW o \in Others, OtherCloses(o) PROVE ForeignInv'
  BY <1>2, Kinds DEF OtherCloses
<1>3. ASSUME NEW c \in Outputs, OutputStarts(c) PROVE ForeignInv'
  BY <1>3 DEF OutputStarts, Forks, Begins
<1>4. ASSUME NEW c \in Outputs, OutputEnds(c) PROVE ForeignInv'
  BY <1>4 DEF OutputEnds, Gone
<1>5. ASSUME HlsDies PROVE ForeignInv'
  BY <1>5 DEF HlsDies, Gone
<1>6. ASSUME PollHls PROVE ForeignInv'
  BY <1>6 DEF PollHls
<1>7. ASSUME NEW t \in Closers, Up, ClearsFlag(t) PROVE ForeignInv'
  BY <1>7 DEF ClearsFlag, At
<1>8. ASSUME NEW t \in Closers, Up, ReadsSocket(t) PROVE ForeignInv'
  BY <1>8 DEF ReadsSocket, At
<1>9. ASSUME NEW t \in Closers, Up, ClosesSocket(t) PROVE ForeignInv'
  BY <1>9, Kinds DEF ClosesSocket, Close, At
<1>10. ASSUME NEW p \in BOOLEAN, Up, StartForks(p) PROVE ForeignInv'
  BY <1>10 DEF StartForks, Forks, Begins, At
<1>11. ASSUME Up, StartTests PROVE ForeignInv'
  BY <1>11 DEF StartTests, At
<1>12. ASSUME Up, StopTests PROVE ForeignInv'
  BY <1>12 DEF StopTests, Begins, At
<1>13. ASSUME Up, CommandJoins PROVE ForeignInv'
  BY <1>13 DEF CommandJoins, Joins, At
<1>14. ASSUME Up, StartSpawns PROVE ForeignInv'
  BY <1>14 DEF StartSpawns, At
<1>15. ASSUME Up, StartEnds PROVE ForeignInv'
  BY <1>15 DEF StartEnds, At
<1>16. ASSUME Up, StopEnds PROVE ForeignInv'
  BY <1>16 DEF StopEnds, Gone, At
<1>17. ASSUME MainKills PROVE ForeignInv'
  BY <1>17 DEF MainKills, Gone, At
<1>18. ASSUME MainTests PROVE ForeignInv'
  BY <1>18 DEF MainTests, At
<1>19. ASSUME MainJoins PROVE ForeignInv'
  BY <1>19 DEF MainJoins, Joins, At
<1>20. ASSUME MainExits PROVE ForeignInv'
  BY <1>20, Kinds DEF MainExits, Exit, At
<1>21. ASSUME JoinedTwice PROVE ForeignInv'
  BY <1>21, Kinds DEF JoinedTwice, Exit, At
<1>22. ASSUME NoSocket PROVE ForeignInv'
  BY <1>22 DEF NoSocket, ServerGoes
<1>23. ASSUME OpensSocket PROVE ForeignInv'
  BY <1>23, Kinds DEF OpensSocket, Lowest, ServerGoes
<1>24. ASSUME BindsAndListens PROVE ForeignInv'
  BY <1>24 DEF BindsAndListens, ServerGoes
<1>25. ASSUME BindRefused PROVE ForeignInv'
  BY <1>25, Kinds DEF BindRefused, Close, ServerGoes
<1>26. ASSUME GivesUp PROVE ForeignInv'
  BY <1>26 DEF GivesUp, ServerGoes
<1>27. ASSUME PublishesSocket PROVE ForeignInv'
  BY <1>27 DEF PublishesSocket, ServerGoes
<1>28. ASSUME TestsFlag PROVE ForeignInv'
  BY <1>28 DEF TestsFlag, ServerGoes
<1>29. ASSUME NothingReady PROVE ForeignInv'
  BY <1>29 DEF NothingReady, ServerGoes
<1>30. ASSUME ClientReady PROVE ForeignInv'
  BY <1>30 DEF ClientReady, ServerGoes
<1>31. ASSUME AcceptsClient PROVE ForeignInv'
  BY <1>31, Kinds DEF AcceptsClient, Lowest, ServerGoes
<1>32. ASSUME AcceptFails PROVE ForeignInv'
  BY <1>32 DEF AcceptFails, ServerGoes
<1>33. ASSUME AnswersClient PROVE ForeignInv'
  BY <1>33, Kinds DEF AnswersClient, Close, ServerGoes
<1>34. ASSUME ServerCloses PROVE ForeignInv'
  BY <1>34, Kinds DEF ServerCloses, Close, ServerGoes
<1>35. ASSUME ClearsSocket PROVE ForeignInv'
  BY <1>35 DEF ClearsSocket, ServerGoes
<1>36. CASE UNCHANGED hlsVars
  BY <1>36 DEF hlsVars
<1> QED
  BY <1>1, <1>2, <1>3, <1>4, <1>5, <1>6, <1>7, <1>8, <1>9, <1>10, <1>11, <1>12, <1>13, <1>14,
       <1>15, <1>16, <1>17, <1>18, <1>19, <1>20, <1>21, <1>22, <1>23, <1>24, <1>25, <1>26, <1>27,
       <1>28, <1>29, <1>30, <1>31, <1>32, <1>33, <1>34, <1>35, <1>36
  DEF HlsNext, Environment, Shutdown, Command, MainExit, Server

LEMMA Initially == HlsInit => HlsInv
<1> SUFFICES ASSUME HlsInit PROVE HlsInv
  OBVIOUS
<1> USE ServerAssumption DEF HlsInit
<1>1. TableOK
  BY DEF TableOK, Things, NoFd
<1>2. ChildOK
  BY DEF ChildOK, Starts, Ffmpegs
<1>3. StartOK
  <2>1. closerPc["command"] = "idle"
    BY DEF Closers
  <2>2. start \in 0..MaxStarts /\ owner \in 0..start
    OBVIOUS
  <2> QED
    BY <2>1, <2>2 DEF StartOK
<1>4. ServerOK
  BY DEF ServerOK, ServerPlaces, NoFd
<1>5. CloserOK
  BY DEF CloserOK, Closers, CommandPlaces, MainPlaces, NoFd
<1>6. SpawnInv /\ FlagInv /\ AnswerInv
  BY DEF SpawnInv, FlagInv, AnswerInv, DeafExplained, Closers
<1>7. OneServerSocket /\ ClientInv
  BY Kinds DEF OneServerSocket, ClientInv
<1>8. ForeignInv
  BY DEF ForeignInv, Lost, SocketLost, ClientLost
<1> QED
  BY <1>1, <1>2, <1>3, <1>4, <1>5, <1>6, <1>7, <1>8 DEF HlsInv, HlsTypeOK

LEMMA Preserved == HlsInv /\ [HlsNext]_hlsVars => HlsInv'
<1> SUFFICES ASSUME HlsInv, [HlsNext]_hlsVars PROVE HlsInv'
  OBVIOUS
<1>1. HlsTypeOK'
  <2> HlsTypeOK
    BY DEF HlsInv
  <2> QED
    BY TableStep, ChildStep, StartStep, ServerStep, CloserStep DEF HlsTypeOK
<1>2. SpawnInv' /\ AnswerInv'
  BY SpawnStep, AnswerStep DEF HlsInv
<1>3. OneServerSocket' /\ ClientInv'
  BY SocketStep, ClientStep DEF HlsInv
<1>4. FlagInv' /\ ForeignInv'
  BY FlagStep, ForeignStep DEF HlsInv
<1> QED
  BY <1>1, <1>2, <1>3, <1>4 DEF HlsInv

LEMMA Invariant == HlsSpec => []HlsInv
BY Initially, Preserved, PTL DEF HlsSpec

(* The types of HlsServer, with: a place that uses a descriptor has one.    *)
THEOREM HlsTypeCorrect == HlsSpec => []HlsTypeOK
<1>1. HlsInv => HlsTypeOK
  BY DEF HlsInv, HlsTypeOK
<1> QED
  BY <1>1, Invariant, PTL

(* OneServerSocket: the thread that ends has closed its socket, and none is *)
(* started before.                                                          *)
THEOREM OneSocket == HlsSpec => []OneServerSocket
<1>1. HlsInv => OneServerSocket
  BY DEF HlsInv, OneServerSocket
<1> QED
  BY <1>1, Invariant, PTL

(* DeafExplained: who closes the number has cleared the flag.               *)
THEOREM NeverDeaf == HlsSpec => []DeafExplained
<1>1. HlsInv => DeafExplained
  BY DEF HlsInv, FlagInv
<1> QED
  BY <1>1, Invariant, PTL

(* ExitWaitsForLateStart: only a start sets the flag that ~Worker cleared.  *)
THEOREM ExitWaits == HlsSpec => []ExitWaitsForLateStart
<1>1. HlsInv => ExitWaitsForLateStart
  BY DEF HlsInv, FlagInv, ExitWaitsForLateStart
<1> QED
  BY <1>1, Invariant, PTL

(* OneMoreAnswer: the flag is looked at after every client.                 *)
THEOREM LastAnswer == HlsSpec => []OneMoreAnswer
<1>1. HlsInv => OneMoreAnswer
  BY DEF HlsInv, AnswerInv, OneMoreAnswer
<1> QED
  BY <1>1, Invariant, PTL

(* ForeignBound, from the count of the numbers that stops took from the     *)
(* server thread and that it has not closed yet.                            *)
THEOREM StolenDescriptors == HlsSpec => []ForeignBound
<1>1. HlsInv => ForeignBound
  BY DEF HlsInv, ForeignInv, ForeignBound
<1> QED
  BY <1>1, Invariant, PTL

(* DescriptorsKept: the double close never costs the server its own socket  *)
(* and others one descriptor per stop at most.                              *)
THEOREM DescriptorsCorrect == HlsSpec => []DescriptorsKept
  BY OneSocket, NeverDeaf, StolenDescriptors, PTL DEF DescriptorsKept

(* StopsWaitForOne: what stopHLS, startHLS and ~Worker wait for in join.    *)
THEOREM StopsCorrect == HlsSpec => []StopsWaitForOne
  BY LastAnswer, ExitWaits, PTL DEF StopsWaitForOne

-----------------------------------------------------------------------------
(* HLS runs with its server.                                                *)

\* The thread has come to its end.
Over == serverPc \in {"none", "ended"}

(* The flag is cleared under the thread by a stop, which joins it, so that  *)
(* neither a finished stop nor the next start finds it at work; unless      *)
(* FFmpeg died, or no command will follow.                                  *)
QuietInv ==
  /\ closerPc["main"] = "run" => ~lastCommand
  /\ closerPc["main"] = "run" /\ ~httpRunning /\ ~Over
       => closerPc["command"] \in {"read", "close", "join"}
  /\ closerPc["command"] = "kill" /\ ~lastCommand => Over
  /\ closerPc["command"] = "started" => goal = "start"
  /\ closerPc["main"] = "run" /\ (hlsRun \/ goal = "start") /\ "hls" \notin alive => died
  /\ closerPc["command"] = "idle" /\ ~lastCommand /\ ~hlsRun /\ ~Over => died

\* What the HLS FFmpeg inherits it has from the server of one that died.
HeirInv ==
  /\ inherits["hls"] # {} => died
  /\ "hls" \in refused => died

\* No number is published before the thread listens, none closed before.
UnpublishedInv ==
  /\ Up /\ serverPc \in {"none", "socket", "bind", "refused", "publish", "ended"}
       => httpSocket = NoFd
  /\ closerPc["main"] = "run" /\ closerPc["command"] = "close"
       => serverPc \notin {"none", "socket", "bind", "refused", "publish"}
  /\ closerPc["main"] = "run" /\ ~disturbed /\ serverPc = "bind" => fdTable[sfd] = Listener(owner)

\* The sockets that got the port are those of earlier servers, until the
\* thread at work gets it.
PortInv ==
  /\ \A g \in listening : g <= owner
  /\ serverPc \in {"socket", "bind"} => owner \notin listening
  /\ closerPc["command"] \in {"forked", "flag", "read", "close", "join", "spawn"} /\ goal = "start"
       => owner < start

\* A thing of another thread is open under the number that thread holds.
HoldInv == \A f \in Fds, o \in Others : fdTable[f] = Thing(o) => holds[o] = f

\* Who gave up was refused by somebody.
RefusedInv ==
  closerPc["main"] = "run" /\ ~disturbed =>
    /\ serverPc = "refused" => refused # {}
    /\ withPort /\ ~httpRunning
         /\ (closerPc["command"] = "started" \/ (closerPc["command"] = "idle" /\ hlsRun))
       => refused # {}

ServedInv == QuietInv /\ HeirInv /\ UnpublishedInv /\ PortInv /\ HoldInv /\ RefusedInv

LEMMA QuietStep ==
  ASSUME HlsTypeOK, SpawnInv, QuietInv, [HlsNext]_hlsVars
  PROVE  QuietInv'
<1> USE ServerAssumption DEF QuietInv, Over, Up, HlsTypeOK, CloserOK, ChildOK, StartOK, Closers, Ffmpegs
<1> USE DEF tableVars, otherVars, childVars, serverVars, cellVars, portVars, startVars, closerVars
<1>1. ASSUME NEW o \in Others, OtherOpens(o) PROVE QuietInv'
  BY <1>1 DEF OtherOpens, Lowest
<1>2. ASSUME NEW o \in Others, OtherCloses(o) PROVE QuietInv'
  BY <1>2 DEF OtherCloses
<1>3. ASSUME NEW c \in Outputs, OutputStarts(c) PROVE QuietInv'
  BY <1>3 DEF OutputStarts, Forks, Begins
<1>4. ASSUME NEW c \in Outputs, OutputEnds(c) PROVE QuietInv'
  BY <1>4 DEF OutputEnds, Gone
<1>5. ASSUME HlsDies PROVE QuietInv'
  BY <1>5 DEF HlsDies, Gone
<1>6. ASSUME PollHls PROVE QuietInv'
  BY <1>6 DEF PollHls
<1>7. ASSUME NEW t \in Closers, Up, ClearsFlag(t) PROVE QuietInv'
  BY <1>7 DEF ClearsFlag, At
<1>8. ASSUME NEW t \in Closers, Up, ReadsSocket(t) PROVE QuietInv'
  BY <1>8 DEF ReadsSocket, At
<1>9. ASSUME NEW t \in Closers, Up, ClosesSocket(t) PROVE QuietInv'
  BY <1>9 DEF ClosesSocket, Close, At
<1>10. ASSUME NEW p \in BOOLEAN, Up, StartForks(p) PROVE QuietInv'
  BY <1>10 DEF StartForks, Forks, Begins, At
<1>11. ASSUME Up, StartTests PROVE QuietInv'
  BY <1>11 DEF StartTests, At
<1>12. ASSUME Up, StopTests PROVE QuietInv'
  BY <1>12 DEF StopTests, Begins, At
<1>13. ASSUME Up, CommandJoins PROVE QuietInv'
  BY <1>13 DEF CommandJoins, Joins, At
<1>14. ASSUME Up, StartSpawns PROVE QuietInv'
  BY <1>14 DEF StartSpawns, At
<1>15. ASSUME Up, StartEnds PROVE QuietInv'
  BY <1>15 DEF StartEnds, At
<1>16. ASSUME Up, StopEnds PROVE QuietInv'
  BY <1>16 DEF StopEnds, Gone, At
<1>17. ASSUME MainKills PROVE QuietInv'
  BY <1>17 DEF MainKills, Gone, At
<1>18. ASSUME MainTests PROVE QuietInv'
  BY <1>18 DEF MainTests, At
<1>19. ASSUME MainJoins PROVE QuietInv'
  BY <1>19 DEF MainJoins, Joins, At
<1>20. ASSUME MainExits PROVE QuietInv'
  BY <1>20 DEF MainExits, Exit, At
<1>21. ASSUME JoinedTwice PROVE QuietInv'
  BY <1>21 DEF JoinedTwice, Exit, At
<1>22. ASSUME NoSocket PROVE QuietInv'
  BY <1>22 DEF NoSocket, ServerGoes
<1>23. ASSUME OpensSocket PROVE QuietInv'
  BY <1>23 DEF OpensSocket, Lowest, ServerGoes
<1>24. ASSUME BindsAndListens PROVE QuietInv'
  BY <1>24 DEF BindsAndListens, ServerGoes
<1>25. ASSUME BindRefused PROVE QuietInv'
  BY <1>25 DEF BindRefused, Close, ServerGoes
<1>26. ASSUME GivesUp PROVE QuietInv'
  BY <1>26 DEF GivesUp, ServerGoes
<1>27. ASSUME PublishesSocket PROVE QuietInv'
  BY <1>27 DEF PublishesSocket, ServerGoes
<1>28. ASSUME TestsFlag PROVE QuietInv'
  BY <1>28 DEF TestsFlag, ServerGoes
<1>29. ASSUME NothingReady PROVE QuietInv'
  BY <1>29 DEF NothingReady, ServerGoes
<1>30. ASSUME ClientReady PROVE QuietInv'
  BY <1>30 DEF ClientReady, ServerGoes
<1>31. ASSUME AcceptsClient PROVE QuietInv'
  BY <1>31 DEF AcceptsClient, Lowest, ServerGoes
<1>32. ASSUME AcceptFails PROVE QuietInv'
  BY <1>32 DEF AcceptFails, ServerGoes
<1>33. ASSUME AnswersClient PROVE QuietInv'
  BY <1>33 DEF AnswersClient, Close, ServerGoes
<1>34. ASSUME ServerCloses PROVE QuietInv'
  BY <1>34 DEF ServerCloses, Close, ServerGoes
<1>35. ASSUME ClearsSocket PROVE QuietInv'
  BY <1>35 DEF ClearsSocket, ServerGoes
<1>36. CASE UNCHANGED hlsVars
  BY <1>36 DEF hlsVars
<1> QED
  BY <1>1, <1>2, <1>3, <1>4, <1>5, <1>6, <1>7, <1>8, <1>9, <1>10, <1>11, <1>12, <1>13, <1>14,
       <1>15, <1>16, <1>17, <1>18, <1>19, <1>20, <1>21, <1>22, <1>23, <1>24, <1>25, <1>26, <1>27,
       <1>28, <1>29, <1>30, <1>31, <1>32, <1>33, <1>34, <1>35, <1>36
  DEF HlsNext, Environment, Shutdown, Command, MainExit, Server

LEMMA NumbersDiffer ==
  /\ \A g, h : Listener(g) = Listener(h) => g = h
  /\ \A o, p : Thing(o) = Thing(p) => o = p
<1>1. \A g : Listener(g).of = g
  BY DEF Listener
<1>2. \A o : Thing(o).of = o
  BY DEF Thing
<1>3. ASSUME NEW g, NEW h, Listener(g) = Listener(h) PROVE g = h
  <2>1. Listener(g).of = g /\ Listener(h).of = h
    BY <1>1
  <2> QED
    BY <1>3, <2>1
<1>4. ASSUME NEW o, NEW p, Thing(o) = Thing(p) PROVE o = p
  <2>1. Thing(o).of = o /\ Thing(p).of = p
    BY <1>2
  <2> QED
    BY <1>4, <2>1
<1> QED
  BY <1>3, <1>4

LEMMA SocketOpen == OneServerSocket => OpenSockets \subseteq {owner} /\ (OpenSockets # {} => ~Over)
<1> SUFFICES ASSUME OneServerSocket, NEW g \in OpenSockets PROVE g = owner /\ ~Over
  OBVIOUS
<1>1. PICK f \in Fds : fdTable[f] = Listener(g)
  BY DEF OpenSockets
<1>2. fdTable[f].kind = "server"
  BY <1>1, Kinds
<1>3. fdTable[f] = Listener(owner) /\ serverPc \notin {"none", "ended"}
  BY <1>2 DEF OneServerSocket
<1> QED
  BY <1>1, <1>3, NumbersDiffer DEF Over

LEMMA HeirStep ==
  ASSUME HlsTypeOK, OneServerSocket, QuietInv, HeirInv, [HlsNext]_hlsVars
  PROVE  HeirInv'
<1> USE ServerAssumption DEF HeirInv, QuietInv, HlsTypeOK, ChildOK, Ffmpegs, PortHolders
<1> USE DEF tableVars, otherVars, childVars, serverVars, cellVars, portVars, startVars, closerVars
<1>1. ASSUME NEW o \in Others, OtherOpens(o) PROVE HeirInv'
  BY <1>1 DEF OtherOpens, Lowest
<1>2. ASSUME NEW o \in Others, OtherCloses(o) PROVE HeirInv'
  BY <1>2 DEF OtherCloses
<1>3. ASSUME NEW c \in Outputs, OutputStarts(c) PROVE HeirInv'
  BY <1>3 DEF OutputStarts, Forks, Begins
<1>4. ASSUME NEW c \in Outputs, OutputEnds(c) PROVE HeirInv'
  BY <1>4 DEF OutputEnds, Gone
<1>5. ASSUME HlsDies PROVE HeirInv'
  BY <1>5 DEF HlsDies, Gone
<1>6. ASSUME PollHls PROVE HeirInv'
  BY <1>6 DEF PollHls
<1>7. ASSUME NEW t \in Closers, Up, ClearsFlag(t) PROVE HeirInv'
  BY <1>7 DEF ClearsFlag, At
<1>8. ASSUME NEW t \in Closers, Up, ReadsSocket(t) PROVE HeirInv'
  BY <1>8 DEF ReadsSocket, At
<1>9. ASSUME NEW t \in Closers, Up, ClosesSocket(t) PROVE HeirInv'
  BY <1>9 DEF ClosesSocket, Close, At
<1>10. ASSUME NEW p \in BOOLEAN, Up, StartForks(p) PROVE HeirInv'
  <2>1. inherits'["hls"] = OpenSockets /\ died' = died /\ refused' = refused
    BY <1>10 DEF StartForks, Forks, Begins
  <2>2. ~lastCommand /\ closerPc["command"] = "idle" /\ ~hlsRun
    BY <1>10 DEF StartForks, Begins
  <2> QED
    BY <2>1, <2>2, SocketOpen
<1>11. ASSUME Up, StartTests PROVE HeirInv'
  BY <1>11 DEF StartTests, At
<1>12. ASSUME Up, StopTests PROVE HeirInv'
  BY <1>12 DEF StopTests, Begins, At
<1>13. ASSUME Up, CommandJoins PROVE HeirInv'
  BY <1>13 DEF CommandJoins, Joins, At
<1>14. ASSUME Up, StartSpawns PROVE HeirInv'
  BY <1>14 DEF StartSpawns, At
<1>15. ASSUME Up, StartEnds PROVE HeirInv'
  BY <1>15 DEF StartEnds, At
<1>16. ASSUME Up, StopEnds PROVE HeirInv'
  BY <1>16 DEF StopEnds, Gone, At
<1>17. ASSUME MainKills PROVE HeirInv'
  BY <1>17 DEF MainKills, Gone, At
<1>18. ASSUME MainTests PROVE HeirInv'
  BY <1>18 DEF MainTests, At
<1>19. ASSUME MainJoins PROVE HeirInv'
  BY <1>19 DEF MainJoins, Joins, At
<1>20. ASSUME MainExits PROVE HeirInv'
  BY <1>20 DEF MainExits, Exit, At
<1>21. ASSUME JoinedTwice PROVE HeirInv'
  BY <1>21 DEF JoinedTwice, Exit, At
<1>22. ASSUME NoSocket PROVE HeirInv'
  BY <1>22 DEF NoSocket, ServerGoes
<1>23. ASSUME OpensSocket PROVE HeirInv'
  BY <1>23 DEF OpensSocket, Lowest, ServerGoes
<1>24. ASSUME BindsAndListens PROVE HeirInv'
  BY <1>24 DEF BindsAndListens, ServerGoes
<1>25. ASSUME BindRefused PROVE HeirInv'
  BY <1>25 DEF BindRefused, Close, ServerGoes
<1>26. ASSUME GivesUp PROVE HeirInv'
  BY <1>26 DEF GivesUp, ServerGoes
<1>27. ASSUME PublishesSocket PROVE HeirInv'
  BY <1>27 DEF PublishesSocket, ServerGoes
<1>28. ASSUME TestsFlag PROVE HeirInv'
  BY <1>28 DEF TestsFlag, ServerGoes
<1>29. ASSUME NothingReady PROVE HeirInv'
  BY <1>29 DEF NothingReady, ServerGoes
<1>30. ASSUME ClientReady PROVE HeirInv'
  BY <1>30 DEF ClientReady, ServerGoes
<1>31. ASSUME AcceptsClient PROVE HeirInv'
  BY <1>31 DEF AcceptsClient, Lowest, ServerGoes
<1>32. ASSUME AcceptFails PROVE HeirInv'
  BY <1>32 DEF AcceptFails, ServerGoes
<1>33. ASSUME AnswersClient PROVE HeirInv'
  BY <1>33 DEF AnswersClient, Close, ServerGoes
<1>34. ASSUME ServerCloses PROVE HeirInv'
  BY <1>34 DEF ServerCloses, Close, ServerGoes
<1>35. ASSUME ClearsSocket PROVE HeirInv'
  BY <1>35 DEF ClearsSocket, ServerGoes
<1>36. CASE UNCHANGED hlsVars
  BY <1>36 DEF hlsVars
<1> QED
  BY <1>1, <1>2, <1>3, <1>4, <1>5, <1>6, <1>7, <1>8, <1>9, <1>10, <1>11, <1>12, <1>13, <1>14,
       <1>15, <1>16, <1>17, <1>18, <1>19, <1>20, <1>21, <1>22, <1>23, <1>24, <1>25, <1>26, <1>27,
       <1>28, <1>29, <1>30, <1>31, <1>32, <1>33, <1>34, <1>35, <1>36
  DEF HlsNext, Environment, Shutdown, Command, MainExit, Server

LEMMA UnpublishedStep ==
  ASSUME HlsTypeOK, SpawnInv, UnpublishedInv, [HlsNext]_hlsVars
  PROVE  UnpublishedInv'
<1> USE ServerAssumption DEF UnpublishedInv, SpawnInv, Up, HlsTypeOK, TableOK, ServerOK, CloserOK, Closers, ServerPlaces, NoFd
<1> USE DEF tableVars, otherVars, childVars, serverVars, cellVars, portVars, startVars, closerVars
<1>1. ASSUME NEW o \in Others, OtherOpens(o) PROVE UnpublishedInv'
  <2>1. \A f \in Fds : fdTable[f] # Closed => fdTable'[f] = fdTable[f]
    BY <1>1 DEF OtherOpens, Lowest
  <2> QED
    BY <1>1, <2>1, Kinds DEF OtherOpens
<1>2. ASSUME NEW o \in Others, OtherCloses(o) PROVE UnpublishedInv'
  <2>1. UNCHANGED <<serverPc, sfd, owner, httpSocket, closerPc>>
    BY <1>2 DEF OtherCloses
  <2>2. ASSUME ~disturbed', serverPc = "bind", closerPc["main"] = "run"
        PROVE  fdTable'[sfd] = fdTable[sfd]
    <3>1. ~disturbed /\ fdTable[holds[o]] \in {Thing(o), Closed}
      BY <1>2, <2>2 DEF OtherCloses
    <3>2. fdTable[sfd] = Listener(owner)
      BY <2>2, <3>1
    <3>3. sfd # holds[o]
      BY <3>1, <3>2, Kinds
    <3> QED
      BY <1>2, <3>3 DEF OtherCloses
  <2> QED
    BY <1>2, <2>1, <2>2 DEF OtherCloses
<1>3. ASSUME NEW c \in Outputs, OutputStarts(c) PROVE UnpublishedInv'
  BY <1>3 DEF OutputStarts, Forks, Begins
<1>4. ASSUME NEW c \in Outputs, OutputEnds(c) PROVE UnpublishedInv'
  BY <1>4 DEF OutputEnds, Gone
<1>5. ASSUME HlsDies PROVE UnpublishedInv'
  BY <1>5 DEF HlsDies, Gone
<1>6. ASSUME PollHls PROVE UnpublishedInv'
  BY <1>6 DEF PollHls
<1>7. ASSUME NEW t \in Closers, Up, ClearsFlag(t) PROVE UnpublishedInv'
  BY <1>7 DEF ClearsFlag, At
<1>8. ASSUME NEW t \in Closers, Up, ReadsSocket(t) PROVE UnpublishedInv'
  BY <1>8 DEF ReadsSocket, At
<1>9. ASSUME NEW t \in Closers, Up, ClosesSocket(t) PROVE UnpublishedInv'
  BY <1>9 DEF ClosesSocket, Close, At
<1>10. ASSUME NEW p \in BOOLEAN, Up, StartForks(p) PROVE UnpublishedInv'
  BY <1>10 DEF StartForks, Forks, Begins, At
<1>11. ASSUME Up, StartTests PROVE UnpublishedInv'
  BY <1>11 DEF StartTests, At
<1>12. ASSUME Up, StopTests PROVE UnpublishedInv'
  BY <1>12 DEF StopTests, Begins, At
<1>13. ASSUME Up, CommandJoins PROVE UnpublishedInv'
  BY <1>13 DEF CommandJoins, Joins, At
<1>14. ASSUME Up, StartSpawns PROVE UnpublishedInv'
  BY <1>14 DEF StartSpawns, At
<1>15. ASSUME Up, StartEnds PROVE UnpublishedInv'
  BY <1>15 DEF StartEnds, At
<1>16. ASSUME Up, StopEnds PROVE UnpublishedInv'
  BY <1>16 DEF StopEnds, Gone, At
<1>17. ASSUME MainKills PROVE UnpublishedInv'
  BY <1>17 DEF MainKills, Gone, At
<1>18. ASSUME MainTests PROVE UnpublishedInv'
  BY <1>18 DEF MainTests, At
<1>19. ASSUME MainJoins PROVE UnpublishedInv'
  BY <1>19 DEF MainJoins, Joins, At
<1>20. ASSUME MainExits PROVE UnpublishedInv'
  BY <1>20 DEF MainExits, Exit, At
<1>21. ASSUME JoinedTwice PROVE UnpublishedInv'
  BY <1>21 DEF JoinedTwice, Exit, At
<1>22. ASSUME NoSocket PROVE UnpublishedInv'
  BY <1>22 DEF NoSocket, ServerGoes
<1>23. ASSUME OpensSocket PROVE UnpublishedInv'
  BY <1>23 DEF OpensSocket, Lowest, ServerGoes
<1>24. ASSUME BindsAndListens PROVE UnpublishedInv'
  BY <1>24 DEF BindsAndListens, ServerGoes
<1>25. ASSUME BindRefused PROVE UnpublishedInv'
  BY <1>25 DEF BindRefused, Close, ServerGoes
<1>26. ASSUME GivesUp PROVE UnpublishedInv'
  BY <1>26 DEF GivesUp, ServerGoes
<1>27. ASSUME PublishesSocket PROVE UnpublishedInv'
  BY <1>27 DEF PublishesSocket, ServerGoes
<1>28. ASSUME TestsFlag PROVE UnpublishedInv'
  BY <1>28 DEF TestsFlag, ServerGoes
<1>29. ASSUME NothingReady PROVE UnpublishedInv'
  BY <1>29 DEF NothingReady, ServerGoes
<1>30. ASSUME ClientReady PROVE UnpublishedInv'
  BY <1>30 DEF ClientReady, ServerGoes
<1>31. ASSUME AcceptsClient PROVE UnpublishedInv'
  BY <1>31 DEF AcceptsClient, Lowest, ServerGoes
<1>32. ASSUME AcceptFails PROVE UnpublishedInv'
  BY <1>32 DEF AcceptFails, ServerGoes
<1>33. ASSUME AnswersClient PROVE UnpublishedInv'
  BY <1>33 DEF AnswersClient, Close, ServerGoes
<1>34. ASSUME ServerCloses PROVE UnpublishedInv'
  BY <1>34 DEF ServerCloses, Close, ServerGoes
<1>35. ASSUME ClearsSocket PROVE UnpublishedInv'
  BY <1>35 DEF ClearsSocket, ServerGoes
<1>36. CASE UNCHANGED hlsVars
  BY <1>36 DEF hlsVars
<1> QED
  BY <1>1, <1>2, <1>3, <1>4, <1>5, <1>6, <1>7, <1>8, <1>9, <1>10, <1>11, <1>12, <1>13, <1>14,
       <1>15, <1>16, <1>17, <1>18, <1>19, <1>20, <1>21, <1>22, <1>23, <1>24, <1>25, <1>26, <1>27,
       <1>28, <1>29, <1>30, <1>31, <1>32, <1>33, <1>34, <1>35, <1>36
  DEF HlsNext, Environment, Shutdown, Command, MainExit, Server

LEMMA PortStep ==
  ASSUME HlsTypeOK, PortInv, [HlsNext]_hlsVars
  PROVE  PortInv'
<1> USE ServerAssumption DEF PortInv, HlsTypeOK, ChildOK, StartOK, CloserOK, Closers, Starts
<1> USE DEF tableVars, otherVars, childVars, serverVars, cellVars, portVars, startVars, closerVars
<1>1. ASSUME NEW o \in Others, OtherOpens(o) PROVE PortInv'
  BY <1>1 DEF OtherOpens, Lowest
<1>2. ASSUME NEW o \in Others, OtherCloses(o) PROVE PortInv'
  BY <1>2 DEF OtherCloses
<1>3. ASSUME NEW c \in Outputs, OutputStarts(c) PROVE PortInv'
  BY <1>3 DEF OutputStarts, Forks, Begins
<1>4. ASSUME NEW c \in Outputs, OutputEnds(c) PROVE PortInv'
  BY <1>4 DEF OutputEnds, Gone
<1>5. ASSUME HlsDies PROVE PortInv'
  BY <1>5 DEF HlsDies, Gone
<1>6. ASSUME PollHls PROVE PortInv'
  BY <1>6 DEF PollHls
<1>7. ASSUME NEW t \in Closers, Up, ClearsFlag(t) PROVE PortInv'
  BY <1>7 DEF ClearsFlag, At
<1>8. ASSUME NEW t \in Closers, Up, ReadsSocket(t) PROVE PortInv'
  BY <1>8 DEF ReadsSocket, At
<1>9. ASSUME NEW t \in Closers, Up, ClosesSocket(t) PROVE PortInv'
  BY <1>9 DEF ClosesSocket, Close, At
<1>10. ASSUME NEW p \in BOOLEAN, Up, StartForks(p) PROVE PortInv'
  BY <1>10 DEF StartForks, Forks, Begins, At
<1>11. ASSUME Up, StartTests PROVE PortInv'
  BY <1>11 DEF StartTests, At
<1>12. ASSUME Up, StopTests PROVE PortInv'
  BY <1>12 DEF StopTests, Begins, At
<1>13. ASSUME Up, CommandJoins PROVE PortInv'
  BY <1>13 DEF CommandJoins, Joins, At
<1>14. ASSUME Up, StartSpawns PROVE PortInv'
  BY <1>14 DEF StartSpawns, At
<1>15. ASSUME Up, StartEnds PROVE PortInv'
  BY <1>15 DEF StartEnds, At
<1>16. ASSUME Up, StopEnds PROVE PortInv'
  BY <1>16 DEF StopEnds, Gone, At
<1>17. ASSUME MainKills PROVE PortInv'
  BY <1>17 DEF MainKills, Gone, At
<1>18. ASSUME MainTests PROVE PortInv'
  BY <1>18 DEF MainTests, At
<1>19. ASSUME MainJoins PROVE PortInv'
  BY <1>19 DEF MainJoins, Joins, At
<1>20. ASSUME MainExits PROVE PortInv'
  BY <1>20 DEF MainExits, Exit, At
<1>21. ASSUME JoinedTwice PROVE PortInv'
  BY <1>21 DEF JoinedTwice, Exit, At
<1>22. ASSUME NoSocket PROVE PortInv'
  BY <1>22 DEF NoSocket, ServerGoes
<1>23. ASSUME OpensSocket PROVE PortInv'
  BY <1>23 DEF OpensSocket, Lowest, ServerGoes
<1>24. ASSUME BindsAndListens PROVE PortInv'
  BY <1>24 DEF BindsAndListens, ServerGoes
<1>25. ASSUME BindRefused PROVE PortInv'
  BY <1>25 DEF BindRefused, Close, ServerGoes
<1>26. ASSUME GivesUp PROVE PortInv'
  BY <1>26 DEF GivesUp, ServerGoes
<1>27. ASSUME PublishesSocket PROVE PortInv'
  BY <1>27 DEF PublishesSocket, ServerGoes
<1>28. ASSUME TestsFlag PROVE PortInv'
  BY <1>28 DEF TestsFlag, ServerGoes
<1>29. ASSUME NothingReady PROVE PortInv'
  BY <1>29 DEF NothingReady, ServerGoes
<1>30. ASSUME ClientReady PROVE PortInv'
  BY <1>30 DEF ClientReady, ServerGoes
<1>31. ASSUME AcceptsClient PROVE PortInv'
  BY <1>31 DEF AcceptsClient, Lowest, ServerGoes
<1>32. ASSUME AcceptFails PROVE PortInv'
  BY <1>32 DEF AcceptFails, ServerGoes
<1>33. ASSUME AnswersClient PROVE PortInv'
  BY <1>33 DEF AnswersClient, Close, ServerGoes
<1>34. ASSUME ServerCloses PROVE PortInv'
  BY <1>34 DEF ServerCloses, Close, ServerGoes
<1>35. ASSUME ClearsSocket PROVE PortInv'
  BY <1>35 DEF ClearsSocket, ServerGoes
<1>36. CASE UNCHANGED hlsVars
  BY <1>36 DEF hlsVars
<1> QED
  BY <1>1, <1>2, <1>3, <1>4, <1>5, <1>6, <1>7, <1>8, <1>9, <1>10, <1>11, <1>12, <1>13, <1>14,
       <1>15, <1>16, <1>17, <1>18, <1>19, <1>20, <1>21, <1>22, <1>23, <1>24, <1>25, <1>26, <1>27,
       <1>28, <1>29, <1>30, <1>31, <1>32, <1>33, <1>34, <1>35, <1>36
  DEF HlsNext, Environment, Shutdown, Command, MainExit, Server

LEMMA HoldStep ==
  ASSUME HlsTypeOK, HoldInv, [HlsNext]_hlsVars
  PROVE  HoldInv'
<1> USE ServerAssumption DEF HoldInv, HlsTypeOK, TableOK, ServerOK, CloserOK, Closers, NoFd, Fds
<1> USE DEF tableVars, otherVars, childVars, serverVars, cellVars, portVars, startVars, closerVars
<1>1. ASSUME NEW o \in Others, OtherOpens(o) PROVE HoldInv'
  <2>1. PICK f \in Fds : /\ fdTable' = [fdTable EXCEPT ![f] = Thing(o)]
                        /\ holds' = [holds EXCEPT ![o] = f] /\ holds[o] = NoFd
    BY <1>1 DEF OtherOpens
  <2>2. \A e \in Fds : fdTable[e] # Thing(o)
    BY <2>1
  <2> QED
    BY <2>1, <2>2, NumbersDiffer
<1>2. ASSUME NEW o \in Others, OtherCloses(o) PROVE HoldInv'
  <2>1. /\ fdTable' = [fdTable EXCEPT ![holds[o]] = Closed]
        /\ holds' = [holds EXCEPT ![o] = NoFd]
    BY <1>2 DEF OtherCloses
  <2> QED
    BY <2>1, Kinds
<1>3. ASSUME NEW c \in Outputs, OutputStarts(c) PROVE HoldInv'
  BY <1>3 DEF OutputStarts, Forks, Begins
<1>4. ASSUME NEW c \in Outputs, OutputEnds(c) PROVE HoldInv'
  BY <1>4 DEF OutputEnds, Gone
<1>5. ASSUME HlsDies PROVE HoldInv'
  BY <1>5 DEF HlsDies, Gone
<1>6. ASSUME PollHls PROVE HoldInv'
  BY <1>6 DEF PollHls
<1>7. ASSUME NEW t \in Closers, Up, ClearsFlag(t) PROVE HoldInv'
  BY <1>7 DEF ClearsFlag, At
<1>8. ASSUME NEW t \in Closers, Up, ReadsSocket(t) PROVE HoldInv'
  BY <1>8 DEF ReadsSocket, At
<1>9. ASSUME NEW t \in Closers, Up, ClosesSocket(t) PROVE HoldInv'
  BY <1>9, Kinds DEF ClosesSocket, Close, At
<1>10. ASSUME NEW p \in BOOLEAN, Up, StartForks(p) PROVE HoldInv'
  BY <1>10 DEF StartForks, Forks, Begins, At
<1>11. ASSUME Up, StartTests PROVE HoldInv'
  BY <1>11 DEF StartTests, At
<1>12. ASSUME Up, StopTests PROVE HoldInv'
  BY <1>12 DEF StopTests, Begins, At
<1>13. ASSUME Up, CommandJoins PROVE HoldInv'
  BY <1>13 DEF CommandJoins, Joins, At
<1>14. ASSUME Up, StartSpawns PROVE HoldInv'
  BY <1>14 DEF StartSpawns, At
<1>15. ASSUME Up, StartEnds PROVE HoldInv'
  BY <1>15 DEF StartEnds, At
<1>16. ASSUME Up, StopEnds PROVE HoldInv'
  BY <1>16 DEF StopEnds, Gone, At
<1>17. ASSUME MainKills PROVE HoldInv'
  BY <1>17 DEF MainKills, Gone, At
<1>18. ASSUME MainTests PROVE HoldInv'
  BY <1>18 DEF MainTests, At
<1>19. ASSUME MainJoins PROVE HoldInv'
  BY <1>19 DEF MainJoins, Joins, At
<1>20. ASSUME MainExits PROVE HoldInv'
  BY <1>20, Kinds DEF MainExits, Exit, At
<1>21. ASSUME JoinedTwice PROVE HoldInv'
  BY <1>21, Kinds DEF JoinedTwice, Exit, At
<1>22. ASSUME NoSocket PROVE HoldInv'
  BY <1>22 DEF NoSocket, ServerGoes
<1>23. ASSUME OpensSocket PROVE HoldInv'
  <2>1. PICK f \in Fds : fdTable' = [fdTable EXCEPT ![f] = Listener(owner)]
    BY <1>23 DEF OpensSocket
  <2> QED
    BY <1>23, <2>1, Kinds DEF OpensSocket
<1>24. ASSUME BindsAndListens PROVE HoldInv'
  BY <1>24 DEF BindsAndListens, ServerGoes
<1>25. ASSUME BindRefused PROVE HoldInv'
  BY <1>25, Kinds DEF BindRefused, Close, ServerGoes
<1>26. ASSUME GivesUp PROVE HoldInv'
  BY <1>26 DEF GivesUp, ServerGoes
<1>27. ASSUME PublishesSocket PROVE HoldInv'
  BY <1>27 DEF PublishesSocket, ServerGoes
<1>28. ASSUME TestsFlag PROVE HoldInv'
  BY <1>28 DEF TestsFlag, ServerGoes
<1>29. ASSUME NothingReady PROVE HoldInv'
  BY <1>29 DEF NothingReady, ServerGoes
<1>30. ASSUME ClientReady PROVE HoldInv'
  BY <1>30 DEF ClientReady, ServerGoes
<1>31. ASSUME AcceptsClient PROVE HoldInv'
  <2>1. PICK f \in Fds : fdTable' = [fdTable EXCEPT ![f] = WebClient]
    BY <1>31 DEF AcceptsClient
  <2> QED
    BY <1>31, <2>1, Kinds DEF AcceptsClient
<1>32. ASSUME AcceptFails PROVE HoldInv'
  BY <1>32 DEF AcceptFails, ServerGoes
<1>33. ASSUME AnswersClient PROVE HoldInv'
  BY <1>33, Kinds DEF AnswersClient, Close, ServerGoes
<1>34. ASSUME ServerCloses PROVE HoldInv'
  BY <1>34, Kinds DEF ServerCloses, Close, ServerGoes
<1>35. ASSUME ClearsSocket PROVE HoldInv'
  BY <1>35 DEF ClearsSocket, ServerGoes
<1>36. CASE UNCHANGED hlsVars
  BY <1>36 DEF hlsVars
<1> QED
  BY <1>1, <1>2, <1>3, <1>4, <1>5, <1>6, <1>7, <1>8, <1>9, <1>10, <1>11, <1>12, <1>13, <1>14,
       <1>15, <1>16, <1>17, <1>18, <1>19, <1>20, <1>21, <1>22, <1>23, <1>24, <1>25, <1>26, <1>27,
       <1>28, <1>29, <1>30, <1>31, <1>32, <1>33, <1>34, <1>35, <1>36
  DEF HlsNext, Environment, Shutdown, Command, MainExit, Server

LEMMA RefusedStep ==
  ASSUME HlsTypeOK, OneServerSocket, QuietInv, UnpublishedInv, PortInv, RefusedInv,
         serverPc = "socket" => FdsLeft, [HlsNext]_hlsVars
  PROVE  RefusedInv'
<1> USE ServerAssumption DEF RefusedInv, QuietInv, Over, HlsTypeOK, CloserOK, Closers
<1> USE DEF tableVars, otherVars, childVars, serverVars, cellVars, portVars, startVars, closerVars
<1>1. ASSUME NEW o \in Others, OtherOpens(o) PROVE RefusedInv'
  BY <1>1 DEF OtherOpens, Lowest
<1>2. ASSUME NEW o \in Others, OtherCloses(o) PROVE RefusedInv'
  BY <1>2 DEF OtherCloses
<1>3. ASSUME NEW c \in Outputs, OutputStarts(c) PROVE RefusedInv'
  BY <1>3 DEF OutputStarts, Forks, Begins
<1>4. ASSUME NEW c \in Outputs, OutputEnds(c) PROVE RefusedInv'
  BY <1>4 DEF OutputEnds, Gone
<1>5. ASSUME HlsDies PROVE RefusedInv'
  BY <1>5 DEF HlsDies, Gone
<1>6. ASSUME PollHls PROVE RefusedInv'
  BY <1>6 DEF PollHls
<1>7. ASSUME NEW t \in Closers, Up, ClearsFlag(t) PROVE RefusedInv'
  BY <1>7 DEF ClearsFlag, At
<1>8. ASSUME NEW t \in Closers, Up, ReadsSocket(t) PROVE RefusedInv'
  BY <1>8 DEF ReadsSocket, At
<1>9. ASSUME NEW t \in Closers, Up, ClosesSocket(t) PROVE RefusedInv'
  BY <1>9 DEF ClosesSocket, Close, At
<1>10. ASSUME NEW p \in BOOLEAN, Up, StartForks(p) PROVE RefusedInv'
  BY <1>10 DEF StartForks, Forks, Begins, At
<1>11. ASSUME Up, StartTests PROVE RefusedInv'
  BY <1>11 DEF StartTests, At
<1>12. ASSUME Up, StopTests PROVE RefusedInv'
  BY <1>12 DEF StopTests, Begins, At
<1>13. ASSUME Up, CommandJoins PROVE RefusedInv'
  BY <1>13 DEF CommandJoins, Joins, At
<1>14. ASSUME Up, StartSpawns PROVE RefusedInv'
  BY <1>14 DEF StartSpawns, At
<1>15. ASSUME Up, StartEnds PROVE RefusedInv'
  BY <1>15 DEF StartEnds, At
<1>16. ASSUME Up, StopEnds PROVE RefusedInv'
  BY <1>16 DEF StopEnds, Gone, At
<1>17. ASSUME MainKills PROVE RefusedInv'
  BY <1>17 DEF MainKills, Gone, At
<1>18. ASSUME MainTests PROVE RefusedInv'
  BY <1>18 DEF MainTests, At
<1>19. ASSUME MainJoins PROVE RefusedInv'
  BY <1>19 DEF MainJoins, Joins, At
<1>20. ASSUME MainExits PROVE RefusedInv'
  BY <1>20 DEF MainExits, Exit, At
<1>21. ASSUME JoinedTwice PROVE RefusedInv'
  BY <1>21 DEF JoinedTwice, Exit, At
<1>22. ASSUME NoSocket PROVE RefusedInv'
  BY <1>22 DEF NoSocket
<1>23. ASSUME OpensSocket PROVE RefusedInv'
  BY <1>23 DEF OpensSocket, Lowest, ServerGoes
<1>24. ASSUME BindsAndListens PROVE RefusedInv'
  BY <1>24 DEF BindsAndListens, ServerGoes
<1>25. ASSUME BindRefused PROVE RefusedInv'
  <2>1. /\ serverPc = "bind" /\ (PortTaken \/ fdTable[sfd] # Listener(owner))
        /\ refused' = PortHolders /\ UNCHANGED <<disturbed, closerPc>>
    BY <1>25 DEF BindRefused
  <2>2. closerPc["main"] = "run" /\ ~disturbed => PortHolders # {}
    <3>1. OpenSockets \subseteq {owner} /\ owner \notin listening
      BY <2>1, SocketOpen DEF PortInv
    <3>2. closerPc["main"] = "run" /\ ~disturbed => fdTable[sfd] = Listener(owner)
      BY <2>1 DEF UnpublishedInv
    <3> QED
      BY <2>1, <3>1, <3>2 DEF PortTaken
  <2> QED
    BY <2>1, <2>2
<1>26. ASSUME GivesUp PROVE RefusedInv'
  BY <1>26 DEF GivesUp, ServerGoes
<1>27. ASSUME PublishesSocket PROVE RefusedInv'
  BY <1>27 DEF PublishesSocket, ServerGoes
<1>28. ASSUME TestsFlag PROVE RefusedInv'
  BY <1>28 DEF TestsFlag, ServerGoes
<1>29. ASSUME NothingReady PROVE RefusedInv'
  BY <1>29 DEF NothingReady, ServerGoes
<1>30. ASSUME ClientReady PROVE RefusedInv'
  BY <1>30 DEF ClientReady, ServerGoes
<1>31. ASSUME AcceptsClient PROVE RefusedInv'
  BY <1>31 DEF AcceptsClient, Lowest, ServerGoes
<1>32. ASSUME AcceptFails PROVE RefusedInv'
  BY <1>32 DEF AcceptFails, ServerGoes
<1>33. ASSUME AnswersClient PROVE RefusedInv'
  BY <1>33 DEF AnswersClient, Close, ServerGoes
<1>34. ASSUME ServerCloses PROVE RefusedInv'
  BY <1>34 DEF ServerCloses, Close, ServerGoes
<1>35. ASSUME ClearsSocket PROVE RefusedInv'
  BY <1>35 DEF ClearsSocket, ServerGoes
<1>36. CASE UNCHANGED hlsVars
  BY <1>36 DEF hlsVars
<1> QED
  BY <1>1, <1>2, <1>3, <1>4, <1>5, <1>6, <1>7, <1>8, <1>9, <1>10, <1>11, <1>12, <1>13, <1>14,
       <1>15, <1>16, <1>17, <1>18, <1>19, <1>20, <1>21, <1>22, <1>23, <1>24, <1>25, <1>26, <1>27,
       <1>28, <1>29, <1>30, <1>31, <1>32, <1>33, <1>34, <1>35, <1>36
  DEF HlsNext, Environment, Shutdown, Command, MainExit, Server

\* At the thread's call of socket() the other threads have what is open, one
\* descriptor each.
LEMMA SocketLeft ==
  ASSUME HlsTypeOK, OneServerSocket, ClientInv, HoldInv,
         IsFiniteSet(Others), Cardinality(Others) < NumFds, serverPc = "socket"
  PROVE  FdsLeft
<1> SUFFICES ASSUME ~FdsLeft PROVE FALSE
  OBVIOUS
<1> DEFINE Held == {holds[o] : o \in Others}
<1>1. ASSUME NEW f \in Fds PROVE f \in Held
  <2>1. fdTable[f] \in Things /\ fdTable[f] # Closed
    BY DEF FdsLeft, HlsTypeOK, TableOK
  <2>2. fdTable[f] # WebClient
    BY DEF ClientInv
  <2>3. fdTable[f].kind # "server"
    BY DEF OneServerSocket
  <2>4. fdTable[f] \in Theirs
    BY <2>1, <2>2, <2>3, Kinds
  <2>5. PICK o \in Others : fdTable[f] = Thing(o)
    BY <2>4 DEF Theirs
  <2> QED
    BY <2>5 DEF HoldInv
<1>2. IsFiniteSet(Held) /\ Cardinality(Held) <= Cardinality(Others)
  <2> DEFINE g == [o \in Others |-> holds[o]]
  <2>1. g \in Surjection(Others, Held)
    BY DEF Surjection
  <2> HIDE DEF g, Held
  <2> QED
    BY <2>1, FS_Surjection
<1>3. Fds \subseteq Held
  BY <1>1
<1>4. Cardinality(Fds) <= Cardinality(Held)
  <2> HIDE DEF Held
  <2> QED
    BY <1>2, <1>3, FS_Subset
<1>5. Cardinality(Fds) = NumFds
  <2>1. NumFds \in Nat /\ Cardinality(1..NumFds) = IF 1 > NumFds THEN 0 ELSE NumFds - 1 + 1
    BY ServerAssumption, FS_Interval
  <2> QED
    BY <2>1 DEF Fds
<1>6. Cardinality(Others) \in Nat /\ Cardinality(Held) \in Nat
  <2> HIDE DEF Held
  <2> QED
    BY <1>2, FS_CardinalityType
<1> HIDE DEF Held
<1> QED
  BY <1>2, <1>4, <1>5, <1>6, ServerAssumption

(* ServedUnlessInherited, where the other threads leave one descriptor free *)
(* (without one the server's socket() fails, which is a third reason).      *)
(* A refusal always has an FFmpeg behind it, since no socket of the worker  *)
(* itself has the port (PortInv, OneServerSocket), and the HLS FFmpeg holds *)
(* one only if its predecessor died: a stop has joined the server           *)
(* (QuietInv, HeirInv).                                                     *)
THEOREM ServedOrInherited ==
  ASSUME IsFiniteSet(Others), Cardinality(Others) < NumFds
  PROVE  HlsSpec => []ServedUnlessInherited
<1> DEFINE Inv == HlsInv /\ ServedInv
<1>1. HlsInit => Inv
  <2> SUFFICES ASSUME HlsInit PROVE ServedInv
    BY Initially
  <2> USE DEF HlsInit
  <2>1. QuietInv /\ HeirInv /\ UnpublishedInv
    BY DEF QuietInv, HeirInv, UnpublishedInv, Over, Closers, Ffmpegs
  <2>2. PortInv /\ RefusedInv
    BY DEF PortInv, RefusedInv, Closers
  <2>3. HoldInv
    BY Kinds DEF HoldInv
  <2> QED
    BY <2>1, <2>2, <2>3 DEF ServedInv
<1>2. Inv /\ [HlsNext]_hlsVars => Inv'
  <2> SUFFICES ASSUME Inv, [HlsNext]_hlsVars PROVE ServedInv'
    BY Preserved
  <2> USE DEF HlsInv, ServedInv
  <2>1. QuietInv' /\ HeirInv'
    BY QuietStep, HeirStep
  <2>2. UnpublishedInv' /\ PortInv' /\ HoldInv'
    BY UnpublishedStep, PortStep, HoldStep
  <2>3. RefusedInv'
    BY RefusedStep, SocketLeft
  <2> QED
    BY <2>1, <2>2, <2>3
<1>3. Inv => ServedUnlessInherited
  BY DEF ServedInv, HeirInv, RefusedInv, ServedUnlessInherited
<1> HIDE DEF Inv
<1> QED
  BY <1>1, <1>2, <1>3, PTL DEF HlsSpec

-----------------------------------------------------------------------------
(* The composition.                                                         *)

\* While the cue thread runs nothing is kept for the metadata thread, so that
\* saving its settings again changes nothing there.
AllInv ==
  /\ ListenInv /\ AfterInv /\ OpenInv
  /\ MetaTypeOK /\ (part = "cue" => kept = {})

LEMMA StepOfGate == ListenInv /\ [AllNext]_allVars => [Next]_vars
<1> SUFFICES ASSUME ListenInv, [AllNext]_allVars PROVE [Next]_vars
  OBVIOUS
<1>1. CASE UNCHANGED allVars
  BY <1>1 DEF allVars
<1>2. CASE Next
  BY <1>2
<1>3. CASE UNCHANGED vars
  BY <1>3
<1>4. ASSUME CueMessage PROVE [Next]_vars
  <2>1. Head(msgs) \in Messages
    <3>1. msgs \in Seq(Messages) /\ msgs # <<>>
      BY <1>4, Zenon DEF CueMessage, ListenInv, CueTypeOK, StreamInv
    <3> QED
      BY <3>1, HeadTailProperties
  <2>2. PICK b : b = Head(msgs)[1] /\ b > 1 /\ b \in Bytes
    <3>1. PICK m \in Seq(Bytes) : m = Head(msgs) /\ m # <<>> /\ m[1] > 1
      BY <2>1 DEF Messages
    <3>2. 1 \in 1..Len(m)
      BY <3>1, EmptySeq, LenProperties
    <3> QED
      BY <3>1, <3>2, ElementOfSeq
  <2>3. b \in 2..Base - 1
    BY <2>2, ListenerAssumption DEF Bytes
  <2>4. PICK c \in Cues : c = CueOfByte[Head(msgs)[1]]
    BY <2>2, <2>3, ListenerAssumption
  <2>5. Gate(Head(msgs))
    BY <1>4 DEF CueMessage
  <2> QED
    BY <2>4, <2>5 DEF Gate, Next
<1>5. CASE CueNext \/ CueRest
  BY <1>3, <1>4, <1>5 DEF CueNext, CueRest, FileSteps, CueLoop, Client, CueSettingsSaved, CueLeaves,
     CueOff, CueListens, CueBindFails, NoClient, CueAccepts, WaitForBytes, ClientEnds, CueReceives
<1> QED
  BY <1>1, <1>2, <1>3, <1>5 DEF AllNext

LEMMA StepOfMeta ==
  MetaTypeOK /\ (part = "cue" => kept = {}) /\ [AllNext]_allVars
    => [MetaNext]_metaVars /\ (part = "cue" => kept = {})'
<1> DEFINE Goal == [MetaNext]_metaVars /\ (part = "cue" => kept = {})'
<1> SUFFICES ASSUME MetaTypeOK, part = "cue" => kept = {}, [AllNext]_allVars PROVE Goal
  OBVIOUS
<1>1. part' = part
  BY DEF AllNext, allVars
<1>2. CASE UNCHANGED metaVars
  <2>1. kept' = kept
    BY <1>2 DEF metaVars
  <2> QED
    BY <1>1, <1>2, <2>1
<1>3. ASSUME NEW set \in CueSettings, CueSettingsSaved(set), kept = {} PROVE Goal
  <2>1. metaFile \in Endpoints
    BY <1>3 DEF CueSettingsSaved, MetaTypeOK, SettingsOK
  <2>2. ConfigSaved(metaFile)
    BY <1>3 DEF CueSettingsSaved, ConfigSaved, threadVars, packetVars
  <2>3. kept' = {}
    BY <1>3 DEF CueSettingsSaved
  <2> QED
    BY <2>1, <2>2, <2>3 DEF MetaNext, Api
<1>4. ASSUME ApiTruncates(metaOn, metaFile), kept = {} PROVE Goal
  <2>1. metaFile \in Endpoints /\ metaOn \in BOOLEAN
    BY <1>4 DEF ApiTruncates, MetaTypeOK, SettingsOK
  <2>2. kept' = {}
    BY <1>4 DEF ApiTruncates
  <2> QED
    BY <1>4, <2>1, <2>2 DEF MetaNext, Api
<1>5. ASSUME ApiWrites \/ ApiSetsFlag \/ MetaStop, kept = {} PROVE Goal
  <2>1. kept' = {}
    BY <1>5 DEF ApiWrites, ApiSetsFlag, MetaStop
  <2> QED
    BY <1>5, <2>1 DEF MetaNext, Api
<1>6. CASE part = "cue" /\ (CueNext \/ CueRest)
  <2>1. CASE FileSteps
    BY <1>3, <1>4, <1>5, <1>6, <2>1 DEF FileSteps
  <2>2. CASE CueLoop \/ Client \/ CueRest
    <3>1. UNCHANGED metaVars
      BY <2>2 DEF CueRest, CueLoop, Client, CueLeaves, CueOff, CueListens, CueBindFails, NoClient,
         CueAccepts, WaitForBytes, CueMessage, ClientEnds, CueReceives
    <3> QED
      BY <1>2, <3>1
  <2> QED
    BY <1>6, <2>1, <2>2 DEF CueNext
<1>7. CASE part = "metadata" /\ (MetaNext \/ MetaRest)
  BY <1>1, <1>2, <1>7 DEF MetaRest
<1>8. CASE UNCHANGED allVars
  BY <1>2, <1>8 DEF allVars
<1> QED
  BY <1>2, <1>6, <1>7, <1>8 DEF AllNext

LEMMA StepOfServer == [AllNext]_allVars => [HlsNext]_hlsVars
BY DEF AllNext, HlsRest, allVars

LEMMA AllStep == AllInv /\ [AllNext]_allVars => AllInv'
<1> SUFFICES ASSUME AllInv, [AllNext]_allVars PROVE AllInv'
  OBVIOUS
<1>1. MetaTypeOK' /\ (part = "cue" => kept = {})'
  <2>1. [MetaNext]_metaVars /\ (part = "cue" => kept = {})'
    BY StepOfMeta DEF AllInv
  <2> QED
    BY <2>1, MetaTypeStep DEF AllInv
<1>2. CASE CueNext
  BY <1>1, <1>2, ListenStep, AfterStep, OpenStep DEF AllInv
<1>3. CASE UNCHANGED cueVars
  <2> USE <1>3 DEF cueVars, clientVars
  <2>1. CueTypeOK' /\ StreamInv'
    <3>1. CueTypeOK'
      BY DEF AllInv, ListenInv, CueTypeOK
    <3>2. FramingExact'
      <4>1. FramingExact
        BY DEF AllInv, ListenInv, StreamInv
      <4> QED
        BY <4>1 DEF FramingExact
    <3> QED
      BY <3>1, <3>2 DEF AllInv, ListenInv, StreamInv
  <2>2. AfterInv' /\ OpenInv'
    BY DEF AllInv, AfterInv, OpenInv, FlagNeedsSocket
  <2> QED
    BY <1>1, <2>1, <2>2 DEF AllInv, ListenInv
<1> QED
  BY <1>2, <1>3 DEF AllNext, CueRest, allVars

LEMMA AllInitially == AllInit => AllInv
<1> SUFFICES ASSUME AllInit PROVE AllInv
  OBVIOUS
<1>1. ListenInv /\ MetaTypeOK
  BY ListenInitially, MetaInitially DEF AllInit
<1>2. AfterInv
  BY DEF AllInit, CueInit, AfterInv
<1>3. OpenInv
  BY ListenerAssumption DEF AllInit, CueInit, CueSettings, OpenInv, FlagNeedsSocket
<1>4. kept = {}
  BY DEF AllInit, MetaInit
<1> QED
  BY <1>1, <1>2, <1>3, <1>4 DEF AllInv

LEMMA AllInvariant == AllSpec => []AllInv
BY AllInitially, AllStep, PTL DEF AllSpec

(* The composition does in each part only what the part's own specification *)
(* allows: the cue thread's messages are deliveries of the gate, and saving *)
(* its settings is, for the metadata thread, saving its own once more.      *)
THEOREM PartsImplemented == AllSpec => Spec /\ MetaSpec /\ HlsSpec
<1>1. AllInit => Init /\ MetaInit /\ HlsInit
  BY DEF AllInit
<1>2. AllInv /\ [AllNext]_allVars => [Next]_vars
  BY StepOfGate DEF AllInv
<1>3. AllInv /\ [AllNext]_allVars => [MetaNext]_metaVars
  BY StepOfMeta DEF AllInv
<1>4. [AllNext]_allVars => [HlsNext]_hlsVars
  BY StepOfServer
<1> QED
  BY <1>1, <1>2, <1>3, <1>4, AllInvariant, PTL DEF AllSpec, Spec, MetaSpec, HlsSpec

(* ListenerTypes: in the composition too every variable keeps its type.     *)
THEOREM AllTypes == AllSpec => []ListenerTypes
<1>1. AllInv => CueTypeOK
  BY DEF AllInv, ListenInv
<1> QED
  BY <1>1, AllInvariant, PartsImplemented, GateTypes, MetaTypeCorrect, HlsTypeCorrect, PTL
     DEF ListenerTypes

(* What holds of each part alone holds of all four together.                *)
THEOREM AllCorrect ==
  AllSpec => [](/\ TcpGateExact /\ HttpGateBounded
                /\ NothingSwallowed /\ SettingsInForce
                /\ FramingExact /\ CueSettingsInForce
                /\ DescriptorsKept /\ StopsWaitForOne)
<1>1. AllInv => FramingExact /\ CueSettingsInForce
  BY DEF AllInv, ListenInv, StreamInv, AfterInv, OpenInv, CueSettingsInForce, OneClientAfterOff
<1> QED
  BY <1>1, AllInvariant, PartsImplemented, WorkerGate, SupervisorGate, SourcesAreHeard,
     SettingsFollowed, DescriptorsCorrect, StopsCorrect, PTL
=============================================================================
