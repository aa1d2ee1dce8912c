---------------------------- MODULE DispatchQueue ----------------------------
(***************************************************************************)
(* The worker's asynchronous dispatch (worker.cpp): the metadata, control  *)
(* and cue threads enqueue outbound tasks (Icecast metadata updates, SCTE  *)
(* sidecar events) into one deque with a depth counter and a capacity per  *)
(* kind; one dispatcher thread pops and sends them; ~Worker asks it to     *)
(* stop.  Every operation writes the depth and drop counters to            *)
(* metadata_runtime.json after it has released m_dispatchMutex.            *)
(*                                                                         *)
(* A step is one critical section (m_dispatchMutex, the dedupe mutex or    *)
(* the file mutex), one notification or one network attempt.  Network      *)
(* calls have send and receive timeouts, so an attempt ends.               *)
(***************************************************************************)
EXTENDS Naturals, Sequences, FiniteSets

CONSTANTS
  MetaProducers,     \* the threads that enqueue metadata updates
  SidecarProducers,  \* the threads that emit sidecar events
  Keys,              \* idempotency keys of sidecar events
  Capacities,        \* configured queue capacities, as read at an enqueue
  Retries,           \* configured sidecar retries
  MaxOffers,         \* bound on the tasks offered
  MaxWindows         \* bound on the dedupe windows of a key

Producers == MetaProducers \cup SidecarProducers
Kinds     == {"metadata", "sidecar"}
NoKey     == "none"

ASSUME DispatchAssumption ==
  /\ MetaProducers \cap SidecarProducers = {}
  /\ Capacities \subseteq Nat
  /\ Retries \subseteq Nat /\ Retries # {}
  /\ MaxOffers \in Nat /\ MaxWindows \in Nat
  /\ NoKey \notin Keys

\* AsyncDispatchTask; key is NoKey when it was not checked; id and window are
\* history: which offer, which dedupe window of the key.
Tasks == [kind : Kinds, key : Keys \cup {NoKey}, retries : Retries \cup {0},
          id : 0..MaxOffers, window : 0..MaxWindows]

VARIABLES
  queue,      \* m_dispatchQueue
  depth,      \* m_metadataQueueDepth, m_sidecarQueueDepth
  dropped,    \* m_metadataDispatchDropped, m_sidecarDispatchDropped
  stop,       \* m_dispatchStop
  recent,     \* g_sidecarRecentIds, the keys not yet expired
  ppc, offer, queued, pread,  \* of each producer: place, task in hand, was it queued, counters read
  dpc, inHand, attempt, dread,  \* of the dispatcher: place, task in hand, attempt, counters read
  mainpc,     \* ~Worker: "run", "notify", "join", "exited"
  file,       \* the counters in metadata_runtime.json
  offers, window,    \* counters behind the bounds
  accepted, handled  \* history: tasks queued, tasks worked off

prodVars == <<ppc, offer, queued, pread>>
dispVars == <<inHand, attempt, dread>>
histVars == <<accepted, handled>>
vars == <<queue, depth, dropped, stop, recent, prodVars, dpc, dispVars, mainpc, file,
          offers, window, histVars>>

Counters == [depth |-> depth, dropped |-> dropped]
NoTask   == [kind |-> "metadata", key |-> NoKey, retries |-> 0, id |-> 0, window |-> 0]
Zero     == [k \in Kinds |-> 0]
NoRead   == [depth |-> Zero, dropped |-> Zero]  \* a local out of scope

\* The positions of the queued tasks of kind k.
OfKind(q, k) == {i \in DOMAIN q : q[i].kind = k}

Init ==
  /\ queue = <<>> /\ depth = Zero /\ dropped = Zero
  /\ stop = FALSE /\ recent = {}
  /\ ppc = [p \in Producers |-> "idle"]
  /\ offer = [p \in Producers |-> NoTask]
  /\ queued = [p \in Producers |-> FALSE]
  /\ pread = [p \in Producers |-> NoRead]
  /\ dpc = "check" /\ inHand = <<>> /\ attempt = 0 /\ dread = NoRead
  /\ mainpc = "run"
  /\ file = Counters
  /\ offers = 0 /\ window = [k \in Keys |-> 0]
  /\ accepted = <<>> /\ handled = <<>>

-----------------------------------------------------------------------------
(* Producers.                                                               *)

ProducerGoto(p, from, to) ==
  /\ ppc[p] = from
  /\ ppc' = [ppc EXCEPT ![p] = to]

\* enqueueIcecastMetadataUpdate: a metadata task is built.
OfferMetadata(p) ==
  /\ p \in MetaProducers
  /\ offers < MaxOffers
  /\ ProducerGoto(p, "idle", "enqueue")
  /\ offers' = offers + 1
  /\ offer' = [offer EXCEPT ![p] = [NoTask EXCEPT !.id = offers + 1]]
  /\ UNCHANGED <<queue, depth, dropped, stop, recent, queued, pread, dpc, dispVars, mainpc,
                 file, window, histVars>>

\* Mutant: the key is checked but not recorded.
OfferUnrecorded(p, key, r) ==
  /\ p \in SidecarProducers
  /\ offers < MaxOffers
  /\ key \notin recent
  /\ ProducerGoto(p, "idle", "enqueue")
  /\ offers' = offers + 1
  /\ offer' = [offer EXCEPT ![p] = [kind |-> "sidecar", key |-> key, retries |-> r,
                                    id |-> offers + 1, window |-> window[key]]]
  /\ UNCHANGED <<queue, depth, dropped, stop, recent, queued, pread, dpc, dispVars, mainpc,
                 file, window, histVars>>

\* emitScteSidecarEvent up to sidecarIdRecentlySent: a key seen in the current
\* window ends the event, a new one is recorded before the task is enqueued.
OfferSidecar(p, key, r) ==
  /\ p \in SidecarProducers
  /\ offers < MaxOffers
  /\ ProducerGoto(p, "idle", IF key \in recent THEN "idle" ELSE "enqueue")
  /\ offers' = offers + 1
  /\ recent' = recent \cup {key}
  /\ offer' = IF key \in recent THEN offer
              ELSE [offer EXCEPT ![p] = [kind |-> "sidecar", key |-> key, retries |-> r,
                                         id |-> offers + 1, window |-> window[key]]]
  /\ UNCHANGED <<queue, depth, dropped, stop, queued, pread, dpc, dispVars, mainpc, file,
                 window, histVars>>

\* The same with dedupeSeconds = 0: the key is neither looked up nor recorded.
OfferUnchecked(p, r) ==
  /\ p \in SidecarProducers
  /\ offers < MaxOffers
  /\ ProducerGoto(p, "idle", "enqueue")
  /\ offers' = offers + 1
  /\ offer' = [offer EXCEPT ![p] = [kind |-> "sidecar", key |-> NoKey, retries |-> r,
                                    id |-> offers + 1, window |-> 0]]
  /\ UNCHANGED <<queue, depth, dropped, stop, recent, queued, pread, dpc, dispVars, mainpc,
                 file, window, histVars>>

\* A key becomes older than the dedupe window.
Expire(key) ==
  /\ key \in recent
  /\ window[key] < MaxWindows
  /\ recent' = recent \ {key}
  /\ window' = [window EXCEPT ![key] = @ + 1]
  /\ UNCHANGED <<queue, depth, dropped, stop, prodVars, dpc, dispVars, mainpc, file, offers,
                 histVars>>

\* if (queueCapacity < 1) queueCapacity = 1;
Clamp(c) == IF c < 1 THEN 1 ELSE c

\* Mutant: both kinds share one capacity.
EnqueueShared(p, c) ==
  LET k == offer[p].kind
      room == Len(queue) < Clamp(c) IN
  /\ ProducerGoto(p, "enqueue", "read")
  /\ queued' = [queued EXCEPT ![p] = room]
  /\ offer' = [offer EXCEPT ![p] = NoTask]
  /\ queue' = IF room THEN Append(queue, offer[p]) ELSE queue
  /\ accepted' = IF room THEN Append(accepted, offer[p]) ELSE accepted
  /\ depth' = [depth EXCEPT ![k] = IF room THEN @ + 1 ELSE @]
  /\ dropped' = [dropped EXCEPT ![k] = IF room THEN @ ELSE @ + 1]
  /\ UNCHANGED <<stop, recent, pread, dpc, dispVars, mainpc, file, offers, window, handled>>

\* enqueueAsyncTask, the critical section: the task is queued or counted as dropped.
Enqueue(p, c) ==
  LET k == offer[p].kind
      room == depth[k] < Clamp(c) IN
  /\ ProducerGoto(p, "enqueue", "read")
  /\ offer' = [offer EXCEPT ![p] = NoTask]
  /\ IF room
     THEN /\ queued' = [queued EXCEPT ![p] = TRUE]
          /\ queue' = Append(queue, offer[p])
          /\ accepted' = Append(accepted, offer[p])
          /\ depth' = [depth EXCEPT ![k] = @ + 1]
          /\ UNCHANGED dropped
     ELSE /\ dropped' = [dropped EXCEPT ![k] = @ + 1]
          /\ UNCHANGED <<queued, queue, accepted, depth>>
  /\ UNCHANGED <<stop, recent, pread, dpc, dispVars, mainpc, file, offers, window, handled>>

\* updateDispatchRuntimeMetrics, first half: the counters are read under the mutex.
ProducerRead(p) ==
  /\ ProducerGoto(p, "read", "write")
  /\ pread' = [pread EXCEPT ![p] = Counters]
  /\ UNCHANGED <<queue, depth, dropped, stop, recent, offer, queued, dpc, dispVars, mainpc,
                 file, offers, window, histVars>>

\* updateDispatchRuntimeMetrics, second half: they are written to the file.
ProducerWrite(p) ==
  /\ ProducerGoto(p, "write", IF queued[p] THEN "notify" ELSE "idle")
  /\ file' = pread[p]
  /\ pread' = [pread EXCEPT ![p] = NoRead]
  /\ queued' = [queued EXCEPT ![p] = FALSE]
  /\ UNCHANGED <<queue, depth, dropped, stop, recent, offer, dpc, dispVars, mainpc, offers,
                 window, histVars>>

\* Mutant: nobody is notified.
WakeNobody == UNCHANGED dpc

\* A dispatcher that waits on m_dispatchCv evaluates its predicate again.
Wake == dpc' = IF dpc = "waiting" THEN "check" ELSE dpc

\* m_dispatchCv.notify_one().
Notify(p) ==
  /\ ProducerGoto(p, "notify", "idle")
  /\ Wake
  /\ UNCHANGED <<queue, depth, dropped, stop, recent, offer, queued, pread, dispVars, mainpc,
                 file, offers, window, histVars>>

\* After m_running is reset a producer leaves its loop.
Leave(p) ==
  /\ mainpc # "run"
  /\ ProducerGoto(p, "idle", "left")
  /\ UNCHANGED <<queue, depth, dropped, stop, recent, offer, queued, pread, dpc, dispVars,
                 mainpc, file, offers, window, histVars>>

-----------------------------------------------------------------------------
(* dispatchAsyncEvents.                                                     *)

\* The predicate of the wait is false: the mutex is released, the thread sleeps.
Sleep ==
  /\ dpc = "check" /\ ~stop /\ queue = <<>>
  /\ dpc' = "waiting"
  /\ UNCHANGED <<queue, depth, dropped, stop, recent, prodVars, dispVars, mainpc, file,
                 offers, window, histVars>>

\* A condition variable may wake without a notification.
SpuriousWake ==
  /\ dpc = "waiting"
  /\ Wake
  /\ UNCHANGED <<queue, depth, dropped, stop, recent, prodVars, dispVars, mainpc, file,
                 offers, window, histVars>>

\* Mutant: a stop is obeyed before the queue is empty.
DispatcherEndsEarly ==
  /\ dpc = "check" /\ stop
  /\ dpc' = "done"
  /\ UNCHANGED <<queue, depth, dropped, stop, recent, prodVars, dispVars, mainpc, file,
                 offers, window, histVars>>

\* Stop was requested and everything queued is worked off.
DispatcherEnds ==
  /\ dpc = "check" /\ stop /\ queue = <<>>
  /\ dpc' = "done"
  /\ UNCHANGED <<queue, depth, dropped, stop, recent, prodVars, dispVars, mainpc, file,
                 offers, window, histVars>>

\* Mutant: the newest task is taken instead of the oldest.
PopBack ==
  /\ dpc = "check" /\ queue # <<>>
  /\ dpc' = "read"
  /\ inHand' = <<queue[Len(queue)]>>
  /\ queue' = SubSeq(queue, 1, Len(queue) - 1)
  /\ depth' = [depth EXCEPT ![queue[Len(queue)].kind] = @ - 1]
  /\ UNCHANGED <<dropped, stop, recent, prodVars, attempt, dread, mainpc, file, offers, window,
                 histVars>>

\* Mutant: the depth of the wrong kind goes down.
PopWrongDepth ==
  /\ dpc = "check" /\ queue # <<>>
  /\ dpc' = "read"
  /\ inHand' = <<Head(queue)>>
  /\ queue' = Tail(queue)
  /\ depth' = [depth EXCEPT !["metadata"] = IF @ > 0 THEN @ - 1 ELSE @]
  /\ UNCHANGED <<dropped, stop, recent, prodVars, attempt, dread, mainpc, file, offers, window,
                 histVars>>

\* The front task leaves the queue and its kind's depth goes down.
Pop ==
  /\ dpc = "check" /\ queue # <<>>
  /\ dpc' = "read"
  /\ inHand' = <<Head(queue)>>
  /\ queue' = Tail(queue)
  /\ depth' = [depth EXCEPT ![Head(queue).kind] = IF @ > 0 THEN @ - 1 ELSE @]
  /\ UNCHANGED <<dropped, stop, recent, prodVars, attempt, dread, mainpc, file, offers, window,
                 histVars>>

DispatcherRead ==
  /\ dpc = "read"
  /\ dpc' = "write"
  /\ dread' = Counters
  /\ UNCHANGED <<queue, depth, dropped, stop, recent, prodVars, inHand, attempt, mainpc, file,
                 offers, window, histVars>>

DispatcherWrite ==
  /\ dpc = "write"
  /\ dpc' = "send"
  /\ file' = dread
  /\ dread' = NoRead
  /\ UNCHANGED <<queue, depth, dropped, stop, recent, prodVars, inHand, attempt, mainpc,
                 offers, window, histVars>>

\* Mutant: the finished task stays in hand.
FinishKeeps ==
  /\ dpc = "send"
  /\ dpc' = "check"
  /\ handled' = handled \o inHand
  /\ attempt' = 0
  /\ UNCHANGED <<queue, depth, dropped, stop, recent, prodVars, inHand, dread, mainpc, file,
                 offers, window, accepted>>

\* A metadata update is sent once, a sidecar event until it succeeds or its
\* retries are used up; then the task is finished.
Finish ==
  /\ dpc = "send"
  /\ dpc' = "check"
  /\ handled' = handled \o inHand
  /\ inHand' = <<>>
  /\ attempt' = 0
  /\ UNCHANGED <<queue, depth, dropped, stop, recent, prodVars, dread, mainpc, file, offers,
                 window, accepted>>

\* A sidecar POST failed and a retry is left.
Retry ==
  /\ dpc = "send"
  /\ inHand[1].kind = "sidecar"
  /\ attempt < inHand[1].retries
  /\ attempt' = attempt + 1
  /\ UNCHANGED <<queue, depth, dropped, stop, recent, prodVars, dpc, inHand, dread, mainpc,
                 file, offers, window, histVars>>

-----------------------------------------------------------------------------
(* ~Worker.                                                                 *)

\* m_running = false; m_dispatchStop = true under the mutex.
RequestStop ==
  /\ mainpc = "run"
  /\ mainpc' = "notify"
  /\ stop' = TRUE
  /\ UNCHANGED <<queue, depth, dropped, recent, prodVars, dpc, dispVars, file, offers, window,
                 histVars>>

\* m_dispatchCv.notify_all().
NotifyAll ==
  /\ mainpc = "notify"
  /\ mainpc' = "join"
  /\ Wake
  /\ UNCHANGED <<queue, depth, dropped, stop, recent, prodVars, dispVars, file, offers, window,
                 histVars>>

\* All threads joined.
Join ==
  /\ mainpc = "join"
  /\ \A p \in Producers : ppc[p] = "left"
  /\ dpc = "done"
  /\ mainpc' = "exited"
  /\ UNCHANGED <<queue, depth, dropped, stop, recent, prodVars, dpc, dispVars, file, offers,
                 window, histVars>>

Exited == mainpc = "exited" /\ UNCHANGED vars

-----------------------------------------------------------------------------
ProducerStep(p) == \/ \E c \in Capacities : Enqueue(p, c)
                   \/ ProducerRead(p) \/ ProducerWrite(p) \/ Notify(p)
Offer(p)        == \/ OfferMetadata(p)
                   \/ \E key \in Keys, r \in Retries : OfferSidecar(p, key, r)
                   \/ \E r \in Retries : OfferUnchecked(p, r)
DispatcherStep  == Sleep \/ DispatcherEnds \/ Pop \/ DispatcherRead \/ DispatcherWrite
                     \/ Finish \/ Retry
MainStep        == RequestStop \/ NotifyAll \/ Join

Next ==
  \/ \E p \in Producers : Offer(p) \/ ProducerStep(p) \/ Leave(p)
  \/ \E key \in Keys : Expire(key)
  \/ DispatcherStep
  \/ SpuriousWake
  \/ MainStep
  \/ Exited

Spec == Init /\ [][Next]_vars

(* The threads are scheduled.  Events, expiries, spurious wake-ups and the  *)
(* request to stop may or may not come.                                     *)
Fairness ==
  /\ \A p \in Producers : WF_vars(ProducerStep(p)) /\ WF_vars(Leave(p))
  /\ WF_vars(DispatcherStep)
  /\ WF_vars(NotifyAll) /\ WF_vars(Join)

FairSpec == Spec /\ Fairness

-----------------------------------------------------------------------------
(* Properties.                                                              *)

CounterRange == [depth : [Kinds -> Nat], dropped : [Kinds -> Nat]]

TypeOK ==
  /\ queue \in Seq(Tasks)
  /\ depth \in [Kinds -> Nat] /\ dropped \in [Kinds -> Nat]
  /\ stop \in BOOLEAN /\ recent \subseteq Keys
  /\ ppc \in [Producers -> {"idle", "enqueue", "read", "write", "notify", "left"}]
  /\ offer \in [Producers -> Tasks]
  /\ queued \in [Producers -> BOOLEAN]
  /\ pread \in [Producers -> CounterRange]
  /\ dpc \in {"check", "waiting", "read", "write", "send", "done"}
  /\ inHand \in Seq(Tasks)
  /\ dpc \in {"read", "write", "send"} => Len(inHand) = 1
  /\ dpc \in {"check", "waiting", "done"} => inHand = <<>>
  /\ attempt \in Nat /\ dread \in CounterRange
  /\ mainpc \in {"run", "notify", "join", "exited"}
  /\ file \in CounterRange
  /\ offers \in 0..MaxOffers /\ window \in [Keys -> 0..MaxWindows]
  /\ accepted \in Seq(Tasks) /\ handled \in Seq(Tasks)

(* Nothing accepted is lost, sent twice or overtaken: what was worked off,  *)
(* then the task in hand, then the queue, are the accepted tasks in their   *)
(* order, across producers, dispatcher and shutdown.                        *)
NothingLostOrReordered == accepted = handled \o inHand \o queue

(* The depth counters, kept beside the deque and guarded against going      *)
(* below zero, always count the queued tasks of their kind.                 *)
DepthCountsQueue == \A k \in Kinds : depth[k] = Cardinality(OfKind(queue, k))

(* One kind cannot crowd out the other: a task is dropped only while as     *)
(* many tasks of its own kind as the smallest capacity allows are queued.   *)
DropOnlyWhenKindFull ==
  [][\A k \in Kinds : dropped'[k] # dropped[k] =>
        \E c \in Capacities : Cardinality(OfKind(queue, k)) >= Clamp(c)]_vars

(* The idempotency key works: however the control and the cue thread        *)
(* interleave, one dedupe window of a key puts at most one task in the      *)
(* queue.                                                                   *)
OncePerWindow ==
  \A i, j \in DOMAIN accepted :
    i # j /\ accepted[i].key # NoKey /\ accepted[i].key = accepted[j].key
      => accepted[i].window # accepted[j].window

(* A task accepted before the destructor asks for the stop is worked off:   *)
(* the notification reaches the dispatcher although it is sent after the    *)
(* mutex was released and the file was written, and the stop drains the     *)
(* queue.                                                                   *)
AcceptedBeforeStopIsHandled ==
  \A n \in 1..MaxOffers :
    (Len(accepted) >= n /\ ~stop) ~> Len(handled) >= n

(* The destructor's joins end.                                              *)
StopCompletes == stop ~> mainpc = "exited"

(* The dispatch implements the event log.                                   *)
Log == INSTANCE EventLog WITH Events <- Tasks, accepted <- accepted, handled <- handled
ImplementsLog == Log!LogSpec

(* The deque is what the accepted tasks say it is, and the counters beside  *)
(* it say how long it is.                                                   *)
QueueExact == NothingLostOrReordered /\ DepthCountsQueue

(* What is accepted in time is worked off, and then the destructor ends.    *)
DispatchDrains == AcceptedBeforeStopIsHandled /\ StopCompletes
=============================================================================
