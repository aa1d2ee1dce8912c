------------------------- MODULE DispatchQueueProofs -------------------------
(***************************************************************************)
(* Theorems about DispatchQueue, for any producers, capacities and bounds. *)
(***************************************************************************)
EXTENDS DispatchQueue, SequenceTheorems, FiniteSetTheorems, TLAPS

\* The fixed values have their types.
LEMMA FixedValues ==
  /\ NoTask \in Tasks
  /\ \A n \in 0..MaxOffers : [NoTask EXCEPT !.id = n] \in Tasks
  /\ NoRead \in CounterRange /\ Zero \in [Kinds -> Nat]
  BY DispatchAssumption DEF NoTask, Tasks, Kinds, NoRead, CounterRange, Zero

\* The kind of a task is one of the kinds.
LEMMA KindOfTask == \A t \in Tasks : t.kind \in Kinds
  BY DEF Tasks

(* Every variable keeps its type; in particular the dispatcher holds exactly *)
(* one task from the pop until it is finished.                               *)
THEOREM TypeCorrect == Spec => []TypeOK
<1>1. Init => TypeOK
  <2> SUFFICES ASSUME Init PROVE TypeOK
    OBVIOUS
  <2>1. file \in CounterRange
    BY FixedValues DEF Init, Counters, CounterRange
  <2>2. /\ queue \in Seq(Tasks) /\ inHand \in Seq(Tasks) /\ Len(inHand) = 0
        /\ accepted \in Seq(Tasks) /\ handled \in Seq(Tasks)
    BY DEF Init
  <2>3. /\ depth \in [Kinds -> Nat] /\ dropped \in [Kinds -> Nat] /\ dread \in CounterRange
        /\ offer \in [Producers -> Tasks] /\ pread \in [Producers -> CounterRange]
    BY FixedValues DEF Init
  <2>4. /\ stop \in BOOLEAN /\ recent \subseteq Keys /\ queued \in [Producers -> BOOLEAN]
        /\ ppc \in [Producers -> {"idle", "enqueue", "read", "write", "notify", "left"}]
        /\ dpc = "check" /\ inHand = <<>> /\ attempt \in Nat /\ mainpc = "run"
    BY DEF Init
  <2>5. offers \in 0..MaxOffers /\ window \in [Keys -> 0..MaxWindows]
    BY DispatchAssumption DEF Init
  <2> QED
    BY <2>1, <2>2, <2>3, <2>4, <2>5 DEF TypeOK
<1>2. TypeOK /\ [Next]_vars => TypeOK'
  <2> SUFFICES ASSUME TypeOK, [Next]_vars PROVE TypeOK'
    OBVIOUS
  <2> USE DispatchAssumption DEF TypeOK, vars, prodVars, dispVars, histVars
  <2>1. ASSUME NEW p \in Producers, OfferMetadata(p) PROVE TypeOK'
    <3>1. offers + 1 \in 0..MaxOffers
      BY <2>1 DEF OfferMetadata
    <3>2. [NoTask EXCEPT !.id = offers + 1] \in Tasks
      BY <3>1, FixedValues
    <3> QED
      BY <2>1, <3>1, <3>2 DEF OfferMetadata, ProducerGoto
  <2>2. ASSUME NEW p \in Producers, NEW key \in Keys, NEW r \in Retries, OfferSidecar(p, key, r)
        PROVE  TypeOK'
    <3>1. offers + 1 \in 0..MaxOffers
      BY <2>2 DEF OfferSidecar
    <3>2. [kind |-> "sidecar", key |-> key, retries |-> r, id |-> offers + 1,
           window |-> window[key]] \in Tasks
      BY <3>1 DEF Tasks, Kinds
    <3>3. offers' \in 0..MaxOffers /\ recent' \subseteq Keys
      BY <2>2, <3>1 DEF OfferSidecar
    <3>4. offer' \in [Producers -> Tasks]
      BY <2>2, <3>2 DEF OfferSidecar
    <3>5. ppc' \in [Producers -> {"idle", "enqueue", "read", "write", "notify", "left"}]
      BY <2>2 DEF OfferSidecar, ProducerGoto
    <3> QED
      BY <2>2, <3>3, <3>4, <3>5 DEF OfferSidecar
  <2>21. ASSUME NEW p \in Producers, NEW r \in Retries, OfferUnchecked(p, r) PROVE TypeOK'
    <3>1. offers + 1 \in 0..MaxOffers
      BY <2>21 DEF OfferUnchecked
    <3>2. [kind |-> "sidecar", key |-> NoKey, retries |-> r, id |-> offers + 1, window |-> 0] \in Tasks
      BY <3>1 DEF Tasks, Kinds
    <3> QED
      BY <2>21, <3>1, <3>2 DEF OfferUnchecked, ProducerGoto
  <2>3. ASSUME NEW p \in Producers, NEW c \in Capacities, Enqueue(p, c) PROVE TypeOK'
    <3>1. offer[p] \in Tasks /\ offer[p].kind \in Kinds
      BY KindOfTask
    <3>2. /\ Append(queue, offer[p]) \in Seq(Tasks)
          /\ Append(accepted, offer[p]) \in Seq(Tasks)
      BY <3>1
    <3>3. offer' \in [Producers -> Tasks]
      BY <2>3, FixedValues DEF Enqueue
    <3>4. queue' \in Seq(Tasks) /\ accepted' \in Seq(Tasks)
      BY <2>3, <3>2 DEF Enqueue
    <3>5. /\ [depth EXCEPT ![offer[p].kind] = @ + 1] \in [Kinds -> Nat]
          /\ [dropped EXCEPT ![offer[p].kind] = @ + 1] \in [Kinds -> Nat]
      BY <3>1
    <3>6. depth' \in [Kinds -> Nat] /\ dropped' \in [Kinds -> Nat]
      BY <2>3, <3>5, Zenon DEF Enqueue
    <3>7. queued' \in [Producers -> BOOLEAN]
      BY <2>3 DEF Enqueue
    <3> QED
      BY <2>3, <3>3, <3>4, <3>6, <3>7 DEF Enqueue, ProducerGoto
  <2>4. ASSUME NEW p \in Producers, ProducerRead(p) PROVE TypeOK'
    BY <2>4 DEF ProducerRead, ProducerGoto, Counters, CounterRange
  <2>5. ASSUME NEW p \in Producers, ProducerWrite(p) PROVE TypeOK'
    BY <2>5, FixedValues DEF ProducerWrite, ProducerGoto
  <2>6. ASSUME NEW p \in Producers, Notify(p) PROVE TypeOK'
    BY <2>6 DEF Notify, ProducerGoto, Wake
  <2>7. ASSUME NEW p \in Producers, Leave(p) PROVE TypeOK'
    BY <2>7 DEF Leave, ProducerGoto
  <2>8. ASSUME NEW key \in Keys, Expire(key) PROVE TypeOK'
    BY <2>8 DEF Expire
  <2>9. CASE Sleep
    BY <2>9 DEF Sleep
  <2>10. CASE DispatcherEnds
    BY <2>10 DEF DispatcherEnds
  <2>11. CASE Pop
    <3>1. Head(queue) \in Tasks /\ Tail(queue) \in Seq(Tasks)
      BY <2>11, HeadTailProperties DEF Pop
    <3>2. inHand' \in Seq(Tasks) /\ Len(inHand') = 1
      BY <2>11, <3>1 DEF Pop
    <3>3. depth' \in [Kinds -> Nat]
      BY <2>11, <3>1, KindOfTask DEF Pop
    <3> QED
      BY <2>11, <3>1, <3>2, <3>3 DEF Pop
  <2>12. CASE DispatcherRead
    BY <2>12 DEF DispatcherRead, Counters, CounterRange
  <2>13. CASE DispatcherWrite
    BY <2>13, FixedValues DEF DispatcherWrite
  <2>14. CASE Finish
    BY <2>14 DEF Finish
  <2>15. CASE Retry
    BY <2>15 DEF Retry
  <2>16. CASE SpuriousWake
    BY <2>16 DEF SpuriousWake, Wake
  <2>17. CASE RequestStop
    BY <2>17 DEF RequestStop
  <2>18. CASE NotifyAll
    BY <2>18 DEF NotifyAll, Wake
  <2>19. CASE Join
    BY <2>19 DEF Join
  <2>20. CASE UNCHANGED vars
    BY <2>20 DEF vars
  <2> QED
    BY <2>1, <2>2, <2>3, <2>4, <2>5, <2>6, <2>7, <2>8, <2>9, <2>10, <2>11, <2>12,
       <2>13, <2>14, <2>15, <2>16, <2>17, <2>18, <2>19, <2>20, <2>21
    DEF Next, Offer, ProducerStep, DispatcherStep, MainStep, Exited
<1>3. QED
  BY <1>1, <1>2, PTL DEF Spec

-----------------------------------------------------------------------------
(* Only three steps touch the sequences of tasks.                           *)
LEMMA OtherSteps ==
  ASSUME [Next]_vars
  PROVE  \/ \E p \in Producers, c \in Capacities : Enqueue(p, c)
         \/ Pop
         \/ Finish
         \/ UNCHANGED <<queue, inHand, histVars>> /\ UNCHANGED <<depth, dropped>>
<1> USE DEF dispVars, histVars
<1>1. ASSUME NEW p \in Producers, Offer(p) \/ ProducerRead(p) \/ ProducerWrite(p) \/ Notify(p)
                                     \/ Leave(p)
      PROVE  UNCHANGED <<queue, inHand, histVars>> /\ UNCHANGED <<depth, dropped>>
  BY <1>1 DEF Offer, OfferMetadata, OfferSidecar, OfferUnchecked, ProducerRead, ProducerWrite, Notify, Leave
<1>2. ASSUME NEW key \in Keys, Expire(key)
      PROVE  UNCHANGED <<queue, inHand, histVars>> /\ UNCHANGED <<depth, dropped>>
  BY <1>2 DEF Expire
<1>3. CASE Sleep \/ DispatcherEnds \/ DispatcherRead \/ DispatcherWrite \/ Retry \/ SpuriousWake
  BY <1>3 DEF Sleep, DispatcherEnds, DispatcherRead, DispatcherWrite, Retry, SpuriousWake
<1>4. CASE MainStep \/ Exited \/ UNCHANGED vars
  BY <1>4 DEF MainStep, RequestStop, NotifyAll, Join, Exited, vars
<1> QED
  BY <1>1, <1>2, <1>3, <1>4 DEF Next, ProducerStep, DispatcherStep

-----------------------------------------------------------------------------
(* Lemmas about the queue as a sequence.                                    *)

\* The head of the last part may move to an empty middle part.
LEMMA MoveHead ==
  ASSUME NEW S, NEW a \in Seq(S), NEW c \in Seq(S), c # <<>>
  PROVE  a \o <<>> \o c = a \o <<Head(c)>> \o Tail(c)
  BY SMT

\* The middle part may be joined to the first.
LEMMA JoinMiddle ==
  ASSUME NEW S, NEW a \in Seq(S), NEW b \in Seq(S), NEW c \in Seq(S)
  PROVE  a \o b \o c = (a \o b) \o <<>> \o c
  BY SMT

\* A middle part of one element is what follows the first part.
LEMMA NextToHandle ==
  ASSUME NEW S, NEW a \in Seq(S), NEW b \in Seq(S), NEW c \in Seq(S), Len(b) = 1
  PROVE  Len(a) < Len(a \o b \o c) /\ (a \o b \o c)[Len(a) + 1] = b[1]
<1>1. /\ a \o b \in Seq(S) /\ Len(a \o b) = Len(a) + Len(b)
      /\ \A i \in 1..Len(a) + Len(b) : (a \o b)[i] = IF i <= Len(a) THEN a[i] ELSE b[i - Len(a)]
  BY ConcatProperties, Zenon
<1>2. /\ Len(a) \in Nat /\ Len(c) \in Nat /\ Len(a \o b) = Len(a) + 1
      /\ Len(a) + 1 \in 1..Len(a) + Len(b)
      /\ ~(Len(a) + 1 <= Len(a)) /\ (Len(a) + 1) - Len(a) = 1
  BY <1>1, LenProperties
<1>3. Len(a \o b \o c) = Len(a \o b) + Len(c)
  BY <1>1, ConcatProperties, Zenon
<1>4. (a \o b \o c)[Len(a) + 1] = (a \o b)[Len(a) + 1]
  BY <1>1, <1>2, ConcatProperties
<1>5. (a \o b)[Len(a) + 1] = b[1]
  BY ONLY <1>1, <1>2, Zenon
<1> QED
  BY <1>2, <1>3, <1>4, <1>5

(* What is worked off, in hand and queued are the accepted tasks in order:   *)
(* an enqueue appends to both sides, a pop and a finish move a task between  *)
(* two neighbouring parts, no other step touches the four sequences.         *)
THEOREM NoLoss == Spec => []NothingLostOrReordered
<1>1. Init => NothingLostOrReordered
  BY DEF Init, NothingLostOrReordered
<1>2. TypeOK /\ NothingLostOrReordered /\ [Next]_vars => NothingLostOrReordered'
  <2> SUFFICES ASSUME TypeOK, NothingLostOrReordered, [Next]_vars
               PROVE  NothingLostOrReordered'
    OBVIOUS
  <2> USE DEF NothingLostOrReordered
  <2>1. ASSUME NEW p \in Producers, NEW c \in Capacities, Enqueue(p, c)
        PROVE  NothingLostOrReordered'
    <3>1. /\ handled \in Seq(Tasks) /\ inHand \in Seq(Tasks) /\ queue \in Seq(Tasks)
          /\ accepted \in Seq(Tasks) /\ offer[p] \in Tasks
      BY DEF TypeOK
    <3>2. CASE queue' = Append(queue, offer[p]) /\ accepted' = Append(accepted, offer[p])
      <4>1. handled \o inHand \in Seq(Tasks) /\ <<offer[p]>> \in Seq(Tasks)
        BY <3>1
      <4>2. queue' = queue \o <<offer[p]>> /\ accepted' = accepted \o <<offer[p]>>
        BY <3>1, <3>2, AppendIsConcat
      <4>3. (handled \o inHand \o queue) \o <<offer[p]>>
              = (handled \o inHand) \o (queue \o <<offer[p]>>)
        BY <3>1, <4>1, ConcatAssociative, SMTT(30)
      <4> QED
        BY <2>1, <4>2, <4>3, Zenon DEF Enqueue, dispVars
    <3>3. CASE UNCHANGED <<queue, accepted>>
      BY <2>1, <3>3, Zenon DEF Enqueue, dispVars
    <3> QED
      BY <2>1, <3>2, <3>3, Zenon DEF Enqueue
  <2>2. CASE Pop
    <3>1. queue # <<>> /\ inHand = <<>>
      BY <2>2 DEF Pop, TypeOK
    <3>2. handled \o <<>> \o queue = handled \o <<Head(queue)>> \o Tail(queue)
      BY <3>1, MoveHead DEF TypeOK
    <3> QED
      BY <2>2, <3>1, <3>2, Zenon DEF Pop, histVars
  <2>3. CASE Finish
    <3>1. handled \o inHand \o queue = (handled \o inHand) \o <<>> \o queue
      BY JoinMiddle DEF TypeOK
    <3> QED
      BY <2>3, <3>1, Zenon DEF Finish
  <2>4. CASE UNCHANGED <<queue, inHand, histVars>>
    BY <2>4 DEF histVars
  <2> QED
    BY <2>1, <2>2, <2>3, <2>4, OtherSteps
<1>3. QED
  BY <1>1, <1>2, TypeCorrect, PTL DEF Spec

-----------------------------------------------------------------------------
(* Counting the tasks of a kind.                                            *)

\* The positions of a kind are finitely many, among those of the queue.
LEMMA OfKindFinite ==
  ASSUME NEW q \in Seq(Tasks), NEW k
  PROVE  /\ IsFiniteSet(OfKind(q, k)) /\ Cardinality(OfKind(q, k)) \in Nat
         /\ OfKind(q, k) \subseteq 1..Len(q)
<1>1. OfKind(q, k) \subseteq 1..Len(q)
  BY DEF OfKind
<1>2. IsFiniteSet(1..Len(q))
  BY FS_Interval
<1>3. IsFiniteSet(OfKind(q, k))
  BY <1>1, <1>2, FS_Subset
<1> QED
  BY <1>1, <1>3, FS_CardinalityType

\* A task appended counts for its own kind only.
LEMMA CountAppend ==
  ASSUME NEW q \in Seq(Tasks), NEW e \in Tasks, NEW k
  PROVE  Cardinality(OfKind(Append(q, e), k))
           = IF e.kind = k THEN Cardinality(OfKind(q, k)) + 1 ELSE Cardinality(OfKind(q, k))
<1>1. OfKind(q, k) \subseteq 1..Len(q) /\ IsFiniteSet(OfKind(q, k))
  BY OfKindFinite
<1>2. Len(q) + 1 \notin OfKind(q, k)
  BY <1>1
<1>3. CASE e.kind = k
  <2>1. OfKind(Append(q, e), k) = OfKind(q, k) \cup {Len(q) + 1}
    BY <1>3 DEF OfKind
  <2>2. Cardinality(OfKind(q, k) \cup {Len(q) + 1}) = Cardinality(OfKind(q, k)) + 1
    BY <1>1, <1>2, FS_AddElement, Zenon
  <2> QED
    BY <1>3, <2>1, <2>2
<1>4. CASE e.kind # k
  <2>1. /\ Len(q) \in Nat /\ Len(Append(q, e)) = Len(q) + 1 /\ Append(q, e)[Len(q) + 1] = e
        /\ \A i \in 1..Len(q) : Append(q, e)[i] = q[i]
    OBVIOUS
  <2>2. \A i \in 1..(Len(q) + 1) : Append(q, e)[i].kind = k <=> i \in 1..Len(q) /\ q[i].kind = k
    BY <1>4, <2>1
  <2>3. OfKind(Append(q, e), k) = OfKind(q, k)
    BY <2>1, <2>2 DEF OfKind
  <2> QED
    BY <1>4, <2>3
<1> QED
  BY <1>3, <1>4

\* Without its head a queue holds one task less of the head's kind.
LEMMA CountTail ==
  ASSUME NEW q \in Seq(Tasks), q # <<>>, NEW k
  PROVE  Cardinality(OfKind(Tail(q), k))
           = IF Head(q).kind = k THEN Cardinality(OfKind(q, k)) - 1 ELSE Cardinality(OfKind(q, k))
<1> DEFINE S == OfKind(Tail(q), k)
           T == OfKind(q, k) \ {1}
           f == [i \in S |-> i + 1]
<1>1. Tail(q) \in Seq(Tasks) /\ Len(Tail(q)) = Len(q) - 1 /\ Len(q) \in Nat /\ Len(q) > 0
      /\ \A i \in 1..Len(Tail(q)) : Tail(q)[i] = q[i + 1]
  OBVIOUS
<1>2. S \subseteq 1..Len(Tail(q)) /\ IsFiniteSet(S)
  BY <1>1, OfKindFinite
<1>3. f \in [S -> T]
  BY <1>1, <1>2 DEF OfKind
<1>4. \A i, j \in S : f[i] = f[j] => i = j
  BY <1>2
<1>5. \A t \in T : \E i \in S : f[i] = t
  <2> TAKE t \in T
  <2>1. t \in 2..Len(q) /\ q[t].kind = k
    BY DEF OfKind
  <2>2. t - 1 \in S
    BY <1>1, <2>1 DEF OfKind
  <2> WITNESS t - 1 \in S
  <2> QED
    BY <2>1, <2>2
<1>6. f \in Bijection(S, T)
  <2> HIDE DEF S, T, f
  <2> QED
    BY <1>3, <1>4, <1>5 DEF Bijection, Injection, Surjection, IsInjective
<1>7. Cardinality(T) = Cardinality(S)
  BY <1>2, <1>6, FS_Bijection DEF ExistsBijection
<1>8. IsFiniteSet(OfKind(q, k))
  BY OfKindFinite
<1>9. 1 \in OfKind(q, k) <=> Head(q).kind = k
  BY <1>1 DEF OfKind
<1> QED
  BY <1>7, <1>8, <1>9, FS_RemoveElement

(* The depth counters count the queue, so the guard against going below zero *)
(* never acts: an enqueue raises and a pop lowers the counter of the task's  *)
(* own kind, each in the critical section that changes the deque.            *)
THEOREM DepthCorrect == Spec => []DepthCountsQueue
<1>1. Init => DepthCountsQueue
  <2> SUFFICES ASSUME Init, NEW k \in Kinds PROVE depth[k] = Cardinality(OfKind(queue, k))
    BY DEF DepthCountsQueue
  <2>1. OfKind(queue, k) = {}
    BY DEF Init, OfKind
  <2> QED
    BY <2>1, FS_EmptySet DEF Init, Zero
<1>2. TypeOK /\ DepthCountsQueue /\ [Next]_vars => DepthCountsQueue'
  <2> SUFFICES ASSUME TypeOK, DepthCountsQueue, [Next]_vars, NEW k \in Kinds
               PROVE  depth'[k] = Cardinality(OfKind(queue', k))
    BY DEF DepthCountsQueue
  <2>1. /\ depth \in [Kinds -> Nat] /\ queue \in Seq(Tasks)
        /\ depth[k] = Cardinality(OfKind(queue, k))
    BY DEF TypeOK, DepthCountsQueue
  <2>2. ASSUME NEW p \in Producers, NEW c \in Capacities, Enqueue(p, c)
        PROVE  depth'[k] = Cardinality(OfKind(queue', k))
    <3>1. offer[p] \in Tasks /\ offer[p].kind \in Kinds
      BY KindOfTask DEF TypeOK
    <3>2. CASE /\ queue' = Append(queue, offer[p])
               /\ depth' = [depth EXCEPT ![offer[p].kind] = @ + 1]
      BY <2>1, <3>1, <3>2, CountAppend
    <3>3. CASE UNCHANGED <<queue, depth>>
      BY <2>1, <3>3
    <3> QED
      BY <2>2, <3>2, <3>3, Zenon DEF Enqueue
  <2>3. CASE Pop
    <3>1. /\ queue # <<>> /\ queue' = Tail(queue)
          /\ depth' = [depth EXCEPT ![Head(queue).kind] = IF @ > 0 THEN @ - 1 ELSE @]
      BY <2>3 DEF Pop
    <3>2. CASE Head(queue).kind = k
      <4>1. 1 \in OfKind(queue, k)
        BY <2>1, <3>1, <3>2 DEF OfKind
      <4>2. depth[k] > 0
        BY <2>1, <4>1, OfKindFinite, FS_EmptySet
      <4> QED
        BY <2>1, <3>1, <3>2, <4>2, CountTail
    <3>3. CASE Head(queue).kind # k
      BY <2>1, <3>1, <3>3, CountTail
    <3> QED
      BY <3>2, <3>3
  <2>4. CASE UNCHANGED <<queue, depth>>
    BY <2>1, <2>4
  <2>5. CASE Finish
    BY <2>1, <2>5 DEF Finish
  <2> QED
    BY <2>2, <2>3, <2>4, <2>5, OtherSteps
<1>3. QED
  BY <1>1, <1>2, TypeCorrect, PTL DEF Spec

(* One kind of task cannot make the other kind be dropped: the counter the   *)
(* capacity is compared with counts the queued tasks of the task's own kind. *)
THEOREM NoCrowdingOut == Spec => DropOnlyWhenKindFull
<1>1. TypeOK /\ DepthCountsQueue /\ [Next]_vars =>
        [\A k \in Kinds : dropped'[k] # dropped[k] =>
           \E c \in Capacities : Cardinality(OfKind(queue, k)) >= Clamp(c)]_vars
  <2> SUFFICES ASSUME TypeOK, DepthCountsQueue, [Next]_vars, NEW k \in Kinds,
                      dropped'[k] # dropped[k]
               PROVE  \E c \in Capacities : Cardinality(OfKind(queue, k)) >= Clamp(c)
    OBVIOUS
  <2>1. PICK p \in Producers, c \in Capacities : Enqueue(p, c)
    BY OtherSteps DEF Pop, Finish
  <2>2. offer[p].kind = k /\ ~(depth[k] < Clamp(c))
    BY <2>1 DEF Enqueue, TypeOK
  <2>3. depth[k] \in Nat /\ Clamp(c) \in Nat /\ depth[k] = Cardinality(OfKind(queue, k))
    BY DispatchAssumption DEF TypeOK, DepthCountsQueue, Clamp
  <2> QED
    BY <2>2, <2>3
<1>2. QED
  BY <1>1, TypeCorrect, DepthCorrect, PTL DEF Spec, DropOnlyWhenKindFull

-----------------------------------------------------------------------------
(* The dispatch, with its threads, retries and shutdown, implements the log: *)
(* an accepted enqueue is Accept, a finished task is Handle of the oldest    *)
(* task not yet handled, every other step changes neither sequence.          *)
THEOREM Refinement == Spec => ImplementsLog
<1>1. Init => Log!LogInit
  BY DEF Init, Log!LogInit
<1>2. TypeOK /\ NothingLostOrReordered /\ [Next]_vars => [Log!LogNext]_(Log!logVars)
  <2> SUFFICES ASSUME TypeOK, NothingLostOrReordered, [Next]_vars
               PROVE  Log!LogNext \/ UNCHANGED <<accepted, handled>>
    BY DEF Log!logVars
  <2>1. ASSUME NEW p \in Producers, NEW c \in Capacities, Enqueue(p, c)
        PROVE  Log!LogNext \/ UNCHANGED <<accepted, handled>>
    <3>1. offer[p] \in Tasks /\ UNCHANGED handled
      BY <2>1 DEF TypeOK, Enqueue
    <3>2. accepted' = Append(accepted, offer[p]) \/ UNCHANGED accepted
      BY <2>1, Zenon DEF Enqueue
    <3> QED
      BY <3>1, <3>2 DEF Log!LogNext, Log!Accept
  <2>2. CASE Finish
    <3>1. /\ handled \in Seq(Tasks) /\ inHand \in Seq(Tasks) /\ queue \in Seq(Tasks)
          /\ Len(inHand) = 1 /\ handled' = handled \o inHand /\ UNCHANGED accepted
          /\ accepted = handled \o inHand \o queue
      BY <2>2 DEF TypeOK, Finish, NothingLostOrReordered
    <3>2. inHand = <<inHand[1]>> /\ inHand[1] \in Tasks
      BY <3>1
    <3>3. handled' = Append(handled, inHand[1])
      BY <3>1, <3>2, AppendIsConcat
    <3>4. Len(handled) < Len(accepted) /\ accepted[Len(handled) + 1] = inHand[1]
      BY <3>1, NextToHandle
    <3> QED
      BY <3>1, <3>3, <3>4 DEF Log!LogNext, Log!Handle
  <2>3. CASE Pop \/ UNCHANGED <<queue, inHand, histVars>>
    BY <2>3 DEF Pop, histVars
  <2> QED
    BY <2>1, <2>2, <2>3, OtherSteps
<1>3. QED
  BY <1>1, <1>2, TypeCorrect, NoLoss, PTL DEF Spec, ImplementsLog, Log!LogSpec

(* QueueExact: the deque holds what was accepted, the counters its length.  *)
THEOREM QueueCorrect == Spec => []QueueExact
  BY NoLoss, DepthCorrect, PTL DEF QueueExact

-----------------------------------------------------------------------------
(* OncePerWindow speaks of the accepted tasks alone.  A key is taken when   *)
(* the event arrives and the task is queued in a later critical section, so *)
(* the invariant speaks of the tasks still in a producer's hands too: none  *)
(* is younger than the window of its key, one of the present window keeps   *)
(* its key among the recent ones, and no two share key and window.          *)
Dated(t) == t.key # NoKey => /\ t.window <= window[t.key]
                             /\ t.window = window[t.key] => t.key \in recent

Clash(t, u) == t.key # NoKey /\ t.key = u.key /\ t.window = u.window

OffersApart == \A p, q \in Producers : p # q => ~Clash(offer[p], offer[q])
QueuedApart == \A p \in Producers, i \in DOMAIN accepted : ~Clash(offer[p], accepted[i])

KeyInv ==
  /\ \A p \in Producers : Dated(offer[p])
  /\ \A i \in DOMAIN accepted : Dated(accepted[i])
  /\ OffersApart /\ QueuedApart /\ OncePerWindow

\* A task without a checked key is dated and clashes with none.
LEMMA KeylessTask ==
  ASSUME NEW t, t.key = NoKey
  PROVE  Dated(t) /\ \A u : ~Clash(t, u) /\ ~Clash(u, t)
  BY DEF Dated, Clash

\* Steps that leave offers, accepted tasks, keys and windows alone.
LEMMA KeysUntouched ==
  ASSUME KeyInv, UNCHANGED <<offer, accepted, recent, window>>
  PROVE  KeyInv'
  BY DEF KeyInv, Dated, Clash, OffersApart, QueuedApart, OncePerWindow

\* One producer takes a task in hand that has a date and clashes with nothing;
\* keys are only added to the recent ones.
LEMMA NewOffer ==
  ASSUME TypeOK, KeyInv, NEW p \in Producers, NEW t \in Tasks,
         offer' = [offer EXCEPT ![p] = t], recent \subseteq recent',
         UNCHANGED <<accepted, window>>,
         Dated(t)',
         \A q \in Producers : q # p => ~Clash(t, offer[q]),
         \A i \in DOMAIN accepted : ~Clash(t, accepted[i])
  PROVE  KeyInv'
<1>1. \A q \in Producers : offer'[q] = IF q = p THEN t ELSE offer[q]
  BY DEF TypeOK
<1>2. \A q \in Producers : Dated(offer[q])'
  <2> SUFFICES ASSUME NEW q \in Producers PROVE Dated(offer[q])'
    OBVIOUS
  <2>1. CASE q = p
    BY <2>1, <1>1 DEF Dated
  <2>2. CASE q # p
    BY <2>2, <1>1 DEF Dated, KeyInv
  <2> QED
    BY <2>1, <2>2
<1>3. \A i \in DOMAIN accepted' : Dated(accepted[i])'
  BY DEF KeyInv, Dated
<1>4. OffersApart'
  BY <1>1 DEF KeyInv, OffersApart, Clash
<1>5. QueuedApart'
  BY <1>1 DEF KeyInv, QueuedApart, Clash
<1>6. OncePerWindow'
  BY DEF KeyInv, OncePerWindow
<1> QED
  BY <1>2, <1>3, <1>4, <1>5, <1>6 DEF KeyInv

\* The task of a producer goes into the queue.
LEMMA OfferAccepted ==
  ASSUME TypeOK, KeyInv, NEW p \in Producers,
         offer' = [offer EXCEPT ![p] = NoTask],
         accepted' = Append(accepted, offer[p]),
         UNCHANGED <<recent, window>>
  PROVE  KeyInv'
<1> DEFINE n == Len(accepted)
<1>1. \A q \in Producers : offer'[q] = IF q = p THEN NoTask ELSE offer[q]
  BY DEF TypeOK
<1>2. /\ n \in Nat /\ DOMAIN accepted = 1..n /\ DOMAIN accepted' = 1..(n + 1)
      /\ \A i \in 1..n : accepted'[i] = accepted[i]
      /\ accepted'[n + 1] = offer[p]
  BY DEF TypeOK
<1>3. NoTask.key = NoKey
  BY DEF NoTask
<1>4. \A q \in Producers : Dated(offer[q])'
  BY <1>1, <1>3 DEF Dated, KeyInv
<1>5. \A i \in DOMAIN accepted' : Dated(accepted[i])'
  <2> SUFFICES ASSUME NEW i \in 1..(n + 1) PROVE Dated(accepted'[i])
    BY <1>2 DEF Dated
  <2>1. CASE i \in 1..n
    BY <2>1, <1>2 DEF KeyInv
  <2>2. CASE i = n + 1
    BY <2>2, <1>2 DEF KeyInv
  <2> QED
    BY <2>1, <2>2, <1>2
<1>6. OffersApart'
  BY <1>1, <1>3 DEF KeyInv, OffersApart, Clash
<1>7. QueuedApart'
  <2> SUFFICES ASSUME NEW q \in Producers, NEW i \in 1..(n + 1)
               PROVE  ~Clash(offer'[q], accepted'[i])
    BY <1>2 DEF QueuedApart, Clash
  <2>1. CASE q = p
    BY <2>1, <1>1, <1>3 DEF Clash
  <2>2. CASE q # p /\ i \in 1..n
    BY <2>2, <1>1, <1>2 DEF KeyInv, QueuedApart
  <2>3. CASE q # p /\ i = n + 1
    BY <2>3, <1>1, <1>2 DEF KeyInv, OffersApart
  <2> QED
    BY <2>1, <2>2, <2>3, <1>2
<1>8. OncePerWindow'
  <2>1. \A i \in 1..n : ~Clash(offer[p], accepted[i])
    BY <1>2 DEF KeyInv, QueuedApart
  <2>2. SUFFICES ASSUME NEW i \in 1..(n + 1), NEW j \in 1..(n + 1), i # j,
                        Clash(accepted'[i], accepted'[j])
                 PROVE  FALSE
    BY <1>2 DEF OncePerWindow, Clash
  <2>3. CASE i \in 1..n /\ j \in 1..n
    BY <2>2, <2>3, <1>2 DEF KeyInv, OncePerWindow, Clash
  <2>4. CASE i = n + 1
    BY <2>1, <2>2, <2>4, <1>2 DEF Clash
  <2>5. CASE j = n + 1
    BY <2>1, <2>2, <2>5, <1>2 DEF Clash
  <2> QED
    BY <2>3, <2>4, <2>5, <1>2
<1> QED
  BY <1>4, <1>5, <1>6, <1>7, <1>8 DEF KeyInv

(* OncePerWindow: whatever control and cue threads there are and however    *)
(* they interleave between the lookup of the key and the queue, one dedupe  *)
(* window of a key puts at most one task in the queue.                      *)
THEOREM DedupeWorks == Spec => []OncePerWindow
<1>1. Init => KeyInv
  <2> SUFFICES ASSUME Init PROVE KeyInv
    OBVIOUS
  <2>1. NoTask.key = NoKey
    BY DEF NoTask
  <2>2. /\ \A p \in Producers : offer[p] = NoTask
        /\ DOMAIN accepted = {}
    BY DEF Init
  <2> QED
    BY <2>1, <2>2 DEF KeyInv, Dated, Clash, OffersApart, QueuedApart, OncePerWindow
<1>2. TypeOK /\ KeyInv /\ [Next]_vars => KeyInv'
  <2> SUFFICES ASSUME TypeOK, KeyInv, [Next]_vars PROVE KeyInv'
    OBVIOUS
  <2> USE DEF vars, prodVars, dispVars, histVars
  <2>1. ASSUME NEW p \in Producers, OfferMetadata(p) PROVE KeyInv'
    <3>1. offers + 1 \in 0..MaxOffers
      BY <2>1, DispatchAssumption DEF OfferMetadata, TypeOK
    <3>2. PICK t \in Tasks : t = [NoTask EXCEPT !.id = offers + 1]
      BY <3>1, FixedValues
    <3>3. offer' = [offer EXCEPT ![p] = t] /\ UNCHANGED <<accepted, window, recent>>
      BY <2>1, <3>2 DEF OfferMetadata
    <3>4. Dated(t)' /\ \A u : ~Clash(t, u)
      BY <3>2, KeylessTask DEF Dated, NoTask
    <3> QED
      BY <3>3, <3>4, NewOffer
  <2>2. ASSUME NEW p \in Producers, NEW key \in Keys, NEW r \in Retries, OfferSidecar(p, key, r)
        PROVE  KeyInv'
    <3>1. CASE key \in recent
      <4>1. UNCHANGED <<offer, accepted, window>> /\ recent' = recent
        BY <2>2, <3>1 DEF OfferSidecar
      <4> QED
        BY <4>1, KeysUntouched
    <3>2. CASE key \notin recent
      <4>1. PICK t \in Tasks : t = [kind |-> "sidecar", key |-> key, retries |-> r,
                                    id |-> offers + 1, window |-> window[key]]
        <5>1. offers + 1 \in 0..MaxOffers /\ window[key] \in 0..MaxWindows
          BY <2>2, DispatchAssumption DEF OfferSidecar, TypeOK
        <5> QED
          BY <5>1 DEF Tasks, Kinds
      <4>2. /\ offer' = [offer EXCEPT ![p] = t] /\ recent' = recent \cup {key}
            /\ UNCHANGED <<accepted, window>>
        BY <2>2, <3>2, <4>1 DEF OfferSidecar
      <4>3. window[key] \in Nat
        BY DEF TypeOK
      <4>4. Dated(t)'
        BY <4>1, <4>2, <4>3 DEF Dated
      <4>5. \A u : Dated(u) => ~Clash(t, u)
        BY <4>1, <3>2, DispatchAssumption DEF Dated, Clash
      <4>6. /\ \A q \in Producers : q # p => ~Clash(t, offer[q])
            /\ \A i \in DOMAIN accepted : ~Clash(t, accepted[i])
        BY <4>5 DEF KeyInv
      <4> QED
        BY <4>2, <4>4, <4>6, NewOffer
    <3> QED
      BY <3>1, <3>2
  <2>3. ASSUME NEW p \in Producers, NEW r \in Retries, OfferUnchecked(p, r) PROVE KeyInv'
    <3>1. PICK t \in Tasks : t = [kind |-> "sidecar", key |-> NoKey, retries |-> r,
                                  id |-> offers + 1, window |-> 0]
      <4>1. offers + 1 \in 0..MaxOffers /\ 0 \in 0..MaxWindows
        BY <2>3, DispatchAssumption DEF OfferUnchecked, TypeOK
      <4> QED
        BY <4>1 DEF Tasks, Kinds
    <3>2. offer' = [offer EXCEPT ![p] = t] /\ UNCHANGED <<accepted, window, recent>>
      BY <2>3, <3>1 DEF OfferUnchecked
    <3>3. Dated(t)' /\ \A u : ~Clash(t, u)
      BY <3>1, KeylessTask DEF Dated
    <3> QED
      BY <3>2, <3>3, NewOffer
  <2>4. ASSUME NEW key \in Keys, Expire(key) PROVE KeyInv'
    <3>1. /\ key \in recent /\ recent' = recent \ {key}
          /\ window' = [window EXCEPT ![key] = @ + 1] /\ UNCHANGED <<offer, accepted>>
      BY <2>4 DEF Expire
    <3>2. \A k \in Keys : window'[k] = IF k = key THEN window[k] + 1 ELSE window[k]
      BY <3>1 DEF TypeOK
    <3>3. \A t \in Tasks : Dated(t) => Dated(t)'
      <4> SUFFICES ASSUME NEW t \in Tasks, Dated(t), t.key # NoKey
                   PROVE  /\ t.window <= window'[t.key]
                          /\ t.window = window'[t.key] => t.key \in recent'
        BY DEF Dated
      <4>1. t.key \in Keys /\ t.window \in Nat
        BY DEF Tasks
      <4>2. window[t.key] \in Nat
        BY <4>1 DEF TypeOK
      <4>3. t.window <= window[t.key] /\ (t.window = window[t.key] => t.key \in recent)
        BY DEF Dated
      <4>4. CASE t.key = key
        BY <4>1, <4>2, <4>3, <4>4, <3>2
      <4>5. CASE t.key # key
        BY <4>1, <4>3, <4>5, <3>1, <3>2
      <4> QED
        BY <4>4, <4>5
    <3>4. /\ \A p \in Producers : offer[p] \in Tasks /\ offer'[p] = offer[p]
          /\ \A i \in DOMAIN accepted : accepted[i] \in Tasks /\ accepted'[i] = accepted[i]
          /\ DOMAIN accepted' = DOMAIN accepted
      BY <3>1 DEF TypeOK
    <3>5. \A p \in Producers : Dated(offer[p])'
      BY <3>3, <3>4 DEF KeyInv, Dated
    <3>6. \A i \in DOMAIN accepted' : Dated(accepted[i])'
      BY <3>3, <3>4 DEF KeyInv, Dated
    <3>7. OffersApart' /\ QueuedApart' /\ OncePerWindow'
      BY <3>1 DEF KeyInv, OffersApart, QueuedApart, OncePerWindow, Clash
    <3> QED
      BY <3>5, <3>6, <3>7 DEF KeyInv
  <2>5. ASSUME NEW p \in Producers, NEW c \in Capacities, Enqueue(p, c) PROVE KeyInv'
    <3>1. offer' = [offer EXCEPT ![p] = NoTask] /\ UNCHANGED <<recent, window>>
      BY <2>5 DEF Enqueue
    <3>2. CASE accepted' = Append(accepted, offer[p])
      BY <3>1, <3>2, OfferAccepted
    <3>3. CASE accepted' = accepted
      <4>1. NoTask \in Tasks /\ NoTask.key = NoKey
        BY FixedValues DEF NoTask
      <4>2. Dated(NoTask)' /\ \A u : ~Clash(NoTask, u)
        BY <4>1 DEF Dated, Clash
      <4> QED
        BY <3>1, <3>3, <4>1, <4>2, NewOffer
    <3> QED
      BY <2>5, <3>2, <3>3 DEF Enqueue
  <2>6. ASSUME UNCHANGED <<offer, accepted, recent, window>> PROVE KeyInv'
    BY <2>6, KeysUntouched
  <2>7. ASSUME NEW p \in Producers, ProducerRead(p) \/ ProducerWrite(p) \/ Notify(p) \/ Leave(p)
        PROVE  KeyInv'
    BY <2>6, <2>7 DEF ProducerRead, ProducerWrite, Notify, Leave
  <2>8. ASSUME DispatcherStep \/ SpuriousWake \/ MainStep \/ Exited PROVE KeyInv'
    BY <2>6, <2>8 DEF DispatcherStep, Sleep, DispatcherEnds, Pop, DispatcherRead,
         DispatcherWrite, Finish, Retry, SpuriousWake, MainStep, RequestStop, NotifyAll, Join,
         Exited
  <2>9. CASE UNCHANGED vars
    BY <2>6, <2>9
  <2> QED
    BY <2>1, <2>2, <2>3, <2>4, <2>5, <2>7, <2>8, <2>9 DEF Next, Offer, ProducerStep
<1>3. KeyInv => OncePerWindow
  BY DEF KeyInv
<1> QED
  BY <1>1, <1>2, <1>3, TypeCorrect, PTL DEF Spec
=============================================================================
