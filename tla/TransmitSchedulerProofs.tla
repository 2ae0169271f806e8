----------------------- MODULE TransmitSchedulerProofs -----------------------
(***************************************************************************)
(* Theorems about TransmitScheduler, for all capacities, reserves, sets of *)
(* producers and calls.                                                    *)
(***************************************************************************)
EXTENDS TransmitScheduler, FiniteSetTheorems, SequenceTheorems, TLAPS

LEMMA CountType ==
  ASSUME NEW p \in Counters, NEW class, NEW frames \in Int, NEW fragments \in Int
  PROVE  Count(p, class, frames, fragments) \in Counters
BY DEF Counters, Count

LEMMA BlankType == Blank \in Infos
BY SchedulerAssumption DEF Blank, Infos, Classes

LEMMA WorkerType ==
  ASSUME worker \in Workers
  PROVE  /\ worker.phase \in {"pacing", "sending"} => worker.batch \in Batches
         /\ worker.phase \in {"idle", "stopped"} => worker.batch = None
BY DEF Workers

LEMMA RequeueType ==
  ASSUME TypeOK, NEW b \in Batches, Requeue(b, info[b].class)
  PROVE  queue' \in [Classes -> Seq(Batches)]
<1>1. info[b].class \in Classes
  BY DEF TypeOK, Infos
<1>2. <<b>> \o queue[info[b].class] \in Seq(Batches)
  BY <1>1 DEF TypeOK
<1> QED
  BY <1>1, <1>2 DEF TypeOK, Requeue

(* Admit, whoever calls it.                                                *)
LEMMA AdmitType ==
  ASSUME TypeOK, NEW call \in Calls, Admit(call)
  PROVE  /\ left' \in [Batches -> Nat]
         /\ info' \in [Batches -> Infos]
         /\ queue' \in [Classes -> Seq(Batches)]
         /\ pending' \in Counters
         /\ serializedFrames' \in Int
<1> DEFINE b == CHOOSE x \in Free : TRUE
<1>1. b \in Batches
  BY DEF Admit, Free
<1>2. call.class \in Classes /\ call.size \in Nat
  BY SchedulerAssumption
<1>3. left' \in [Batches -> Nat]
  BY <1>1, <1>2 DEF Admit, TypeOK
<1>4. Batch(call) \in Infos
  <2>1. Serialized(call) \in BOOLEAN
    BY DEF Serialized
  <2>2. 0 \in 0..MaxFailures - 1
    BY SchedulerAssumption
  <2> QED
    BY <1>2, <2>1, <2>2 DEF Batch, Infos
<1>5. info' \in [Batches -> Infos]
  BY <1>1, <1>4 DEF Admit, TypeOK
<1>6. queue' \in [Classes -> Seq(Batches)]
  <2>1. Append(queue[call.class], b) \in Seq(Batches)
    BY <1>1, <1>2 DEF TypeOK
  <2> QED
    BY <1>2, <2>1 DEF Admit, TypeOK
<1>7. pending' \in Counters
  BY <1>2, CountType DEF Admit, TypeOK
<1>8. serializedFrames' \in Int
  BY DEF Admit, TypeOK
<1> QED
  BY <1>3, <1>5, <1>6, <1>7, <1>8

(* The types hold whatever producers and worker do.                        *)
LEMMA TypeInit == Init => TypeOK
<1> SUFFICES ASSUME Init PROVE TypeOK
  OBVIOUS
<1> USE SchedulerAssumption DEF Init
<1>1. info \in [Batches -> Infos]
  BY BlankType
<1>2. pending \in Counters
  BY DEF NothingPending, Counters
<1>3. worker \in Workers
  BY DEF Workers
<1>4. queue \in [Classes -> Seq(Batches)]
  OBVIOUS
<1>5. blocked \in [Producers -> Calls \cup {None}]
  OBVIOUS
<1>6. left \in [Batches -> Nat] /\ serializedFrames \in Int /\ controlSends \in 0..1
  OBVIOUS
<1>7. otherFrames \in 0..AnnounceBurst
  OBVIOUS
<1>8. announceDue \in BOOLEAN /\ closed \in BOOLEAN
  BY Zenon
<1> QED
  BY <1>1, <1>2, <1>3, <1>4, <1>5, <1>6, <1>7, <1>8 DEF TypeOK

LEMMA TakesWaiting ==
  ASSUME Take
  PROVE  \E c \in Classes :
           /\ Waiting(c)
           /\ worker' = [phase |-> "pacing", batch |-> Head(queue[c])]
           /\ queue' = [queue EXCEPT ![c] = Tail(@)]
<1>1. \A c \in Classes : Choice(c) => Waiting(c)
  BY DEF Choice, Classes, ChooseControl, AnnounceReady
<1> QED
  BY <1>1 DEF Take

LEMMA TypeStep == TypeOK /\ [Next]_vars => TypeOK'
<1> SUFFICES ASSUME TypeOK, [Next]_vars PROVE TypeOK'
  OBVIOUS
<1> USE SchedulerAssumption DEF TypeOK
<1>1. ASSUME NEW call \in Calls, Enqueue(call) PROVE TypeOK'
  BY <1>1, AdmitType DEF Enqueue, Admit
<1>2. ASSUME NEW call \in Calls, Block(call) PROVE TypeOK'
  BY <1>2 DEF Block
<1>3. ASSUME NEW p \in Producers, Resume(p) PROVE TypeOK'
  <2>1. blocked[p] \in Calls /\ Admit(blocked[p])
    BY <1>3 DEF Resume
  <2> QED
    BY <1>3, <2>1, AdmitType DEF Resume, Admit
<1>4. ASSUME NEW p \in Producers, GiveUp(p) PROVE TypeOK'
  BY <1>4 DEF GiveUp
<1>5. CASE Take
  <2> PICK c \in Classes : Waiting(c) /\ worker' = [phase |-> "pacing", batch |-> Head(queue[c])]
                            /\ queue' = [queue EXCEPT ![c] = Tail(@)]
    BY <1>5, TakesWaiting
  <2>1. Head(queue[c]) \in Batches /\ Tail(queue[c]) \in Seq(Batches)
    BY DEF Waiting
  <2>2. worker' \in Workers
    BY <2>1 DEF Workers
  <2>3. queue' \in [Classes -> Seq(Batches)]
    BY <2>1
  <2> QED
    BY <1>5, <2>2, <2>3 DEF Take
<1>6. CASE StartSend
  <2>1. worker' \in Workers
    BY <1>6 DEF StartSend, Workers
  <2> QED
    BY <1>6, <2>1 DEF StartSend
<1>7. CASE SendMore
  <2> DEFINE b == worker.batch
  <2>1. b \in Batches
    BY <1>7, WorkerType DEF SendMore
  <2>2. left' \in [Batches -> Nat]
    BY <1>7, <2>1 DEF SendMore
  <2>3. info' \in [Batches -> Infos]
    BY <1>7, <2>1 DEF SendMore, Infos
  <2>4. queue' \in [Classes -> Seq(Batches)]
    BY <1>7, <2>1, RequeueType DEF SendMore
  <2>5. pending' \in Counters
    BY <1>7, CountType DEF SendMore
  <2>6. worker' \in Workers
    BY <1>7 DEF SendMore, Idle, Workers
  <2> QED
    BY <1>7, <2>2, <2>3, <2>4, <2>5, <2>6 DEF SendMore
<1>8. CASE SendLast
  <2> DEFINE b == worker.batch
  <2>1. b \in Batches
    BY <1>8, WorkerType DEF SendLast
  <2>2. left' \in [Batches -> Nat]
    BY <1>8, <2>1 DEF SendLast
  <2>3. info' \in [Batches -> Infos]
    BY <1>8, <2>1, BlankType DEF SendLast
  <2>4. pending' \in Counters
    BY <1>8, CountType DEF SendLast
  <2>5. serializedFrames' \in Int
    BY <1>8 DEF SendLast
  <2>6. worker' \in Workers
    BY <1>8 DEF SendLast, Idle, Workers
  <2>7. otherFrames' \in 0..AnnounceBurst
    BY <1>8 DEF SendLast
  <2>8. announceDue' \in BOOLEAN
    <3>1. announceDue' = ~PaceAnnounces \/ announceDue' = announceDue
      BY ONLY <1>8 DEF SendLast
    <3> QED
      BY <3>1
  <2> QED
    BY <1>8, <2>2, <2>3, <2>4, <2>5, <2>6, <2>7, <2>8 DEF SendLast
<1>9. CASE Retry
  <2> DEFINE b == worker.batch
  <2>1. b \in Batches
    BY <1>9, WorkerType DEF Retry
  <2>2. info' \in [Batches -> Infos]
    <3>1. info[b].failures + 1 \in 0..MaxFailures - 1
      BY SMTT(30), <1>9, <2>1 DEF Retry, GivesUp, Infos
    <3>2. info' = [info EXCEPT ![b].failures = @ + 1]
      BY <1>9 DEF Retry
    <3>3. info[b] \in Infos
      BY <2>1
    <3>4. [info[b] EXCEPT !.failures = @ + 1] \in Infos
      BY ONLY <3>1, <3>3 DEF Infos
    <3> HIDE DEF b
    <3> QED
      BY <2>1, <3>2, <3>4
  <2>3. queue' \in [Classes -> Seq(Batches)]
    BY <1>9, <2>1, RequeueType DEF Retry
  <2>4. worker' \in Workers
    BY <1>9 DEF Retry, Idle, Workers
  <2> QED
    BY <1>9, <2>2, <2>3, <2>4 DEF Retry
<1>10. CASE Abandon
  <2> DEFINE b == worker.batch
  <2>1. b \in Batches
    BY <1>10, WorkerType DEF Abandon
  <2>2. left' \in [Batches -> Nat]
    BY <1>10, <2>1 DEF Abandon
  <2>3. info' \in [Batches -> Infos]
    BY <1>10, <2>1, BlankType DEF Abandon
  <2>4. pending' \in Counters
    BY <1>10, <2>1, CountType DEF Abandon, Abandoned
  <2>5. serializedFrames' \in Int
    BY <1>10 DEF Abandon, Released
  <2>6. worker' \in Workers
    BY <1>10 DEF Abandon, Idle, Workers
  <2> QED
    BY <1>10, <2>2, <2>3, <2>4, <2>5, <2>6 DEF Abandon
<1>11. CASE Stop
  BY <1>11 DEF Stop, Workers
<1>12. CASE AnnounceTimer
  BY <1>12 DEF AnnounceTimer
<1>13. CASE Close
  <2>1. left' \in [Batches -> Nat]
    BY <1>13 DEF Close
  <2>2. info' \in [Batches -> Infos]
    BY <1>13, BlankType DEF Close
  <2>3. pending' \in Counters
    BY <1>13 DEF Close, NothingPending, Counters
  <2>4. queue' \in [Classes -> Seq(Batches)]
    BY <1>13 DEF Close
  <2> QED
    BY <1>13, <2>1, <2>2, <2>3, <2>4 DEF Close
<1>14. CASE UNCHANGED vars
  BY <1>14 DEF vars
<1> QED
  BY <1>1, <1>2, <1>3, <1>4, <1>5, <1>6, <1>7, <1>8, <1>9, <1>10, <1>11, <1>12, <1>13,
     <1>14 DEF Next

(* The state of TransmitScheduler.java has its types after every step.     *)
THEOREM TypeCorrect == Spec => []TypeOK
BY TypeInit, TypeStep, PTL DEF Spec
-----------------------------------------------------------------------------
(* Counting.  One batch more or less changes a count by one, and the       *)
(* number of fragments by what is left of that batch.                      *)
LEMMA FragmentsFinite ==
  ASSUME NEW sizes \in [Batches -> Nat], NEW S \in SUBSET Batches
  PROVE  /\ IsFiniteSet(S)
         /\ IsFiniteSet(Fragments(sizes, S))
         /\ Cardinality(S) \in Nat
         /\ Cardinality(Fragments(sizes, S)) \in Nat
<1>1. IsFiniteSet(S)
  BY SchedulerAssumption, FS_Subset
<1>2. IsFiniteSet(1..MaxSize)
  <2>1. MaxSize \in Int
    BY SchedulerAssumption DEF MaxSize
  <2> QED
    BY <2>1, FS_Interval
<1>3. IsFiniteSet(S \X (1..MaxSize))
  BY <1>1, <1>2, FS_Product
<1>4. Fragments(sizes, S) \in SUBSET (S \X (1..MaxSize))
  BY DEF Fragments
<1>5. IsFiniteSet(Fragments(sizes, S))
  BY <1>3, <1>4, FS_Subset
<1> QED
  BY <1>1, <1>5, FS_CardinalityType

LEMMA OneMore ==
  ASSUME NEW sizes \in [Batches -> Nat], NEW S \in SUBSET Batches, NEW b \in Batches,
         b \notin S, sizes[b] <= MaxSize
  PROVE  /\ Cardinality(S \cup {b}) = Cardinality(S) + 1
         /\ Cardinality(Fragments(sizes, S \cup {b}))
              = Cardinality(Fragments(sizes, S)) + sizes[b]
<1> DEFINE own == {b} \X (1..sizes[b])
<1>1. Cardinality(S \cup {b}) = Cardinality(S) + 1
  BY FragmentsFinite, FS_AddElement
<1>2. IsFiniteSet(1..sizes[b]) /\ Cardinality(1..sizes[b]) = sizes[b]
  BY FS_Interval
<1>3. IsFiniteSet({b}) /\ Cardinality({b}) = 1
  BY FS_Singleton
<1>4. IsFiniteSet(own) /\ Cardinality(own) = sizes[b]
  <2>1. IsFiniteSet(own) /\ Cardinality(own) = Cardinality({b}) * Cardinality(1..sizes[b])
    BY <1>2, <1>3, FS_Product
  <2> QED
    BY <1>2, <1>3, <2>1
<1>5. Fragments(sizes, S \cup {b}) = Fragments(sizes, S) \cup own
  BY SchedulerAssumption DEF Fragments, MaxSize
<1>6. Fragments(sizes, S) \cap own = {}
  BY DEF Fragments
<1>7. Cardinality(Fragments(sizes, S) \cup own)
        = Cardinality(Fragments(sizes, S)) + Cardinality(own) - Cardinality({})
  BY <1>4, <1>6, FragmentsFinite, FS_Union
<1>8. Cardinality(Fragments(sizes, S)) \in Nat /\ sizes[b] \in Nat /\ Cardinality({}) = 0
  BY FragmentsFinite, FS_EmptySet
<1>9. Cardinality(Fragments(sizes, S \cup {b}))
        = Cardinality(Fragments(sizes, S)) + sizes[b] - 0
  BY <1>4, <1>5, <1>7, <1>8
<1> HIDE DEF own
<1> QED
  BY <1>1, <1>8, <1>9

(* What b adds to the counts of the set S.                                 *)
Share(b, S) == IF b \in S THEN 1 ELSE 0
FragmentShare(sizes, b, S) == IF b \in S THEN sizes[b] ELSE 0

LEMMA Without ==
  ASSUME NEW sizes \in [Batches -> Nat], NEW S \in SUBSET Batches, NEW b \in Batches,
         sizes[b] <= MaxSize
  PROVE  /\ Cardinality(S \ {b}) \in Nat
         /\ Cardinality(Fragments(sizes, S \ {b})) \in Nat
         /\ Cardinality(S) = Cardinality(S \ {b}) + Share(b, S)
         /\ Cardinality(Fragments(sizes, S))
              = Cardinality(Fragments(sizes, S \ {b})) + FragmentShare(sizes, b, S)
<1>1. S \ {b} \in SUBSET Batches
  OBVIOUS
<1>2. CASE b \in S
  <2>1. S = (S \ {b}) \cup {b}
    BY <1>2
  <2>2. /\ Cardinality((S \ {b}) \cup {b}) = Cardinality(S \ {b}) + 1
        /\ Cardinality(Fragments(sizes, (S \ {b}) \cup {b}))
             = Cardinality(Fragments(sizes, S \ {b})) + sizes[b]
    BY <1>1, OneMore
  <2> QED
    BY <1>1, <1>2, <2>1, <2>2, FragmentsFinite DEF Share, FragmentShare
<1>3. CASE b \notin S
  <2>1. S \ {b} = S
    BY <1>3
  <2> QED
    BY <1>3, <2>1, FragmentsFinite DEF Share, FragmentShare
<1> QED
  BY <1>2, <1>3
-----------------------------------------------------------------------------
(* Where the batches are: whatever is queued or in flight is live, is in   *)
(* the queue of its class, and is there once.                              *)
Bounded == \A b \in Batches : left[b] <= MaxSize

InFlightLive == worker.phase \in {"pacing", "sending"} => left[worker.batch] > 0

QueuedLive ==
  \A c \in Classes : \A i \in DOMAIN queue[c] :
    /\ left[queue[c][i]] > 0
    /\ info[queue[c][i]].class = c
    /\ queue[c][i] # worker.batch

QueuedOnce ==
  \A c \in Classes : \A i, j \in DOMAIN queue[c] : queue[c][i] = queue[c][j] => i = j

Placed == Bounded /\ InFlightLive /\ QueuedLive /\ QueuedOnce

LEMMA PlacedInit == Init => Placed
BY SchedulerAssumption
   DEF Init, Placed, Bounded, InFlightLive, QueuedLive, QueuedOnce, MaxSize

LEMMA WorkerHolds ==
  ASSUME TypeOK
  PROVE  \/ worker.phase \in {"pacing", "sending"} /\ worker.batch \in Batches
         \/ worker.phase \in {"idle", "stopped"} /\ worker.batch \notin Batches
BY SchedulerAssumption DEF TypeOK, Workers

LEMMA Prepended ==
  ASSUME NEW q \in Seq(Batches), NEW b \in Batches
  PROVE  /\ <<b>> \o q \in Seq(Batches)
         /\ DOMAIN (<<b>> \o q) = 1..Len(q) + 1
         /\ \A i \in 1..Len(q) + 1 : (<<b>> \o q)[i] = IF i = 1 THEN b ELSE q[i - 1]
<1>1. <<b>> \in Seq(Batches) /\ Len(<<b>>) = 1 /\ <<b>>[1] = b
  OBVIOUS
<1> QED
  BY <1>1

LEMMA AdmitPlaced ==
  ASSUME TypeOK, TypeOK', Placed, NEW call \in Calls, Admit(call)
  PROVE  Placed'
<1> DEFINE b == CHOOSE x \in Free : TRUE
<1>1. b \in Batches /\ left[b] = 0
  BY DEF Admit, Free
<1>2. call.class \in Classes /\ call.size \in Nat \ {0} /\ call.size <= MaxSize
  BY SchedulerAssumption
     DEF Admit, Eligible, CanEverFit, FragmentLimit, Serialized, MaxSize
<1>3. /\ left' = [left EXCEPT ![b] = call.size]
      /\ info' = [info EXCEPT ![b] = Batch(call)]
      /\ queue' = [queue EXCEPT ![call.class] = Append(@, b)]
      /\ worker' = worker
  BY DEF Admit
<1> HIDE DEF b
<1>4. b # worker.batch
  BY <1>1, WorkerHolds DEF Placed, InFlightLive
<1>5. Bounded' /\ InFlightLive'
  BY <1>1, <1>2, <1>3, WorkerType DEF Placed, Bounded, InFlightLive, TypeOK
<1>6. Batch(call).class = call.class
  BY DEF Batch
<1>7. ASSUME NEW c \in Classes, NEW i \in DOMAIN queue'[c]
      PROVE  \/ i \in DOMAIN queue[c] /\ queue'[c][i] = queue[c][i] /\ queue[c][i] # b
             \/ c = call.class /\ i = Len(queue[c]) + 1 /\ queue'[c][i] = b
  BY <1>1, <1>2, <1>3, <1>7 DEF Placed, QueuedLive, TypeOK
<1>8. QueuedLive'
  BY SMTT(30), <1>1, <1>2, <1>3, <1>4, <1>6, <1>7 DEF Placed, QueuedLive, TypeOK
<1>9. QueuedOnce'
  BY <1>7 DEF Placed, QueuedOnce
<1> QED
  BY <1>5, <1>8, <1>9 DEF Placed

LEMMA Shortened ==
  ASSUME NEW q \in Seq(Batches), q # <<>>, NEW i \in DOMAIN Tail(q)
  PROVE  /\ i \in Nat \ {0} /\ i + 1 \in DOMAIN q
         /\ Tail(q)[i] = q[i + 1]
<1>1. Tail(q) \in Seq(Batches) /\ Len(Tail(q)) = Len(q) - 1 /\ Len(q) \in Nat \ {0}
  OBVIOUS
<1>2. i \in 1..Len(q) - 1
  BY <1>1
<1> QED
  BY <1>1, <1>2

LEMMA TakePlaced ==
  ASSUME TypeOK, TypeOK', Placed, Take
  PROVE  Placed'
<1> PICK c \in Classes : /\ Waiting(c)
                         /\ worker' = [phase |-> "pacing", batch |-> Head(queue[c])]
                         /\ queue' = [queue EXCEPT ![c] = Tail(@)]
  BY TakesWaiting
<1>1. left' = left /\ info' = info
  BY DEF Take
<1>2. 1 \in DOMAIN queue[c] /\ Head(queue[c]) = queue[c][1]
  BY DEF Waiting, TypeOK
<1>3. left[Head(queue[c])] > 0 /\ info[Head(queue[c])].class = c
  BY <1>2 DEF Placed, QueuedLive
<1>4. ASSUME NEW k \in Classes, NEW i \in DOMAIN queue'[k]
      PROVE  \/ k # c /\ queue'[k] = queue[k]
             \/ k = c /\ i + 1 \in DOMAIN queue[k] /\ queue'[k][i] = queue[k][i + 1]
  <2>1. /\ queue[c] \in Seq(Batches) /\ queue[c] # <<>>
        /\ queue'[k] = IF k = c THEN Tail(queue[c]) ELSE queue[k]
    BY DEF Waiting, TypeOK
  <2> QED
    BY <1>4, <2>1, Shortened
<1>5. \A k \in Classes : \A i \in DOMAIN queue'[k] : i \in Nat \ {0}
  <2>1. \A k \in Classes : queue'[k] \in Seq(Batches)
    BY DEF TypeOK
  <2> QED
    BY <2>1
<1>6. QueuedLive'
  BY <1>1, <1>2, <1>3, <1>4, <1>5 DEF Placed, QueuedLive, QueuedOnce
<1>7. QueuedOnce'
  <2> SUFFICES ASSUME NEW k \in Classes, NEW i \in DOMAIN queue'[k], NEW j \in DOMAIN queue'[k],
                      queue'[k][i] = queue'[k][j]
               PROVE  i = j
    BY DEF QueuedOnce
  <2>1. CASE k # c
    BY <1>4, <2>1 DEF Placed, QueuedOnce
  <2>2. CASE k = c
    BY <1>4, <1>5, <2>2 DEF Placed, QueuedOnce
  <2> QED
    BY <2>1, <2>2
<1> QED
  BY <1>1, <1>3, <1>6, <1>7 DEF Placed, Bounded, InFlightLive

(* The worker puts its batch back, which stays live.                       *)
LEMMA RequeuePlaced ==
  ASSUME TypeOK, TypeOK', Placed, NEW b \in Batches, b = worker.batch,
         Requeue(b, info[b].class), worker' = Idle,
         left'[b] \in 1..left[b], info'[b].class = info[b].class,
         \A x \in Batches \ {b} : left'[x] = left[x] /\ info'[x] = info[x]
  PROVE  Placed'
<1> DEFINE class == info[b].class
<1>1. class \in Classes
  BY DEF TypeOK, Infos
<1>2. ASSUME NEW k \in Classes, NEW i \in DOMAIN queue'[k]
      PROVE  \/ k # class /\ queue'[k] = queue[k]
             \/ k = class /\ i = 1 /\ queue'[k][i] = b
             \/ k = class /\ i # 1 /\ i - 1 \in DOMAIN queue[k] /\ queue'[k][i] = queue[k][i - 1]
  <2>1. CASE k # class
    BY <1>1, <2>1 DEF Requeue, TypeOK
  <2>2. CASE k = class
    <3>1. queue[k] \in Seq(Batches) /\ queue'[k] = <<b>> \o queue[k]
      BY <1>1, <2>2 DEF Requeue, TypeOK
    <3>2. /\ DOMAIN queue'[k] = 1..Len(queue[k]) + 1 /\ Len(queue[k]) \in Nat
          /\ DOMAIN queue[k] = 1..Len(queue[k])
          /\ \A j \in 1..Len(queue[k]) + 1 : queue'[k][j] = IF j = 1 THEN b ELSE queue[k][j - 1]
      BY <3>1, Prepended
    <3> DEFINE L == Len(queue[k])
    <3> HIDE DEF L
    <3>3. i = 1 \/ (i # 1 /\ i - 1 \in 1..L)
      BY ONLY <1>2, <3>2 DEF L
    <3> QED
      BY <1>2, <2>2, <3>2, <3>3 DEF L
  <2> QED
    BY <2>1, <2>2
<1>3. \A k \in Classes : \A i \in DOMAIN queue[k] : queue[k][i] \in Batches \ {b}
  BY DEF Placed, QueuedLive, TypeOK
<1>4. \A k \in Classes : \A i \in DOMAIN queue'[k] : i \in Nat \ {0}
  BY DEF TypeOK
<1>5. worker'.batch \notin Batches
  BY SchedulerAssumption DEF Idle
<1>6. QueuedLive'
  <2> SUFFICES ASSUME NEW k \in Classes, NEW i \in DOMAIN queue'[k]
               PROVE  /\ left'[queue'[k][i]] > 0
                      /\ info'[queue'[k][i]].class = k
                      /\ queue'[k][i] # worker'.batch
    BY DEF QueuedLive
  <2>1. CASE queue'[k][i] = b
    <3>1. k = class
      BY <1>2, <1>3, <2>1
    <3>2. left'[b] > 0
      BY DEF TypeOK
    <3> QED
      BY <1>5, <2>1, <3>1, <3>2
  <2>2. CASE queue'[k][i] # b
    <3>1. \E j \in DOMAIN queue[k] : queue'[k][i] = queue[k][j]
      BY <1>2, <2>2
    <3> QED
      BY <1>3, <1>5, <3>1 DEF Placed, QueuedLive
  <2> QED
    BY <2>1, <2>2
<1>7. QueuedOnce'
  BY <1>1, <1>2, <1>3, <1>4 DEF Placed, QueuedOnce
<1>8. Bounded'
  <2> SUFFICES ASSUME NEW x \in Batches PROVE left'[x] <= MaxSize
    BY DEF Bounded
  <2>1. left[x] \in Nat /\ left[x] <= MaxSize /\ MaxSize \in Int
    BY SchedulerAssumption DEF Placed, Bounded, TypeOK, MaxSize
  <2>2. CASE x = b
    BY <2>1, <2>2
  <2>3. CASE x # b
    BY <2>1, <2>3
  <2> QED
    BY <2>2, <2>3
<1> QED
  BY <1>6, <1>7, <1>8 DEF Placed, InFlightLive, Idle

(* The batch of the worker leaves.                                         *)
LEMMA LeavePlaced ==
  ASSUME TypeOK, TypeOK', Placed, NEW b \in Batches, b = worker.batch,
         queue' = queue, worker' = Idle,
         left' = [left EXCEPT ![b] = 0], info' = [info EXCEPT ![b] = Blank]
  PROVE  Placed'
<1>1. worker'.batch \notin Batches
  BY SchedulerAssumption DEF Idle
<1>2. QueuedLive'
  BY <1>1 DEF Placed, QueuedLive, TypeOK
<1>3. Bounded' /\ InFlightLive'
  BY SchedulerAssumption DEF Placed, Bounded, InFlightLive, TypeOK, MaxSize, Idle
<1> QED
  BY <1>2, <1>3 DEF Placed, QueuedOnce

LEMMA PlacedStep ==
  ASSUME TypeOK, TypeOK', Placed, [Next]_vars
  PROVE  Placed'
<1>1. ASSUME NEW call \in Calls, Enqueue(call) PROVE Placed'
  BY <1>1, AdmitPlaced DEF Enqueue
<1>2. ASSUME NEW p \in Producers, Resume(p) PROVE Placed'
  <2>1. blocked[p] \in Calls /\ Admit(blocked[p])
    BY <1>2 DEF Resume, TypeOK
  <2> QED
    BY <2>1, AdmitPlaced
<1>3. CASE Take
  BY <1>3, TakePlaced
<1>4. CASE StartSend
  BY <1>4 DEF StartSend, Placed, Bounded, InFlightLive, QueuedLive, QueuedOnce, TypeOK, Workers
<1>5. CASE SendMore
  <2>1. worker.batch \in Batches
    BY <1>5, WorkerHolds DEF SendMore
  <2>2. left'[worker.batch] \in 1..left[worker.batch]
    BY <1>5, <2>1 DEF SendMore, TypeOK
  <2>3. info'[worker.batch].class = info[worker.batch].class
    BY <1>5, <2>1 DEF SendMore, TypeOK, Infos
  <2>4. \A x \in Batches \ {worker.batch} : left'[x] = left[x] /\ info'[x] = info[x]
    BY <1>5, <2>1 DEF SendMore, TypeOK
  <2> QED
    BY <1>5, <2>1, <2>2, <2>3, <2>4, RequeuePlaced DEF SendMore
<1>6. CASE SendLast
  BY <1>6, WorkerHolds, LeavePlaced DEF SendLast
<1>7. CASE Retry
  <2>1. worker.batch \in Batches
    BY <1>7, WorkerHolds DEF Retry
  <2>2. /\ left'[worker.batch] \in 1..left[worker.batch]
        /\ info'[worker.batch].class = info[worker.batch].class
        /\ \A x \in Batches \ {worker.batch} : left'[x] = left[x] /\ info'[x] = info[x]
    BY SMTT(30), <1>7, <2>1 DEF Retry, TypeOK, Infos, Placed, InFlightLive
  <2> QED
    BY <1>7, <2>1, <2>2, RequeuePlaced DEF Retry
<1>8. CASE Abandon
  BY <1>8, WorkerHolds, LeavePlaced DEF Abandon
<1>9. CASE Stop
  BY <1>9, SchedulerAssumption
     DEF Stop, Placed, Bounded, InFlightLive, QueuedLive, QueuedOnce, TypeOK
<1>10. CASE Close
  BY <1>10, SchedulerAssumption, WorkerHolds
     DEF Close, Placed, Bounded, InFlightLive, QueuedLive, QueuedOnce, TypeOK, MaxSize
<1>11. ASSUME UNCHANGED <<queue, left, info, worker>> PROVE Placed'
  BY <1>11 DEF Placed, Bounded, InFlightLive, QueuedLive, QueuedOnce
<1> QED
  BY <1>1, <1>2, <1>3, <1>4, <1>5, <1>6, <1>7, <1>8, <1>9, <1>10, <1>11
     DEF Next, Block, GiveUp, AnnounceTimer, vars
-----------------------------------------------------------------------------
(* The counters follow a step that touches one batch only.                 *)
LEMMA Recount ==
  ASSUME TypeOK, TypeOK', Bounded, Bounded', Accounting, ~closed, NEW b \in Batches,
         \A x \in Batches \ {b} : /\ left'[x] = left[x]
                                   /\ info'[x].class = info[x].class
                                   /\ info'[x].serialized = info[x].serialized,
         pending'.frames = pending.frames - Share(b, Live) + Share(b, Live'),
         pending'.fragments = pending.fragments - left[b] + left'[b],
         pending'.controlFrames = pending.controlFrames
           - Share(b, LiveIn("control")) + Share(b, LiveIn("control")'),
         pending'.controlFragments = pending.controlFragments
           - FragmentShare(left, b, LiveIn("control"))
           + FragmentShare(left', b, LiveIn("control")'),
         serializedFrames' = serializedFrames - Share(b, Serial) + Share(b, Serial')
  PROVE  Accounting'
<1> DEFINE C == LiveIn("control")
<1>1. /\ Live \in SUBSET Batches /\ Live' \in SUBSET Batches
      /\ C \in SUBSET Batches /\ C' \in SUBSET Batches
      /\ Serial \in SUBSET Batches /\ Serial' \in SUBSET Batches
  BY DEF Live, LiveIn, Serial
<1>2. Live' \ {b} = Live \ {b} /\ C' \ {b} = C \ {b} /\ Serial' \ {b} = Serial \ {b}
  BY DEF Live, LiveIn, Serial
<1>3. /\ Fragments(left', Live \ {b}) = Fragments(left, Live \ {b})
      /\ Fragments(left', C \ {b}) = Fragments(left, C \ {b})
  BY DEF Fragments, Live, LiveIn
<1>4. /\ left \in [Batches -> Nat] /\ left' \in [Batches -> Nat]
      /\ left[b] <= MaxSize /\ left'[b] <= MaxSize
  BY DEF TypeOK, Bounded
<1>5. /\ Cardinality(Live \ {b}) \in Nat /\ Cardinality(Fragments(left, Live \ {b})) \in Nat
      /\ Cardinality(C \ {b}) \in Nat /\ Cardinality(Fragments(left, C \ {b})) \in Nat
      /\ Cardinality(Serial \ {b}) \in Nat
  BY <1>1, <1>4, Without
<1>6. \A S \in {Live, C, Serial} :
        Cardinality(S) = Cardinality(S \ {b}) + Share(b, S)
  BY <1>1, <1>4, Without
<1>7. \A S \in {Live', C', Serial'} :
        Cardinality(S) = Cardinality(S \ {b}) + Share(b, S)
  BY <1>1, <1>4, Without
<1>8. \A S \in {Live, C} :
        Cardinality(Fragments(left, S))
          = Cardinality(Fragments(left, S \ {b})) + FragmentShare(left, b, S)
  BY <1>1, <1>4, Without
<1>9. \A S \in {Live', C'} :
        Cardinality(Fragments(left', S))
          = Cardinality(Fragments(left', S \ {b})) + FragmentShare(left', b, S)
  BY <1>1, <1>4, Without
<1>10. /\ pending.frames = Cardinality(Live)
       /\ pending.fragments = Cardinality(Fragments(left, Live))
       /\ pending.controlFrames = Cardinality(C)
       /\ pending.controlFragments = Cardinality(Fragments(left, C))
       /\ serializedFrames = Cardinality(Serial)
  BY DEF Accounting, FragmentsOf
<1>11. pending'.frames = Cardinality(Live')
  <2>1. Cardinality(Live) = Cardinality(Live \ {b}) + Share(b, Live)
    BY <1>6
  <2>2. Cardinality(Live') = Cardinality(Live \ {b}) + Share(b, Live')
    BY <1>2, <1>7
  <2>3. Share(b, Live) \in Nat /\ Share(b, Live') \in Nat
    BY DEF Share
  <2>4. pending'.frames = pending.frames - Share(b, Live) + Share(b, Live')
    OBVIOUS
  <2> QED
    BY <1>5, <1>10, <2>1, <2>2, <2>3, <2>4
<1>12. pending'.fragments = Cardinality(Fragments(left', Live'))
  <2>1. Cardinality(Fragments(left, Live))
          = Cardinality(Fragments(left, Live \ {b})) + FragmentShare(left, b, Live)
    BY <1>8
  <2>2. Cardinality(Fragments(left', Live'))
          = Cardinality(Fragments(left, Live \ {b})) + FragmentShare(left', b, Live')
    BY <1>2, <1>3, <1>9
  <2>3. FragmentShare(left, b, Live) \in Nat /\ FragmentShare(left', b, Live') \in Nat
    BY <1>4 DEF FragmentShare
  <2>4. pending'.fragments = pending.fragments - FragmentShare(left, b, Live) + FragmentShare(left', b, Live')
    BY <1>4 DEF FragmentShare, Live
  <2> QED
    BY <1>5, <1>10, <2>1, <2>2, <2>3, <2>4
<1>13. pending'.controlFrames = Cardinality(C')
  <2>1. Cardinality(C) = Cardinality(C \ {b}) + Share(b, C)
    BY <1>6
  <2>2. Cardinality(C') = Cardinality(C \ {b}) + Share(b, C')
    BY <1>2, <1>7
  <2>3. Share(b, C) \in Nat /\ Share(b, C') \in Nat
    BY DEF Share
  <2>4. pending'.controlFrames = pending.controlFrames - Share(b, C) + Share(b, C')
    OBVIOUS
  <2> QED
    BY <1>5, <1>10, <2>1, <2>2, <2>3, <2>4
<1>14. pending'.controlFragments = Cardinality(Fragments(left', C'))
  <2>1. Cardinality(Fragments(left, C))
          = Cardinality(Fragments(left, C \ {b})) + FragmentShare(left, b, C)
    BY <1>8
  <2>2. Cardinality(Fragments(left', C'))
          = Cardinality(Fragments(left, C \ {b})) + FragmentShare(left', b, C')
    BY <1>2, <1>3, <1>9
  <2>3. FragmentShare(left, b, C) \in Nat /\ FragmentShare(left', b, C') \in Nat
    BY <1>4 DEF FragmentShare
  <2>4. pending'.controlFragments = pending.controlFragments - FragmentShare(left, b, C) + FragmentShare(left', b, C')
    OBVIOUS
  <2> QED
    BY <1>5, <1>10, <2>1, <2>2, <2>3, <2>4
<1>15. serializedFrames' = Cardinality(Serial')
  <2>1. Cardinality(Serial) = Cardinality(Serial \ {b}) + Share(b, Serial)
    BY <1>6
  <2>2. Cardinality(Serial') = Cardinality(Serial \ {b}) + Share(b, Serial')
    BY <1>2, <1>7
  <2>3. Share(b, Serial) \in Nat /\ Share(b, Serial') \in Nat
    BY DEF Share
  <2>4. serializedFrames' = serializedFrames - Share(b, Serial) + Share(b, Serial')
    OBVIOUS
  <2> QED
    BY <1>5, <1>10, <2>1, <2>2, <2>3, <2>4
<1> QED
  BY <1>11, <1>12, <1>13, <1>14, <1>15 DEF Accounting, FragmentsOf

LEMMA AccountingInit == Init => Accounting
<1> SUFFICES ASSUME Init PROVE Accounting
  OBVIOUS
<1>1. Live = {} /\ LiveIn("control") = {} /\ Serial = {}
  BY DEF Init, Live, LiveIn, Serial
<1>2. Fragments(left, {}) = {}
  BY DEF Fragments
<1> QED
  BY <1>1, <1>2, FS_EmptySet DEF Init, NothingPending, Accounting, FragmentsOf

LEMMA AdmitAccounting ==
  ASSUME TypeOK, TypeOK', Placed, Placed', Accounting, NEW call \in Calls, Admit(call)
  PROVE  Accounting'
<1> DEFINE b == CHOOSE x \in Free : TRUE
<1>1. b \in Batches /\ left[b] = 0
  BY DEF Admit, Free
<1>2. /\ left' = [left EXCEPT ![b] = call.size]
      /\ info' = [info EXCEPT ![b] = Batch(call)]
      /\ pending' = Count(pending, call.class, 1, call.size)
      /\ serializedFrames' = serializedFrames + IF Serialized(call) THEN 1 ELSE 0
      /\ ~closed
  BY DEF Admit
<1> HIDE DEF b
<1>3. call.class \in Classes /\ call.size \in Nat \ {0}
  BY SchedulerAssumption
<1>4. left'[b] = call.size /\ info'[b].class = call.class
  BY <1>1, <1>2 DEF TypeOK, Batch
<1>5. info'[b].serialized <=> Serialized(call)
  BY <1>1, <1>2 DEF TypeOK, Batch
<1>6. \A x \in Batches \ {b} : /\ left'[x] = left[x]
                               /\ info'[x].class = info[x].class
                               /\ info'[x].serialized = info[x].serialized
  BY <1>1, <1>2 DEF TypeOK
<1>7. b \notin Live /\ b \notin LiveIn("control") /\ b \notin Serial
  BY <1>1 DEF Live, LiveIn, Serial
<1>8. b \in Live' /\ (b \in LiveIn("control")' <=> call.class = "control")
  BY <1>1, <1>3, <1>4 DEF Live, LiveIn
<1>9. b \in Serial' <=> Serialized(call)
  BY <1>1, <1>5, <1>8 DEF Serial
<1>10. pending'.frames = pending.frames - Share(b, Live) + Share(b, Live')
  BY <1>2, <1>7, <1>8 DEF Count, Share, TypeOK, Counters
<1>11. pending'.fragments = pending.fragments - left[b] + left'[b]
  BY <1>1, <1>2, <1>3, <1>4 DEF Count, TypeOK, Counters
<1>12. pending'.controlFrames = pending.controlFrames
         - Share(b, LiveIn("control")) + Share(b, LiveIn("control")')
  BY <1>2, <1>7, <1>8 DEF Count, Control, Share, TypeOK, Counters
<1>13. pending'.controlFragments = pending.controlFragments
         - FragmentShare(left, b, LiveIn("control")) + FragmentShare(left', b, LiveIn("control")')
  BY <1>2, <1>3, <1>4, <1>7, <1>8 DEF Count, Control, FragmentShare, TypeOK, Counters
<1>14. serializedFrames' = serializedFrames - Share(b, Serial) + Share(b, Serial')
  BY <1>2, <1>7, <1>9 DEF Share, TypeOK
<1> QED
  BY <1>1, <1>2, <1>6, <1>10, <1>11, <1>12, <1>13, <1>14, Recount DEF Placed

(* The batch b leaves with the fragments it had left.                      *)
LEMMA LeaveAccounting ==
  ASSUME TypeOK, TypeOK', Placed, Placed', Accounting, ~closed,
         NEW b \in Batches, left[b] > 0,
         left' = [left EXCEPT ![b] = 0], info' = [info EXCEPT ![b] = Blank],
         pending' = Count(pending, info[b].class, -1, -left[b]),
         serializedFrames' = serializedFrames - IF info[b].serialized THEN 1 ELSE 0
  PROVE  Accounting'
<1>1. left'[b] = 0 /\ left[b] \in Nat
  BY DEF TypeOK
<1>2. \A x \in Batches \ {b} : /\ left'[x] = left[x]
                               /\ info'[x].class = info[x].class
                               /\ info'[x].serialized = info[x].serialized
  BY DEF TypeOK
<1>3. b \notin Live' /\ b \notin LiveIn("control")' /\ b \notin Serial'
  BY <1>1 DEF Live, LiveIn, Serial
<1>4. b \in Live /\ (b \in LiveIn("control") <=> info[b].class = "control")
  BY DEF Live, LiveIn
<1>5. b \in Serial <=> info[b].serialized
  BY <1>4 DEF Serial
<1>6. pending'.frames = pending.frames - Share(b, Live) + Share(b, Live')
  BY <1>3, <1>4 DEF Count, Share, TypeOK, Counters
<1>7. pending'.fragments = pending.fragments - left[b] + left'[b]
  BY <1>1 DEF Count, TypeOK, Counters
<1>8. pending'.controlFrames = pending.controlFrames
        - Share(b, LiveIn("control")) + Share(b, LiveIn("control")')
  BY <1>3, <1>4 DEF Count, Control, Share, TypeOK, Counters
<1>9. pending'.controlFragments = pending.controlFragments
        - FragmentShare(left, b, LiveIn("control")) + FragmentShare(left', b, LiveIn("control")')
  <2>1. FragmentShare(left', b, LiveIn("control")') = 0
    BY <1>3 DEF FragmentShare
  <2>2. CASE info[b].class = "control"
    BY <1>1, <1>4, <2>1, <2>2 DEF Count, Control, FragmentShare, TypeOK, Counters
  <2>3. CASE info[b].class # "control"
    BY <1>1, <1>4, <2>1, <2>3 DEF Count, Control, FragmentShare, TypeOK, Counters
  <2> QED
    BY <2>2, <2>3
<1>10. serializedFrames' = serializedFrames - Share(b, Serial) + Share(b, Serial')
  BY <1>3, <1>5 DEF Share, TypeOK
<1> QED
  BY <1>2, <1>6, <1>7, <1>8, <1>9, <1>10, Recount DEF Placed

LEMMA SendMoreAccounting ==
  ASSUME TypeOK, TypeOK', Placed, Placed', Accounting, ~closed, SendMore
  PROVE  Accounting'
<1> DEFINE b == worker.batch
<1>1. b \in Batches
  BY WorkerHolds DEF SendMore
<1>2. left[b] > 1 /\ left'[b] = left[b] - 1 /\ left[b] \in Nat
  BY <1>1 DEF SendMore, TypeOK
<1>3. info'[b].class = info[b].class /\ info'[b].serialized = info[b].serialized
  BY <1>1 DEF SendMore, TypeOK, Infos
<1>4. \A x \in Batches \ {b} : /\ left'[x] = left[x]
                               /\ info'[x].class = info[x].class
                               /\ info'[x].serialized = info[x].serialized
  BY <1>1 DEF SendMore, TypeOK
<1>5. pending' = Count(pending, info[b].class, 0, -1) /\ serializedFrames' = serializedFrames
  BY DEF SendMore
<1>6. b \in Live /\ b \in Live'
  BY <1>1, <1>2 DEF Live
<1>7. /\ b \in LiveIn("control") <=> info[b].class = "control"
      /\ b \in LiveIn("control")' <=> info[b].class = "control"
  BY <1>3, <1>6 DEF LiveIn
<1>8. b \in Serial <=> b \in Serial'
  BY <1>3, <1>6 DEF Serial
<1> HIDE DEF b
<1>9. pending'.frames = pending.frames - Share(b, Live) + Share(b, Live')
  BY <1>5, <1>6 DEF Count, Share, TypeOK, Counters
<1>10. pending'.fragments = pending.fragments - left[b] + left'[b]
  BY <1>2, <1>5 DEF Count, TypeOK, Counters
<1>11. pending'.controlFrames = pending.controlFrames
         - Share(b, LiveIn("control")) + Share(b, LiveIn("control")')
  BY <1>5, <1>7 DEF Count, Control, Share, TypeOK, Counters
<1>12. pending'.controlFragments = pending.controlFragments
         - FragmentShare(left, b, LiveIn("control")) + FragmentShare(left', b, LiveIn("control")')
  BY <1>2, <1>5, <1>7 DEF Count, Control, FragmentShare, TypeOK, Counters
<1>13. serializedFrames' = serializedFrames - Share(b, Serial) + Share(b, Serial')
  BY <1>5, <1>8 DEF Share, TypeOK
<1> QED
  BY <1>1, <1>4, <1>9, <1>10, <1>11, <1>12, <1>13, Recount DEF Placed

(* A step that neither adds nor removes fragments.                         *)
LEMMA SameAccounting ==
  ASSUME Accounting, closed' = closed, left' = left,
         \A x \in Batches : /\ info'[x].class = info[x].class
                            /\ info'[x].serialized = info[x].serialized,
         pending' = pending, serializedFrames' = serializedFrames
  PROVE  Accounting'
<1>1. Live' = Live /\ LiveIn("control")' = LiveIn("control") /\ Serial' = Serial
  BY DEF Live, LiveIn, Serial
<1> QED
  BY <1>1 DEF Accounting, FragmentsOf

LEMMA AccountingStep ==
  ASSUME TypeOK, TypeOK', Placed, Placed', Accounting, [Next]_vars
  PROVE  Accounting'
<1>1. CASE closed'
  BY <1>1 DEF Accounting
<1>2. CASE ~closed'
  <2>1. ~closed /\ closed' = closed
    BY <1>2 DEF Next, Enqueue, Resume, Admit, Block, GiveUp, Take, StartSend, SendMore, SendLast,
                Retry, Abandon, Stop, AnnounceTimer, Close, vars, TypeOK
  <2>2. ASSUME NEW call \in Calls, Enqueue(call) PROVE Accounting'
    BY <2>2, AdmitAccounting DEF Enqueue
  <2>3. ASSUME NEW p \in Producers, Resume(p) PROVE Accounting'
    <3>1. blocked[p] \in Calls /\ Admit(blocked[p])
      BY <2>3 DEF Resume, TypeOK
    <3> QED
      BY <3>1, AdmitAccounting
  <2>4. CASE SendMore
    BY <2>1, <2>4, SendMoreAccounting
  <2>5. CASE SendLast
    <3>1. worker.batch \in Batches /\ left[worker.batch] = 1
      BY <2>5, WorkerHolds DEF SendLast
    <3>2. pending' = Count(pending, info[worker.batch].class, -1, -left[worker.batch])
      BY <2>5, <3>1 DEF SendLast
    <3>3. /\ left' = [left EXCEPT ![worker.batch] = 0]
          /\ info' = [info EXCEPT ![worker.batch] = Blank]
      BY <2>5 DEF SendLast
    <3>4. serializedFrames'
            = serializedFrames - IF info[worker.batch].serialized THEN 1 ELSE 0
      BY <2>5 DEF SendLast
    <3>5. left[worker.batch] > 0
      BY <3>1
    <3> QED
      BY <2>1, <3>1, <3>2, <3>3, <3>4, <3>5, LeaveAccounting
  <2>6. CASE Retry
    <3>1. worker.batch \in Batches
      BY <2>6, WorkerHolds DEF Retry
    <3>2. \A x \in Batches : /\ info'[x].class = info[x].class
                             /\ info'[x].serialized = info[x].serialized
      BY <2>6, <3>1 DEF Retry, TypeOK, Infos
    <3> QED
      BY <2>1, <2>6, <3>2, SameAccounting DEF Retry
  <2>7. CASE Abandon
    BY <2>1, <2>7, WorkerHolds, LeaveAccounting
       DEF Abandon, Abandoned, Released, Placed, InFlightLive
  <2>8. ASSUME UNCHANGED <<left, info, pending, serializedFrames>> PROVE Accounting'
    BY <2>1, <2>8, SameAccounting
  <2>9. CASE Close
    BY <1>2, <2>9 DEF Close
  <2> QED
    BY <2>2, <2>3, <2>4, <2>5, <2>6, <2>7, <2>8, <2>9
       DEF Next, Block, GiveUp, Take, StartSend, Stop, AnnounceTimer, vars
<1> QED
  BY <1>1, <1>2

(* While the scheduler is open its counters are exact.  The inductive      *)
(* invariant adds where each batch is: the worker only takes live batches, *)
(* each of them once, so no frame is counted out twice.                    *)
THEOREM AccountingHolds == Spec => [](Placed /\ Accounting)
<1>1. Init => TypeOK /\ Placed /\ Accounting
  BY TypeInit, PlacedInit, AccountingInit
<1>2. TypeOK /\ Placed /\ Accounting /\ [Next]_vars => (TypeOK /\ Placed /\ Accounting)'
  BY TypeStep, PlacedStep, AccountingStep
<1> QED
  BY <1>1, <1>2, PTL DEF Spec
-----------------------------------------------------------------------------
(* No batch is forgotten: while the scheduler is open, a live batch waits  *)
(* in some queue or is with the worker, which has not stopped, and a       *)
(* producer only waits with a call that would fit into an empty scheduler. *)
Queued(b) == \E c \in Classes : \E i \in DOMAIN queue[c] : queue[c][i] = b

Kept == ~closed => \A b \in Live : Queued(b) \/ b = worker.batch
Running == worker.phase = "stopped" => closed
WaitsEligible == \A p \in Producers : blocked[p] # None => Eligible(blocked[p])

KeptInv == Kept /\ Running /\ WaitsEligible

(* What was queued stays so when a step only adds to the queues.           *)
LEMMA StillQueued ==
  ASSUME NEW b, Queued(b),
         \A c \in Classes : \A i \in DOMAIN queue[c] :
           \E j \in DOMAIN queue'[c] : queue'[c][j] = queue[c][i]
  PROVE  Queued(b)'
BY DEF Queued

LEMMA AdmitKeeps ==
  ASSUME TypeOK, Kept, NEW call \in Calls, Admit(call)
  PROVE  Kept'
<1>1. PICK b \in Batches :
        /\ left[b] = 0
        /\ left' = [left EXCEPT ![b] = call.size]
        /\ queue' = [queue EXCEPT ![call.class] = Append(@, b)]
  BY DEF Admit, Free
<1>2. call.class \in Classes
  BY SchedulerAssumption
<1>3. ~closed /\ worker' = worker
  BY DEF Admit
<1>4. queue[call.class] \in Seq(Batches)
  BY <1>2 DEF TypeOK
<1>5. Queued(b)'
  <2>1. /\ queue'[call.class] = Append(queue[call.class], b)
        /\ Len(queue[call.class]) + 1 \in DOMAIN Append(queue[call.class], b)
        /\ Append(queue[call.class], b)[Len(queue[call.class]) + 1] = b
    BY <1>1, <1>2, <1>4 DEF TypeOK
  <2> QED BY <1>2, <2>1 DEF Queued
<1>6. \A c \in Classes : \A i \in DOMAIN queue[c] :
        \E j \in DOMAIN queue'[c] : queue'[c][j] = queue[c][i]
  <2> SUFFICES ASSUME NEW c \in Classes, NEW i \in DOMAIN queue[c]
               PROVE  i \in DOMAIN queue'[c] /\ queue'[c][i] = queue[c][i]
    OBVIOUS
  <2>1. CASE c = call.class
    <3>1. queue'[c] = Append(queue[c], b)
      BY <1>1, <1>2, <2>1 DEF TypeOK
    <3> QED BY <1>1, <1>4, <2>1, <3>1
  <2>2. CASE c # call.class
    BY <1>1, <2>2 DEF TypeOK
  <2> QED BY <2>1, <2>2
<1>7. \A x \in Live' : x = b \/ x \in Live
  BY <1>1, <1>3 DEF Live, TypeOK
<1> QED BY <1>3, <1>5, <1>6, <1>7, StillQueued DEF Kept

LEMMA RequeueKeeps ==
  ASSUME TypeOK, Kept, ~closed, NEW b \in Batches, b = worker.batch,
         Requeue(b, info[b].class), Live' \subseteq Live
  PROVE  Kept'
<1>1. info[b].class \in Classes
  BY DEF TypeOK, Infos
<1>2. /\ queue[info[b].class] \in Seq(Batches)
      /\ queue'[info[b].class] = <<b>> \o queue[info[b].class]
  BY <1>1 DEF Requeue, TypeOK
<1>3. Queued(b)'
  BY <1>1, <1>2, Prepended DEF Queued
<1>4. \A c \in Classes : \A i \in DOMAIN queue[c] :
        \E j \in DOMAIN queue'[c] : queue'[c][j] = queue[c][i]
  <2> SUFFICES ASSUME NEW c \in Classes, NEW i \in DOMAIN queue[c]
               PROVE  \E j \in DOMAIN queue'[c] : queue'[c][j] = queue[c][i]
    OBVIOUS
  <2>1. CASE c = info[b].class
    <3>0. queue[c] \in Seq(Batches)
      BY <1>2, <2>1
    <3>a. Len(queue[c]) \in Nat /\ i \in 1..Len(queue[c])
      BY ONLY <3>0, i \in DOMAIN queue[c]
    <3>1. i \in 1..Len(queue[c]) /\ i + 1 \in 1..Len(queue[c]) + 1 /\ i + 1 # 1 /\ i + 1 - 1 = i
      BY ONLY <3>a
    <3>2. /\ DOMAIN queue'[c] = 1..Len(queue[c]) + 1
          /\ \A j \in 1..Len(queue[c]) + 1 : queue'[c][j] = IF j = 1 THEN b ELSE queue[c][j - 1]
      BY <1>2, <2>1, <3>0, Prepended
    <3> QED BY <3>1, <3>2
  <2>2. CASE c # info[b].class
    BY <2>2 DEF Requeue, TypeOK
  <2> QED BY <2>1, <2>2
<1> QED BY <1>3, <1>4, StillQueued DEF Kept

LEMMA TakeKeeps ==
  ASSUME TypeOK, Kept, Take
  PROVE  Kept'
<1> PICK c \in Classes : /\ Waiting(c)
                         /\ worker' = [phase |-> "pacing", batch |-> Head(queue[c])]
                         /\ queue' = [queue EXCEPT ![c] = Tail(@)]
  BY TakesWaiting
<1>1. ~closed /\ Live' = Live /\ worker.batch \notin Batches
  BY WorkerHolds DEF Take, Live
<1>2. queue[c] \in Seq(Batches) /\ queue[c] # <<>>
  BY DEF Waiting, TypeOK
<1> SUFFICES ASSUME NEW b \in Live PROVE Queued(b)' \/ b = worker'.batch
  BY <1>1 DEF Kept
<1>3. PICK k \in Classes : \E i \in DOMAIN queue[k] : queue[k][i] = b
  BY <1>1 DEF Kept, Queued, Live
<1> PICK i \in DOMAIN queue[k] : queue[k][i] = b
  BY <1>3
<1>4. CASE k # c
  BY <1>3, <1>4 DEF Queued, TypeOK
<1>5. CASE k = c /\ i = 1
  BY <1>2, <1>3, <1>5
<1>6. CASE k = c /\ i # 1
  <2>1. queue'[c] = Tail(queue[c])
    BY DEF TypeOK
  <2>2. i - 1 \in DOMAIN Tail(queue[c]) /\ Tail(queue[c])[i - 1] = queue[c][i]
    BY <1>2, <1>3, <1>6
  <2> QED BY <1>3, <1>6, <2>1, <2>2 DEF Queued
<1> QED BY <1>4, <1>5, <1>6

LEMMA KeptStep ==
  ASSUME TypeOK, TypeOK', KeptInv, [Next]_vars
  PROVE  KeptInv'
<1> USE DEF KeptInv
<1>0. \A call \in Calls : call # None
  BY SchedulerAssumption
<1>1. ASSUME NEW call \in Calls, Enqueue(call) PROVE KeptInv'
  BY <1>1, AdmitKeeps DEF Enqueue, Admit, Running, WaitsEligible
<1>2. ASSUME NEW call \in Calls, Block(call) PROVE KeptInv'
  <2>1. Eligible(call) /\ blocked' = [blocked EXCEPT ![call.producer] = call]
    BY <1>2 DEF Block
  <2>2. WaitsEligible'
    BY <2>1 DEF WaitsEligible, TypeOK
  <2> QED BY <1>2, <2>2 DEF Block, Running, Kept, Queued, Live
<1>3. ASSUME NEW p \in Producers, Resume(p) PROVE KeptInv'
  <2>1. blocked[p] \in Calls /\ Admit(blocked[p])
    BY <1>3 DEF Resume, TypeOK
  <2>2. WaitsEligible'
    BY <1>3 DEF Resume, WaitsEligible, TypeOK
  <2> QED BY <2>1, <2>2, AdmitKeeps DEF Admit, Running
<1>4. ASSUME NEW p \in Producers, GiveUp(p) PROVE KeptInv'
  BY <1>4 DEF GiveUp, WaitsEligible, TypeOK, Running, Kept
<1>5. CASE Take
  <2>1. worker'.phase = "pacing"
    BY <1>5 DEF Take
  <2> QED BY <1>5, <2>1, TakeKeeps DEF Take, Running, WaitsEligible
<1>6. CASE StartSend
  <2>1. worker'.phase = "sending" /\ worker'.batch = worker.batch
    BY <1>6 DEF StartSend, TypeOK, Workers
  <2> QED BY <1>6, <2>1 DEF StartSend, Running, WaitsEligible, Kept, Queued, Live
<1>7. ASSUME worker' = Idle, UNCHANGED blocked, Kept' PROVE KeptInv'
  BY <1>7 DEF Running, Idle, WaitsEligible
<1>8. ASSUME closed, closed', worker' = Idle, UNCHANGED blocked PROVE KeptInv'
  BY <1>8, <1>7 DEF Kept
<1>9. CASE SendMore
  <2>1. worker.batch \in Batches
    BY <1>9, WorkerHolds DEF SendMore
  <2>2. Live' \subseteq Live
    BY <1>9, <2>1 DEF SendMore, Live, TypeOK
  <2>3. ~closed => Kept'
    BY <1>9, <2>1, <2>2, RequeueKeeps DEF SendMore
  <2> QED BY <1>9, <2>3, <1>7, <1>8 DEF SendMore
<1>10. CASE Retry
  <2>1. worker.batch \in Batches
    BY <1>10, WorkerHolds DEF Retry
  <2>2. ~closed => Kept'
    BY <1>10, <2>1, RequeueKeeps DEF Retry, Live
  <2> QED BY <1>10, <2>2, <1>7, <1>8 DEF Retry
<1>11. CASE SendLast \/ Abandon
  <2>1. /\ worker.batch \in Batches /\ left' = [left EXCEPT ![worker.batch] = 0]
        /\ UNCHANGED <<queue, blocked, closed>> /\ worker' = Idle
    BY <1>11, WorkerHolds DEF SendLast, Abandon
  <2>2. Live' = Live \ {worker.batch}
    BY <2>1 DEF Live, TypeOK
  <2>3. Kept'
    BY <2>1, <2>2 DEF Kept, Queued
  <2> QED BY <2>1, <2>3, <1>7
<1>12. CASE Stop
  BY <1>12 DEF Stop, Running, WaitsEligible, Kept
<1>13. CASE Close
  BY <1>13 DEF Close, Running, WaitsEligible, Kept
<1>14. CASE AnnounceTimer
  BY <1>14 DEF AnnounceTimer, Running, WaitsEligible, Kept, Queued, Live
<1>15. CASE UNCHANGED vars
  BY <1>15 DEF vars, Running, WaitsEligible, Kept, Queued, Live
<1> QED BY <1>1, <1>2, <1>3, <1>4, <1>5, <1>6, <1>9, <1>10, <1>11, <1>12, <1>13, <1>14, <1>15
     DEF Next

(* Nobody waits for everybody: while a producer waits for room, there is   *)
(* something that will make room.  The worker holds a batch or finds one   *)
(* to take, or only an announce is left, whose time is yet to come.        *)
WorkLeft ==
  \/ worker.phase \in {"pacing", "sending"}
  \/ worker.phase = "idle" /\ \E c \in Classes : Choice(c)
  \/ worker.phase = "idle" /\ Waiting("announce") /\ ~announceDue

NoStandstill ==
  ~closed => \A p \in Producers : blocked[p] # None /\ ~Admissible(blocked[p]) => WorkLeft

(* An empty scheduler has room for every call that may wait.               *)
LEMMA RoomWhenEmpty ==
  ASSUME TypeOK, Accounting, ~closed, Live = {}, NEW call \in Calls, Eligible(call)
  PROVE  Admissible(call)
<1>1. call.size \in Nat /\ call.class \in Classes
  BY SchedulerAssumption
<1>2. LiveIn("control") = {} /\ Serial = {}
  BY DEF LiveIn, Serial
<1>3. FragmentsOf({}) = {}
  BY DEF FragmentsOf, Fragments
<1>4. Cardinality({}) = 0
  BY FS_EmptySet
<1>5. /\ pending.frames = 0 /\ pending.fragments = 0 /\ pending.controlFrames = 0
      /\ serializedFrames = 0
  BY <1>2, <1>3, <1>4 DEF Accounting
<1>6. CASE Serialized(call)
  BY <1>5, <1>6 DEF Admissible, HasSerializedCapacity
<1>7. CASE ~Serialized(call)
  <2>1. call.size <= FragmentLimit(call.class)
    BY <1>7 DEF Eligible, CanEverFit
  <2>2. 0 + 1 <= FrameLimit(call.class) /\ 0 + call.size = call.size
    BY <1>1, SchedulerAssumption DEF FrameLimit
  <2> QED BY <1>5, <1>7, <2>1, <2>2 DEF Admissible, HasCapacity
<1> QED BY <1>6, <1>7

(* Whatever waits, some class has its turn, or an announce its time.       *)
LEMMA SomeChoice ==
  ASSUME NEW k \in Classes, Waiting(k)
  PROVE  (\E c \in Classes : Choice(c)) \/ (Waiting("announce") /\ ~announceDue)
<1>1. CASE ChooseControl
  BY <1>1 DEF Choice, Classes
<1>2. CASE ~ChooseControl /\ AnnounceForced
  BY <1>2 DEF Choice, Classes, AnnounceForced
<1>3. CASE ~ChooseControl /\ ~AnnounceForced
  <2>1. \E c \in Classes \ {"control"} : Waiting(c)
    BY <1>3 DEF ChooseControl, NoDataWaiting, Classes
  <2>2. CASE Waiting("high")
    BY <1>3, <2>2 DEF Choice, Classes
  <2>3. CASE ~Waiting("high") /\ Waiting("normal")
    BY <1>3, <2>3 DEF Choice, Classes
  <2>4. CASE ~Waiting("high") /\ ~Waiting("normal")
    <3>1. Waiting("announce")
      BY <2>1, <2>4 DEF Classes
    <3>2. announceDue => AnnounceReady
      BY <3>1 DEF AnnounceReady
    <3> QED BY <1>3, <2>4, <3>1, <3>2 DEF Choice, Classes
  <2> QED BY <2>2, <2>3, <2>4
<1> QED BY <1>1, <1>2, <1>3

(* A producer that waits for room waits for somebody: the worker has a     *)
(* batch in hand, finds one to take, or waits for the time of an announce. *)
(* Exact counters say that something is live, and what is live is kept.    *)
THEOREM NobodyStandsStill == Spec => []NoStandstill
<1>1. Init => KeptInv
  BY SchedulerAssumption DEF Init, KeptInv, Kept, Running, WaitsEligible, Live
<1>2. TypeOK /\ Accounting /\ KeptInv => NoStandstill
  <2> SUFFICES ASSUME TypeOK, Accounting, KeptInv, ~closed, NEW p \in Producers,
                      blocked[p] # None, ~Admissible(blocked[p])
               PROVE  WorkLeft
    BY DEF NoStandstill
  <2>1. blocked[p] \in Calls /\ Eligible(blocked[p])
    BY DEF TypeOK, KeptInv, WaitsEligible
  <2>2. PICK b \in Live : Queued(b) \/ b = worker.batch
    BY <2>1, RoomWhenEmpty DEF KeptInv, Kept
  <2>3. CASE b = worker.batch
    BY <2>3, WorkerHolds DEF WorkLeft, Live
  <2>4. CASE Queued(b) /\ worker.phase = "idle"
    <3>1. PICK c \in Classes : DOMAIN queue[c] # {}
      BY <2>4 DEF Queued
    <3>2. Waiting(c)
      BY <3>1 DEF Waiting
    <3> QED BY <2>4, <3>2, SomeChoice DEF WorkLeft
  <2>5. worker.phase # "stopped"
    BY DEF KeptInv, Running
  <2> QED BY <2>2, <2>3, <2>4, <2>5, WorkerHolds DEF WorkLeft
<1> QED
  BY <1>1, <1>2, TypeCorrect, AccountingHolds, TypeStep, KeptStep, PTL DEF Spec
(* The turns of the classes never leave the radio unused: an idle worker   *)
(* that finds nothing to take although something waits has announces for   *)
(* all its data, spaced and before their time.  Repair traffic then waits  *)
(* with them (TransmitScheduler.java:384-397) once a control fragment went *)
(* last; without spacing, as BridgeEngine configures it, nothing waits.    *)
IdleOnlyForAnnounce ==
  ~closed /\ worker.phase = "idle" /\ (\E c \in Classes : Waiting(c)) =>
    \/ \E c \in Classes : Choice(c)
    \/ /\ PaceAnnounces /\ ~announceDue /\ Waiting("announce")
       /\ ~Waiting("high") /\ ~Waiting("normal")
       /\ Waiting("control") => controlSends = 1

TimerSet == PaceAnnounces \/ announceDue

(* See IdleOnlyForAnnounce.                                                *)
THEOREM RadioIsUsed == Spec => []IdleOnlyForAnnounce
<1>1. Init => TimerSet
  BY DEF Init, TimerSet
<1>2. TimerSet /\ [Next]_vars => TimerSet'
  BY DEF TimerSet, Next, Enqueue, Admit, Block, Resume, GiveUp, Take, StartSend, SendMore,
         SendLast, Retry, Abandon, Stop, AnnounceTimer, Close, vars
<1>3. TypeOK /\ TimerSet => IdleOnlyForAnnounce
  <2> SUFFICES ASSUME TypeOK, TimerSet, NEW k \in Classes, Waiting(k),
                      \A c \in Classes : ~Choice(c)
               PROVE  /\ PaceAnnounces /\ ~announceDue /\ Waiting("announce")
                      /\ ~Waiting("high") /\ ~Waiting("normal")
                      /\ Waiting("control") => controlSends = 1
    BY DEF IdleOnlyForAnnounce
  <2>1. PaceAnnounces /\ ~announceDue /\ Waiting("announce")
    BY SomeChoice DEF TimerSet
  <2>2. ~ChooseControl
    BY DEF Choice, Classes
  <2>3. ~AnnounceForced
    BY <2>2 DEF Choice, Classes, AnnounceForced
  <2>4. ~Waiting("high") /\ ~Waiting("normal")
    BY <2>2, <2>3 DEF Choice, Classes
  <2>5. Waiting("control") => controlSends = 1
    BY <2>2 DEF ChooseControl, TypeOK
  <2> QED BY <2>1, <2>4, <2>5
<1> QED
  BY <1>1, <1>2, <1>3, TypeCorrect, PTL DEF Spec
-----------------------------------------------------------------------------
(* Data frames: what the counters say when none is live.                   *)
LEMMA NoData ==
  ASSUME TypeOK, Accounting, ~closed, LiveData = {}
  PROVE  /\ pending.frames = pending.controlFrames
         /\ pending.fragments = pending.controlFragments
<1>1. Live = LiveIn("control")
  BY DEF LiveData, LiveIn, Live, Control
<1> QED
  BY <1>1 DEF Accounting

LEMMA OnlyControl ==
  ASSUME TypeOK, Accounting, ~closed, pending.frames = pending.controlFrames
  PROVE  LiveData = {}
<1>1. Live \in SUBSET Batches /\ LiveIn("control") \in SUBSET Live
  BY DEF Live, LiveIn
<1>2. IsFiniteSet(Live)
  BY <1>1, FS_Subset, SchedulerAssumption
<1>3. LiveIn("control") = Live
  BY <1>1, <1>2, FS_Subset DEF Accounting
<1> QED
  BY <1>3 DEF LiveData, LiveIn, Control

LEMMA NoSerial ==
  ASSUME TypeOK, Accounting, ~closed
  PROVE  serializedFrames = 0 <=> Serial = {}
<1>1. Serial \in SUBSET Batches
  BY DEF Serial, Live
<1>2. IsFiniteSet(Serial)
  BY <1>1, FS_Subset, SchedulerAssumption
<1> QED
  BY <1>2, FS_EmptySet DEF Accounting

LEMMA Counted ==
  ASSUME TypeOK, Accounting, ~closed
  PROVE  pending.controlFrames \in Nat /\ pending.controlFragments \in Nat
<1>1. LiveIn("control") \in SUBSET Batches
  BY DEF LiveIn, Live
<1> QED
  BY <1>1, FragmentsFinite DEF TypeOK, Accounting, FragmentsOf

(* What a step does to the live batches: it admits one, or it keeps or     *)
(* drops them.                                                             *)
Admitted(call) ==
  \E b \in Batches :
    /\ b \notin Live
    /\ Live' = Live \cup {b}
    /\ info' = [info EXCEPT ![b] = Batch(call)]

Fewer ==
  /\ Live' \subseteq Live
  /\ \A x \in Live' : info'[x].class = info[x].class /\ info'[x].serialized = info[x].serialized

LEMMA AdmitAdmits ==
  ASSUME TypeOK, NEW call \in Calls, Admit(call)
  PROVE  Admitted(call)
<1> DEFINE b == CHOOSE x \in Free : TRUE
<1>1. b \in Batches /\ left[b] = 0
  BY DEF Admit, Free
<1>2. left' = [left EXCEPT ![b] = call.size] /\ info' = [info EXCEPT ![b] = Batch(call)]
  BY DEF Admit
<1> HIDE DEF b
<1>3. b \notin Live /\ Live' = Live \cup {b}
  BY <1>1, <1>2, SchedulerAssumption DEF Live, TypeOK
<1> QED
  BY <1>1, <1>2, <1>3 DEF Admitted

LEMMA StepsOfBatches ==
  ASSUME TypeOK, TypeOK', Placed, [Next]_vars, ~closed'
  PROVE  \/ \E call \in Calls : Admit(call)
         \/ Fewer
<1>1. ASSUME NEW call \in Calls, Enqueue(call) PROVE Admit(call)
  BY <1>1 DEF Enqueue
<1>2. ASSUME NEW p \in Producers, Resume(p) PROVE blocked[p] \in Calls /\ Admit(blocked[p])
  BY <1>2 DEF Resume, TypeOK
<1>3. CASE SendMore
  <2>1. worker.batch \in Batches
    BY <1>3, WorkerHolds DEF SendMore
  <2> QED
    BY SMTT(30), <1>3, <2>1 DEF SendMore, Fewer, Live, TypeOK, Infos
<1>4. CASE SendLast
  BY <1>4, WorkerHolds DEF SendLast, Fewer, Live, TypeOK
<1>5. CASE Retry
  <2>1. worker.batch \in Batches
    BY <1>5, WorkerHolds DEF Retry
  <2> QED
    BY <1>5, <2>1 DEF Retry, Fewer, Live, TypeOK, Infos
<1>6. CASE Abandon
  BY <1>6, WorkerHolds DEF Abandon, Fewer, Live, TypeOK
<1>7. ASSUME UNCHANGED <<left, info>> PROVE Fewer
  BY <1>7 DEF Fewer, Live
<1>8. ~Close
  BY DEF Close
<1> QED
  BY <1>1, <1>2, <1>3, <1>4, <1>5, <1>6, <1>7, <1>8
     DEF Next, Block, GiveUp, Take, StartSend, Stop, AnnounceTimer, vars

LEMMA OpenBefore ==
  ASSUME TypeOK, TypeOK', [Next]_vars, ~closed'
  PROVE  ~closed
BY DEF Next, Enqueue, Resume, Admit, Block, GiveUp, Take, StartSend, SendMore, SendLast,
       Retry, Abandon, Stop, AnnounceTimer, Close, vars, TypeOK

LEMMA AloneStep ==
  ASSUME TypeOK, TypeOK', Placed, Accounting, SerializedAlone, [Next]_vars
  PROVE  SerializedAlone'
<1> SUFFICES ASSUME ~closed', NEW s \in Serial' PROVE LiveData' = {s}
  BY DEF SerializedAlone
<1>1. ~closed
  BY OpenBefore
<1>2. CASE Fewer
  <2>1. s \in Serial /\ LiveData' \subseteq LiveData
    BY <1>2 DEF Fewer, Serial, LiveData, Live
  <2>2. LiveData = {s}
    BY <1>1, <2>1 DEF SerializedAlone
  <2>3. s \in LiveData'
    BY <1>2, <2>2 DEF Fewer, Serial, LiveData, Live
  <2> QED
    BY <2>1, <2>2, <2>3
<1>3. ASSUME NEW call \in Calls, Admit(call) PROVE LiveData' = {s}
  <2> PICK b \in Batches : /\ b \notin Live /\ Live' = Live \cup {b}
                           /\ info' = [info EXCEPT ![b] = Batch(call)]
    BY <1>3, AdmitAdmits DEF Admitted
  <2>1. /\ info'[b].class = call.class
        /\ info'[b].serialized <=> Serialized(call)
        /\ \A x \in Live : info'[x] = info[x]
    BY DEF TypeOK, Batch, Live
  <2>2. CASE Serialized(call)
    <3>1. serializedFrames = 0 /\ pending.frames = pending.controlFrames
      BY <1>3, <2>2 DEF Admit, Admissible, HasSerializedCapacity
    <3>2. Serial = {} /\ LiveData = {}
      BY <1>1, <3>1, NoSerial, OnlyControl
    <3>3. s = b
      BY <2>1, <3>2 DEF Serial
    <3>4. LiveData' = {b}
      BY <2>1, <2>2, <3>2 DEF LiveData, Serialized
    <3> QED
      BY <3>3, <3>4
  <2>3. CASE ~Serialized(call)
    <3>1. s \in Serial
      BY <2>1, <2>3 DEF Serial
    <3>2. serializedFrames # 0
      BY <1>1, <3>1, NoSerial
    <3>3. Control(call.class)
      <4>1. HasCapacity(call.size, call.class)
        BY <1>3, <2>3 DEF Admit, Admissible
      <4>2. serializedFrames \in Nat
        <5>1. Serial \in SUBSET Batches
          BY DEF Serial, Live
        <5> QED
          BY <1>1, <5>1, FragmentsFinite DEF Accounting, TypeOK
      <4> QED
        BY <3>2, <4>1, <4>2 DEF HasCapacity
    <3>4. LiveData' = LiveData
      BY <2>1, <3>3 DEF LiveData
    <3> QED
      BY <1>1, <3>1, <3>4 DEF SerializedAlone
  <2> QED
    BY <2>2, <2>3
<1> QED
  BY <1>2, <1>3, StepsOfBatches

(* A frame beyond the normal limits never shares the queue with data.      *)
THEOREM SerializedIsAlone == Spec => []SerializedAlone
<1>1. Init => SerializedAlone
  BY DEF Init, SerializedAlone, Serial, Live
<1>2. /\ TypeOK /\ Placed /\ Accounting /\ SerializedAlone /\ [Next]_vars /\ TypeOK'
      => SerializedAlone'
  BY AloneStep
<1> QED
  BY <1>1, <1>2, TypeCorrect, AccountingHolds, PTL DEF Spec
-----------------------------------------------------------------------------
(* Beside an ordinary frame, data stays out of the reserve; after a        *)
(* serialized frame left, no data is there at all.                         *)
DataWithinLimits ==
  ~closed /\ serializedFrames = 0 =>
    /\ pending.frames - pending.controlFrames <= MaxFrames - ReservedFrames
    /\ pending.fragments - pending.controlFragments <= MaxFragments - ReservedFragments

LEMMA NoDataLeft ==
  ASSUME TypeOK', Accounting', ~closed', LiveData' = {}
  PROVE  /\ pending'.frames = pending'.controlFrames
         /\ pending'.fragments = pending'.controlFragments
<1>1. Live' = LiveIn("control")'
  BY DEF LiveData, LiveIn, Live, Control
<1> QED
  BY <1>1 DEF Accounting

LEMMA AdmitWithinLimits ==
  ASSUME TypeOK, TypeOK', Accounting, DataWithinLimits, ~closed,
         NEW call \in Calls, Admit(call)
  PROVE  DataWithinLimits'
<1>1. /\ pending.controlFrames \in Nat /\ pending.controlFragments \in Nat
  BY Counted
<1>2. pending' = Count(pending, call.class, 1, call.size) /\ Admissible(call)
  BY DEF Admit
<1>3. call.size \in Nat
  BY SchedulerAssumption
<1>4. CASE Control(call.class)
  <2>1. serializedFrames' = serializedFrames
    BY <1>4 DEF Admit, Serialized, TypeOK
  <2>2. /\ pending'.frames - pending'.controlFrames = pending.frames - pending.controlFrames
        /\ pending'.fragments - pending'.controlFragments
             = pending.fragments - pending.controlFragments
    <3>1. /\ pending'.frames = pending.frames + 1
          /\ pending'.fragments = pending.fragments + call.size
          /\ pending'.controlFrames = pending.controlFrames + 1
          /\ pending'.controlFragments = pending.controlFragments + call.size
      BY <1>2, <1>4 DEF Count
    <3>2. /\ pending.frames \in Int /\ pending.fragments \in Int
          /\ pending.controlFrames \in Int /\ pending.controlFragments \in Int
      BY DEF TypeOK, Counters
    <3> QED
      BY <1>3, <3>1, <3>2
  <2> QED
    BY <2>1, <2>2 DEF DataWithinLimits
<1>5. CASE Serialized(call)
  <2>1. serializedFrames = 0
    BY <1>2, <1>5 DEF Admissible, HasSerializedCapacity
  <2>2. serializedFrames' # 0
    BY <1>5, <2>1 DEF Admit
  <2> QED
    BY <2>2 DEF DataWithinLimits
<1>6. CASE ~Control(call.class) /\ ~Serialized(call)
  <2>1. HasCapacity(call.size, call.class)
    BY <1>2, <1>6 DEF Admissible
  <2>2. /\ pending.frames + 1 <= MaxFrames - ReservedFrames
        /\ pending.fragments + call.size <= MaxFragments - ReservedFragments
    BY <1>6, <2>1 DEF HasCapacity, FrameLimit, FragmentLimit
  <2>3. /\ pending'.frames = pending.frames + 1
        /\ pending'.fragments = pending.fragments + call.size
        /\ pending'.controlFrames = pending.controlFrames
        /\ pending'.controlFragments = pending.controlFragments
    BY <1>1, <1>2, <1>6 DEF Count, TypeOK, Counters
  <2>4. /\ pending.frames \in Int /\ pending.fragments \in Int
        /\ MaxFrames \in Int /\ ReservedFrames \in Int
        /\ MaxFragments \in Int /\ ReservedFragments \in Int
    BY SchedulerAssumption DEF TypeOK, Counters
  <2>5. /\ pending'.frames - pending'.controlFrames <= MaxFrames - ReservedFrames
        /\ pending'.fragments - pending'.controlFragments <= MaxFragments - ReservedFragments
    BY ONLY <1>1, <1>3, <2>2, <2>3, <2>4
  <2> QED
    BY <2>5 DEF DataWithinLimits
<1> QED
  BY <1>4, <1>5, <1>6

LEMMA LeaveWithinLimits ==
  ASSUME TypeOK, TypeOK', Accounting, Accounting', SerializedAlone, DataWithinLimits,
         ~closed, ~closed',
         NEW b \in Batches, left[b] > 0,
         left' = [left EXCEPT ![b] = 0], info' = [info EXCEPT ![b] = Blank],
         pending' = Count(pending, info[b].class, -1, -left[b]),
         serializedFrames' = serializedFrames - IF info[b].serialized THEN 1 ELSE 0
  PROVE  DataWithinLimits'
<1>1. CASE info[b].serialized
  <2>1. LiveData = {b}
    BY <1>1 DEF SerializedAlone, Serial, Live
  <2>2. LiveData' = {}
    BY <2>1 DEF LiveData, Live, TypeOK
  <2> QED
    <3>1. /\ pending'.frames = pending'.controlFrames
          /\ pending'.fragments = pending'.controlFragments
      BY <2>2, NoDataLeft
    <3>2. pending'.controlFrames \in Int /\ pending'.controlFragments \in Int
      BY DEF TypeOK, Counters
    <3> QED
      BY <3>1, <3>2, SchedulerAssumption DEF DataWithinLimits
<1>2. CASE ~info[b].serialized
  <2>1. serializedFrames' = serializedFrames /\ left[b] \in Nat
    BY <1>2 DEF TypeOK
  <2>2. CASE Control(info[b].class)
    BY <2>1, <2>2 DEF DataWithinLimits, Count, TypeOK, Counters
  <2>3. CASE ~Control(info[b].class)
    <3>1. /\ pending'.frames = pending.frames - 1
          /\ pending'.fragments = pending.fragments - left[b]
          /\ pending'.controlFrames = pending.controlFrames
          /\ pending'.controlFragments = pending.controlFragments
      BY <2>1, <2>3 DEF Count, TypeOK, Counters
    <3> QED
      BY <2>1, <3>1, SchedulerAssumption DEF DataWithinLimits, TypeOK, Counters
  <2> QED
    BY <2>2, <2>3
<1> QED
  BY <1>1, <1>2

LEMMA WithinLimitsStep ==
  ASSUME TypeOK, TypeOK', Placed, Accounting, Accounting', SerializedAlone,
         DataWithinLimits, [Next]_vars
  PROVE  DataWithinLimits'
<1> SUFFICES ASSUME ~closed' PROVE DataWithinLimits'
  BY DEF DataWithinLimits
<1>1. ~closed
  BY OpenBefore
<1>2. ASSUME NEW call \in Calls, Enqueue(call) PROVE DataWithinLimits'
  BY <1>1, <1>2, AdmitWithinLimits DEF Enqueue
<1>3. ASSUME NEW p \in Producers, Resume(p) PROVE DataWithinLimits'
  <2>1. blocked[p] \in Calls /\ Admit(blocked[p])
    BY <1>3 DEF Resume, TypeOK
  <2> QED
    BY <1>1, <2>1, AdmitWithinLimits
<1>4. CASE SendMore
  <2>1. pending' = Count(pending, info[worker.batch].class, 0, -1)
    BY <1>4 DEF SendMore
  <2>2. serializedFrames' = serializedFrames
    BY <1>4 DEF SendMore
  <2> QED
    <3>1. /\ pending.frames \in Int /\ pending.fragments \in Int
          /\ pending.controlFrames \in Int /\ pending.controlFragments \in Int
      BY DEF TypeOK, Counters
    <3>2. CASE Control(info[worker.batch].class)
      <4>1. /\ pending'.frames = pending.frames
            /\ pending'.fragments = pending.fragments - 1
            /\ pending'.controlFrames = pending.controlFrames
            /\ pending'.controlFragments = pending.controlFragments - 1
        BY <2>1, <3>1, <3>2 DEF Count
      <4> QED
        BY <1>1, <2>2, <3>1, <4>1 DEF DataWithinLimits
    <3>3. CASE ~Control(info[worker.batch].class)
      <4>1. /\ pending'.frames = pending.frames
            /\ pending'.fragments = pending.fragments - 1
            /\ pending'.controlFrames = pending.controlFrames
            /\ pending'.controlFragments = pending.controlFragments
        BY <2>1, <3>1, <3>3 DEF Count
      <4> QED
        BY <1>1, <2>2, <3>1, <4>1, SchedulerAssumption DEF DataWithinLimits
    <3> QED
      BY <3>2, <3>3
<1>5. CASE SendLast
  <2>1. worker.batch \in Batches /\ left[worker.batch] = 1 /\ left[worker.batch] > 0
    BY <1>5, WorkerHolds DEF SendLast
  <2>2. /\ left' = [left EXCEPT ![worker.batch] = 0]
        /\ info' = [info EXCEPT ![worker.batch] = Blank]
    BY <1>5 DEF SendLast
  <2>3. pending' = Count(pending, info[worker.batch].class, -1, -left[worker.batch])
    BY <1>5, <2>1 DEF SendLast
  <2>4. serializedFrames'
          = serializedFrames - IF info[worker.batch].serialized THEN 1 ELSE 0
    BY <1>5 DEF SendLast
  <2> QED
    BY <1>1, <2>1, <2>2, <2>3, <2>4, LeaveWithinLimits
<1>6. CASE Abandon
  <2>1. worker.batch \in Batches /\ left[worker.batch] > 0
    BY <1>6, WorkerHolds DEF Abandon, Placed, InFlightLive
  <2>2. /\ left' = [left EXCEPT ![worker.batch] = 0]
        /\ info' = [info EXCEPT ![worker.batch] = Blank]
    BY <1>6 DEF Abandon
  <2>3. pending' = Count(pending, info[worker.batch].class, -1, -left[worker.batch])
    BY <1>6 DEF Abandon, Abandoned
  <2>4. serializedFrames'
          = serializedFrames - IF info[worker.batch].serialized THEN 1 ELSE 0
    BY <1>6 DEF Abandon, Released
  <2> QED
    BY <1>1, <2>1, <2>2, <2>3, <2>4, LeaveWithinLimits
<1>7. ASSUME UNCHANGED <<pending, serializedFrames>> PROVE DataWithinLimits'
  BY <1>1, <1>7 DEF DataWithinLimits
<1>8. ~Close
  BY DEF Close
<1> QED
  BY <1>2, <1>3, <1>4, <1>5, <1>6, <1>7, <1>8
     DEF Next, Block, GiveUp, Take, StartSend, Retry, Stop, AnnounceTimer, vars

LEMMA LimitsKeepReserve ==
  ASSUME TypeOK, Accounting, DataWithinLimits
  PROVE  ReserveHonoured
<1> SUFFICES ASSUME NEW size \in 1..ReservedFragments, ~closed,
                    pending.controlFrames + 1 <= ReservedFrames,
                    pending.controlFragments + size <= ReservedFragments
             PROVE  HasCapacity(size, "control")
  BY DEF ReserveHonoured
<1>1. CASE serializedFrames > 0
  BY <1>1 DEF HasCapacity, Control
<1>2. CASE ~(serializedFrames > 0)
  <2>1. serializedFrames \in Nat
    <3>1. Serial \in SUBSET Batches
      BY DEF Serial, Live
    <3> QED
      BY <3>1, FragmentsFinite DEF Accounting, TypeOK
  <2>2. serializedFrames = 0
    BY <1>2, <2>1
  <2>3. /\ pending.frames - pending.controlFrames <= MaxFrames - ReservedFrames
        /\ pending.fragments - pending.controlFragments <= MaxFragments - ReservedFragments
    BY <2>2 DEF DataWithinLimits
  <2>4. /\ pending.frames \in Int /\ pending.fragments \in Int /\ size \in Int
        /\ pending.controlFrames \in Int /\ pending.controlFragments \in Int
        /\ MaxFrames \in Int /\ ReservedFrames \in Int
        /\ MaxFragments \in Int /\ ReservedFragments \in Int
    BY SchedulerAssumption DEF TypeOK, Counters
  <2>5. pending.frames + 1 <= MaxFrames /\ pending.fragments + size <= MaxFragments
    BY <2>3, <2>4
  <2> QED
    BY <1>2, <2>5 DEF HasCapacity, FrameLimit, FragmentLimit, Control
<1> QED
  BY <1>1, <1>2

(* Repair always finds the reserve free of data: data is only admitted     *)
(* below it, and the serialized frame, which may exceed it, is alone.      *)
THEOREM ReserveIsHonoured == Spec => []ReserveHonoured
<1>1. Init => DataWithinLimits
  BY SchedulerAssumption DEF Init, DataWithinLimits, NothingPending
<1>2. /\ TypeOK /\ TypeOK' /\ Placed /\ Accounting /\ Accounting' /\ SerializedAlone
      /\ DataWithinLimits /\ [Next]_vars
      => DataWithinLimits'
  BY WithinLimitsStep
<1>3. TypeOK /\ Accounting /\ DataWithinLimits => ReserveHonoured
  BY LimitsKeepReserve
<1> QED
  BY <1>1, <1>2, <1>3, TypeCorrect, AccountingHolds, SerializedIsAlone, PTL DEF Spec
-----------------------------------------------------------------------------
(***************************************************************************)
(* The scheduler implements FIFO lanes: every step of TransmitScheduler is *)
(* a step of TransmitLanes, or leaves the lanes alone.                     *)
(***************************************************************************)

(* The lanes as a function of the scheduler's state, the substitution of   *)
(* the instance Lanes.                                                     *)
LaneMap == [c \in Classes |-> IF closed THEN <<>> ELSE LaneOf(c)]

(* A lane shows an order of batches with the fragments each has left.      *)
View(s, sizes) == [i \in DOMAIN s |-> [batch |-> s[i], left |-> sizes[s[i]]]]
Order(c) == InFlight(c) \o queue[c]

Entries == [batch : Batches, left : Nat]

LEMMA LaneIsView ==
  ASSUME NEW c \in Classes, ~closed
  PROVE  LaneMap[c] = View(Order(c), left)
BY DEF LaneMap, LaneOf, View, Order

LEMMA ViewType ==
  ASSUME NEW s \in Seq(Batches), NEW sizes \in [Batches -> Nat]
  PROVE  /\ View(s, sizes) \in Seq(Entries)
         /\ Len(View(s, sizes)) = Len(s)
         /\ \A i \in 1..Len(s) : View(s, sizes)[i] = [batch |-> s[i], left |-> sizes[s[i]]]
<1>1. DOMAIN s = 1..Len(s) /\ Len(s) \in Nat /\ \A i \in 1..Len(s) : s[i] \in Batches
  OBVIOUS
<1>2. View(s, sizes) \in [1..Len(s) -> Entries]
  BY <1>1 DEF View, Entries
<1> QED
  BY <1>1, <1>2 DEF View

LEMMA ViewSame ==
  ASSUME NEW s \in Seq(Batches), NEW sizes, NEW later,
         \A i \in DOMAIN s : later[s[i]] = sizes[s[i]]
  PROVE  View(s, later) = View(s, sizes)
BY DEF View

LEMMA ViewAppend ==
  ASSUME NEW s \in Seq(Batches), NEW b \in Batches,
         NEW sizes \in [Batches -> Nat], NEW later \in [Batches -> Nat],
         \A i \in DOMAIN s : later[s[i]] = sizes[s[i]]
  PROVE  View(Append(s, b), later)
           = Append(View(s, sizes), [batch |-> b, left |-> later[b]])
<1> DEFINE v == View(s, sizes)
           w == View(Append(s, b), later)
           e == [batch |-> b, left |-> later[b]]
<1>1. /\ v \in Seq(Entries) /\ Len(v) = Len(s)
      /\ \A i \in 1..Len(s) : v[i] = [batch |-> s[i], left |-> sizes[s[i]]]
  BY ViewType
<1>2. Append(s, b) \in Seq(Batches) /\ Len(Append(s, b)) = Len(s) + 1
  OBVIOUS
<1>3. /\ w \in Seq(Entries) /\ Len(w) = Len(s) + 1
      /\ \A i \in 1..Len(s) + 1 :
           w[i] = [batch |-> Append(s, b)[i], left |-> later[Append(s, b)[i]]]
  <2> DEFINE z == Append(s, b)
  <2>1. z \in Seq(Batches) /\ Len(z) = Len(s) + 1
    BY <1>2
  <2> HIDE DEF z
  <2>2. /\ View(z, later) \in Seq(Entries) /\ Len(View(z, later)) = Len(z)
        /\ \A i \in 1..Len(z) : View(z, later)[i] = [batch |-> z[i], left |-> later[z[i]]]
    BY <2>1, ViewType
  <2> QED BY <2>1, <2>2 DEF z
<1>4. e \in Entries
  BY DEF Entries
<1> HIDE DEF v, w
<1>5. Append(v, e) \in Seq(Entries) /\ Len(Append(v, e)) = Len(s) + 1
  BY <1>1, <1>4
<1>6. ASSUME NEW i \in 1..Len(s) + 1 PROVE w[i] = Append(v, e)[i]
  <2>1. CASE i = Len(s) + 1
    BY <1>1, <1>3, <1>4, <2>1
  <2>2. CASE i \in 1..Len(s)
    <3>1. Append(s, b)[i] = s[i] /\ Append(v, e)[i] = v[i]
      BY <1>1, <1>4, <2>2
    <3>2. later[s[i]] = sizes[s[i]]
      BY <2>2
    <3> QED
      BY <1>1, <1>3, <2>2, <3>1, <3>2
  <2>3. Len(s) \in Nat
    OBVIOUS
  <2>4. i = Len(s) + 1 \/ i \in 1..Len(s)
    BY <1>6, <2>3
  <2> QED
    BY <2>1, <2>2, <2>4
<1> QED
  BY <1>3, <1>5, <1>6, SeqEqual DEF v, w

LEMMA ViewTail ==
  ASSUME NEW s \in Seq(Batches), s # <<>>,
         NEW sizes \in [Batches -> Nat], NEW later \in [Batches -> Nat],
         \A i \in DOMAIN s : i # 1 => later[s[i]] = sizes[s[i]]
  PROVE  /\ View(s, sizes) # <<>>
         /\ Head(View(s, sizes)) = [batch |-> s[1], left |-> sizes[s[1]]]
         /\ View(Tail(s), later) = Tail(View(s, sizes))
<1> DEFINE v == View(s, sizes)
           w == View(Tail(s), later)
<1>1. /\ v \in Seq(Entries) /\ Len(v) = Len(s)
      /\ \A i \in 1..Len(s) : v[i] = [batch |-> s[i], left |-> sizes[s[i]]]
  BY ViewType
<1>2. /\ Tail(s) \in Seq(Batches) /\ Len(Tail(s)) = Len(s) - 1
      /\ \A i \in 1..Len(s) - 1 : Tail(s)[i] = s[i + 1]
      /\ Len(s) \in Nat \ {0}
  OBVIOUS
<1>3. /\ w \in Seq(Entries) /\ Len(w) = Len(s) - 1
      /\ \A i \in 1..Len(s) - 1 : w[i] = [batch |-> Tail(s)[i], left |-> later[Tail(s)[i]]]
  <2>1. Tail(s) \in Seq(Batches)
    BY <1>2
  <2>2. /\ w \in Seq(Entries) /\ Len(w) = Len(Tail(s))
        /\ \A i \in 1..Len(Tail(s)) : w[i] = [batch |-> Tail(s)[i], left |-> later[Tail(s)[i]]]
    BY <2>1, ViewType
  <2> HIDE DEF w
  <2> QED
    BY <1>2, <2>2
<1> HIDE DEF v, w
<1>4. v # <<>> /\ Head(v) = v[1]
  BY <1>1, <1>2
<1>5. /\ Tail(v) \in Seq(Entries) /\ Len(Tail(v)) = Len(s) - 1
      /\ \A i \in 1..Len(s) - 1 : Tail(v)[i] = v[i + 1]
  BY <1>1, <1>2, <1>4
<1>6. ASSUME NEW i \in 1..Len(s) - 1 PROVE w[i] = Tail(v)[i]
  <2>1. i + 1 \in 1..Len(s) /\ i + 1 # 1 /\ i + 1 \in DOMAIN s
    BY <1>2
  <2>2. later[s[i + 1]] = sizes[s[i + 1]]
    BY <2>1
  <2> QED
    <3>1. Tail(s)[i] = s[i + 1]
      BY <1>2
    <3>2. w[i] = [batch |-> s[i + 1], left |-> later[s[i + 1]]]
      BY <1>3, <3>1
    <3>3. v[i + 1] = [batch |-> s[i + 1], left |-> sizes[s[i + 1]]]
      BY <1>1, <2>1
    <3> QED
      BY <1>5, <2>2, <3>2, <3>3
<1>7. w = Tail(v)
  BY <1>3, <1>5, <1>6, SeqEqual
<1>8. Head(v) = [batch |-> s[1], left |-> sizes[s[1]]]
  <2>1. 1 \in 1..Len(s)
    BY <1>2
  <2> QED
    BY <1>1, <1>4, <2>1
<1> QED
  BY <1>4, <1>7, <1>8 DEF v, w

(* Only what the head has left changes.                                    *)
LEMMA ViewFirst ==
  ASSUME NEW s \in Seq(Batches), s # <<>>,
         NEW sizes \in [Batches -> Nat], NEW later \in [Batches -> Nat],
         \A i \in DOMAIN s : i # 1 => later[s[i]] = sizes[s[i]]
  PROVE  View(s, later)
           = <<[batch |-> s[1], left |-> later[s[1]]]>> \o Tail(View(s, sizes))
<1> DEFINE v == View(s, sizes)
           w == View(s, later)
<1>1. /\ w # <<>>
      /\ Head(w) = [batch |-> s[1], left |-> later[s[1]]]
      /\ View(Tail(s), later) = Tail(w)
  BY ViewTail
<1>2. View(Tail(s), later) = Tail(v)
  BY ViewTail
<1>3. w \in Seq(Entries)
  BY ViewType
<1> HIDE DEF v, w
<1>4. w = <<Head(w)>> \o Tail(w)
  BY <1>1, <1>3, HeadTailProperties
<1> QED
  BY <1>1, <1>2, <1>4 DEF v, w
-----------------------------------------------------------------------------
(* The orders of the lanes.  The batch in flight is at the head of its     *)
(* lane, and nowhere else.                                                 *)
LEMMA OrderInFlight ==
  ASSUME TypeOK, Placed, NEW c \in Classes,
         worker.batch \in Batches, info[worker.batch].class = c
  PROVE  /\ Order(c) = <<worker.batch>> \o queue[c]
         /\ Order(c) \in Seq(Batches) /\ Order(c) # <<>>
         /\ Order(c)[1] = worker.batch
         /\ Tail(Order(c)) = queue[c]
         /\ \A i \in DOMAIN Order(c) : i # 1 => Order(c)[i] # worker.batch
<1>1. queue[c] \in Seq(Batches) /\ worker.batch # None
  BY SchedulerAssumption DEF TypeOK
<1>2. Order(c) = <<worker.batch>> \o queue[c]
  BY <1>1 DEF Order, InFlight
<1>3. /\ Order(c) \in Seq(Batches)
      /\ DOMAIN Order(c) = 1..Len(queue[c]) + 1
      /\ \A i \in 1..Len(queue[c]) + 1 :
           Order(c)[i] = IF i = 1 THEN worker.batch ELSE queue[c][i - 1]
  BY <1>1, <1>2, Prepended
<1>4. Len(queue[c]) \in Nat /\ DOMAIN queue[c] = 1..Len(queue[c])
  BY <1>1
<1> HIDE DEF Order
<1>5. Order(c) # <<>> /\ Order(c)[1] = worker.batch /\ Len(Order(c)) = Len(queue[c]) + 1
  BY <1>3, <1>4
<1>6. \A i \in DOMAIN Order(c) : i # 1 => Order(c)[i] # worker.batch
  <2> SUFFICES ASSUME NEW i \in 1..Len(queue[c]) + 1, i # 1
               PROVE  Order(c)[i] # worker.batch
    BY <1>3
  <2>1. i - 1 \in DOMAIN queue[c]
    BY <1>4
  <2> QED
    BY <1>3, <2>1 DEF Placed, QueuedLive
<1>7. Tail(Order(c)) = queue[c]
  <2>1. /\ Tail(Order(c)) \in Seq(Batches) /\ Len(Tail(Order(c))) = Len(queue[c])
        /\ \A i \in 1..Len(queue[c]) : Tail(Order(c))[i] = Order(c)[i + 1]
    BY <1>3, <1>4, <1>5
  <2>2. \A i \in 1..Len(queue[c]) : Order(c)[i + 1] = queue[c][i]
    BY <1>3, <1>4
  <2> QED
    BY <1>1, <2>1, <2>2, SeqEqual
<1> QED
  BY <1>2, <1>3, <1>5, <1>6, <1>7

LEMMA OrderElsewhere ==
  ASSUME TypeOK, NEW c \in Classes,
         ~(worker.batch \in Batches /\ info[worker.batch].class = c)
  PROVE  Order(c) = queue[c] /\ queue[c] \in Seq(Batches)
<1>1. worker.batch \in Batches \/ worker.batch = None
  BY WorkerType DEF TypeOK, Workers
<1>2. InFlight(c) = <<>>
  BY <1>1 DEF InFlight
<1>3. queue[c] \in Seq(Batches)
  BY DEF TypeOK
<1> QED
  BY <1>2, <1>3 DEF Order

(* The same two facts about the next state.                                *)
LEMMA OrderNext ==
  ASSUME TypeOK', NEW c \in Classes
  PROVE  /\ queue'[c] \in Seq(Batches)
         /\ worker'.batch \in Batches /\ info'[worker'.batch].class = c
            => Order(c)' = <<worker'.batch>> \o queue'[c]
         /\ ~(worker'.batch \in Batches /\ info'[worker'.batch].class = c)
            => Order(c)' = queue'[c]
<1>1. queue'[c] \in Seq(Batches) /\ worker' \in Workers
  BY DEF TypeOK
<1>2. worker'.batch \in Batches \/ worker'.batch = None
  BY <1>1 DEF Workers
<1>3. None \notin Batches
  BY SchedulerAssumption
<1>4. CASE worker'.batch \in Batches /\ info'[worker'.batch].class = c
  <2>1. worker'.batch # None
    BY <1>3, <1>4
  <2>2. InFlight(c)' = <<worker'.batch>>
    BY <1>4, <2>1 DEF InFlight
  <2> QED
    BY <1>1, <1>4, <2>2 DEF Order
<1>5. CASE ~(worker'.batch \in Batches /\ info'[worker'.batch].class = c)
  <2>1. InFlight(c)' = <<>>
    BY <1>2, <1>5 DEF InFlight
  <2> QED
    BY <1>1, <1>5, <2>1 DEF Order
<1> QED
  BY <1>1, <1>4, <1>5

LEMMA OrderType ==
  ASSUME TypeOK, Placed, NEW c \in Classes
  PROVE  /\ Order(c) \in Seq(Batches)
         /\ \A i \in DOMAIN Order(c) :
              left[Order(c)[i]] > 0 /\ info[Order(c)[i]].class = c
<1>1. CASE worker.batch \in Batches /\ info[worker.batch].class = c
  <2>1. /\ queue[c] \in Seq(Batches)
        /\ Order(c) = <<worker.batch>> \o queue[c]
    BY <1>1, OrderInFlight DEF TypeOK
  <2>2. /\ Order(c) \in Seq(Batches)
        /\ DOMAIN Order(c) = 1..Len(queue[c]) + 1
        /\ \A i \in 1..Len(queue[c]) + 1 :
             Order(c)[i] = IF i = 1 THEN worker.batch ELSE queue[c][i - 1]
    BY <1>1, <2>1, Prepended
  <2>3. left[worker.batch] > 0
    BY <1>1, WorkerHolds DEF Placed, InFlightLive
  <2>4. ASSUME NEW i \in DOMAIN Order(c)
        PROVE left[Order(c)[i]] > 0 /\ info[Order(c)[i]].class = c
    <3>1. i = 1 \/ i - 1 \in DOMAIN queue[c]
      BY <2>1, <2>2
    <3> QED
      BY <1>1, <2>2, <2>3, <3>1 DEF Placed, QueuedLive
  <2> QED
    BY <2>2, <2>4
<1>2. CASE ~(worker.batch \in Batches /\ info[worker.batch].class = c)
  BY <1>2, OrderElsewhere DEF Placed, QueuedLive
<1> QED
  BY <1>1, <1>2
-----------------------------------------------------------------------------
(* Steps that leave the lanes alone.                                       *)
LEMMA SameLanes ==
  ASSUME ~closed, ~closed', left' = left, \A c \in Classes : Order(c)' = Order(c)
  PROVE  LaneMap' = LaneMap
<1>1. \A c \in Classes : LaneOf(c)' = LaneOf(c)
  BY DEF LaneOf, Order
<1> QED
  BY <1>1 DEF LaneMap

LEMMA TakeKeepsLanes ==
  ASSUME TypeOK, TypeOK', Placed, Take
  PROVE  LaneMap' = LaneMap
<1> PICK t \in Classes : /\ Waiting(t)
                         /\ worker' = [phase |-> "pacing", batch |-> Head(queue[t])]
                         /\ queue' = [queue EXCEPT ![t] = Tail(@)]
  BY TakesWaiting
<1>1. left' = left /\ info' = info /\ closed' = closed /\ ~closed
  BY DEF Take
<1>2. /\ queue[t] \in Seq(Batches) /\ queue[t] # <<>>
      /\ Head(queue[t]) = queue[t][1] /\ 1 \in DOMAIN queue[t]
      /\ Head(queue[t]) \in Batches
  BY DEF TypeOK, Waiting
<1>3. info'[worker'.batch].class = t /\ worker'.batch = Head(queue[t])
  BY <1>1, <1>2 DEF Placed, QueuedLive
<1>4. worker.batch \notin Batches
  BY SchedulerAssumption, WorkerType DEF Take, TypeOK
<1>5. ASSUME NEW c \in Classes PROVE Order(c)' = Order(c)
  <2>1. Order(c) = queue[c]
    BY <1>4, OrderElsewhere
  <2>2. CASE c = t
    <3>1. Order(c)' = <<Head(queue[t])>> \o Tail(queue[t])
      BY <1>2, <1>3, <2>2, OrderNext DEF TypeOK
    <3>2. queue[t] = <<Head(queue[t])>> \o Tail(queue[t])
      BY <1>2, HeadTailProperties
    <3> QED
      BY <2>1, <2>2, <3>1, <3>2
  <2>3. CASE c # t
    <3>1. queue'[c] = queue[c]
      BY <2>3 DEF TypeOK
    <3> QED
      BY <1>3, <2>1, <2>3, <3>1, OrderNext
  <2> QED
    BY <2>2, <2>3
<1> QED
  BY <1>1, <1>5, SameLanes

(* A batch put back at the head of its queue is where it was in its lane.  *)
LEMMA RequeueKeepsOrder ==
  ASSUME TypeOK, TypeOK', Placed, worker.phase = "sending", worker' = Idle,
         Requeue(worker.batch, info[worker.batch].class), NEW c \in Classes
  PROVE  Order(c)' = Order(c)
<1> DEFINE k == info[worker.batch].class
<1>1. worker.batch \in Batches
  BY WorkerType DEF TypeOK
<1>2. k \in Classes
  BY <1>1 DEF TypeOK, Infos
<1>3. worker'.batch \notin Batches
  BY SchedulerAssumption DEF Idle
<1>4. Order(c)' = queue'[c]
  BY <1>3, OrderNext
<1>5. CASE c = k
  BY <1>1, <1>4, <1>5, OrderInFlight DEF Requeue, TypeOK
<1>6. CASE c # k
  BY <1>1, <1>4, <1>6, OrderElsewhere DEF Requeue, TypeOK
<1> QED
  BY <1>5, <1>6

LEMMA RetryKeepsLanes ==
  ASSUME TypeOK, TypeOK', Placed, Retry
  PROVE  LaneMap' = LaneMap
<1>1. ~closed /\ closed' = closed /\ left' = left
  BY DEF Retry, GivesUp
<1>2. /\ worker.phase = "sending" /\ worker' = Idle
      /\ Requeue(worker.batch, info[worker.batch].class)
  BY DEF Retry
<1> QED
  BY <1>1, <1>2, RequeueKeepsOrder, SameLanes

LEMMA OthersKeepLanes ==
  ASSUME TypeOK, ~closed, closed' = closed, worker'.batch = worker.batch,
         UNCHANGED <<queue, left, info>>
  PROVE  LaneMap' = LaneMap
BY DEF LaneMap, LaneOf, InFlight
-----------------------------------------------------------------------------
(* Steps of the lanes.                                                     *)

(* A change at the lane of class k, given the views of all the orders.     *)
LEMMA OneLane ==
  ASSUME ~closed, ~closed', NEW k \in Classes, NEW lane,
         View(Order(k)', left') = lane,
         \A c \in Classes : c # k => View(Order(c)', left') = View(Order(c), left)
  PROVE  LaneMap' = [LaneMap EXCEPT ![k] = lane]
<1>1. LaneMap' = [c \in Classes |-> View(Order(c)', left')]
  BY DEF LaneMap, LaneOf, View, Order
<1>2. LaneMap = [c \in Classes |-> View(Order(c), left)]
  BY DEF LaneMap, LaneOf, View, Order
<1> QED
  BY <1>1, <1>2

LEMMA InSomeLane ==
  ASSUME TypeOK, Placed, ~closed, NEW c \in Classes, NEW i \in DOMAIN LaneMap[c]
  PROVE  left[LaneMap[c][i].batch] > 0
<1>1. LaneMap[c] = View(Order(c), left)
  BY LaneIsView
<1>2. i \in DOMAIN Order(c) /\ LaneMap[c][i].batch = Order(c)[i]
  BY <1>1 DEF View
<1> QED
  BY <1>2, OrderType

LEMMA AdmitAccepts ==
  ASSUME TypeOK, TypeOK', Placed, NEW call \in Calls, Admit(call)
  PROVE  \E b \in Batches : Lanes!Accept(call.class, b)
<1> DEFINE b == CHOOSE x \in Free : TRUE
           k == call.class
           e == [batch |-> b, left |-> call.size]
<1>1. b \in Batches /\ left[b] = 0
  BY DEF Admit, Free
<1>2. k \in Classes /\ call.size \in Nat
  BY SchedulerAssumption
<1>3. /\ left' = [left EXCEPT ![b] = call.size]
      /\ info' = [info EXCEPT ![b] = Batch(call)]
      /\ queue' = [queue EXCEPT ![k] = Append(@, b)]
      /\ worker' = worker /\ closed' = closed /\ ~closed
  BY DEF Admit
<1> HIDE DEF b
<1>4. worker.batch # b
  BY <1>1, WorkerHolds DEF Placed, InFlightLive
<1>5. ASSUME NEW c \in Classes
      PROVE  Order(c)' = IF c = k THEN Append(Order(c), b) ELSE Order(c)
  <2>1. queue[c] \in Seq(Batches) /\ queue'[c] = IF c = k THEN Append(queue[c], b) ELSE queue[c]
    BY <1>3 DEF TypeOK
  <2>2. InFlight(c)' = InFlight(c)
    BY <1>1, <1>3, <1>4, WorkerType DEF InFlight, TypeOK, Workers
  <2>3. InFlight(c) \in Seq(Batches)
    BY WorkerType DEF InFlight, TypeOK, Workers
  <2> QED
    BY SMTT(30), <1>1, <2>1, <2>2, <2>3 DEF Order
<1>6. ASSUME NEW c \in Classes
      PROVE  Order(c) \in Seq(Batches) /\ \A i \in DOMAIN Order(c) : left'[Order(c)[i]] = left[Order(c)[i]]
  BY <1>1, <1>3, OrderType DEF TypeOK
<1>7. View(Order(k)', left') = Append(LaneMap[k], e)
  <2>1. left'[b] = call.size /\ left \in [Batches -> Nat] /\ left' \in [Batches -> Nat]
    BY <1>1, <1>3 DEF TypeOK
  <2>2. View(Append(Order(k), b), left') = Append(View(Order(k), left), [batch |-> b, left |-> left'[b]])
    BY <1>1, <1>2, <1>6, <2>1, ViewAppend
  <2> QED
    BY <1>2, <1>3, <1>5, <2>1, <2>2, LaneIsView
<1>8. ASSUME NEW c \in Classes, c # k PROVE View(Order(c)', left') = View(Order(c), left)
  <2>1. Order(c)' = Order(c)
    BY <1>5, <1>8
  <2>2. View(Order(c), left') = View(Order(c), left)
    BY <1>6, ViewSame
  <2> QED
    BY <2>1, <2>2
<1>9. LaneMap' = [LaneMap EXCEPT ![k] = Append(LaneMap[k], e)]
  BY <1>2, <1>3, <1>7, <1>8, OneLane
<1>10. ~Lanes!InLane(b)
  <2>1. ASSUME NEW c \in Classes, NEW i \in DOMAIN LaneMap[c] PROVE LaneMap[c][i].batch # b
    BY <1>1, <1>3, <2>1, InSomeLane
  <2> QED
    BY <2>1 DEF Lanes!InLane, LaneMap
<1>11. Lanes!Accept(k, b)
  <2>1. call.size \in {d.size : d \in Calls}
    OBVIOUS
  <2>2. LaneMap' = [LaneMap EXCEPT ![k] = Append(@, e)]
    BY <1>9
  <2> QED
    BY <1>3, <1>10, <2>1, <2>2 DEF Lanes!Accept, LaneMap
<1> QED
  BY <1>1, <1>11

(* The lane of the batch in flight, and what is known of the other lanes.  *)
LEMMA LaneInFlight ==
  ASSUME TypeOK, Placed, ~closed, NEW k \in Classes,
         worker.batch \in Batches, info[worker.batch].class = k
  PROVE  /\ LaneMap[k] = View(Order(k), left)
         /\ LaneMap[k] # <<>>
         /\ Head(LaneMap[k]) = [batch |-> worker.batch, left |-> left[worker.batch]]
<1>1. /\ Order(k) \in Seq(Batches) /\ Order(k) # <<>>
      /\ Order(k)[1] = worker.batch
  BY OrderInFlight
<1>2. /\ View(Order(k), left) # <<>>
      /\ Head(View(Order(k), left)) = [batch |-> Order(k)[1], left |-> left[Order(k)[1]]]
  BY <1>1, ViewTail DEF TypeOK
<1> QED
  BY <1>1, <1>2, LaneIsView

LEMMA OtherLane ==
  ASSUME TypeOK, Placed, NEW b \in Batches, NEW n,
         left' = [left EXCEPT ![b] = n],
         NEW c \in Classes, info[b].class # c, Order(c)' = Order(c)
  PROVE  View(Order(c)', left') = View(Order(c), left)
<1>1. /\ Order(c) \in Seq(Batches)
      /\ \A i \in DOMAIN Order(c) : Order(c)[i] \in Batches /\ info[Order(c)[i]].class = c
  BY OrderType
<1>2. \A i \in DOMAIN Order(c) : left'[Order(c)[i]] = left[Order(c)[i]]
  BY <1>1 DEF TypeOK
<1>3. View(Order(c), left') = View(Order(c), left)
  BY <1>1, <1>2, ViewSame
<1> QED
  BY <1>3

LEMMA SendMoreTransmits ==
  ASSUME TypeOK, TypeOK', Placed, SendMore, ~closed
  PROVE  \E c \in Classes : Lanes!Transmit(c)
<1>1. worker.batch \in Batches
  BY WorkerType DEF SendMore, TypeOK
<1> PICK b \in Batches, k \in Classes : b = worker.batch /\ k = info[b].class
  BY <1>1 DEF TypeOK, Infos
<1> DEFINE s == Order(k)
<1>2. left[b] > 1 /\ left[b] \in Nat
  BY DEF SendMore, TypeOK
<1>3. left' = [left EXCEPT ![b] = left[b] - 1] /\ closed' = closed
  BY DEF SendMore
<1>4. \A c \in Classes : Order(c)' = Order(c)
  BY RequeueKeepsOrder DEF SendMore
<1>5. /\ s \in Seq(Batches) /\ s # <<>> /\ s[1] = b
      /\ \A i \in DOMAIN s : i # 1 => s[i] # b
  BY OrderInFlight
<1>6. /\ LaneMap[k] = View(s, left) /\ LaneMap[k] # <<>>
      /\ Head(LaneMap[k]) = [batch |-> b, left |-> left[b]]
  BY LaneInFlight
<1>7. View(Order(k)', left') = Lanes!Sent(LaneMap[k])
  <2>1. \A i \in DOMAIN s : i # 1 => left'[s[i]] = left[s[i]]
    <3> HIDE DEF s
    <3> QED
      BY <1>3, <1>5 DEF TypeOK
  <2>2. View(s, left') = <<[batch |-> s[1], left |-> left'[s[1]]]>> \o Tail(View(s, left))
    BY <1>5, <2>1, ViewFirst DEF TypeOK
  <2>3. left'[s[1]] = left[b] - 1
    BY <1>3, <1>5 DEF TypeOK
  <2>4. Order(k)' = s
    BY <1>4
  <2> HIDE DEF s
  <2> QED
    BY <1>2, <1>5, <1>6, <2>2, <2>3, <2>4 DEF Lanes!Sent
<1>8. \A c \in Classes : c # k => View(Order(c)', left') = View(Order(c), left)
  BY <1>3, <1>4, OtherLane
<1>9. LaneMap' = [LaneMap EXCEPT ![k] = Lanes!Sent(LaneMap[k])]
  BY <1>3, <1>7, <1>8, OneLane
<1>10. Lanes!Transmit(k)
  BY <1>3, <1>6, <1>9 DEF Lanes!Transmit, LaneMap
<1> QED
  BY <1>10

(* The batch in flight leaves: the lane loses its head.                    *)
LEMMA LeaveShortensLane ==
  ASSUME TypeOK, TypeOK', Placed, ~closed, closed' = closed,
         worker.phase = "sending", worker' = Idle, queue' = queue,
         left' = [left EXCEPT ![worker.batch] = 0]
  PROVE  \E k \in Classes :
           /\ LaneMap' = [LaneMap EXCEPT ![k] = Tail(LaneMap[k])]
           /\ LaneMap[k] # <<>>
           /\ Head(LaneMap[k]) = [batch |-> worker.batch, left |-> left[worker.batch]]
<1>1. worker.batch \in Batches
  BY WorkerType DEF TypeOK
<1> PICK b \in Batches, k \in Classes : b = worker.batch /\ k = info[b].class
  BY <1>1 DEF TypeOK, Infos
<1> DEFINE s == Order(k)
<1>2. worker'.batch \notin Batches
  BY SchedulerAssumption DEF Idle
<1>3. \A c \in Classes : Order(c)' = queue[c]
  BY <1>2, OrderNext
<1>4. /\ s \in Seq(Batches) /\ s # <<>> /\ s[1] = b /\ Tail(s) = queue[k]
      /\ \A i \in DOMAIN s : i # 1 => s[i] # b
  BY OrderInFlight
<1>5. /\ LaneMap[k] = View(s, left) /\ LaneMap[k] # <<>>
      /\ Head(LaneMap[k]) = [batch |-> b, left |-> left[b]]
  BY LaneInFlight
<1>6. View(Order(k)', left') = Tail(LaneMap[k])
  <2> HIDE DEF s
  <2>1. \A i \in DOMAIN s : i # 1 => left'[s[i]] = left[s[i]]
    BY <1>4 DEF TypeOK
  <2>2. left \in [Batches -> Nat] /\ left' \in [Batches -> Nat]
    BY DEF TypeOK
  <2>3. View(Tail(s), left') = Tail(View(s, left))
    BY <1>4, <2>1, <2>2, ViewTail
  <2> USE DEF s
  <2> QED
    BY <1>3, <1>4, <1>5, <2>3
<1>7. ASSUME NEW c \in Classes, c # k PROVE View(Order(c)', left') = View(Order(c), left)
  <2>1. Order(c) = queue[c]
    BY <1>7, OrderElsewhere
  <2> QED
    BY <1>3, <1>7, <2>1, OtherLane
<1>8. LaneMap' = [LaneMap EXCEPT ![k] = Tail(LaneMap[k])]
  BY <1>6, <1>7, OneLane
<1> QED
  BY <1>5, <1>8

LEMMA SendLastTransmits ==
  ASSUME TypeOK, TypeOK', Placed, SendLast, ~closed
  PROVE  \E c \in Classes : Lanes!Transmit(c)
<1>1. left[worker.batch] = 1 /\ closed' = closed
  BY DEF SendLast
<1>2. PICK k \in Classes :
        /\ LaneMap' = [LaneMap EXCEPT ![k] = Tail(LaneMap[k])]
        /\ LaneMap[k] # <<>>
        /\ Head(LaneMap[k]) = [batch |-> worker.batch, left |-> left[worker.batch]]
  BY LeaveShortensLane DEF SendLast
<1>3. Lanes!Sent(LaneMap[k]) = Tail(LaneMap[k])
  BY <1>1, <1>2 DEF Lanes!Sent
<1> QED
  BY <1>1, <1>2, <1>3 DEF Lanes!Transmit, LaneMap

LEMMA AbandonGivesUp ==
  ASSUME TypeOK, TypeOK', Placed, Abandon, ~closed
  PROVE  \E c \in Classes : Lanes!GiveUpHead(c)
<1>1. closed' = closed
  BY DEF Abandon
<1>2. PICK k \in Classes :
        /\ LaneMap' = [LaneMap EXCEPT ![k] = Tail(LaneMap[k])]
        /\ LaneMap[k] # <<>>
  BY LeaveShortensLane DEF Abandon
<1> QED
  BY <1>1, <1>2 DEF Lanes!GiveUpHead, LaneMap
-----------------------------------------------------------------------------
LEMMA ClosedKeepsLanes ==
  ASSUME closed, [Next]_vars
  PROVE  closed' = closed /\ LaneMap' = LaneMap
<1>1. closed' = closed
  BY DEF Next, Enqueue, Admit, Block, Resume, GiveUp, Take, StartSend, SendMore, SendLast,
         Retry, Abandon, Stop, AnnounceTimer, Close, vars
<1> QED
  BY <1>1 DEF LaneMap

LEMMA StepImplements ==
  ASSUME TypeOK, TypeOK', Placed, [Next]_vars
  PROVE  [Lanes!Next]_(Lanes!laneVars)
<1>1. CASE closed
  BY <1>1, ClosedKeepsLanes DEF Lanes!laneVars, LaneMap
<1>2. CASE ~closed
  <2> USE <1>2
  <2>1. ASSUME NEW call \in Calls, Admit(call) PROVE Lanes!Next
    <3>1. call.class \in Classes
      BY SchedulerAssumption
    <3> QED
      BY <2>1, <3>1, AdmitAccepts DEF Lanes!Next
  <2>2. ASSUME NEW p \in Producers, Resume(p) PROVE Lanes!Next
    <3>1. blocked[p] \in Calls /\ Admit(blocked[p])
      BY <2>2 DEF Resume, TypeOK
    <3> QED
      BY <2>1, <3>1
  <2>3. CASE Send
    BY <2>3, SendMoreTransmits, SendLastTransmits DEF Send, Lanes!Next
  <2>4. CASE Abandon
    BY <2>4, AbandonGivesUp DEF Lanes!Next
  <2>5. CASE Close
    BY <2>5 DEF Close, Lanes!Next, Lanes!Shut
  <2>6. ASSUME LaneMap' = LaneMap, closed' = closed PROVE UNCHANGED Lanes!laneVars
    BY <2>6 DEF Lanes!laneVars, LaneMap
  <2>7. CASE Take
    BY <2>6, <2>7, TakeKeepsLanes DEF Take
  <2>8. CASE Retry
    BY <2>6, <2>8, RetryKeepsLanes DEF Retry
  <2>9. ASSUME closed' = closed, worker'.batch = worker.batch, UNCHANGED <<queue, left, info>>
        PROVE  UNCHANGED Lanes!laneVars
    BY <2>6, <2>9, OthersKeepLanes
  <2>10. CASE StartSend
    BY <2>9, <2>10 DEF StartSend, TypeOK, Workers
  <2>11. ASSUME UNCHANGED <<queue, left, info, worker, closed>>
         PROVE  UNCHANGED Lanes!laneVars
    BY <2>9, <2>11
  <2>12. ~Stop
    BY DEF Stop
  <2> QED
    BY <2>1, <2>2, <2>3, <2>4, <2>5, <2>7, <2>8, <2>10, <2>11, <2>12
       DEF Next, Enqueue, Block, GiveUp, AnnounceTimer, Send, vars
<1> QED
  BY <1>1, <1>2

(* Each class is a FIFO lane, for all capacities and calls: the window     *)
(* between take and requeue, with the lock released, reorders nothing.     *)
THEOREM ImplementsLanes == Spec => FifoLanes
<1>1. Init => Lanes!Init
  BY SchedulerAssumption DEF Init, Lanes!Init, LaneOf, InFlight
<1>2. TypeOK /\ TypeOK' /\ Placed /\ [Next]_vars => [Lanes!Next]_(Lanes!laneVars)
  BY StepImplements
<1> QED
  BY <1>1, <1>2, TypeCorrect, AccountingHolds, PTL DEF Spec, FifoLanes, Lanes!Spec
=============================================================================
