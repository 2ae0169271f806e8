-------------------------- MODULE TransmitScheduler --------------------------
(***************************************************************************)
(* The radio scheduler of the Android bridge (TransmitScheduler.java):     *)
(* producer threads put frames, split into fragments, into four bounded    *)
(* queues; one worker thread sends them fragment by fragment.              *)
(*                                                                         *)
(* Every action is one critical section of "lock".  A frame is a batch     *)
(* identifier, free again once the frame left.  Left out: the byte limits, *)
(* which repeat the fragment limits in another unit, the pacing delays     *)
(* between fragments, and the telemetry counters (so a call that is        *)
(* rejected changes nothing).                                              *)
(***************************************************************************)
EXTENDS Integers, Sequences, FiniteSets

CONSTANTS
  Batches,            \* identifiers; one more than MaxFrames never run out
  Producers,          \* the threads that enqueue
  Calls,              \* the calls of enqueue and enqueueSerialized they make
  MaxFrames, MaxFragments,             \* capacity
  ReservedFrames, ReservedFragments,   \* the part only repair traffic may use
  MaxSerialized,      \* fragments of the largest serialized frame
  MaxFailures,        \* 3 local failures abandon a frame
  AnnounceBurst,      \* 4 other frames, then a waiting announce is due
  PaceAnnounces,      \* announceIntervalNanos > 0
  None                \* no batch, no call

Classes == {"control", "high", "normal", "announce"}

ASSUME SchedulerAssumption ==
  /\ IsFiniteSet(Batches)
  /\ None \notin Batches
  /\ MaxFrames \in Nat \ {0}         /\ MaxFragments \in Nat \ {0}
  /\ ReservedFrames \in Nat          /\ ReservedFrames < MaxFrames
  /\ ReservedFragments \in Nat       /\ ReservedFragments < MaxFragments
  /\ MaxSerialized \in Nat
  /\ MaxFailures \in Nat \ {0}       /\ AnnounceBurst \in Nat \ {0}
  /\ PaceAnnounces \in BOOLEAN
  /\ Calls \subseteq [producer : Producers, class : Classes, size : Nat \ {0},
                      wait : BOOLEAN, serialize : BOOLEAN]
  /\ None \notin Calls

VARIABLES
  queue,       \* class -> sequence of batches
  left,        \* batch -> fragments still to send, 0 when the batch is free
  info,        \* batch -> its class, serialized, started, failures
  worker,      \* the worker's phase and the batch it took
  pending,     \* the counters of frames and fragments, all and control
  serializedFrames,
  controlSends,     \* consecutiveControlSends, only compared with 1: at most 1
  otherFrames,      \* consecutiveNonAnnounceFrames, at most AnnounceBurst
  announceDue, \* now >= nextAnnounceStartNanos
  blocked,     \* producer -> the call it waits in, or None
  closed

vars == <<queue, left, info, worker, pending, serializedFrames,
          controlSends, otherFrames, announceDue, blocked, closed>>

Blank == [class |-> "normal", serialized |-> FALSE, started |-> FALSE, failures |-> 0]
NothingPending == [frames |-> 0, fragments |-> 0, controlFrames |-> 0, controlFragments |-> 0]

Init ==
  /\ queue = [c \in Classes |-> <<>>]
  /\ left = [b \in Batches |-> 0]
  /\ info = [b \in Batches |-> Blank]
  /\ worker = [phase |-> "idle", batch |-> None]
  /\ pending = NothingPending
  /\ serializedFrames = 0
  /\ controlSends = 0
  /\ otherFrames = 0
  /\ announceDue = TRUE
  /\ blocked = [p \in Producers |-> None]
  /\ closed = FALSE
-----------------------------------------------------------------------------
(* Admission.                                                              *)

Control(class) == class = "control"

FrameLimit(class) == IF Control(class) THEN MaxFrames ELSE MaxFrames - ReservedFrames
FragmentLimit(class) ==
  IF Control(class) THEN MaxFragments ELSE MaxFragments - ReservedFragments

CanEverFit(size, class) == size <= FragmentLimit(class)

HasCapacityShared(size, class) ==               \* mutant: no reserve for control
  /\ ~Control(class) => serializedFrames = 0
  /\ pending.frames + 1 <= MaxFrames
  /\ pending.fragments + size <= MaxFragments

HasCapacity(size, class) ==
  IF serializedFrames > 0
  THEN /\ Control(class)
       /\ pending.controlFrames + 1 <= ReservedFrames
       /\ pending.controlFragments + size <= ReservedFragments
  ELSE /\ pending.frames + 1 <= FrameLimit(class)
       /\ pending.fragments + size <= FragmentLimit(class)

HasSerializedCapacityAnyData == serializedFrames = 0  \* mutant: data may be pending

HasSerializedCapacity ==
  serializedFrames = 0 /\ pending.frames = pending.controlFrames

(* A data frame too large to be queued normally goes alone.                *)
Serialized(call) ==
  /\ call.serialize
  /\ ~Control(call.class)
  /\ ~CanEverFit(call.size, call.class)
  /\ call.size <= MaxSerialized

Eligible(call) == CanEverFit(call.size, call.class) \/ Serialized(call)

Admissible(call) ==
  IF Serialized(call) THEN HasSerializedCapacity ELSE HasCapacity(call.size, call.class)

Count(p, class, frames, fragments) ==
  [frames |-> p.frames + frames,
   fragments |-> p.fragments + fragments,
   controlFrames |-> p.controlFrames + IF Control(class) THEN frames ELSE 0,
   controlFragments |-> p.controlFragments + IF Control(class) THEN fragments ELSE 0]

Batch(call) ==
  [class |-> call.class, serialized |-> Serialized(call), started |-> FALSE, failures |-> 0]

Free == {b \in Batches : left[b] = 0}

(* The identifier is only a name: any free one does.                       *)
Admit(call) ==
  LET b == CHOOSE x \in Free : TRUE IN
  /\ ~closed
  /\ Eligible(call)
  /\ Admissible(call)
  /\ Free # {}
  /\ queue' = [queue EXCEPT ![call.class] = Append(@, b)]
  /\ left' = [left EXCEPT ![b] = call.size]
  /\ info' = [info EXCEPT ![b] = Batch(call)]
  /\ pending' = Count(pending, call.class, 1, call.size)
  /\ serializedFrames' = serializedFrames + IF Serialized(call) THEN 1 ELSE 0
  /\ UNCHANGED <<worker, controlSends, otherFrames, announceDue, closed>>

Enqueue(call) ==
  /\ blocked[call.producer] = None
  /\ Admit(call)
  /\ UNCHANGED blocked

(* waitForCapacity: the producer waits on the lock ...                     *)
Block(call) ==
  /\ blocked[call.producer] = None
  /\ call.wait
  /\ ~closed
  /\ Eligible(call)
  /\ ~Admissible(call)
  /\ blocked' = [blocked EXCEPT ![call.producer] = call]
  /\ UNCHANGED <<queue, left, info, worker, pending, serializedFrames,
                 controlSends, otherFrames, announceDue, closed>>

(* ... until it finds room, or finds the scheduler closed.                 *)
Resume(p) ==
  /\ blocked[p] # None
  /\ Admit(blocked[p])
  /\ blocked' = [blocked EXCEPT ![p] = None]

GiveUp(p) ==
  /\ blocked[p] # None
  /\ closed
  /\ blocked' = [blocked EXCEPT ![p] = None]
  /\ UNCHANGED <<queue, left, info, worker, pending, serializedFrames,
                 controlSends, otherFrames, announceDue, closed>>
-----------------------------------------------------------------------------
(* The worker.                                                             *)

Waiting(c) == queue[c] # <<>>
NoDataWaiting == \A c \in Classes \ {"control"} : ~Waiting(c)

ChooseControlFirst == Waiting("control")       \* mutant: no alternation

ChooseControl == Waiting("control") /\ (NoDataWaiting \/ controlSends < 1)

AnnounceReady ==
  Waiting("announce") /\ (info[Head(queue["announce"])].started \/ announceDue)

AnnounceForced == AnnounceReady /\ otherFrames >= AnnounceBurst

(* The class the worker takes from next: takeReadyDataLocked decides among *)
(* the data classes.                                                       *)
Choice(c) ==
  CASE c = "control"  -> ChooseControl
    [] c = "high"     -> ~ChooseControl /\ ~AnnounceForced /\ Waiting("high")
    [] c = "normal"   -> /\ ~ChooseControl /\ ~AnnounceForced
                         /\ ~Waiting("high") /\ Waiting("normal")
    [] c = "announce" -> /\ ~ChooseControl /\ AnnounceReady
                         /\ AnnounceForced \/ ~(Waiting("high") \/ Waiting("normal"))

Take ==
  /\ worker.phase = "idle"
  /\ ~closed
  /\ \E c \in Classes :
       /\ Choice(c)
       /\ worker' = [phase |-> "pacing", batch |-> Head(queue[c])]
       /\ queue' = [queue EXCEPT ![c] = Tail(@)]
  /\ UNCHANGED <<left, info, pending, serializedFrames, controlSends, otherFrames,
                 announceDue, blocked, closed>>

(* awaitGlobalPacing returned: sender.send runs outside the lock.          *)
StartSend ==
  /\ worker.phase = "pacing"
  /\ ~closed
  /\ worker' = [worker EXCEPT !.phase = "sending"]
  /\ UNCHANGED <<queue, left, info, pending, serializedFrames, controlSends,
                 otherFrames, announceDue, blocked, closed>>

RequeueLast(b, class) ==                        \* mutant: addLast
  queue' = [queue EXCEPT ![class] = Append(@, b)]

Requeue(b, class) == queue' = [queue EXCEPT ![class] = <<b>> \o @]

Idle == [phase |-> "idle", batch |-> None]

(* A fragment was sent that is not the last of its frame.                  *)
SendMore ==
  LET b == worker.batch
      class == info[b].class
  IN /\ worker.phase = "sending"
     /\ left[b] > 1
     /\ left' = [left EXCEPT ![b] = @ - 1]
     /\ info' = [info EXCEPT ![b].started = TRUE]
     /\ pending' = Count(pending, class, 0, -1)
     /\ Requeue(b, class)
     /\ controlSends' = IF Control(class) THEN 1 ELSE 0
     /\ worker' = Idle
     /\ UNCHANGED <<serializedFrames, otherFrames, announceDue, blocked, closed>>

(* The last fragment was sent: the frame leaves.                           *)
SendLast ==
  LET b == worker.batch
      class == info[b].class
  IN /\ worker.phase = "sending"
     /\ left[b] = 1
     /\ left' = [left EXCEPT ![b] = 0]
     /\ info' = [info EXCEPT ![b] = Blank]
     /\ pending' = Count(pending, class, -1, -1)
     /\ serializedFrames' = serializedFrames - IF info[b].serialized THEN 1 ELSE 0
     /\ otherFrames' = CASE class = "announce" -> 0
                         [] class = "control" -> otherFrames
                         [] otherFrames < AnnounceBurst -> otherFrames + 1
                         [] OTHER -> otherFrames
     /\ announceDue' = IF class = "announce" THEN ~PaceAnnounces ELSE announceDue
     /\ controlSends' = IF Control(class) THEN 1 ELSE 0
     /\ worker' = Idle
     /\ UNCHANGED <<queue, blocked, closed>>

(* The third failure, or a failure after close, gives a frame up.          *)
GivesUp(b) == closed \/ info[b].failures + 1 >= MaxFailures

Retry ==
  LET b == worker.batch IN
  /\ worker.phase = "sending"
  /\ ~GivesUp(b)
  /\ info' = [info EXCEPT ![b].failures = @ + 1]
  /\ Requeue(b, info[b].class)
  /\ worker' = Idle
  /\ UNCHANGED <<left, pending, serializedFrames, controlSends, otherFrames,
                 announceDue, blocked, closed>>

AbandonedOne(b) == 1                            \* mutant: counts one fragment only
Abandoned(b) == left[b]

ReleasedNever(b) == 0                           \* mutant: serialized slot not released
Released(b) == IF info[b].serialized THEN 1 ELSE 0

Abandon ==
  LET b == worker.batch IN
  /\ worker.phase = "sending"
  /\ GivesUp(b)
  /\ left' = [left EXCEPT ![b] = 0]
  /\ info' = [info EXCEPT ![b] = Blank]
  /\ pending' = Count(pending, info[b].class, -1, -Abandoned(b))
  /\ serializedFrames' = serializedFrames - Released(b)
  /\ worker' = Idle
  /\ UNCHANGED <<queue, controlSends, otherFrames, announceDue, blocked, closed>>

(* After close the worker returns: it sees closed, or it is interrupted.   *)
Stop ==
  /\ closed
  /\ worker.phase # "stopped"
  /\ worker' = [phase |-> "stopped", batch |-> None]
  /\ UNCHANGED <<queue, left, info, pending, serializedFrames, controlSends,
                 otherFrames, announceDue, blocked, closed>>

AnnounceTimer ==
  /\ ~announceDue
  /\ announceDue' = TRUE
  /\ UNCHANGED <<queue, left, info, worker, pending, serializedFrames,
                 controlSends, otherFrames, blocked, closed>>

(* close() does not wait for the worker: a batch in flight stays there.    *)
Close ==
  /\ ~closed
  /\ closed' = TRUE
  /\ queue' = [c \in Classes |-> <<>>]
  /\ left' = [b \in Batches |-> IF b = worker.batch THEN left[b] ELSE 0]
  /\ info' = [b \in Batches |-> IF b = worker.batch THEN info[b] ELSE Blank]
  /\ pending' = NothingPending
  /\ serializedFrames' = 0
  /\ UNCHANGED <<worker, controlSends, otherFrames, announceDue, blocked>>

Send == SendMore \/ SendLast
Worker == Take \/ StartSend \/ Send \/ Retry \/ Abandon \/ Stop

Next ==
  \/ \E call \in Calls : Enqueue(call) \/ Block(call)
  \/ \E p \in Producers : Resume(p) \/ GiveUp(p)
  \/ Take \/ StartSend \/ SendMore \/ SendLast \/ Retry \/ Abandon \/ Stop
  \/ AnnounceTimer
  \/ Close

Spec == Init /\ [][Next]_vars

(* The worker thread runs, a notified producer runs, the timer fires.      *)
(* RadioRecovers is about the radio, not the code: of the fragments of a   *)
(* class that are tried again and again, some are sent.                    *)
SendMoreOf(c) == worker.phase = "sending" /\ info[worker.batch].class = c /\ SendMore
SendLastOf(c) == worker.phase = "sending" /\ info[worker.batch].class = c /\ SendLast

RadioRecovers == \A c \in Classes : SF_vars(SendMoreOf(c)) /\ SF_vars(SendLastOf(c))

Fairness ==
  /\ WF_vars(Worker)
  /\ \A p \in Producers : WF_vars(Resume(p) \/ GiveUp(p))
  /\ WF_vars(AnnounceTimer)

FairSpec == Spec /\ Fairness
RecoveringSpec == FairSpec /\ RadioRecovers
-----------------------------------------------------------------------------
Live == {b \in Batches : left[b] > 0}
LiveIn(class) == {b \in Live : info[b].class = class}
LiveData == {b \in Live : ~Control(info[b].class)}
Serial == {b \in Live : info[b].serialized}

MaxSize == MaxFragments + MaxSerialized
Fragments(sizes, batches) == {f \in batches \X (1..MaxSize) : f[2] <= sizes[f[1]]}
FragmentsOf(batches) == Fragments(left, batches)

(* The worker holds a batch exactly between take and the critical section  *)
(* that ends the send; a batch that waits is in the queue of its class.    *)
Infos == [class : Classes, serialized : BOOLEAN, started : BOOLEAN, failures : 0..MaxFailures - 1]
Workers == [phase : {"pacing", "sending"}, batch : Batches]
             \cup [phase : {"idle", "stopped"}, batch : {None}]
Counters == [frames : Int, fragments : Int, controlFrames : Int, controlFragments : Int]

TypeOK ==
  /\ left \in [Batches -> Nat]
  /\ info \in [Batches -> Infos]
  /\ queue \in [Classes -> Seq(Batches)]
  /\ worker \in Workers
  /\ pending \in Counters
  /\ serializedFrames \in Int
  /\ controlSends \in 0..1
  /\ otherFrames \in 0..AnnounceBurst
  /\ announceDue \in BOOLEAN
  /\ blocked \in [Producers -> Calls \cup {None}]
  /\ closed \in BOOLEAN

(* While the scheduler is open its counters are the truth: the frames and  *)
(* the fragments that wait or are in flight, of all classes and of         *)
(* control, whatever mix of sends, retries and abandoned frames led here.  *)
(* A counter that drifts blocks producers forever, or lets the queue grow. *)
Accounting ==
  ~closed =>
    /\ pending.frames = Cardinality(Live)
    /\ pending.fragments = Cardinality(FragmentsOf(Live))
    /\ pending.controlFrames = Cardinality(LiveIn("control"))
    /\ pending.controlFragments = Cardinality(FragmentsOf(LiveIn("control")))
    /\ serializedFrames = Cardinality(Serial)

(* "Capacity is reserved for fragment repair traffic": as long as the      *)
(* control frames that wait leave room in the reserve, one more is         *)
(* admitted, however much data waits and also beside a serialized frame.   *)
ReserveHonoured ==
  \A size \in 1..ReservedFragments :
    /\ ~closed
    /\ pending.controlFrames + 1 <= ReservedFrames
    /\ pending.controlFragments + size <= ReservedFragments
    => HasCapacity(size, "control")

(* A frame beyond the normal limits is alone: while it waits or is sent,   *)
(* no other data frame does ("one larger RNS frame at a time", README.md). *)
SerializedAlone ==
  ~closed => \A b \in Serial : LiveData = {b}

(* The lanes of TransmitLanes: the batch in flight is still at the head.   *)
InFlight(class) ==
  IF worker.batch # None /\ info[worker.batch].class = class
  THEN <<worker.batch>> ELSE <<>>

LaneOf(class) ==
  LET batches == InFlight(class) \o queue[class] IN
  [i \in DOMAIN batches |-> [batch |-> batches[i], left |-> left[batches[i]]]]

Lanes == INSTANCE TransmitLanes WITH
  lane <- [c \in Classes |-> IF closed THEN <<>> ELSE LaneOf(c)],
  open <- ~closed,
  Sizes <- {call.size : call \in Calls}

(* The scheduler implements TransmitLanes: no frame is lost, duplicated or *)
(* overtaken within its class, though the worker takes a batch out of its  *)
(* queue, works outside the lock and puts it back.                         *)
FifoLanes == Lanes!Spec

(* Each accepted frame leaves at last, if the radio recovers: repair is    *)
(* not starved by data, nor data by repair ("Control and data              *)
(* transmissions are interleaved so repair cannot starve new RNS frames"), *)
(* and an announce gets its turn after AnnounceBurst frames.  Only         *)
(* high-priority frames may pass normal ones forever.                      *)
ClassesServed == \A b \in Batches : \A class \in {"control", "normal", "announce"} :
  (left[b] > 0 /\ info[b].class = class)
    ~> (left[b] = 0 \/ closed \/ (class = "normal" /\ Waiting("high")))

(* Once only normal frames are left, a producer that waits for capacity is *)
(* released, by room or by close: no wake-up is missed and no counter      *)
(* keeps the queue full.                                                   *)
OnlyNormal == \A b \in Live : info[b].class = "normal"

BackpressureReleases == \A p \in Producers :
  <>[]OnlyNormal => (blocked[p] # None ~> blocked[p] = None)
=============================================================================
