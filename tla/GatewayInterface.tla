-------------------------- MODULE GatewayInterface --------------------------
(***************************************************************************)
(* The Reticulum interface of a multi-peer gateway                         *)
(* (src/rns_meshtastic/interface.py) as its threads see it:                *)
(*   - Reticulum's threads hand frames to peers (_enqueue_frame);          *)
(*   - the transmit worker (_tx_loop) sends fragments and polls repairs;   *)
(*   - the callback thread of the backend delivers packets;                *)
(*   - the main thread finishes the initialisation, and later detaches.    *)
(* The transmit queue is a PriorityQueue: repair traffic (priority 0)      *)
(* leaves before data (priority 10), each in the order of its sequence     *)
(* numbers.  Queued repair traffic is alike and only counted.              *)
(*                                                                         *)
(* What the fragment protocol answers is any answer it can give            *)
(* (FragmentProtocol models it).  A send waits for the gate, then succeeds *)
(* or fails, at the backend's will (PhoneApiSession models that).          *)
(* Telemetry is left out.                                                  *)
(***************************************************************************)
EXTENDS Integers, Sequences, FiniteSets

CONSTANTS
  Nodes,           \* the mesh nodes that send packets
  AllowedNodes,    \* those the filters let through
  MaxPeers,        \* max_peers
  MaxQueued,       \* max_queued_fragments
  MaxEarly,        \* packets kept before final_init, 128
  Sizes,           \* how many fragments a frame has
  Transport,       \* "mqtt": close() joins the callback thread; "native"
  MaxFrames        \* bound: frames offered

ASSUME InterfaceAssumption ==
  /\ AllowedNodes \subseteq Nodes
  /\ MaxPeers \in Nat \ {0} /\ MaxQueued \in Nat \ {0} /\ MaxEarly \in Nat \ {0}
  /\ Sizes \subseteq Nat \ {0}
  /\ Transport \in {"mqtt", "native"}
  /\ MaxFrames \in Nat

(* What a packet makes the protocol answer.                                *)
Kinds == {"repair",   \* a gap or a request: one transmission, a REQ or the
                      \* fragment asked for, unless the queue is full
          "whole"}    \* a fragment that completes a frame
(* What a packet that the filters drop holds does not matter.              *)
Packets == {p \in [source : Nodes, kind : Kinds] :
              p.source \in AllowedNodes \/ p.kind = "whole"}
NoPacket == [source |-> 0]           \* a receiving thread has no packet

Receivers == {"main", "callback"}
Nothing == [frame |-> 0]             \* the worker holds no data fragment

VARIABLES
  frames,      \* the frames offered: [size, put, status]
  admitting,   \* the frame whose thread holds _queue_admission_lock, or 0
  raced,       \* history: frames in whose admission another thread put
  data,        \* queued fragments [frame, part, retried]
  control,     \* number of queued repair transmissions
  worker,      \* what the worker does next
  held,        \* the data fragment it took from the queue
  over,        \* history: fragments that were sent or dropped
  receiver,    \* what a receiving thread does next
  handling,    \* the packet it does it for
  main,        \* what the main thread does next
  early,       \* the first _pending_inbound
  stranded,    \* number of packets in the list that replaced it
  backlog,     \* early packets that final_init still has to process
  peers        \* _peers: the nodes with a peer interface

queueVars == <<data, control>>
frameVars == <<frames, admitting, raced>>
workerVars == <<worker, held, over>>
inboundVars == <<receiver, handling, early, stranded, backlog, peers>>
vars == <<frameVars, queueVars, workerVars, inboundVars, main>>

Init ==
  /\ frames = <<>> /\ admitting = 0 /\ raced = {}
  /\ data = <<>> /\ control = 0
  /\ worker = "get" /\ held = Nothing /\ over = {}
  /\ receiver = [r \in Receivers |-> "rest"] /\ handling = [r \in Receivers |-> NoPacket]
  /\ main = "final_init" /\ early = <<>> /\ stranded = 0 /\ backlog = <<>>
  /\ peers = {}

Stopping == main \in {"join", "detached"}
FinalizedLast == main \notin {"final_init", "swap", "drain"}   \* mutant: set at the end
Finalized == main # "final_init"

QueueSize == Len(data) + control
Full == QueueSize >= MaxQueued
-----------------------------------------------------------------------------
(* Frames from Reticulum.  _put_frame checks the room for the whole frame  *)
(* and puts its fragments one by one, under a lock that _put_tx does not   *)
(* take.                                                                   *)
FitsInPart(size) == QueueSize < MaxQueued        \* mutant: room for one fragment
Fits(size) == QueueSize + size <= MaxQueued

OfferFrame(size) ==
  /\ Len(frames) < MaxFrames
  /\ peers # {} /\ main # "detached"
  /\ admitting = 0
  /\ frames' = Append(frames, [size |-> size, put |-> 0,
                              status |-> IF Fits(size) THEN "putting" ELSE "rejected"])
  /\ admitting' = IF Fits(size) THEN Len(frames') ELSE 0
  /\ UNCHANGED <<raced, queueVars, workerVars, inboundVars, main>>

PutFragment ==
  /\ admitting # 0
  /\ LET f == frames[admitting] IN
     IF Full
     THEN /\ frames' = [frames EXCEPT ![admitting].status = "rejected"]
          /\ admitting' = 0
          /\ UNCHANGED data
     ELSE LET last == f.put + 1 = f.size IN
          /\ data' = Append(data, [frame |-> admitting, part |-> f.put + 1, retried |-> FALSE])
          /\ frames' = [frames EXCEPT ![admitting].put = f.put + 1,
                          ![admitting].status = IF last THEN "accepted" ELSE "putting"]
          /\ admitting' = IF last THEN 0 ELSE admitting
  /\ UNCHANGED <<raced, control, workerVars, inboundVars, main>>

(* _put_tx: another thread puts one transmission.                          *)
Raced == raced' = IF admitting = 0 \/ Full THEN raced ELSE raced \cup {admitting}
PutControl == control' = IF Full THEN control ELSE control + 1
-----------------------------------------------------------------------------
(* The transmit worker.                                                    *)
TakeControl ==
  /\ worker = "get" /\ ~Stopping
  /\ control > 0
  /\ control' = control - 1 /\ worker' = "send" /\ held' = Nothing
  /\ UNCHANGED <<frameVars, data, over, inboundVars, main>>

TakeNewest ==                                    \* mutant: a stack
  /\ worker = "get" /\ ~Stopping
  /\ control = 0 /\ data # <<>>
  /\ held' = data[Len(data)] /\ data' = SubSeq(data, 1, Len(data) - 1) /\ worker' = "send"
  /\ UNCHANGED <<frameVars, control, over, inboundVars, main>>

TakeData ==
  /\ worker = "get" /\ ~Stopping
  /\ control = 0 /\ data # <<>>
  /\ held' = Head(data) /\ data' = Tail(data) /\ worker' = "send"
  /\ UNCHANGED <<frameVars, control, over, inboundVars, main>>

TakeNothing ==
  /\ worker = "get" /\ ~Stopping
  /\ QueueSize = 0
  /\ worker' = "poll" /\ held' = Nothing
  /\ UNCHANGED <<frameVars, queueVars, over, inboundVars, main>>

(* The held data fragment is sent or dropped.                              *)
Over == over' = IF held = Nothing THEN over ELSE over \cup {<<held.frame, held.part>>}

SendOnceMore ==                                  \* mutant: retried although sent
  /\ worker = "send"
  /\ Over
  /\ worker' = "retry"
  /\ UNCHANGED <<frameVars, queueVars, held, inboundVars, main>>

SendSucceeds ==
  /\ worker = "send"
  /\ Over /\ held' = Nothing
  /\ worker' = "poll"
  /\ UNCHANGED <<frameVars, queueVars, inboundVars, main>>

SendFailsForGood ==                              \* mutant: the exception ends the thread
  /\ worker = "send"
  /\ worker' = "stopped"
  /\ UNCHANGED <<frameVars, queueVars, held, over, inboundVars, main>>

SendFails ==
  /\ worker = "send"
  /\ worker' = "retry"
  /\ UNCHANGED <<frameVars, queueVars, held, over, inboundVars, main>>

(* It returns to the queue after two seconds, with a new sequence number.  *)
ReturnItem ==
  /\ worker = "retry" /\ ~Stopping
  /\ IF held = Nothing
     THEN PutControl /\ UNCHANGED <<data, over>>
     ELSE /\ UNCHANGED control
          /\ IF Full
             THEN Over /\ UNCHANGED data
             ELSE data' = Append(data, [held EXCEPT !.retried = TRUE]) /\ UNCHANGED over
  /\ Raced
  /\ held' = Nothing /\ worker' = "get"
  /\ UNCHANGED <<frames, admitting, inboundVars, main>>

(* _queue_due_repairs asks for at most one repair, if the queue has room   *)
(* and fragments were received.                                            *)
PollRepairs ==
  /\ worker = "poll"
  /\ \/ worker' = "get"
     \/ ~Full /\ Finalized /\ worker' = "repair"
  /\ UNCHANGED <<frameVars, queueVars, held, over, inboundVars, main>>

PutRepair ==
  /\ worker = "repair"
  /\ PutControl /\ Raced
  /\ worker' = "get"
  /\ UNCHANGED <<frames, admitting, data, held, over, inboundVars, main>>

StopWorker ==
  /\ worker \in {"get", "send", "retry"} /\ Stopping
  /\ worker' = "stopped"
  /\ Over /\ held' = Nothing
  /\ UNCHANGED <<frameVars, queueVars, inboundVars, main>>
-----------------------------------------------------------------------------
(* Packets.  Before final_init they are kept: the test of _finalized and   *)
(* the append are two steps.                                               *)
Handle(r, packet, todo) ==
  /\ receiver' = [receiver EXCEPT ![r] = todo]
  /\ handling' = [handling EXCEPT ![r] = IF todo \in {"keep", "frame"} THEN packet ELSE NoPacket]

Done(r) == Handle(r, NoPacket, "rest")

CallbackRuns ==
  main \notin IF Transport = "mqtt" THEN {"detached"} ELSE {"join", "detached"}

(* _process_backend_packet: the filters, and whether the queue has room.   *)
Accepts(packet) == packet.source \in AllowedNodes

Answer(packet) ==
  IF ~Accepts(packet) \/ (packet.kind = "repair" /\ Full) THEN "rest"
  ELSE IF packet.kind = "repair" THEN "put" ELSE "frame"

Arrive(packet) ==
  /\ CallbackRuns
  /\ receiver["callback"] = "rest"
  /\ Handle("callback", packet, IF Finalized THEN Answer(packet) ELSE "keep")
  /\ UNCHANGED <<frameVars, queueVars, workerVars, early, stranded, backlog, peers, main>>

KeepEarly ==
  /\ receiver["callback"] = "keep"
  /\ IF main \in {"final_init", "swap"}
     THEN /\ early' = IF Len(early) < MaxEarly THEN Append(early, handling["callback"]) ELSE early
          /\ UNCHANGED stranded
     ELSE /\ stranded' = IF stranded < MaxEarly THEN stranded + 1 ELSE stranded
          /\ UNCHANGED early
  /\ Done("callback")
  /\ UNCHANGED <<frameVars, queueVars, workerVars, backlog, peers, main>>

PutAnswer(r) ==
  /\ receiver[r] = "put"
  /\ PutControl /\ Raced
  /\ Done(r)
  /\ UNCHANGED <<frames, admitting, data, workerVars, early, stranded, backlog, peers, main>>

(* _get_or_create_peer, then the frame goes up.                            *)
DeliverFrame(r) ==
  /\ receiver[r] = "frame"
  /\ peers' = IF Cardinality(peers) < MaxPeers
              THEN peers \cup {handling[r].source} ELSE peers
  /\ Done(r)
  /\ UNCHANGED <<frameVars, queueVars, workerVars, early, stranded, backlog, main>>
-----------------------------------------------------------------------------
(* The main thread.  final_init sets _finalized, takes the list of early   *)
(* packets, and processes them while the callback may process new ones.    *)
SetFinalized ==
  /\ main = "final_init"
  /\ main' = "swap"
  /\ UNCHANGED <<frameVars, queueVars, workerVars, inboundVars>>

SwapEarly ==
  /\ main = "swap"
  /\ backlog' = early /\ early' = <<>>
  /\ main' = "drain"
  /\ UNCHANGED <<frameVars, queueVars, workerVars, receiver, handling, stranded, peers>>

Drain ==
  /\ main = "drain"
  /\ receiver["main"] = "rest"
  /\ IF backlog = <<>>
     THEN main' = "run" /\ UNCHANGED <<backlog, receiver, handling>>
     ELSE /\ Handle("main", Head(backlog), Answer(Head(backlog)))
          /\ backlog' = Tail(backlog)
          /\ UNCHANGED main
  /\ UNCHANGED <<frameVars, queueVars, workerVars, early, stranded, peers>>

(* detach: stop the worker, close the backend, and detach the peers.       *)
Detach ==
  /\ main = "run"
  /\ main' = "join"
  /\ UNCHANGED <<frameVars, queueVars, workerVars, inboundVars>>

JoinedAtOnce == TRUE                             \* mutant: no loop_stop
Joined == Transport = "mqtt" => receiver["callback"] = "rest"

DetachPeers ==
  /\ main = "join" /\ Joined
  /\ peers' = {}
  /\ main' = "detached"
  /\ UNCHANGED <<frameVars, queueVars, workerVars, receiver, handling, early, stranded, backlog>>
-----------------------------------------------------------------------------
Worker ==
  \/ TakeControl \/ TakeData \/ TakeNothing \/ SendSucceeds \/ SendFails
  \/ ReturnItem \/ PollRepairs \/ PutRepair \/ StopWorker

Receiver(r) == PutAnswer(r) \/ DeliverFrame(r)
Main ==
  \/ SetFinalized \/ SwapEarly \/ Drain \/ DetachPeers

Next ==
  \/ \E size \in Sizes : OfferFrame(size)
  \/ PutFragment
  \/ Worker
  \/ \E packet \in Packets : Arrive(packet)
  \/ KeepEarly
  \/ \E r \in Receivers : Receiver(r)
  \/ Main
  \/ Detach

Spec == Init /\ [][Next]_vars

(* The threads run, the backend comes back, and a send that is tried again *)
(* and again succeeds at last.                                             *)
Fairness ==
  /\ WF_vars(PutFragment) /\ WF_vars(KeepEarly)
  /\ WF_vars(TakeControl) /\ SF_vars(TakeData) /\ WF_vars(TakeNothing)
  /\ WF_vars(worker = "send" /\ (SendSucceeds \/ SendFails))
  /\ WF_vars(ReturnItem) /\ WF_vars(PollRepairs) /\ WF_vars(PutRepair) /\ WF_vars(StopWorker)
  /\ SF_vars(held # Nothing /\ SendSucceeds)
  /\ \A r \in Receivers : WF_vars(Receiver(r))
  /\ WF_vars(Main)

FairSpec == Spec /\ Fairness
-----------------------------------------------------------------------------
Fragments == [frame : 1..MaxFrames, part : Nat \ {0}, retried : BOOLEAN]
FrameStates == [size : Sizes, put : Nat, status : {"putting", "accepted", "rejected"}]

TypeOK ==
  /\ frames \in Seq(FrameStates) /\ Len(frames) <= MaxFrames
  /\ admitting \in 0..Len(frames)
  /\ raced \subseteq 1..Len(frames)
  /\ data \in Seq(Fragments)
  /\ control \in Nat
  /\ QueueSize <= MaxQueued
  /\ worker \in {"get", "send", "retry", "poll", "repair", "stopped"}
  /\ held \in Fragments \cup {Nothing}
  /\ receiver \in [Receivers -> {"rest", "keep", "put", "frame"}]
  /\ handling \in [Receivers -> Packets \cup {NoPacket}]
  /\ main \in {"final_init", "swap", "drain", "run", "join", "detached"}
  /\ early \in Seq(Packets) /\ Len(early) <= MaxEarly
  /\ stranded \in Nat /\ backlog \in Seq(Packets)
  /\ peers \subseteq AllowedNodes /\ Cardinality(peers) <= MaxPeers

(* A frame whose first fragments are queued and whose last are refused     *)
(* costs airtime and can never be reassembled.  The check of _put_frame    *)
(* prevents it unless another thread put a repair or a retry meanwhile.    *)
Truncated(f) == frames[f].status = "rejected" /\ frames[f].put > 0

TruncatedOnlyByRace == \A f \in DOMAIN frames : Truncated(f) => f \in raced

(* Fragments leave in the order in which they were admitted, unless their  *)
(* own send failed: neither retries nor repair traffic reorder the others. *)
Before(x, y) == x.frame < y.frame \/ (x.frame = y.frame /\ x.part < y.part)
Waiting == IF held = Nothing THEN data ELSE <<held>> \o data

LateOnlyByRetry ==
  \A i, j \in DOMAIN Waiting :
    i < j /\ Before(Waiting[j], Waiting[i]) => Waiting[j].retried

(* Every fragment put is in one place: in the queue or held by the worker, *)
(* once, or sent or dropped.  It is neither lost on the way nor sent again *)
(* after it was sent.                                                      *)
Parts(f) == {<<f, k>> : k \in 1..frames[f].put}
PutParts == UNION {Parts(f) : f \in DOMAIN frames}
Place(i) == <<Waiting[i].frame, Waiting[i].part>>

InOnePlace ==
  /\ \A i, j \in DOMAIN Waiting : i # j => Place(i) # Place(j)
  /\ {Place(i) : i \in DOMAIN Waiting} \cap over = {}
  /\ {Place(i) : i \in DOMAIN Waiting} \cup over = PutParts

(* final_init loses sight of at most one early packet: the one whose       *)
(* thread saw _finalized unset and appends after the list was taken.       *)
OneStrandedAtMost == stranded <= 1

(* No peer interface outlives detach() when close() joins the callback     *)
(* thread; the native backend does not join it, and leaves one at most:    *)
(* that of the packet in its hands.                                        *)
NoPeerOutlivesDetach ==
  main = "detached" => Cardinality(peers) <= IF Transport = "mqtt" THEN 0 ELSE 1

(* A fragment once queued is sent or dropped, whatever fails, as long as   *)
(* the repair traffic, which always goes first, has run out now and then   *)
(* when the worker comes for the next item.                                *)
RepairTrafficPauses == []<>(control = 0 /\ worker \in {"get", "stopped"})

DataServed ==
  RepairTrafficPauses =>
    \A f \in 1..MaxFrames : \A k \in UNION {1..size : size \in Sizes} :
      (f \in DOMAIN frames /\ <<f, k>> \in PutParts) ~> (<<f, k>> \in over \/ Stopping)
=============================================================================
