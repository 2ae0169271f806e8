------------------------ MODULE GatewayInterfaceProofs ------------------------
(***************************************************************************)
(* Proofs about the Reticulum interface of a gateway: the types, what      *)
(* becomes of the fragments in the transmit queue, and what final_init and *)
(* detach may leave behind.                                                *)
(***************************************************************************)
EXTENDS GatewayInterface, FiniteSetTheorems, TLAPS

(* How a packet is answered.                                               *)
LEMMA AnswerType ==
  ASSUME NEW packet \in Packets
  PROVE  /\ Answer(packet) \in {"rest", "frame", "put"}
         /\ Answer(packet) = "frame" => packet.source \in AllowedNodes
BY DEF Answer, Accepts

(* A receiving thread has a packet when it needs one, and only peers that  *)
(* the filters let through are created.                                    *)
HandlingInv ==
  \A r \in Receivers :
    /\ receiver[r] \in {"keep", "frame"} => handling[r] \in Packets
    /\ receiver[r] = "frame" => handling[r].source \in AllowedNodes

FrameTypes ==
  /\ frames \in Seq(FrameStates) /\ Len(frames) <= MaxFrames
  /\ admitting \in 0..Len(frames)
  /\ raced \subseteq 1..Len(frames)
QueueTypes == data \in Seq(Fragments) /\ control \in Nat /\ QueueSize <= MaxQueued
WorkerTypes ==
  /\ worker \in {"get", "send", "retry", "poll", "repair", "stopped"}
  /\ held \in Fragments \cup {Nothing}
InboundTypes ==
  /\ receiver \in [Receivers -> {"rest", "keep", "put", "frame"}]
  /\ handling \in [Receivers -> Packets \cup {NoPacket}]
  /\ early \in Seq(Packets) /\ Len(early) <= MaxEarly
  /\ stranded \in Nat /\ backlog \in Seq(Packets)
  /\ peers \subseteq AllowedNodes /\ Cardinality(peers) <= MaxPeers /\ IsFiniteSet(peers)
MainTypes == main \in {"final_init", "swap", "drain", "run", "join", "detached"}

(* The frame that is being admitted is the last one, it has fragments to   *)
(* put, and they fit unless somebody put something meanwhile.              *)
AdmissionInv ==
  /\ admitting # 0 =>
       /\ admitting = Len(frames)
       /\ frames[admitting].status = "putting"
       /\ frames[admitting].put < frames[admitting].size
       /\ admitting \notin raced =>
            QueueSize + frames[admitting].size - frames[admitting].put <= MaxQueued
  /\ TruncatedOnlyByRace

IInv == /\ FrameTypes /\ QueueTypes /\ WorkerTypes /\ InboundTypes /\ MainTypes
        /\ HandlingInv /\ AdmissionInv

LEMMA TypesGiveTypeOK == IInv => TypeOK
BY DEF IInv, TypeOK, FrameTypes, QueueTypes, WorkerTypes, InboundTypes, MainTypes

USE InterfaceAssumption
-----------------------------------------------------------------------------
(* What a thread that puts one repair does to the queue and the history.   *)
LEMMA PutControlKeeps ==
  ASSUME FrameTypes, QueueTypes, AdmissionInv, PutControl, Raced, UNCHANGED <<data, frames, admitting>>
  PROVE  FrameTypes' /\ QueueTypes' /\ AdmissionInv'
<1>1. Len(data) \in Nat /\ control \in Nat
  BY DEF QueueTypes
<1>2. FrameTypes'
  BY DEF FrameTypes, Raced
<1>3. QueueTypes'
  BY <1>1 DEF QueueTypes, PutControl, Full, QueueSize
<1>4. AdmissionInv'
  <2>1. CASE Full
    BY <2>1 DEF AdmissionInv, TruncatedOnlyByRace, Truncated, PutControl, Raced, QueueSize
  <2>2. CASE ~Full /\ admitting = 0
    BY <2>2 DEF AdmissionInv, TruncatedOnlyByRace, Truncated, Raced
  <2>3. CASE ~Full /\ admitting # 0
    <3>1. raced' = raced \cup {admitting}
      BY <2>3 DEF Raced
    <3> QED BY <3>1 DEF AdmissionInv, TruncatedOnlyByRace, Truncated
  <2> QED BY <2>1, <2>2, <2>3
<1> QED BY <1>2, <1>3, <1>4

(* The frame that is being admitted exists.                                *)
LEMMA AdmittedType ==
  ASSUME FrameTypes, admitting # 0
  PROVE  /\ admitting \in 1..Len(frames) /\ frames[admitting] \in FrameStates
         /\ frames[admitting].size \in Nat /\ frames[admitting].put \in Nat
<1>1. admitting \in 1..Len(frames)
  BY DEF FrameTypes
<1>2. frames[admitting] \in FrameStates
  BY <1>1 DEF FrameTypes
<1>3. ASSUME NEW f \in FrameStates PROVE f.size \in Nat /\ f.put \in Nat
  BY DEF FrameStates
<1> QED BY <1>1, <1>2, <1>3

(* Taking something from the queue only makes room.                        *)
LEMMA TakeKeeps ==
  ASSUME FrameTypes, QueueTypes, AdmissionInv, UNCHANGED frameVars,
         \/ control > 0 /\ control' = control - 1 /\ data' = data
         \/ data # <<>> /\ data' = Tail(data) /\ control' = control
  PROVE  FrameTypes' /\ QueueTypes' /\ AdmissionInv'
<1>1. Len(data) \in Nat /\ control \in Nat
  BY DEF QueueTypes
<1>2. FrameTypes'
  BY DEF FrameTypes, frameVars
<1>3. data' \in Seq(Fragments) /\ control' \in Nat /\ QueueSize' = QueueSize - 1
  BY <1>1 DEF QueueTypes, QueueSize
<1>4. QueueTypes'
  BY <1>1, <1>3 DEF QueueTypes, QueueSize
<1>5. AdmissionInv'
  <2>1. QueueSize \in Nat
    BY <1>1 DEF QueueSize
  <2>2. ASSUME admitting # 0
        PROVE  frames[admitting].size \in Nat /\ frames[admitting].put \in Nat
    BY <2>2, AdmittedType
  <2> QED BY <1>3, <2>1, <2>2 DEF AdmissionInv, TruncatedOnlyByRace, Truncated, frameVars
<1> QED BY <1>2, <1>4, <1>5

LEMMA FrameStep ==
  ASSUME IInv, [Next]_vars
  PROVE  FrameTypes' /\ QueueTypes' /\ AdmissionInv'
<1> USE DEF IInv
<1>1. ASSUME UNCHANGED <<frameVars, queueVars>>
      PROVE  FrameTypes' /\ QueueTypes' /\ AdmissionInv'
  BY <1>1 DEF frameVars, queueVars, FrameTypes, QueueTypes, AdmissionInv, QueueSize,
              TruncatedOnlyByRace, Truncated
<1>2. ASSUME NEW size \in Sizes, OfferFrame(size)
      PROVE  FrameTypes' /\ QueueTypes' /\ AdmissionInv'
  <2> DEFINE f == [size |-> size, put |-> 0, status |-> IF Fits(size) THEN "putting" ELSE "rejected"]
  <2>1. f \in FrameStates
    BY DEF FrameStates
  <2>2. frames' = Append(frames, f) /\ Len(frames) \in Nat /\ Len(frames) < MaxFrames
    BY <1>2 DEF OfferFrame, FrameTypes
  <2>3. frames' \in Seq(FrameStates) /\ Len(frames') = Len(frames) + 1 /\ frames'[Len(frames')] = f
        /\ \A g \in 1..Len(frames) : frames'[g] = frames[g]
    BY <2>1, <2>2 DEF FrameTypes
  <2>4. admitting' = (IF Fits(size) THEN Len(frames') ELSE 0) /\ raced' = raced
        /\ UNCHANGED <<data, control>>
    BY <1>2 DEF OfferFrame, queueVars
  <2>5. FrameTypes'
    BY <2>2, <2>3, <2>4 DEF FrameTypes
  <2>6. QueueTypes'
    BY <2>4 DEF QueueTypes, QueueSize
  <2>7. AdmissionInv'
    <3>1. f.put = 0 /\ f.size = size /\ size > 0 /\ size \in Nat
      OBVIOUS
    <3>2. TruncatedOnlyByRace'
      BY <2>2, <2>3, <2>4, <3>1 DEF AdmissionInv, TruncatedOnlyByRace, Truncated, FrameTypes
    <3>3. ASSUME admitting' # 0
          PROVE  /\ admitting' = Len(frames') /\ frames'[admitting'] = f
                 /\ f.status = "putting" /\ QueueSize + size <= MaxQueued
      BY <2>3, <2>4, <3>3 DEF Fits
    <3>4. QueueSize' = QueueSize /\ QueueSize \in Nat
      BY <2>4 DEF QueueSize, QueueTypes
    <3> QED BY <3>1, <3>2, <3>3, <3>4 DEF AdmissionInv
  <2> QED BY <2>5, <2>6, <2>7
<1>3. CASE PutFragment
  <2> DEFINE a == admitting
             f == frames[admitting]
  <2>1. /\ a \in 1..Len(frames) /\ a = Len(frames) /\ f \in FrameStates /\ f.status = "putting"
        /\ f.put < f.size /\ f.size \in Nat /\ f.put \in Nat
    BY <1>3, AdmittedType DEF PutFragment, AdmissionInv
  <2>2. Len(data) \in Nat /\ control \in Nat /\ QueueSize \in Nat /\ control' = control /\ raced' = raced
    BY <1>3 DEF PutFragment, QueueTypes, QueueSize
  <2>3. CASE Full
    <3>1. frames' = [frames EXCEPT ![a].status = "rejected"] /\ admitting' = 0 /\ data' = data
      BY <1>3, <2>3 DEF PutFragment
    <3>2. /\ frames' \in Seq(FrameStates) /\ Len(frames') = Len(frames)
          /\ \A g \in 1..Len(frames) : frames'[g].put = frames[g].put
          /\ \A g \in 1..Len(frames) \ {a} : frames'[g] = frames[g]
      <4> DEFINE g == [f EXCEPT !.status = "rejected"]
      <4>1. g \in FrameStates /\ g.put = f.put
        BY <2>1 DEF FrameStates
      <4>2. frames' = [frames EXCEPT ![a] = g]
        BY <3>1
      <4> HIDE DEF g
      <4> QED BY <2>1, <4>1, <4>2 DEF FrameTypes
    <3>3. a \in raced
      BY <1>3, <2>1, <2>2, <2>3 DEF PutFragment, AdmissionInv, Full
    <3>4. TruncatedOnlyByRace'
      BY <2>2, <3>2, <3>3 DEF AdmissionInv, TruncatedOnlyByRace, Truncated, FrameTypes
    <3> QED BY <2>2, <3>1, <3>2, <3>4 DEF FrameTypes, QueueTypes, AdmissionInv, QueueSize
  <2>4. CASE ~Full
    <3> DEFINE last == f.put + 1 = f.size
               x == [frame |-> a, part |-> f.put + 1, retried |-> FALSE]
    <3>1. /\ data' = Append(data, x)
          /\ frames' = [frames EXCEPT ![a].put = f.put + 1,
                          ![a].status = IF last THEN "accepted" ELSE "putting"]
          /\ admitting' = IF last THEN 0 ELSE a
      BY <1>3, <2>4 DEF PutFragment
    <3>2. x \in Fragments
      BY <2>1 DEF Fragments, FrameTypes
    <3>3. /\ data' \in Seq(Fragments) /\ QueueSize' = QueueSize + 1
      BY <2>2, <3>1, <3>2 DEF QueueTypes, QueueSize
    <3>4. QueueTypes'
      BY <2>2, <2>4, <3>3 DEF QueueTypes, Full
    <3>5. /\ frames' \in Seq(FrameStates) /\ Len(frames') = Len(frames)
          /\ frames'[a].put = f.put + 1 /\ frames'[a].size = f.size
          /\ frames'[a].status = IF last THEN "accepted" ELSE "putting"
          /\ \A g \in 1..Len(frames) \ {a} : frames'[g] = frames[g]
      <4> DEFINE status == IF last THEN "accepted" ELSE "putting"
                 h == [f EXCEPT !.put = f.put + 1]
                 g == [h EXCEPT !.status = status]
      <4>1. h \in FrameStates /\ h.put = f.put + 1 /\ h.size = f.size
        BY <2>1 DEF FrameStates
      <4>2. frames' = [frames EXCEPT ![a] = g]
        BY <3>1
      <4> HIDE DEF h
      <4>3. g \in FrameStates /\ g.put = h.put /\ g.size = h.size /\ g.status = status
        BY <4>1 DEF FrameStates
      <4> HIDE DEF g
      <4> QED BY <2>1, <4>1, <4>2, <4>3 DEF FrameTypes
    <3>6. FrameTypes'
      BY <2>1, <2>2, <3>1, <3>5 DEF FrameTypes
    <3>7. TruncatedOnlyByRace'
      BY <2>2, <3>5 DEF AdmissionInv, TruncatedOnlyByRace, Truncated, FrameTypes
    <3>8. AdmissionInv'
      <4>1. CASE last
        <5>1. admitting' = 0
          BY <3>1, <4>1
        <5> QED BY <3>7, <5>1 DEF AdmissionInv
      <4>2. CASE ~last
        <5>1. /\ admitting' = a /\ frames'[a].status = "putting" /\ frames'[a].put < frames'[a].size
              /\ Len(frames') = a
          BY <2>1, <3>1, <3>5, <4>2
        <5>2. ASSUME a \notin raced
              PROVE  QueueSize' + frames'[a].size - frames'[a].put <= MaxQueued
          BY <2>1, <2>2, <3>3, <3>5, <5>2 DEF AdmissionInv
        <5> QED BY <2>2, <3>7, <5>1, <5>2 DEF AdmissionInv
      <4> QED BY <4>1, <4>2
    <3> QED BY <3>4, <3>6, <3>8
  <2> QED BY <2>3, <2>4
<1>4. CASE TakeControl \/ TakeData
  BY <1>4, TakeKeeps DEF TakeControl, TakeData
<1>5. CASE TakeNothing \/ SendSucceeds \/ SendFails \/ PollRepairs \/ StopWorker
  BY <1>1, <1>5 DEF TakeNothing, SendSucceeds, SendFails, PollRepairs, StopWorker
<1>6. CASE ReturnItem
  <2>1. CASE held = Nothing
    BY <1>6, <2>1, PutControlKeeps DEF ReturnItem
  <2>2. CASE held # Nothing /\ Full
    BY <1>1, <1>6, <2>2 DEF ReturnItem, Raced, frameVars, queueVars
  <2>3. CASE held # Nothing /\ ~Full
    <3>1. /\ data' = Append(data, [held EXCEPT !.retried = TRUE]) /\ control' = control
          /\ UNCHANGED <<frames, admitting>>
          /\ raced' = IF admitting = 0 THEN raced ELSE raced \cup {admitting}
      BY <1>6, <2>3 DEF ReturnItem, Raced
    <3>2. [held EXCEPT !.retried = TRUE] \in Fragments
      BY <2>3 DEF WorkerTypes, Fragments
    <3>3. QueueTypes'
      BY <2>3, <3>1, <3>2 DEF QueueTypes, QueueSize, Full
    <3>4. FrameTypes'
      BY <3>1 DEF FrameTypes
    <3>5. AdmissionInv'
      BY <3>1 DEF AdmissionInv, TruncatedOnlyByRace, Truncated
    <3> QED BY <3>3, <3>4, <3>5
  <2> QED BY <2>1, <2>2, <2>3
<1>7. CASE PutRepair
  BY <1>7, PutControlKeeps DEF PutRepair
<1>8. ASSUME NEW r \in Receivers, PutAnswer(r)
      PROVE  FrameTypes' /\ QueueTypes' /\ AdmissionInv'
  BY <1>8, PutControlKeeps DEF PutAnswer
<1>9. ASSUME NEW r \in Receivers, DeliverFrame(r)
      PROVE  FrameTypes' /\ QueueTypes' /\ AdmissionInv'
  BY <1>1, <1>9 DEF DeliverFrame
<1>10. ASSUME NEW packet \in Packets, Arrive(packet)
       PROVE  FrameTypes' /\ QueueTypes' /\ AdmissionInv'
  BY <1>1, <1>10 DEF Arrive
<1>11. CASE KeepEarly \/ Main \/ Detach
  BY <1>1, <1>11 DEF KeepEarly, Main, SetFinalized, SwapEarly, Drain, DetachPeers, Detach
<1>12. CASE UNCHANGED vars
  BY <1>1, <1>12 DEF vars
<1> QED
  BY <1>2, <1>3, <1>4, <1>5, <1>6, <1>7, <1>8, <1>9, <1>10, <1>11, <1>12 DEF Next, Worker, Receiver
-----------------------------------------------------------------------------
(* The receiving threads: what they hold has its type.                     *)
LEMMA HandleKeeps ==
  ASSUME InboundTypes, HandlingInv, NEW r \in Receivers, NEW packet,
         NEW todo \in {"rest", "keep", "put", "frame"}, Handle(r, packet, todo),
         todo \in {"keep", "frame"} => packet \in Packets,
         todo = "frame" => packet.source \in AllowedNodes
  PROVE  /\ receiver' \in [Receivers -> {"rest", "keep", "put", "frame"}]
         /\ handling' \in [Receivers -> Packets \cup {NoPacket}]
         /\ HandlingInv'
         /\ receiver'[r] = todo
         /\ \A q \in Receivers \ {r} : receiver'[q] = receiver[q]
BY DEF InboundTypes, HandlingInv, Handle

LEMMA DoneKeeps ==
  ASSUME InboundTypes, HandlingInv, NEW r \in Receivers, Done(r)
  PROVE  /\ receiver' \in [Receivers -> {"rest", "keep", "put", "frame"}]
         /\ handling' \in [Receivers -> Packets \cup {NoPacket}]
         /\ HandlingInv'
         /\ receiver'[r] = "rest"
         /\ \A q \in Receivers \ {r} : receiver'[q] = receiver[q]
BY HandleKeeps DEF Done

(* A new peer fits.                                                        *)
LEMMA NewPeer ==
  ASSUME IsFiniteSet(peers), Cardinality(peers) <= MaxPeers, NEW node
  PROVE  LET new == IF Cardinality(peers) < MaxPeers THEN peers \cup {node} ELSE peers
         IN  /\ IsFiniteSet(new) /\ Cardinality(new) <= MaxPeers
             /\ Cardinality(new) <= Cardinality(peers) + 1
<1>1. Cardinality(peers) \in Nat
  BY FS_CardinalityType
<1>2. /\ IsFiniteSet(peers \cup {node})
      /\ Cardinality(peers \cup {node}) = Cardinality(peers)
         \/ Cardinality(peers \cup {node}) = Cardinality(peers) + 1
  BY FS_AddElement
<1> QED BY <1>1, <1>2

LEMMA InboundStep ==
  ASSUME IInv, [Next]_vars
  PROVE  InboundTypes' /\ HandlingInv' /\ MainTypes' /\ WorkerTypes'
<1> USE DEF IInv
<1>1. ASSUME UNCHANGED inboundVars PROVE InboundTypes' /\ HandlingInv'
  BY <1>1 DEF inboundVars, InboundTypes, HandlingInv
<1>2. ASSUME UNCHANGED main PROVE MainTypes'
  BY <1>2 DEF MainTypes
<1>3. ASSUME UNCHANGED workerVars PROVE WorkerTypes'
  BY <1>3 DEF WorkerTypes, workerVars
<1>4. CASE (\E size \in Sizes : OfferFrame(size)) \/ PutFragment
  BY <1>1, <1>2, <1>3, <1>4 DEF OfferFrame, PutFragment
<1>5. CASE Worker
  <2>1. UNCHANGED inboundVars /\ UNCHANGED main
    BY <1>5 DEF Worker, TakeControl, TakeData, TakeNothing, SendSucceeds, SendFails, ReturnItem,
                PollRepairs, PutRepair, StopWorker
  <2>2. worker' \in {"get", "send", "retry", "poll", "repair", "stopped"}
    BY <1>5 DEF Worker, TakeControl, TakeData, TakeNothing, SendSucceeds, SendFails, ReturnItem,
                PollRepairs, PutRepair, StopWorker
  <2>3. held' \in Fragments \cup {Nothing}
    <3>1. CASE TakeData
      BY <1>5, <3>1 DEF TakeData, QueueTypes
    <3>2. CASE ~TakeData
      <4>1. held' = held \/ held' = Nothing
        BY <1>5, <3>2 DEF Worker, TakeControl, TakeNothing, SendSucceeds, SendFails, ReturnItem,
                    PollRepairs, PutRepair, StopWorker
      <4> QED BY <4>1 DEF WorkerTypes
    <3> QED BY <3>1, <3>2
  <2> QED BY <1>1, <1>2, <2>1, <2>2, <2>3 DEF WorkerTypes
<1>6. ASSUME NEW packet \in Packets, Arrive(packet)
      PROVE  InboundTypes' /\ HandlingInv' /\ MainTypes' /\ WorkerTypes'
  <2> DEFINE todo == IF Finalized THEN Answer(packet) ELSE "keep"
  <2>1. /\ todo \in {"rest", "keep", "put", "frame"}
        /\ todo = "frame" => packet.source \in AllowedNodes
    BY AnswerType
  <2>2. Handle("callback", packet, todo) /\ "callback" \in Receivers
    BY <1>6 DEF Arrive, Receivers
  <2>3. UNCHANGED <<early, stranded, backlog, peers, main, workerVars>>
    BY <1>6 DEF Arrive
  <2> HIDE DEF todo
  <2>4. /\ receiver' \in [Receivers -> {"rest", "keep", "put", "frame"}]
        /\ handling' \in [Receivers -> Packets \cup {NoPacket}] /\ HandlingInv'
    BY <2>1, <2>2, HandleKeeps
  <2> QED BY <1>2, <1>3, <2>3, <2>4 DEF InboundTypes
<1>7. CASE KeepEarly
  <2>1. /\ Done("callback") /\ "callback" \in Receivers /\ receiver["callback"] = "keep"
        /\ UNCHANGED <<backlog, peers, main, workerVars>>
    BY <1>7 DEF KeepEarly, Receivers
  <2>2. handling["callback"] \in Packets
    BY <2>1 DEF HandlingInv
  <2>3. /\ receiver' \in [Receivers -> {"rest", "keep", "put", "frame"}]
        /\ handling' \in [Receivers -> Packets \cup {NoPacket}] /\ HandlingInv'
    BY <2>1, DoneKeeps
  <2>4. early' \in Seq(Packets) /\ Len(early') <= MaxEarly
    <3>1. CASE early' = early
      BY <3>1 DEF InboundTypes
    <3>2. CASE Len(early) < MaxEarly /\ early' = Append(early, handling["callback"])
      BY <2>2, <3>2 DEF InboundTypes
    <3> QED BY <1>7, <3>1, <3>2 DEF KeepEarly
  <2>5. stranded' \in Nat
    BY <1>7 DEF KeepEarly, InboundTypes
  <2> QED BY <1>2, <1>3, <2>1, <2>3, <2>4, <2>5 DEF InboundTypes
<1>8. ASSUME NEW r \in Receivers, PutAnswer(r)
      PROVE  InboundTypes' /\ HandlingInv' /\ MainTypes' /\ WorkerTypes'
  <2>1. Done(r) /\ UNCHANGED <<early, stranded, backlog, peers, main, workerVars>>
    BY <1>8 DEF PutAnswer
  <2>2. /\ receiver' \in [Receivers -> {"rest", "keep", "put", "frame"}]
        /\ handling' \in [Receivers -> Packets \cup {NoPacket}] /\ HandlingInv'
    BY <2>1, DoneKeeps
  <2> QED BY <1>2, <1>3, <2>1, <2>2 DEF InboundTypes
<1>9. ASSUME NEW r \in Receivers, DeliverFrame(r)
      PROVE  InboundTypes' /\ HandlingInv' /\ MainTypes' /\ WorkerTypes'
  <2>1. /\ Done(r) /\ UNCHANGED <<early, stranded, backlog, main, workerVars>>
        /\ peers' = IF Cardinality(peers) < MaxPeers THEN peers \cup {handling[r].source} ELSE peers
        /\ handling[r].source \in AllowedNodes
    BY <1>9 DEF DeliverFrame, HandlingInv
  <2>2. /\ receiver' \in [Receivers -> {"rest", "keep", "put", "frame"}]
        /\ handling' \in [Receivers -> Packets \cup {NoPacket}] /\ HandlingInv'
    BY <2>1, DoneKeeps
  <2>3. IsFiniteSet(peers') /\ Cardinality(peers') <= MaxPeers
    BY <2>1, NewPeer DEF InboundTypes
  <2>4. peers' \subseteq AllowedNodes
    BY <2>1 DEF InboundTypes
  <2> QED BY <1>2, <1>3, <2>1, <2>2, <2>3, <2>4 DEF InboundTypes
<1>10. CASE SetFinalized
  BY <1>1, <1>3, <1>10 DEF SetFinalized, MainTypes
<1>11. CASE SwapEarly
  <2>1. /\ main' = "drain" /\ backlog' = early /\ early' = <<>>
        /\ UNCHANGED <<receiver, handling, stranded, peers, workerVars>>
    BY <1>11 DEF SwapEarly
  <2>2. <<>> \in Seq(Packets) /\ Len(<<>>) = 0
    OBVIOUS
  <2> QED BY <1>3, <2>1, <2>2 DEF InboundTypes, HandlingInv, MainTypes
<1>12. CASE Drain
  <2>1. CASE backlog = <<>>
    BY <1>3, <1>12, <2>1 DEF Drain, InboundTypes, HandlingInv, MainTypes
  <2>2. CASE backlog # <<>>
    <3> DEFINE packet == Head(backlog)
    <3>1. packet \in Packets /\ Tail(backlog) \in Seq(Packets) /\ "main" \in Receivers
      BY <2>2 DEF InboundTypes, Receivers
    <3>2. /\ Handle("main", packet, Answer(packet)) /\ backlog' = Tail(backlog)
          /\ UNCHANGED <<early, stranded, peers, main, workerVars>>
      BY <1>12, <2>2 DEF Drain
    <3> HIDE DEF packet
    <3>3. /\ receiver' \in [Receivers -> {"rest", "keep", "put", "frame"}]
          /\ handling' \in [Receivers -> Packets \cup {NoPacket}] /\ HandlingInv'
      BY <3>1, <3>2, HandleKeeps, AnswerType
    <3> QED BY <1>2, <1>3, <3>1, <3>2, <3>3 DEF InboundTypes
  <2> QED BY <2>1, <2>2
<1>13. CASE Detach
  BY <1>1, <1>3, <1>13 DEF Detach, MainTypes
<1>14. CASE DetachPeers
  <2>1. Cardinality({}) = 0 /\ IsFiniteSet({})
    BY FS_EmptySet
  <2> QED BY <1>3, <1>14, <2>1 DEF DetachPeers, InboundTypes, HandlingInv, MainTypes
<1>15. CASE UNCHANGED vars
  BY <1>1, <1>2, <1>3, <1>15 DEF vars
<1> QED
  BY <1>4, <1>5, <1>6, <1>7, <1>8, <1>9, <1>10, <1>11, <1>12, <1>13, <1>14, <1>15
     DEF Next, Receiver, Main

LEMMA InitIInv == Init => IInv
<1> SUFFICES ASSUME Init PROVE IInv
  OBVIOUS
<1>1. FrameTypes /\ AdmissionInv
  BY DEF Init, FrameTypes, AdmissionInv, TruncatedOnlyByRace
<1>2. QueueTypes
  BY DEF Init, QueueTypes, QueueSize
<1>3. WorkerTypes /\ MainTypes
  BY DEF Init, WorkerTypes, MainTypes
<1>4. InboundTypes
  BY FS_EmptySet DEF Init, InboundTypes
<1>5. HandlingInv
  BY DEF Init, HandlingInv
<1> QED BY <1>1, <1>2, <1>3, <1>4, <1>5 DEF IInv

(* The types, and what the threads know in the middle of a frame, a packet *)
(* or a send, hold in every reachable state of interface.py's threads.     *)
THEOREM Inductive == Spec => []IInv
<1>1. IInv /\ [Next]_vars => IInv'
  BY FrameStep, InboundStep DEF IInv
<1> QED BY <1>1, InitIInv, PTL DEF Spec

(* The interface's state has its types; the queue and the peers keep to    *)
(* their limits.                                                           *)
THEOREM InterfaceTypes == Spec => []TypeOK
BY Inductive, TypesGiveTypeOK, PTL

(* Every truncated frame was truncated by another thread's repair or retry *)
(* between the check of the room and the last fragment.                    *)
THEOREM TruncationsAreRaces == Spec => []TruncatedOnlyByRace
<1>1. IInv => TruncatedOnlyByRace
  BY DEF IInv, AdmissionInv
<1> QED BY <1>1, Inductive, PTL
-----------------------------------------------------------------------------
(* Why final_init loses one packet at most: only a thread that saw         *)
(* _finalized unset can append to the list that nobody reads.              *)
StrandInv ==
  /\ main \in {"final_init", "swap"} \/ receiver["callback"] = "keep" => stranded = 0
  /\ OneStrandedAtMost

(* What detach may leave: the packet in the callback's hands.              *)
LeftInv ==
  /\ main # "drain" => receiver["main"] = "rest"
  /\ main = "detached" =>
       /\ Transport = "mqtt" => receiver["callback"] = "rest"
       /\ receiver["callback"] = "frame" => peers = {}
       /\ NoPeerOutlivesDetach

LEMMA LeftStep ==
  ASSUME IInv, StrandInv, LeftInv, [Next]_vars
  PROVE  StrandInv' /\ LeftInv'
<1> USE DEF IInv
<1>0. "main" \in Receivers /\ "callback" \in Receivers /\ Receivers = {"main", "callback"}
  BY DEF Receivers
<1>1. ASSUME UNCHANGED inboundVars, UNCHANGED main PROVE StrandInv' /\ LeftInv'
  BY <1>1 DEF inboundVars, StrandInv, LeftInv, OneStrandedAtMost, NoPeerOutlivesDetach
<1>2. CASE (\E size \in Sizes : OfferFrame(size)) \/ PutFragment
  BY <1>1, <1>2 DEF OfferFrame, PutFragment
<1>3. CASE Worker
  BY <1>1, <1>3 DEF Worker, TakeControl, TakeData, TakeNothing, SendSucceeds, SendFails,
        ReturnItem, PollRepairs, PutRepair, StopWorker
<1>4. ASSUME NEW packet \in Packets, Arrive(packet) PROVE StrandInv' /\ LeftInv'
  <2>1. /\ main # "detached" /\ UNCHANGED <<stranded, peers, main>>
        /\ Handle("callback", packet, IF Finalized THEN Answer(packet) ELSE "keep")
    BY <1>4 DEF Arrive, CallbackRuns
  <2>2. /\ receiver'["main"] = receiver["main"]
        /\ receiver'["callback"] = "keep" => main = "final_init"
    BY <1>0, <2>1, AnswerType DEF Handle, Finalized, InboundTypes
  <2> QED BY <2>1, <2>2 DEF StrandInv, LeftInv, OneStrandedAtMost, NoPeerOutlivesDetach
<1>5. CASE KeepEarly
  <2>1. /\ receiver["callback"] = "keep" /\ Done("callback") /\ UNCHANGED <<peers, main>>
        /\ \/ UNCHANGED stranded
           \/ stranded' = stranded + 1
    BY <1>5 DEF KeepEarly
  <2>2. receiver'["callback"] = "rest" /\ receiver'["main"] = receiver["main"]
    BY <1>0, <2>1, DoneKeeps
  <2>3. main \in {"final_init", "swap"} => UNCHANGED stranded
    BY <1>5 DEF KeepEarly
  <2>4. stranded = 0
    BY <2>1 DEF StrandInv
  <2>5. StrandInv'
    BY <2>1, <2>2, <2>3, <2>4 DEF StrandInv, OneStrandedAtMost
  <2> QED BY <2>1, <2>2, <2>5 DEF LeftInv, NoPeerOutlivesDetach
<1>6. ASSUME NEW r \in Receivers, PutAnswer(r) PROVE StrandInv' /\ LeftInv'
  <2>1. Done(r) /\ UNCHANGED <<stranded, peers, main>>
    BY <1>6 DEF PutAnswer
  <2>2. receiver'[r] = "rest" /\ \A q \in Receivers \ {r} : receiver'[q] = receiver[q]
    BY <2>1, DoneKeeps
  <2> QED BY <1>0, <2>1, <2>2 DEF StrandInv, LeftInv, OneStrandedAtMost, NoPeerOutlivesDetach
<1>7. ASSUME NEW r \in Receivers, DeliverFrame(r) PROVE StrandInv' /\ LeftInv'
  <2>1. /\ receiver[r] = "frame" /\ Done(r) /\ UNCHANGED <<stranded, main>>
        /\ peers' = IF Cardinality(peers) < MaxPeers THEN peers \cup {handling[r].source} ELSE peers
    BY <1>7 DEF DeliverFrame
  <2>2. receiver'[r] = "rest" /\ \A q \in Receivers \ {r} : receiver'[q] = receiver[q]
    BY <2>1, DoneKeeps
  <2>3. StrandInv'
    BY <1>0, <2>1, <2>2 DEF StrandInv, OneStrandedAtMost
  <2>4. CASE main = "detached"
    <3>1. r = "callback" /\ Transport = "native" /\ peers = {}
      BY <1>0, <2>1, <2>4 DEF LeftInv
    <3>2. Cardinality({}) = 0
      BY FS_EmptySet
    <3>3. Cardinality(peers') <= 1
      <4>1. Cardinality(peers') <= Cardinality(peers) + 1
        BY <2>1, NewPeer DEF InboundTypes
      <4> QED BY <3>1, <3>2, <4>1
    <3> QED BY <1>0, <2>1, <2>2, <2>3, <2>4, <3>1, <3>3 DEF LeftInv, NoPeerOutlivesDetach
  <2>5. CASE main # "detached"
    BY <1>0, <2>1, <2>2, <2>3, <2>5 DEF LeftInv, NoPeerOutlivesDetach
  <2> QED BY <2>4, <2>5
<1>8. CASE SetFinalized \/ SwapEarly \/ Detach
  BY <1>8 DEF SetFinalized, SwapEarly, Detach, inboundVars, StrandInv, LeftInv, OneStrandedAtMost,
              NoPeerOutlivesDetach
<1>9. CASE Drain
  <2>1. /\ main = "drain" /\ receiver["main"] = "rest" /\ UNCHANGED <<stranded, peers>>
        /\ \/ main' = "run" /\ UNCHANGED receiver
           \/ main' = "drain" /\ Handle("main", Head(backlog), Answer(Head(backlog)))
    BY <1>9 DEF Drain
  <2>2. receiver'["callback"] = receiver["callback"]
    BY <1>0, <2>1 DEF Handle, InboundTypes
  <2> QED BY <2>1, <2>2 DEF StrandInv, LeftInv, OneStrandedAtMost, NoPeerOutlivesDetach
<1>10. CASE DetachPeers
  <2>1. Cardinality({}) = 0
    BY FS_EmptySet
  <2>2. /\ main = "join" /\ main' = "detached" /\ peers' = {} /\ UNCHANGED <<receiver, stranded>>
        /\ Transport = "mqtt" => receiver["callback"] = "rest"
    BY <1>10 DEF DetachPeers, Joined
  <2>3. Cardinality(peers') <= 0 /\ Cardinality(peers') <= 1
    BY <2>1, <2>2
  <2> QED BY <2>2, <2>3 DEF StrandInv, LeftInv, OneStrandedAtMost, NoPeerOutlivesDetach
<1>11. CASE UNCHANGED vars
  BY <1>1, <1>11 DEF vars
<1> QED
  BY <1>2, <1>3, <1>4, <1>5, <1>6, <1>7, <1>8, <1>9, <1>10, <1>11 DEF Next, Receiver, Main

LEMMA LeftInvariant == Spec => [](StrandInv /\ LeftInv)
<1>1. Init => StrandInv /\ LeftInv
  BY DEF Init, StrandInv, LeftInv, OneStrandedAtMost, Receivers
<1> QED BY <1>1, LeftStep, Inductive, PTL DEF Spec

(* final_init loses at most one of the packets that arrive beside it.      *)
THEOREM OnePacketIsStranded == Spec => []OneStrandedAtMost
<1>1. StrandInv => OneStrandedAtMost
  BY DEF StrandInv
<1> QED BY <1>1, LeftInvariant, PTL

(* detach leaves at most one peer, and none over MQTT.                     *)
THEOREM LittleIsLeftBehind == Spec => []NoPeerOutlivesDetach
<1>1. LeftInv => NoPeerOutlivesDetach
  BY DEF LeftInv, NoPeerOutlivesDetach
<1> QED BY <1>1, LeftInvariant, PTL
-----------------------------------------------------------------------------
(* The places of the fragments: a sequence of fragments holds each place   *)
(* once, and an older fragment waits behind a younger one only if it was   *)
(* retried.                                                                *)
PlaceOf(x) == <<x.frame, x.part>>
PlacesIn(s) == {PlaceOf(s[i]) : i \in 1..Len(s)}
Apart(s) == \A i, j \in 1..Len(s) : i # j => PlaceOf(s[i]) # PlaceOf(s[j])
InOrder(s) == \A i, j \in 1..Len(s) : i < j /\ Before(s[j], s[i]) => s[j].retried

LEMMA AppendPlaces ==
  ASSUME NEW s \in Seq(Fragments), NEW x \in Fragments
  PROVE  /\ PlacesIn(Append(s, x)) = PlacesIn(s) \cup {PlaceOf(x)}
         /\ Apart(s) /\ PlaceOf(x) \notin PlacesIn(s) => Apart(Append(s, x))
         /\ InOrder(s) /\ (x.retried \/ \A i \in 1..Len(s) : ~Before(x, s[i]))
              => InOrder(Append(s, x))
<1> DEFINE t == Append(s, x)
           n == Len(s)
<1>1. n \in Nat /\ Len(t) = n + 1 /\ t[n + 1] = x /\ \A i \in 1..n : t[i] = s[i]
  OBVIOUS
<1> HIDE DEF t
<1>2. PlacesIn(t) = PlacesIn(s) \cup {PlaceOf(x)}
  <2>1. ASSUME NEW p \in PlacesIn(t) PROVE p \in PlacesIn(s) \cup {PlaceOf(x)}
    <3>1. PICK i \in 1..n + 1 : p = PlaceOf(t[i])
      BY <1>1, <2>1 DEF PlacesIn
    <3>2. CASE i = n + 1
      BY <1>1, <3>1, <3>2
    <3>3. CASE i \in 1..n
      BY <1>1, <3>1, <3>3 DEF PlacesIn
    <3> QED BY <1>1, <3>2, <3>3
  <2>2. ASSUME NEW p \in PlacesIn(s) PROVE p \in PlacesIn(t)
    <3>1. PICK i \in 1..n : p = PlaceOf(s[i])
      BY <2>2 DEF PlacesIn
    <3>2. i \in 1..Len(t) /\ p = PlaceOf(t[i])
      BY <1>1, <3>1
    <3> QED BY <3>2 DEF PlacesIn
  <2>3. n + 1 \in 1..Len(t) /\ PlaceOf(x) = PlaceOf(t[n + 1])
    BY <1>1
  <2>4. PlaceOf(x) \in PlacesIn(t)
    BY <2>3 DEF PlacesIn
  <2> QED BY <2>1, <2>2, <2>4
<1>3. ASSUME Apart(s), PlaceOf(x) \notin PlacesIn(s) PROVE Apart(t)
  <2>1. \A i \in 1..n : PlaceOf(s[i]) # PlaceOf(x)
    BY <1>3 DEF PlacesIn
  <2> SUFFICES ASSUME NEW i \in 1..n + 1, NEW j \in 1..n + 1, i # j
               PROVE  PlaceOf(t[i]) # PlaceOf(t[j])
    BY <1>1 DEF Apart
  <2>2. CASE i \in 1..n /\ j \in 1..n
    BY <1>1, <1>3, <2>2 DEF Apart
  <2>3. CASE i = n + 1 /\ j \in 1..n
    BY <1>1, <2>1, <2>3
  <2>4. CASE i \in 1..n /\ j = n + 1
    BY <1>1, <2>1, <2>4
  <2> QED BY <1>1, <2>2, <2>3, <2>4
<1>4. ASSUME InOrder(s), x.retried \/ \A i \in 1..n : ~Before(x, s[i]) PROVE InOrder(t)
  <2> SUFFICES ASSUME NEW i \in 1..n + 1, NEW j \in 1..n + 1, i < j, Before(t[j], t[i])
               PROVE  t[j].retried
    BY <1>1 DEF InOrder
  <2>1. i \in 1..n /\ t[i] = s[i]
    BY <1>1
  <2>2. CASE j \in 1..n
    <3>1. t[j] = s[j]
      BY <1>1, <2>2
    <3> QED BY <1>4, <2>1, <2>2, <3>1 DEF InOrder
  <2>3. CASE j = n + 1
    <3>1. t[j] = x
      BY <1>1, <2>3
    <3> QED BY <1>4, <2>1, <3>1
  <2> QED BY <1>1, <2>2, <2>3
<1> QED BY <1>2, <1>3, <1>4 DEF t

LEMMA TailPlaces ==
  ASSUME NEW s \in Seq(Fragments), s # <<>>, Apart(s), InOrder(s)
  PROVE  /\ Apart(Tail(s)) /\ InOrder(Tail(s))
         /\ PlaceOf(Head(s)) \notin PlacesIn(Tail(s))
         /\ PlacesIn(s) = PlacesIn(Tail(s)) \cup {PlaceOf(Head(s))}
         /\ \A i \in 1..Len(Tail(s)) : Before(Tail(s)[i], Head(s)) => Tail(s)[i].retried
<1> DEFINE t == Tail(s)
           n == Len(s)
           h == Head(s)
<1>1. /\ n \in Nat /\ n > 0 /\ Len(t) = n - 1 /\ h = s[1] /\ 1 \in 1..n
      /\ \A i \in 1..n - 1 : t[i] = s[i + 1] /\ i + 1 \in 1..n
  OBVIOUS
<1> HIDE DEF t, h
<1>2. Apart(t)
  <2> SUFFICES ASSUME NEW i \in 1..n - 1, NEW j \in 1..n - 1, i # j
               PROVE  PlaceOf(t[i]) # PlaceOf(t[j])
    BY <1>1 DEF Apart
  <2>1. i + 1 # j + 1 /\ t[i] = s[i + 1] /\ t[j] = s[j + 1] /\ i + 1 \in 1..n /\ j + 1 \in 1..n
    BY <1>1
  <2> QED BY <2>1 DEF Apart
<1>3. InOrder(t)
  <2> SUFFICES ASSUME NEW i \in 1..n - 1, NEW j \in 1..n - 1, i < j, Before(t[j], t[i])
               PROVE  t[j].retried
    BY <1>1 DEF InOrder
  <2>1. i + 1 < j + 1 /\ t[i] = s[i + 1] /\ t[j] = s[j + 1] /\ i + 1 \in 1..n /\ j + 1 \in 1..n
    BY <1>1
  <2> QED BY <2>1 DEF InOrder
<1>4. PlaceOf(h) \notin PlacesIn(t)
  <2> SUFFICES ASSUME NEW i \in 1..n - 1, PlaceOf(h) = PlaceOf(t[i]) PROVE FALSE
    BY <1>1 DEF PlacesIn
  <2>1. t[i] = s[i + 1] /\ i + 1 \in 1..n /\ i + 1 # 1
    BY <1>1
  <2> QED BY <1>1, <2>1 DEF Apart
<1>5. PlacesIn(s) = PlacesIn(t) \cup {PlaceOf(h)}
  <2>1. ASSUME NEW p \in PlacesIn(s) PROVE p \in PlacesIn(t) \cup {PlaceOf(h)}
    <3>1. PICK i \in 1..n : p = PlaceOf(s[i])
      BY <2>1 DEF PlacesIn
    <3>2. CASE i = 1
      BY <1>1, <3>1, <3>2
    <3>3. CASE i # 1
      <4>1. i - 1 \in 1..Len(t) /\ t[i - 1] = s[i]
        BY <1>1, <3>3
      <4> QED BY <3>1, <4>1 DEF PlacesIn
    <3> QED BY <3>2, <3>3
  <2>2. ASSUME NEW p \in PlacesIn(t) PROVE p \in PlacesIn(s)
    <3>1. PICK i \in 1..n - 1 : p = PlaceOf(t[i])
      BY <1>1, <2>2 DEF PlacesIn
    <3>2. i + 1 \in 1..n /\ p = PlaceOf(s[i + 1])
      BY <1>1, <3>1
    <3> QED BY <3>2 DEF PlacesIn
  <2>3. PlaceOf(h) \in PlacesIn(s)
    BY <1>1 DEF PlacesIn
  <2> QED BY <2>1, <2>2, <2>3
<1>6. ASSUME NEW i \in 1..Len(t), Before(t[i], h) PROVE t[i].retried
  <2>1. t[i] = s[i + 1] /\ i + 1 \in 1..n /\ 1 < i + 1
    BY <1>1
  <2> QED BY <1>1, <1>6, <2>1 DEF InOrder
<1> QED BY <1>2, <1>3, <1>4, <1>5, <1>6 DEF t, h
-----------------------------------------------------------------------------
HeldPlaces == IF held = Nothing THEN {} ELSE {PlaceOf(held)}

PlacesInv ==
  /\ worker \in {"get", "poll", "repair", "stopped"} => held = Nothing
  /\ Apart(data) /\ InOrder(data)
  /\ held # Nothing =>
       /\ PlaceOf(held) \notin PlacesIn(data) /\ PlaceOf(held) \notin over
       /\ \A i \in 1..Len(data) : Before(data[i], held) => data[i].retried
  /\ PlacesIn(data) \cap over = {}
  /\ PlacesIn(data) \cup over \cup HeldPlaces = PutParts

LEMMA PutPartsMember ==
  ASSUME FrameTypes, NEW p
  PROVE  p \in PutParts <=> \E f \in 1..Len(frames) : \E k \in 1..frames[f].put : p = <<f, k>>
<1>1. DOMAIN frames = 1..Len(frames)
  BY DEF FrameTypes
<1> QED BY <1>1 DEF PutParts, Parts

(* What is queued was put, so it is older than what is put next.           *)
LEMMA QueuedIsOlder ==
  ASSUME FrameTypes, PlacesInv, NEW y \in Fragments,
         PlaceOf(y) \in PlacesIn(data) \cup HeldPlaces
  PROVE  y.frame \in 1..Len(frames) /\ y.part \in 1..frames[y.frame].put
<1>1. PlaceOf(y) \in PutParts
  BY DEF PlacesInv
<1>2. PICK f \in 1..Len(frames) : \E k \in 1..frames[f].put : PlaceOf(y) = <<f, k>>
  BY <1>1, PutPartsMember
<1>3. PICK k \in 1..frames[f].put : PlaceOf(y) = <<f, k>>
  BY <1>2
<1>4. y.frame = f /\ y.part = k
  BY <1>3 DEF PlaceOf
<1> QED BY <1>2, <1>3, <1>4

LEMMA WaitingInPlace ==
  ASSUME IInv, PlacesInv
  PROVE  InOnePlace /\ LateOnlyByRetry
<1>0. data \in Seq(Fragments) /\ held \in Fragments \cup {Nothing}
  BY DEF IInv, QueueTypes, WorkerTypes
<1>1. CASE held = Nothing
  <2>1. Waiting = data /\ DOMAIN Waiting = 1..Len(data)
    BY <1>0, <1>1 DEF Waiting
  <2>2. {Place(i) : i \in DOMAIN Waiting} = PlacesIn(data)
    BY <2>1 DEF Place, PlaceOf, PlacesIn
  <2>3. \A i, j \in DOMAIN Waiting : i # j => Place(i) # Place(j)
    BY <2>1 DEF Place, PlaceOf, PlacesInv, Apart
  <2>4. HeldPlaces = {}
    BY <1>1 DEF HeldPlaces
  <2>5. InOnePlace
    BY <2>2, <2>3, <2>4 DEF InOnePlace, PlacesInv
  <2>6. LateOnlyByRetry
    BY <2>1 DEF LateOnlyByRetry, PlacesInv, InOrder
  <2> QED BY <2>5, <2>6
<1>2. CASE held # Nothing
  <2> DEFINE w == <<held>> \o data
             n == Len(data)
  <2>1. Waiting = w /\ held \in Fragments
    BY <1>0, <1>2 DEF Waiting
  <2>2. /\ n \in Nat /\ Len(w) = n + 1 /\ DOMAIN w = 1..n + 1 /\ w[1] = held
        /\ \A i \in 1..n + 1 : i # 1 => i - 1 \in 1..n /\ w[i] = data[i - 1]
        /\ \A i \in 1..n : i + 1 \in 1..n + 1 /\ w[i + 1] = data[i]
    BY <1>0, <2>1
  <2> HIDE DEF w
  <2>3. \A i \in DOMAIN Waiting : Place(i) = PlaceOf(w[i])
    BY <2>1, <2>2 DEF Place, PlaceOf
  <2>4. {Place(i) : i \in DOMAIN Waiting} = PlacesIn(data) \cup HeldPlaces
    <3>1. ASSUME NEW i \in 1..n + 1 PROVE PlaceOf(w[i]) \in PlacesIn(data) \cup {PlaceOf(held)}
      <4>1. CASE i = 1
        BY <2>2, <4>1
      <4>2. CASE i # 1
        <5>1. i - 1 \in 1..n /\ w[i] = data[i - 1]
          BY <2>2, <4>2
        <5> QED BY <5>1 DEF PlacesIn
      <4> QED BY <4>1, <4>2
    <3>2. ASSUME NEW p \in PlacesIn(data) PROVE \E i \in 1..n + 1 : p = PlaceOf(w[i])
      <4>1. PICK i \in 1..n : p = PlaceOf(data[i])
        BY <3>2 DEF PlacesIn
      <4> QED BY <2>2, <4>1
    <3>3. 1 \in 1..n + 1 /\ PlaceOf(held) = PlaceOf(w[1])
      BY <2>2
    <3>4. HeldPlaces = {PlaceOf(held)} /\ DOMAIN Waiting = 1..n + 1
      BY <1>2, <2>1, <2>2 DEF HeldPlaces
    <3>5. {Place(i) : i \in DOMAIN Waiting} = {PlaceOf(w[i]) : i \in 1..n + 1}
      BY <2>3, <3>4
    <3> QED BY <3>1, <3>2, <3>3, <3>4, <3>5
  <2>5. ASSUME NEW i \in DOMAIN Waiting, NEW j \in DOMAIN Waiting, i # j
        PROVE  Place(i) # Place(j)
    <3>1. i \in 1..n + 1 /\ j \in 1..n + 1 /\ Place(i) = PlaceOf(w[i]) /\ Place(j) = PlaceOf(w[j])
      BY <2>1, <2>2, <2>3
    <3>2. \A k \in 1..n : PlaceOf(data[k]) # PlaceOf(held)
      BY <1>2 DEF PlacesInv, PlacesIn
    <3>3. CASE i = 1
      BY <2>2, <2>5, <3>1, <3>2, <3>3
    <3>4. CASE j = 1
      BY <2>2, <2>5, <3>1, <3>2, <3>4
    <3>5. CASE i # 1 /\ j # 1
      <4>1. i - 1 # j - 1 /\ i - 1 \in 1..n /\ j - 1 \in 1..n
            /\ w[i] = data[i - 1] /\ w[j] = data[j - 1]
        BY <2>2, <2>5, <3>1, <3>5
      <4> QED BY <3>1, <4>1 DEF PlacesInv, Apart
    <3> QED BY <3>3, <3>4, <3>5
  <2>6. InOnePlace
    <3>1. PlaceOf(held) \notin over /\ HeldPlaces = {PlaceOf(held)}
      BY <1>2 DEF PlacesInv, HeldPlaces
    <3>2. (PlacesIn(data) \cup HeldPlaces) \cap over = {}
      BY <3>1 DEF PlacesInv
    <3>3. PlacesIn(data) \cup HeldPlaces \cup over = PutParts
      BY DEF PlacesInv
    <3> QED BY <2>4, <2>5, <3>2, <3>3 DEF InOnePlace
  <2>7. LateOnlyByRetry
    <3> SUFFICES ASSUME NEW i \in 1..n + 1, NEW j \in 1..n + 1, i < j, Before(w[j], w[i])
                 PROVE  w[j].retried
      BY <2>1, <2>2 DEF LateOnlyByRetry
    <3>1. j # 1 /\ j - 1 \in 1..n /\ w[j] = data[j - 1]
      BY <2>2
    <3>2. CASE i = 1
      BY <1>2, <2>2, <3>1, <3>2 DEF PlacesInv
    <3>3. CASE i # 1
      <4>1. i - 1 \in 1..n /\ w[i] = data[i - 1] /\ i - 1 < j - 1
        BY <2>2, <3>3
      <4> QED BY <3>1, <4>1 DEF PlacesInv, InOrder
    <3> QED BY <3>2, <3>3
  <2> QED BY <2>6, <2>7
<1> QED BY <1>1, <1>2

(* A step that leaves the fragments where they are.                        *)
LEMMA PlacesStay ==
  ASSUME PlacesInv, UNCHANGED <<data, held, over>>, PutParts' = PutParts,
         worker' \in {"get", "poll", "repair", "stopped"} => held = Nothing
  PROVE  PlacesInv'
BY DEF PlacesInv, HeldPlaces, PlacesIn, Apart, InOrder, PlaceOf

(* The worker is done with what it holds.                                  *)
LEMMA PlacesOver ==
  ASSUME PlacesInv, UNCHANGED data, PutParts' = PutParts, Over, held' = Nothing
  PROVE  PlacesInv'
<1>1. over' = over \cup HeldPlaces /\ HeldPlaces' = {}
  BY DEF Over, HeldPlaces, PlaceOf
<1>2. HeldPlaces \cap PlacesIn(data) = {}
  BY DEF PlacesInv, HeldPlaces
<1>3. PlacesIn(data') = PlacesIn(data)
  OBVIOUS
<1>4. /\ PlacesIn(data') \cap over' = {}
      /\ PlacesIn(data') \cup over' \cup HeldPlaces' = PutParts'
  BY <1>1, <1>2, <1>3 DEF PlacesInv
<1>5. Apart(data') /\ InOrder(data')
  BY DEF PlacesInv
<1> QED BY <1>4, <1>5 DEF PlacesInv, PlacesIn, Apart, InOrder, PlaceOf

(* A fragment of the admitted frame is queued.                             *)
LEMMA PlacesPut ==
  ASSUME FrameTypes, QueueTypes, WorkerTypes, AdmissionInv, PlacesInv, PutFragment, ~Full
  PROVE  PlacesInv'
<1> DEFINE a == admitting
           k == frames[admitting].put + 1
           x == [frame |-> a, part |-> k, retried |-> FALSE]
<1>1. /\ a \in 1..Len(frames) /\ a = Len(frames) /\ frames[a].put \in Nat
      /\ x \in Fragments /\ PlaceOf(x) = <<a, k>> /\ Len(frames) \in Nat
  BY AdmittedType DEF PutFragment, AdmissionInv, FrameTypes, Fragments, PlaceOf
<1>2. /\ data' = Append(data, x) /\ UNCHANGED <<held, over, worker>>
      /\ Len(frames') = Len(frames) /\ DOMAIN frames' = 1..Len(frames)
      /\ frames'[a].put = k
      /\ \A g \in 1..Len(frames) : g # a => frames'[g].put = frames[g].put
  <2>1. frames' = [frames EXCEPT ![a].put = k,
                     ![a].status = IF k = frames[a].size THEN "accepted" ELSE "putting"]
    BY DEF PutFragment
  <2>2. frames[a] \in FrameStates
    BY <1>1 DEF FrameTypes
  <2> DEFINE status == IF k = frames[a].size THEN "accepted" ELSE "putting"
             h == [frames[a] EXCEPT !.put = k]
             g == [h EXCEPT !.status = status]
  <2>3. h \in FrameStates /\ h.put = k
    BY <1>1, <2>2 DEF FrameStates
  <2>4. frames' = [frames EXCEPT ![a] = g]
    BY <2>1
  <2> HIDE DEF h
  <2>5. g.put = h.put
    BY <2>3 DEF FrameStates
  <2> HIDE DEF g
  <2>6. /\ Len(frames') = Len(frames) /\ DOMAIN frames' = 1..Len(frames)
        /\ frames'[a] = g
        /\ \A f \in 1..Len(frames) : f # a => frames'[f] = frames[f]
    BY <1>1, <2>4 DEF FrameTypes
  <2>7. data' = Append(data, x) /\ UNCHANGED <<held, over, worker>>
    BY DEF PutFragment, workerVars
  <2> QED BY <2>3, <2>5, <2>6, <2>7
<1>3. <<a, k>> \notin PutParts
  <2>1. ASSUME NEW f \in 1..Len(frames), NEW m \in 1..frames[f].put, <<a, k>> = <<f, m>>
        PROVE  FALSE
    <3>1. f = a /\ m = k
      BY <2>1
    <3> QED BY <1>1, <3>1
  <2> QED BY <2>1, PutPartsMember
<1>4. PutParts' = PutParts \cup {<<a, k>>}
  <2>1. PutParts' = {p \in PutParts' : TRUE}
    OBVIOUS
  <2>2. ASSUME NEW p
        PROVE  p \in PutParts' <=> \E f \in 1..Len(frames) : \E m \in 1..frames'[f].put : p = <<f, m>>
    BY <1>2 DEF PutParts, Parts
  <2>3. ASSUME NEW p \in PutParts' PROVE p \in PutParts \cup {<<a, k>>}
    <3>1. PICK f \in 1..Len(frames) : \E m \in 1..frames'[f].put : p = <<f, m>>
      BY <2>2, <2>3
    <3>2. PICK m \in 1..frames'[f].put : p = <<f, m>>
      BY <3>1
    <3>3. CASE f # a
      <4>1. m \in 1..frames[f].put
        BY <1>2, <3>2, <3>3
      <4> QED BY <3>2, <4>1, PutPartsMember
    <3>4. CASE f = a /\ m # k
      <4>1. m \in 1..frames[a].put
        BY <1>1, <1>2, <3>2, <3>4
      <4> QED BY <1>1, <3>2, <3>4, <4>1, PutPartsMember
    <3> QED BY <3>2, <3>3, <3>4
  <2>4. ASSUME NEW p \in PutParts PROVE p \in PutParts'
    <3>1. PICK f \in 1..Len(frames) : \E m \in 1..frames[f].put : p = <<f, m>>
      BY PutPartsMember
    <3>2. PICK m \in 1..frames[f].put : p = <<f, m>>
      BY <3>1
    <3>3. m \in 1..frames'[f].put
      BY <1>1, <1>2, <3>2
    <3> QED BY <2>2, <3>2, <3>3
  <2>5. k \in 1..frames'[a].put
    BY <1>1, <1>2
  <2>6. <<a, k>> \in PutParts'
    BY <1>1, <2>2, <2>5
  <2> QED BY <2>3, <2>4, <2>6
<1>5. data \in Seq(Fragments)
  BY DEF QueueTypes
<1>6. ASSUME NEW y \in Fragments, PlaceOf(y) \in PlacesIn(data) \cup HeldPlaces
      PROVE  ~Before(x, y)
  BY <1>1, <1>6, QueuedIsOlder DEF Before
<1>7. \A i \in 1..Len(data) : data[i] \in Fragments /\ PlaceOf(data[i]) \in PlacesIn(data)
  BY <1>5 DEF PlacesIn
<1>8. /\ PlaceOf(x) \notin PlacesIn(data) /\ PlaceOf(x) \notin over
      /\ PlaceOf(x) \notin HeldPlaces
  BY <1>1, <1>3 DEF PlacesInv
<1> HIDE DEF x
<1>9. /\ PlacesIn(data') = PlacesIn(data) \cup {PlaceOf(x)} /\ Apart(data') /\ InOrder(data')
  BY <1>1, <1>2, <1>5, <1>6, <1>7, <1>8, AppendPlaces DEF PlacesInv
<1>10. HeldPlaces' = HeldPlaces
  BY <1>2 DEF HeldPlaces
<1>11. /\ PlacesIn(data') \cap over' = {}
       /\ PlacesIn(data') \cup over' \cup HeldPlaces' = PutParts'
  BY <1>1, <1>2, <1>4, <1>8, <1>9, <1>10 DEF PlacesInv
<1>12. ASSUME held # Nothing
       PROVE  /\ PlaceOf(held) \notin PlacesIn(data') /\ PlaceOf(held) \notin over
              /\ \A i \in 1..Len(data') : Before(data'[i], held) => data'[i].retried
  <2>1. HeldPlaces = {PlaceOf(held)} /\ held \in Fragments
    BY <1>12 DEF HeldPlaces, WorkerTypes
  <2>2. ~Before(x, held)
    BY <1>6, <2>1
  <2>3. /\ Len(data') = Len(data) + 1 /\ data'[Len(data) + 1] = x /\ Len(data) \in Nat
        /\ \A i \in 1..Len(data) : data'[i] = data[i]
    BY <1>1, <1>2, <1>5
  <2>4. ASSUME NEW i \in 1..Len(data'), Before(data'[i], held) PROVE data'[i].retried
    <3>1. i \in 1..Len(data)
      BY <2>2, <2>3, <2>4
    <3> QED BY <1>12, <2>3, <2>4, <3>1 DEF PlacesInv
  <2> QED BY <1>8, <1>9, <1>12, <2>1, <2>4 DEF PlacesInv
<1> QED BY <1>2, <1>9, <1>11, <1>12 DEF PlacesInv, PlacesIn, Apart, InOrder, PlaceOf, Before

(* The worker takes the oldest fragment.                                   *)
LEMMA PlacesTake ==
  ASSUME QueueTypes, PlacesInv, held = Nothing, data # <<>>,
         held' = Head(data), data' = Tail(data), over' = over, PutParts' = PutParts,
         worker' = "send"
  PROVE  PlacesInv'
<1>1. data \in Seq(Fragments)
  BY DEF QueueTypes
<1>2. Apart(data) /\ InOrder(data) /\ HeldPlaces = {}
  BY DEF PlacesInv, HeldPlaces
<1>3. /\ Apart(data') /\ InOrder(data')
      /\ PlaceOf(held') \notin PlacesIn(data')
      /\ PlacesIn(data) = PlacesIn(data') \cup {PlaceOf(held')}
      /\ \A i \in 1..Len(data') : Before(data'[i], held') => data'[i].retried
  BY <1>1, <1>2, TailPlaces
<1>4. held' \in Fragments
  BY <1>1
<1>5. held' # Nothing
  BY <1>4 DEF Fragments, Nothing
<1>6. HeldPlaces' = {PlaceOf(held')}
  BY <1>5 DEF HeldPlaces
<1>7. /\ PlacesIn(data') \cap over' = {} /\ PlaceOf(held') \notin over'
      /\ PlacesIn(data') \cup over' \cup HeldPlaces' = PutParts'
  BY <1>2, <1>3, <1>6 DEF PlacesInv
<1> QED BY <1>3, <1>7 DEF PlacesInv, PlacesIn, Apart, InOrder, PlaceOf, Before

(* A fragment whose send failed is queued again, behind all others.        *)
LEMMA PlacesReturn ==
  ASSUME QueueTypes, WorkerTypes, PlacesInv, held # Nothing,
         data' = Append(data, [held EXCEPT !.retried = TRUE]),
         held' = Nothing, over' = over, PutParts' = PutParts
  PROVE  PlacesInv'
<1> DEFINE x == [held EXCEPT !.retried = TRUE]
<1>1. held \in Fragments
  BY DEF WorkerTypes
<1>2. x \in Fragments /\ x.frame = held.frame /\ x.part = held.part /\ x.retried
  BY <1>1 DEF Fragments
<1>3. PlaceOf(x) = PlaceOf(held) /\ HeldPlaces = {PlaceOf(held)} /\ HeldPlaces' = {}
  BY <1>2 DEF PlaceOf, HeldPlaces
<1> HIDE DEF x
<1>4. /\ PlacesIn(data') = PlacesIn(data) \cup {PlaceOf(held)} /\ Apart(data') /\ InOrder(data')
  BY <1>2, <1>3, AppendPlaces DEF PlacesInv, QueueTypes, x
<1>5. /\ PlacesIn(data') \cap over' = {}
      /\ PlacesIn(data') \cup over' \cup HeldPlaces' = PutParts'
  BY <1>3, <1>4 DEF PlacesInv
<1> QED BY <1>4, <1>5 DEF PlacesInv, PlacesIn, Apart, InOrder, PlaceOf, Before

LEMMA PlacesStep ==
  ASSUME IInv, PlacesInv, [Next]_vars
  PROVE  PlacesInv'
<1> USE DEF IInv
<1>1. ASSUME UNCHANGED frames PROVE PutParts' = PutParts
  BY <1>1 DEF PutParts, Parts
<1>2. ASSUME UNCHANGED <<data, workerVars>>, PutParts' = PutParts PROVE PlacesInv'
  <2>1. worker' \in {"get", "poll", "repair", "stopped"} => held = Nothing
    BY <1>2 DEF PlacesInv, workerVars
  <2> QED BY <1>2, <2>1, PlacesStay DEF workerVars
<1>3. ASSUME NEW size \in Sizes, OfferFrame(size) PROVE PlacesInv'
  <2> DEFINE f == [size |-> size, put |-> 0, status |-> IF Fits(size) THEN "putting" ELSE "rejected"]
  <2>1. f.put = 0
    OBVIOUS
  <2>2. frames' = Append(frames, f) /\ UNCHANGED <<data, workerVars>>
    BY <1>3 DEF OfferFrame, queueVars
  <2> HIDE DEF f
  <2>3. /\ Len(frames) \in Nat /\ DOMAIN frames = 1..Len(frames)
        /\ DOMAIN frames' = 1..Len(frames) + 1 /\ frames'[Len(frames) + 1] = f
        /\ \A g \in 1..Len(frames) : frames'[g] = frames[g]
    BY <2>2 DEF FrameTypes
  <2>4. PutParts' = PutParts
    <3>1. ASSUME NEW p
          PROVE  p \in PutParts' <=>
                   \E g \in 1..Len(frames) + 1 : \E k \in 1..frames'[g].put : p = <<g, k>>
      BY <2>3 DEF PutParts, Parts
    <3>2. ASSUME NEW p PROVE p \in PutParts' <=> p \in PutParts
      BY <2>1, <2>3, <3>1, PutPartsMember
    <3> QED BY <3>2
  <2> QED BY <1>2, <2>2, <2>4
<1>4. CASE PutFragment
  <2>1. CASE Full
    <3>1. /\ frames' = [frames EXCEPT ![admitting].status = "rejected"]
          /\ UNCHANGED <<data, workerVars>> /\ admitting # 0
      BY <1>4, <2>1 DEF PutFragment
    <3>2. frames[admitting] \in FrameStates /\ admitting \in 1..Len(frames)
      BY <3>1, AdmittedType
    <3> DEFINE g == [frames[admitting] EXCEPT !.status = "rejected"]
    <3>3. g.put = frames[admitting].put
      BY <3>2 DEF FrameStates
    <3>4. frames' = [frames EXCEPT ![admitting] = g]
      BY <3>1
    <3> HIDE DEF g
    <3>5. /\ DOMAIN frames' = DOMAIN frames
          /\ \A f \in DOMAIN frames : frames'[f].put = frames[f].put
      BY <3>2, <3>3, <3>4 DEF FrameTypes
    <3>6. PutParts' = PutParts
      BY <3>5 DEF PutParts, Parts
    <3> QED BY <1>2, <3>1, <3>6
  <2>2. CASE ~Full
    BY <1>4, <2>2, PlacesPut
  <2> QED BY <2>1, <2>2
<1>5. CASE TakeControl \/ TakeNothing
  <2>1. worker = "get" /\ held' = Nothing /\ UNCHANGED <<data, over, frames>>
    BY <1>5 DEF TakeControl, TakeNothing, frameVars, queueVars
  <2>2. held = Nothing
    BY <2>1 DEF PlacesInv
  <2> QED BY <1>1, <2>1, <2>2, PlacesStay
<1>6. CASE TakeData
  <2>1. worker = "get" /\ held' = Head(data) /\ data' = Tail(data) /\ data # <<>> /\ worker' = "send"
        /\ UNCHANGED <<over, frames>>
    BY <1>6 DEF TakeData, frameVars
  <2>2. held = Nothing
    BY <2>1 DEF PlacesInv
  <2> QED BY <1>1, <2>1, <2>2, PlacesTake
<1>7. CASE SendSucceeds \/ StopWorker
  BY <1>1, <1>7, PlacesOver DEF SendSucceeds, StopWorker, frameVars, queueVars
<1>8. CASE SendFails
  BY <1>1, <1>8, PlacesStay DEF SendFails, frameVars, queueVars
<1>9. CASE ReturnItem
  <2>1. held' = Nothing /\ worker' = "get" /\ UNCHANGED frames
    BY <1>9 DEF ReturnItem
  <2>2. CASE held = Nothing
    BY <1>1, <1>9, <2>1, <2>2, PlacesStay DEF ReturnItem
  <2>3. CASE held # Nothing /\ Full
    BY <1>1, <1>9, <2>1, <2>3, PlacesOver DEF ReturnItem
  <2>4. CASE held # Nothing /\ ~Full
    BY <1>1, <1>9, <2>1, <2>4, PlacesReturn DEF ReturnItem
  <2> QED BY <2>2, <2>3, <2>4
<1>10. CASE PollRepairs \/ PutRepair
  <2>1. worker \in {"poll", "repair"} /\ UNCHANGED <<data, held, over, frames>>
    BY <1>10 DEF PollRepairs, PutRepair, frameVars, queueVars
  <2>2. held = Nothing
    BY <2>1 DEF PlacesInv
  <2> QED BY <1>1, <2>1, <2>2, PlacesStay
<1>11. ASSUME NEW packet \in Packets, Arrive(packet) PROVE PlacesInv'
  BY <1>1, <1>2, <1>11 DEF Arrive, frameVars, queueVars
<1>12. ASSUME NEW r \in Receivers, PutAnswer(r) \/ DeliverFrame(r) PROVE PlacesInv'
  BY <1>1, <1>2, <1>12 DEF PutAnswer, DeliverFrame, frameVars, queueVars
<1>13. CASE KeepEarly \/ Main \/ Detach
  BY <1>1, <1>2, <1>13 DEF KeepEarly, Main, SetFinalized, SwapEarly, Drain, DetachPeers, Detach,
        frameVars, queueVars
<1>14. CASE UNCHANGED vars
  BY <1>1, <1>2, <1>14 DEF vars, frameVars, queueVars
<1> QED
  BY <1>3, <1>4, <1>5, <1>6, <1>7, <1>8, <1>9, <1>10, <1>11, <1>12, <1>13, <1>14
     DEF Next, Worker, Receiver

LEMMA PlacesInvariant == Spec => [](InOnePlace /\ LateOnlyByRetry)
<1>1. Init => PlacesInv
  BY DEF Init, PlacesInv, HeldPlaces, PlacesIn, Apart, InOrder, PutParts
<1> QED BY <1>1, PlacesStep, WaitingInPlace, Inductive, PTL DEF Spec

(* No fragment is lost in the queue or sent again after it was sent.       *)
THEOREM FragmentsStayInPlace == Spec => []InOnePlace
BY PlacesInvariant, PTL

(* Only a failed send lets a fragment fall behind younger ones.            *)
THEOREM OnlyRetriesFallBehind == Spec => []LateOnlyByRetry
BY PlacesInvariant, PTL
=============================================================================
