---------------------------- MODULE FragmentLink ----------------------------
(***************************************************************************)
(* Nodes that run the fragment protocol over a radio that loses,           *)
(* duplicates, reorders and delays packets for at most Latency ticks.      *)
(* proto[n] is the FragmentProtocol object of node n; the calls are those  *)
(* of src/rns_meshtastic/interface.py (frames out, packets in, the         *)
(* worker's periodic poll).  sent, delivered and asked are histories.      *)
(***************************************************************************)
EXTENDS FragmentProtocol

CONSTANTS
  Nodes,         \* the mesh nodes
  Senders,       \* the pairs <<source, destination>> that carry frames
  Chunks,        \* the chunks that frames are cut into
  Frames,        \* the frames they send: sequences of chunks
  Latency,       \* a packet is received or lost within Latency ticks
  Restarting,    \* the nodes whose process may restart
  PromptWorker,  \* TRUE: the transmit queue always has room and no tick
                 \* passes while a due repair is not polled
  MaxClock, MaxSends, MaxLosses, MaxDuplicates, MaxRestarts   \* bounds

ASSUME LinkAssumption ==
  /\ Broadcast \notin Nodes
  /\ Senders \subseteq Nodes \X (Nodes \cup {Broadcast})
  /\ Frames \subseteq Seq(Chunks)
  /\ Restarting \subseteq Nodes
  /\ PromptWorker \in BOOLEAN
  /\ Latency \in Nat \ {0}

VARIABLES
  now,         \* the clock
  proto,       \* node -> protocol object
  radio,       \* packets in the air
  sent,        \* sequence of the frames encoded
  delivered,   \* node -> sequence of the frames handed to Reticulum
  asked,       \* node -> sequence of the repair requests it issued
  faults       \* how many losses, duplicates and restarts happened

vars == <<now, proto, radio, sent, delivered, asked, faults>>

Init ==
  /\ now = 0
  /\ proto = [n \in Nodes |-> InitProtocol]
  /\ radio = {}
  /\ sent = <<>>
  /\ delivered = [n \in Nodes |-> <<>>]
  /\ asked = [n \in Nodes |-> <<>>]
  /\ faults = [losses |-> 0, duplicates |-> 0, restarts |-> 0]

Receivers(n, destination) ==
  IF destination = Broadcast THEN Nodes \ {n} ELSE {destination}

(* One packet per receiver, so that each reception is lost on its own.     *)
Packets(n, transmissions) ==
  UNION {{[src |-> n, dst |-> m, payload |-> transmissions[i].payload, sentAt |-> now] :
            m \in Receivers(n, transmissions[i].destination)} :
         i \in DOMAIN transmissions}

(* The log of repair requests.  An entry is live while the assembly it was *)
(* issued for is: it has neither expired nor completed.                    *)
Keys(assemblies) == {<<a.source, a.index>> : a \in Range(assemblies)}

(* What one call transmits are fragments or is one request.                *)
Requests(transmissions) ==
  IF transmissions # <<>> /\ transmissions[1].payload.kind = "req"
  THEN transmissions ELSE <<>>

Logged(log, p, r) ==
  LET open == Keys(Cleanup(p, now).assemblies) \cap Keys(r.state.assemblies)
      requests == Requests(r.transmissions)
  IN [j \in DOMAIN log |->
        [log[j] EXCEPT !.live = @ /\ <<log[j].source, log[j].index>> \in open]]
     \o [j \in DOMAIN requests |->
           [source |-> requests[j].destination, index |-> requests[j].payload.index,
            position |-> requests[j].payload.position, at |-> now, live |-> TRUE]]

(* Node n takes the result r of one call; left is what stays in the air.   *)
Commit(n, r, left) ==
  /\ proto' = [proto EXCEPT ![n] = r.state]
  /\ radio' = left \cup Packets(n, r.transmissions)
  /\ asked' = [asked EXCEPT ![n] = Logged(@, proto[n], r)]
-----------------------------------------------------------------------------
(* Reticulum sends a frame through node n.                                 *)
Send(n, destination, frame) ==
  /\ Len(sent) < MaxSends
  /\ CanEncode(frame)
  /\ Commit(n, Encode(proto[n], frame, destination, now), radio)
  /\ sent' = Append(sent, [source |-> n, destination |-> destination,
                           index |-> proto[n].nextIndex, frame |-> frame, at |-> now])
  /\ UNCHANGED <<now, delivered, faults>>

(* A packet reaches its receiver; with again, a copy of it stays in the    *)
(* air.  allowControl is FALSE when the receiver's transmit queue is full. *)
Deliver(packet, allowControl, again) ==
  /\ again => faults.duplicates < MaxDuplicates
  /\ LET n == packet.dst
         r == Receive(proto[n], packet.src, packet.payload, allowControl, now)
     IN /\ Commit(n, r, IF again THEN radio ELSE radio \ {packet})
        /\ delivered' = [delivered EXCEPT ![n] = @ \o
             [j \in DOMAIN r.frames |->
                [source |-> packet.src, index |-> packet.payload.index,
                 frame |-> r.frames[j], at |-> now]]]
  /\ faults' = IF again THEN [faults EXCEPT !.duplicates = @ + 1] ELSE faults
  /\ UNCHANGED <<now, sent>>

Lose(packet) ==
  /\ faults.losses < MaxLosses
  /\ radio' = radio \ {packet}
  /\ faults' = [faults EXCEPT !.losses = @ + 1]
  /\ UNCHANGED <<now, proto, sent, delivered, asked>>

(* The worker polls for due repairs between two transmissions.             *)
Poll(n, allowControl) ==
  /\ Commit(n, PollRepairs(proto[n], allowControl, now), radio)
  /\ UNCHANGED <<now, sent, delivered, faults>>

(* The process of node n starts again with a new object and index 0.       *)
Restart(n) ==
  /\ faults.restarts < MaxRestarts
  /\ proto' = [proto EXCEPT ![n] = InitProtocol]
  /\ asked' = [asked EXCEPT ![n] = <<>>]
  /\ delivered' = [delivered EXCEPT ![n] = <<>>]
  /\ faults' = [faults EXCEPT !.restarts = @ + 1]
  /\ UNCHANGED <<now, radio, sent>>

RepairIsDue(n) == PollRepairs(proto[n], TRUE, now).transmissions # <<>>

Tick ==
  /\ now < MaxClock
  /\ \A packet \in radio : now - packet.sentAt < Latency
  /\ PromptWorker => \A n \in Nodes : ~RepairIsDue(n)
  /\ now' = now + 1
  /\ UNCHANGED <<proto, radio, sent, delivered, asked, faults>>

(* The values of "not _tx_queue.full()" a call may see.                    *)
QueueRoom == IF PromptWorker THEN {TRUE} ELSE BOOLEAN

Next ==
  \/ \E route \in Senders, frame \in Frames : Send(route[1], route[2], frame)
  \/ \E packet \in radio, allowControl \in QueueRoom, again \in BOOLEAN :
        Deliver(packet, allowControl, again)
  \/ \E packet \in radio : Lose(packet)
  \/ \E n \in Nodes, allowControl \in QueueRoom : Poll(n, allowControl)
  \/ \E n \in Restarting : Restart(n)
  \/ Tick

Spec == Init /\ [][Next]_vars

-----------------------------------------------------------------------------
(* The shape of the state: at most one assembly per (source, index), the   *)
(* index is one byte, and the transmit cache is bounded.                   *)
ObjectOK(p) ==
  /\ p.nextIndex \in 0..IndexSpace - 1
  /\ Len(p.txCache) <= TxCacheLimit
  /\ \A i, j \in DOMAIN p.txCache : i # j =>
       <<p.txCache[i].index, p.txCache[i].destination>>
         # <<p.txCache[j].index, p.txCache[j].destination>>
  /\ \A i, j \in DOMAIN p.assemblies : i # j =>
       <<p.assemblies[i].source, p.assemblies[i].index>>
         # <<p.assemblies[j].source, p.assemblies[j].index>>
  /\ \A a \in Range(p.assemblies) :
       /\ a.updatedAt \in 0..now
       /\ a.finalPosition \in 0..MaxPosition
       /\ Missing(a) # {}

TypeOK ==
  /\ now \in 0..MaxClock
  /\ \A n \in Nodes : ObjectOK(proto[n])
  /\ \A packet \in radio : packet.src \in Nodes /\ packet.dst \in Nodes /\ packet.sentAt <= now

(* REQ traffic of one node never exceeds RepairBudget requests in any      *)
(* rolling window of RepairWindow, whatever fragments arrive and however   *)
(* often the worker polls (_append_repair_requests_locked).                *)
RepairBudgetRespected ==
  \A n \in Nodes : \A j \in DOMAIN asked[n] :
    j + RepairBudget \in DOMAIN asked[n] =>
      asked[n][j + RepairBudget].at - asked[n][j].at >= RepairWindow

(* While an assembly lives, one missing position is asked for at most      *)
(* MaxRepairAttempts times, and attempt k + 1 comes RequestCooldown * 2^k  *)
(* or later after attempt k, whatever triggered the attempts.              *)
LiveBefore(log, j) ==
  {i \in 1..j - 1 :
     /\ log[i].live
     /\ <<log[i].source, log[i].index, log[i].position>>
          = <<log[j].source, log[j].index, log[j].position>>}

RepairBackoff ==
  \A n \in Nodes : \A j \in DOMAIN asked[n] :
    LET before == LiveBefore(asked[n], j) IN
    asked[n][j].live =>
      /\ Cardinality(before) < MaxRepairAttempts
      /\ \A i \in before :
           asked[n][j].at - asked[n][i].at >= RequestCooldown * 2^Cardinality(before)

(* Duplicated or retransmitted fragments never hand the same (source,      *)
(* index) to Reticulum twice within StateTtl: _completed_indices outlives  *)
(* every late copy.                                                        *)
DeliveredOncePerTtl ==
  \A n \in Nodes : \A i, j \in DOMAIN delivered[n] :
    /\ i < j
    /\ delivered[n][i].source = delivered[n][j].source
    /\ delivered[n][i].index = delivered[n][j].index
    => delivered[n][j].at - delivered[n][i].at > StateTtl

(* What goes up is a frame the source sent under that index, or the source *)
(* used the index for two frames less than ReuseDistance apart: only the   *)
(* reuse of an index (256 frames, or a restart) within the lifetime of its *)
(* fragments can mix two frames into one that nobody sent.                 *)
ReuseDistance == 2 * StateTtl + Latency

WasSent(d) ==
  \E s \in Range(sent) :
    s.source = d.source /\ s.index = d.index /\ s.frame = d.frame

IndexReused(d) ==
  \E i, j \in DOMAIN sent :
    /\ i < j
    /\ sent[i].source = d.source /\ sent[j].source = d.source
    /\ sent[i].index = d.index /\ sent[j].index = d.index
    /\ sent[j].at - sent[i].at <= ReuseDistance

MixedOnlyByReuse ==
  \A n \in Nodes : \A d \in Range(delivered[n]) : WasSent(d) \/ IndexReused(d)

(* Every frame recorded as completed is covered by a completed index that  *)
(* is at least as recent, so the test "complete_key not in _completed" of  *)
(* _handle_fragment_locked never suppresses a completed frame: the index   *)
(* test before it already dropped the fragment.                            *)
CompletedIsIndexed(p) ==
  \A k \in DOMAIN p.completed :
    /\ <<k[1], k[2]>> \in DOMAIN p.completedIndices
    /\ p.completedIndices[<<k[1], k[2]>>] >= p.completed[k]

CompletionDelivers == \A n \in Nodes : CompletedIsIndexed(proto[n])

(* With PromptWorker, and a radio that loses no more than MaxLosses         *)
(* packets, a frame of which any fragment arrived is complete by its       *)
(* deadline: every lost packet costs one more attempt at the doubled       *)
(* interval, the attempts outlast the losses, and the assembly outlives    *)
(* the attempts.                                                           *)
RepairDeadline == RequestCooldown * (2^MaxLosses - 1) + Latency * (2 * MaxLosses + 1)

HasAssembly(n, s) == <<s.source, s.index>> \in Keys(proto[n].assemblies)

IsDelivered(n, s) ==
  \E d \in Range(delivered[n]) :
    d.source = s.source /\ d.index = s.index /\ d.frame = s.frame

(* Once reassembled at n in part, the frame is delivered, and until then   *)
(* its assembly is neither late nor given up.                              *)
RepairedInTime ==
  [][\A s \in Range(sent) : \A n \in Receivers(s.source, s.destination) :
       HasAssembly(n, s) =>
         ((HasAssembly(n, s) /\ now <= s.at + RepairDeadline) \/ IsDelivered(n, s))']_vars
=============================================================================
