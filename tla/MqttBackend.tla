----------------------------- MODULE MqttBackend ------------------------------
(***************************************************************************)
(* Fragments from one gateway to another over MQTT (transports/mqtt.py):   *)
(* send and close of the sender, its connection as paho reports it, and    *)
(* _on_message of the receiver with its table of packets seen.  paho keeps *)
(* a message it could not send; the broker delivers a message again, or    *)
(* the copy another gateway uplinked of a packet it heard: a copy is the   *)
(* packet, whatever its way.  The transmit worker (interface.py) repeats a *)
(* send that failed.                                                       *)
(*                                                                         *)
(* The digest of a payload stands for the payload.  Envelopes the receiver *)
(* ignores (its own gateway_id, other ports, no packet) change nothing.    *)
(***************************************************************************)
EXTENDS Integers, Sequences, SequencesExt

CONSTANTS
  Payloads,      \* fragments to send
  Sender, Other, \* nodes whose packets come
  LastId,        \* the largest packet id (0xFFFFFFFF)
  Ttl,           \* seconds a packet is remembered (dedup_ttl)
  MaxSends, MaxArrivals, MaxStarts   \* bounds

ASSUME NodesAssumption == Sender # Other
ASSUME BoundsAssumption ==
  /\ LastId \in Nat \ {0} /\ Ttl \in Nat
  /\ MaxSends \in Nat /\ MaxArrivals \in Nat /\ MaxStarts \in Nat

VARIABLES
  sender,        \* the next packet id, _connected, _closed, and whether paho is connected
  work,          \* what the transmit worker is sending
  todo,          \* fragments still to be sent
  waiting,       \* packets paho keeps until it is connected
  broker,        \* packets the broker may deliver, once or more
  seen,          \* the receiver's table, the oldest packet first
  given,         \* packets given to the interface within the window
  failed,        \* fragments whose send failed after paho had them
  wrong,         \* what must not happen: "twice", "dropped"
  spent

vars == <<sender, work, todo, waiting, broker, seen, given, failed, wrong, spent>>

Packets == [source : {Sender, Other}, id : 1..LastId, payload : Payloads]
Aged == [packet : Packets, age : 0..Ttl + 1]

TypeOK ==
  /\ sender \in [next : 1..LastId, connected : BOOLEAN, closed : BOOLEAN, linked : BOOLEAN]
  /\ work \in [pc : {"idle", "checked"}, payload : Payloads]
  /\ todo \subseteq Payloads
  /\ waiting \in Seq(Packets)
  /\ broker \subseteq Packets
  /\ seen \in Seq(Aged) /\ given \subseteq Aged
  /\ failed \subseteq Payloads
  /\ wrong \subseteq {"twice", "dropped"}
  /\ spent \in [sends : Nat, arrivals : Nat, starts : Nat]

Started == [next : 1..LastId, connected : {FALSE}, closed : {FALSE}, linked : {FALSE}]

(* Another node uses an id and the payloads of the sender as well.         *)
Init ==
  /\ sender \in Started
  /\ work \in [pc : {"idle"}, payload : Payloads]
  /\ todo = Payloads
  /\ waiting = <<>> /\ broker = [source : {Other}, id : {1}, payload : Payloads]
  /\ seen = <<>> /\ given = {} /\ failed = {} /\ wrong = {}
  /\ spent = [sends |-> 0, arrivals |-> 0, starts |-> 0]

receiving == <<seen, given, wrong>>
-----------------------------------------------------------------------------
(* send: it looks at the connection before it takes the lock.              *)
CheckConnected(f) ==
  /\ work.pc = "idle" /\ sender.connected
  /\ spent.sends < MaxSends
  /\ f \in todo
  /\ work' = [pc |-> "checked", payload |-> f]
  /\ spent' = [spent EXCEPT !.sends = @ + 1]
  /\ UNCHANGED <<sender, todo, waiting, broker, receiving, failed>>

NextId(id) == IF id = LastId THEN 1 ELSE id + 1

(* With the client detached the send fails, and its id is used up.  paho   *)
(* takes the packet in any case; without a connection it keeps it, says    *)
(* so, and the send fails too.                                             *)
Packet == [source |-> Sender, id |-> sender.next, payload |-> work.payload]

Publish ==
  /\ work.pc = "checked"
  /\ work' = [work EXCEPT !.pc = "idle"]
  /\ sender' = [sender EXCEPT !.next = NextId(@)]
  /\ \/ /\ sender.closed
        /\ UNCHANGED <<todo, waiting, broker, failed>>
     \/ /\ ~sender.closed /\ sender.linked
        /\ todo' = todo \ {work.payload}
        /\ broker' = broker \cup {Packet}
        /\ UNCHANGED <<waiting, failed>>
     \/ /\ ~sender.closed /\ ~sender.linked
        /\ waiting' = Append(waiting, Packet)
        /\ failed' = failed \cup {work.payload}
        /\ UNCHANGED <<todo, broker>>
  /\ UNCHANGED <<receiving, spent>>

(* The network thread of paho: what waited goes out when the connection is *)
(* there, then _on_connect; _on_disconnect follows the loss.               *)
Connect ==
  /\ ~sender.linked /\ ~sender.closed
  /\ sender' = [sender EXCEPT !.linked = TRUE]
  /\ broker' = broker \cup ToSet(waiting)
  /\ waiting' = <<>>
  /\ UNCHANGED <<work, todo, receiving, failed, spent>>

OnConnect ==
  /\ sender.linked /\ ~sender.connected
  /\ sender' = [sender EXCEPT !.connected = TRUE]
  /\ UNCHANGED <<work, todo, waiting, broker, receiving, failed, spent>>

LoseConnection ==
  /\ sender.linked
  /\ sender' = [sender EXCEPT !.linked = FALSE]
  /\ UNCHANGED <<work, todo, waiting, broker, receiving, failed, spent>>

OnDisconnect ==
  /\ ~sender.linked /\ sender.connected
  /\ sender' = [sender EXCEPT !.connected = FALSE]
  /\ UNCHANGED <<work, todo, waiting, broker, receiving, failed, spent>>

Close ==
  /\ ~sender.closed
  /\ sender' = [sender EXCEPT !.closed = TRUE, !.connected = FALSE]
  /\ UNCHANGED <<work, todo, waiting, broker, receiving, failed, spent>>

(* The process of a closed backend ends and starts again, with any id.     *)
StartAgain ==
  /\ sender.closed /\ work.pc = "idle"
  /\ spent.starts < MaxStarts
  /\ sender' \in Started
  /\ waiting' = <<>>
  /\ spent' = [spent EXCEPT !.starts = @ + 1]
  /\ UNCHANGED <<work, todo, broker, receiving, failed>>
-----------------------------------------------------------------------------
(* _on_message.  Entries are never renewed: the old ones are in front, and *)
(* are taken from there until one is fresh.                                *)
FreshLoosely(entry) == entry.age < Ttl   \* mutant: forgotten a moment early
Fresh(entry) == entry.age <= Ttl
Cleaned(table) ==
  LET fresh == {i \in DOMAIN table : Fresh(table[i])} IN
  IF fresh = {} THEN <<>> ELSE SubSeq(table, Min(fresh), Len(table))

SameKeyById(p, q) == p.source = q.source /\ p.id = q.id   \* mutant: without the digest
SameKey(p, q) == p.source = q.source /\ p.id = q.id /\ p.payload = q.payload

Known(table, p) == \E i \in DOMAIN table : SameKey(table[i].packet, p)

WithinWindow(p) == p \in {entry.packet : entry \in given}

OnMessage(p) ==
  LET table == Cleaned(seen) IN
  /\ spent.arrivals < MaxArrivals
  /\ p \in broker
  /\ spent' = [spent EXCEPT !.arrivals = @ + 1]
  /\ \/ /\ Known(table, p)
        /\ seen' = table
        /\ wrong' = wrong \cup (IF WithinWindow(p) THEN {} ELSE {"dropped"})
        /\ UNCHANGED given
     \/ /\ ~Known(table, p)
        /\ seen' = Append(table, [packet |-> p, age |-> 0])
        /\ given' = given \cup {[packet |-> p, age |-> 0]}
        /\ wrong' = wrong \cup
             (IF p.payload \notin failed /\ p.source = Sender
                 /\ \E e \in given : e.packet.source = Sender /\ e.packet.payload = p.payload
              THEN {"twice"} ELSE {})
  /\ UNCHANGED <<sender, work, todo, waiting, broker, failed>>

Older(entry) == [entry EXCEPT !.age = IF @ > Ttl THEN @ ELSE @ + 1]
Tick ==
  /\ seen' = [i \in DOMAIN seen |-> Older(seen[i])]
  /\ given' = {Older(e) : e \in {e \in given : e.age < Ttl}}
  /\ UNCHANGED <<sender, work, todo, waiting, broker, failed, wrong, spent>>
-----------------------------------------------------------------------------
Next ==
  \/ \E f \in Payloads : CheckConnected(f)
  \/ Publish \/ Connect \/ OnConnect \/ LoseConnection \/ OnDisconnect
  \/ Close \/ StartAgain
  \/ \E p \in broker : OnMessage(p)
  \/ Tick

Spec == Init /\ [][Next]_vars
-----------------------------------------------------------------------------
(* A fragment is given to the interface twice within the window only if    *)
(* its sender repeated a send that paho had taken but called failed:       *)
(* deliveries again and copies of other gateways have the packet id of the *)
(* first and are dropped.                                                  *)
TwiceOnlyByRetry == "twice" \notin wrong

(* Nothing else is dropped: what is, was given to the interface within the *)
(* window as the same packet, also when ids begin again after the largest  *)
(* or at random after a start.                                             *)
OnlyCopiesDropped == "dropped" \notin wrong
=============================================================================
