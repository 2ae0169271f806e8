--------------------------- MODULE PhoneApiSession ---------------------------
(***************************************************************************)
(* The native backend (transports/native.py) keeps one PhoneAPI session to *)
(* the radio and replaces it when it is lost.  It reports connectivity to  *)
(* the Reticulum interface (interface.py), which copies it to its peer     *)
(* interfaces and to the event that gates the transmit worker.             *)
(*                                                                         *)
(* Three threads act: the publisher of the meshtastic library delivers     *)
(* connection-lost events and packets, the reconnector opens sessions (in  *)
(* start() it is the starting thread), the sender is the transmit worker.  *)
(* State callbacks run outside the backend's lock, in three steps, except  *)
(* when send() itself finds the session lost.  Shutdown is left out.       *)
(***************************************************************************)
EXTENDS Naturals, FiniteSets

CONSTANTS
  MaxLosses,         \* sessions the radio drops
  MaxSendFaults,     \* sends that fail although the session is up
  MaxOpenFailures,   \* attempts to open a session that fail
  MaxQueued,         \* capacity of the transmit queue
  Traffic,           \* Reticulum sends frames
  Openings           \* TRUE: a session may be lost, or a send on it fail, already
                     \* before its connection is announced; FALSE: only later

ASSUME SessionAssumption ==
  /\ {MaxLosses, MaxSendFaults, MaxOpenFailures} \subseteq Nat
  /\ MaxQueued \in Nat \ {0}
  /\ Traffic \in BOOLEAN /\ Openings \subseteq BOOLEAN

NoSession == 0
Threads == {"publisher", "reconnector", "sender"}

VARIABLES
  session,      \* _interface: sessions are numbered as they are opened
  connected,    \* _online of the backend
  wakeup,       \* _reconnect_wakeup
  opened,       \* number of sessions opened
  dead,         \* sessions the radio dropped
  unreported,   \* those whose connection-lost event is not delivered yet
  faults,       \* how many sends and opens failed, and whether openings are fragile
  up,           \* online of the Reticulum interface
  peer,         \* online of a peer interface: "none" before it is created
  gate,         \* _backend_online
  queued,       \* fragments in the transmit queue
  pc,           \* thread -> what it does next
  report        \* thread -> the argument of the callback it is in

backend == <<session, connected, wakeup>>
radio == <<opened, dead, unreported, faults>>
interface == <<up, peer, gate>>
vars == <<backend, radio, interface, queued, pc, report>>

(* start() opened session 1 and is about to install it.                    *)
Init ==
  /\ session = NoSession /\ connected = FALSE /\ wakeup = FALSE
  /\ opened = 1 /\ dead = {} /\ unreported = {}
  /\ faults \in [send : {0}, open : {0}, fragile : Openings]
  /\ up = FALSE /\ peer = "none" /\ gate = FALSE
  /\ queued = 0
  /\ pc = [t \in Threads |-> IF t = "reconnector" THEN "install" ELSE "ready"]
  /\ report = [t \in Threads |-> FALSE]

Goto(t, step) == pc' = [pc EXCEPT ![t] = step]
Reporting(t) == pc[t] \in {"online", "peers", "gate"}

(* send() holds the lock of the backend while it marks it offline.         *)
LockFree == ~Reporting("sender") /\ pc["sender"] # "wake"
-----------------------------------------------------------------------------
(* The state callback _on_backend_state(online).                           *)

ReportOnline(t) ==
  /\ pc[t] = "online"
  /\ up' = report[t]
  /\ Goto(t, "peers")
  /\ UNCHANGED <<backend, radio, peer, gate, queued, report>>

PeerState(online) == IF online THEN "up" ELSE "down"

ReportPeers(t) ==
  /\ pc[t] = "peers"
  /\ peer' = IF peer = "none" THEN "none" ELSE PeerState(report[t])
  /\ Goto(t, "gate")
  /\ UNCHANGED <<backend, radio, up, gate, queued, report>>

AfterReport(t) ==
  IF t # "reconnector" THEN "wake" ELSE IF report[t] THEN "wait" ELSE "backoff"

ReportGate(t) ==
  /\ pc[t] = "gate"
  /\ gate' = report[t]
  /\ Goto(t, AfterReport(t))
  /\ UNCHANGED <<backend, radio, up, peer, queued, report>>

(* _mark_offline(s) of thread t, the locked part: a session that was       *)
(* replaced already is ignored.                                            *)
MarkOfflineAny(t, s, otherwise) ==              \* mutant: any session counts
  /\ session' = NoSession /\ connected' = FALSE
  /\ report' = [report EXCEPT ![t] = FALSE]
  /\ Goto(t, IF connected THEN "online" ELSE "wake")

MarkOfflineQuietly(t, s, otherwise) ==          \* mutant: _online is not reset
  IF s = session
  THEN /\ session' = NoSession
       /\ UNCHANGED connected
       /\ report' = [report EXCEPT ![t] = FALSE]
       /\ Goto(t, IF connected THEN "online" ELSE "wake")
  ELSE /\ UNCHANGED <<session, connected, report>>
       /\ Goto(t, otherwise)

MarkOffline(t, s, otherwise) ==
  IF s = session
  THEN /\ session' = NoSession
       /\ connected' = FALSE
       /\ report' = [report EXCEPT ![t] = FALSE]
       /\ Goto(t, IF connected THEN "online" ELSE "wake")
  ELSE /\ UNCHANGED <<session, connected, report>>
       /\ Goto(t, otherwise)

AfterWake(t) == IF t = "sender" THEN "failed" ELSE "ready"

WakeForgotten(t) ==                             \* mutant: the event is not set
  /\ pc[t] = "wake"
  /\ Goto(t, AfterWake(t))
  /\ UNCHANGED <<session, connected, wakeup, radio, interface, queued, report>>

Wake(t) ==
  /\ pc[t] = "wake"
  /\ wakeup' = TRUE
  /\ Goto(t, AfterWake(t))
  /\ UNCHANGED <<session, connected, radio, interface, queued, report>>
-----------------------------------------------------------------------------
(* The radio drops the session opened last.                                *)
Lose ==
  /\ opened \notin dead
  /\ Cardinality(dead) < MaxLosses
  /\ pc["reconnector"] = "install" \/ session = opened
  /\ faults.fragile \/ (session = opened /\ connected)
  /\ dead' = dead \cup {opened}
  /\ unreported' = unreported \cup {opened}
  /\ UNCHANGED <<backend, opened, faults, interface, queued, pc, report>>

ConnectionLostUnheard(s) ==                     \* mutant: the event is not handled
  /\ pc["publisher"] = "ready"
  /\ s \in unreported
  /\ unreported' = unreported \ {s}
  /\ UNCHANGED <<backend, opened, dead, faults, interface, queued, pc, report>>

ConnectionLost(s) ==
  /\ pc["publisher"] = "ready"
  /\ LockFree
  /\ s \in unreported
  /\ unreported' = unreported \ {s}
  /\ MarkOffline("publisher", s, "ready")
  /\ UNCHANGED <<wakeup, opened, dead, faults, interface, queued>>

(* A packet of the current session arrives: _belongs_to_us, then the peer  *)
(* interface of its source is created with the state of its parent.        *)
PacketArrives ==
  /\ pc["publisher"] = "ready"
  /\ LockFree
  /\ session # NoSession /\ session \notin dead
  /\ peer = "none"
  /\ Goto("publisher", "packet")
  /\ UNCHANGED <<backend, radio, interface, queued, report>>

CreatePeerDown ==                               \* mutant: a peer starts offline
  /\ pc["publisher"] = "packet"
  /\ peer' = "down"
  /\ Goto("publisher", "ready")
  /\ UNCHANGED <<backend, radio, up, gate, queued, report>>

CreatePeer ==
  /\ pc["publisher"] = "packet"
  /\ peer' = PeerState(up)
  /\ Goto("publisher", "ready")
  /\ UNCHANGED <<backend, radio, up, gate, queued, report>>
-----------------------------------------------------------------------------
(* _reconnect_loop.                                                        *)

Woken ==
  /\ pc["reconnector"] = "wait"
  /\ wakeup
  /\ wakeup' = FALSE
  /\ Goto("reconnector", "check")
  /\ UNCHANGED <<session, connected, radio, interface, queued, report>>

Check ==
  /\ pc["reconnector"] = "check"
  /\ LockFree
  /\ Goto("reconnector", IF session = NoSession THEN "open" ELSE "wait")
  /\ UNCHANGED <<backend, radio, interface, queued, report>>

Open ==
  /\ pc["reconnector"] = "open"
  /\ opened' = opened + 1
  /\ Goto("reconnector", "install")
  /\ UNCHANGED <<backend, dead, unreported, faults, interface, queued, report>>

OpenFails ==
  /\ pc["reconnector"] = "open"
  /\ faults.open < MaxOpenFailures
  /\ faults' = [faults EXCEPT !.open = @ + 1]
  /\ report' = [report EXCEPT !["reconnector"] = FALSE]
  /\ Goto("reconnector", "online")
  /\ UNCHANGED <<backend, opened, dead, unreported, interface, queued>>

Backoff ==
  /\ pc["reconnector"] = "backoff"
  /\ Goto("reconnector", "check")
  /\ UNCHANGED <<backend, radio, interface, queued, report>>

(* A session is in place already: the new one is closed.                   *)
Install ==
  /\ pc["reconnector"] = "install"
  /\ LockFree
  /\ IF session = NoSession
     THEN session' = opened /\ Goto("reconnector", "notify")
     ELSE UNCHANGED session /\ Goto("reconnector", "wait")
  /\ UNCHANGED <<connected, wakeup, radio, interface, queued, report>>

(* _notify_connected: only a backend that was offline reports.             *)
NotifyConnected ==
  /\ pc["reconnector"] = "notify"
  /\ LockFree
  /\ connected' = TRUE
  /\ report' = [report EXCEPT !["reconnector"] = TRUE]
  /\ Goto("reconnector", IF connected THEN "wait" ELSE "online")
  /\ UNCHANGED <<session, wakeup, radio, interface, queued>>
-----------------------------------------------------------------------------
(* The transmit worker.                                                    *)

EnqueueFragment ==
  /\ Traffic
  /\ queued < MaxQueued
  /\ queued' = queued + 1
  /\ UNCHANGED <<backend, radio, interface, pc, report>>

TakeFragment ==
  /\ pc["sender"] \in {"ready", "sent"}
  /\ queued > 0
  /\ queued' = queued - 1
  /\ Goto("sender", "hold")
  /\ UNCHANGED <<backend, radio, interface, report>>

PassGate ==
  /\ pc["sender"] = "hold"
  /\ gate
  /\ Goto("sender", "send")
  /\ UNCHANGED <<backend, radio, interface, queued, report>>

SendSucceeds ==
  /\ pc["sender"] = "send"
  /\ session # NoSession /\ session \notin dead
  /\ Goto("sender", "sent")
  /\ UNCHANGED <<backend, radio, interface, queued, report>>

(* No session: ConnectionError before anything is sent.                    *)
SendRefused ==
  /\ pc["sender"] = "send"
  /\ session = NoSession
  /\ Goto("sender", "failed")
  /\ UNCHANGED <<backend, radio, interface, queued, report>>

(* _sendPacket raises: the session is dead, or the call failed.            *)
SendRaises ==
  /\ pc["sender"] = "send"
  /\ session # NoSession
  /\ faults.fragile \/ connected
  /\ IF session \in dead
     THEN UNCHANGED faults
     ELSE faults.send < MaxSendFaults /\ faults' = [faults EXCEPT !.send = @ + 1]
  /\ MarkOffline("sender", session, "failed")
  /\ UNCHANGED <<wakeup, opened, dead, unreported, interface, queued>>

(* After 2 s the fragment returns to the queue, unless it is full.         *)
ReturnFragment ==
  /\ pc["sender"] = "failed"
  /\ queued' = IF queued < MaxQueued THEN queued + 1 ELSE queued
  /\ Goto("sender", "ready")
  /\ UNCHANGED <<backend, radio, interface, report>>

Report(t) == ReportOnline(t) \/ ReportPeers(t) \/ ReportGate(t) \/ Wake(t)
Publisher == Report("publisher") \/ (\E s \in unreported : ConnectionLost(s)) \/ CreatePeer
Reconnector ==
  \/ Report("reconnector") \/ Woken \/ Check \/ Open \/ OpenFails \/ Backoff
  \/ Install \/ NotifyConnected
Sender ==
  \/ Report("sender") \/ TakeFragment \/ PassGate \/ SendSucceeds \/ SendRefused
  \/ SendRaises \/ ReturnFragment

Next == Publisher \/ Reconnector \/ Sender \/ Lose \/ PacketArrives \/ EnqueueFragment

Spec == Init /\ [][Next]_vars

(* Every thread keeps running.  The radio is reachable again at last: the  *)
(* bounds on losses, faults and failed attempts are that assumption.       *)
FairSpec == Spec /\ WF_vars(Publisher) /\ WF_vars(Reconnector) /\ WF_vars(Sender)
-----------------------------------------------------------------------------
Callback == {"online", "peers", "gate"}
Steps(t) ==
  CASE t = "publisher"   -> Callback \cup {"wake", "ready", "packet"}
    [] t = "reconnector" -> Callback \cup {"wait", "check", "open", "install", "notify", "backoff"}
    [] t = "sender"      -> Callback \cup {"wake", "ready", "hold", "send", "sent", "failed"}

TypeOK ==
  /\ opened \in Nat \ {0} /\ session \in 0..opened
  /\ connected \in BOOLEAN /\ wakeup \in BOOLEAN
  /\ up \in BOOLEAN /\ gate \in BOOLEAN
  /\ dead \subseteq 1..opened /\ unreported \subseteq dead
  /\ faults \in [send : Nat, open : Nat, fragile : BOOLEAN]
  /\ peer \in {"none", "up", "down"}
  /\ queued \in 0..MaxQueued
  /\ report \in [Threads -> BOOLEAN]
  /\ DOMAIN pc = Threads
  /\ \A t \in Threads : pc[t] \in Steps(t)

(* No callback is running and the reconnector has nothing to do.           *)
Quiet ==
  /\ pc["publisher"] = "ready"
  /\ pc["reconnector"] = "wait" /\ ~wakeup
  /\ pc["sender"] \in {"ready", "hold", "send", "sent", "failed"}

(* At rest the backend, the Reticulum interface, its peer interfaces and   *)
(* the gate of the worker agree, whichever threads ran the callbacks and   *)
(* however their steps interleaved: no peer is left falsely Up or Down.    *)
(* Losses that race the opening of a session break this, and two of the    *)
(* properties below.                                                       *)
QuietAgreement ==
  Quiet /\ ~faults.fragile =>
    /\ session # NoSession
    /\ connected /\ up /\ gate
    /\ peer # "down"

(* A backend without a session always has a thread on its way to open one. *)
ReplacementPending ==
  session = NoSession =>
    \/ wakeup
    \/ pc["reconnector"] \in {"check", "open", "install", "backoff"}
    \/ Reporting("reconnector") /\ ~report["reconnector"]
    \/ \E t \in {"publisher", "sender"} : Reporting(t) \/ pc[t] = "wake"

(* Only its own loss takes a session out of service: the late event of a   *)
(* session that was replaced does not reach the replacement.               *)
OnlyOwnLoss ==
  [][(session # NoSession /\ session' = NoSession)
       => (session \in dead \/ faults'.send > faults.send)]_vars

(* README.md:157-159: "a lost TCP/serial/BLE session is replaced           *)
(* completely with bounded reconnect backoff, queued frames wait for the   *)
(* replacement transport": a queue with traffic keeps being sent.          *)
QueuedFramesSent == (queued > 0) ~> (pc["sender"] = "sent")
QueuedSentIfAnnounced == ~faults.fragile => QueuedFramesSent

(* README.md:159-161: "dynamic radio-peer interfaces track the physical    *)
(* parent state instead of remaining falsely Up": an interface that is Up  *)
(* on a lost session goes Down, or gets another session.                   *)
FalselyUp == up /\ session \in dead
FalselyUpEnds == FalselyUp ~> ~FalselyUp
FalselyUpEndsIfAnnounced == ~faults.fragile => FalselyUpEnds
=============================================================================
