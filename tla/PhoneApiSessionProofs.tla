------------------------ MODULE PhoneApiSessionProofs ------------------------
(***************************************************************************)
(* Theorems about PhoneApiSession, for every number of losses, faults and  *)
(* failed attempts, every queue capacity, and with sessions that are lost  *)
(* at any moment.                                                          *)
(***************************************************************************)
EXTENDS PhoneApiSession, TLAPS

(* What _mark_offline leaves behind, whatever session it is told of.       *)
Marked(t, otherwise) ==
  /\ session' \in {session, NoSession}
  /\ connected' \in BOOLEAN
  /\ report' \in [Threads -> BOOLEAN]
  /\ \E step \in {"online", "wake", otherwise} : Goto(t, step)

LEMMA MarkOfflineMarks ==
  ASSUME TypeOK, NEW t \in Threads, NEW s, NEW otherwise, MarkOffline(t, s, otherwise)
  PROVE  Marked(t, otherwise)
<1>1. /\ session' \in {session, NoSession}
      /\ connected' = connected \/ connected' = FALSE
      /\ report' = report \/ report' = [report EXCEPT ![t] = FALSE]
      /\ \/ Goto(t, IF connected THEN "online" ELSE "wake")
         \/ Goto(t, otherwise)
  BY DEF MarkOffline
<1>2. connected' \in BOOLEAN
  BY <1>1 DEF TypeOK
<1>3. report' \in [Threads -> BOOLEAN]
  BY <1>1 DEF TypeOK
<1>4. \E step \in {"online", "wake", otherwise} : Goto(t, step)
  BY <1>1
<1> QED
  BY <1>1, <1>2, <1>3, <1>4 DEF Marked

(* TypeOK is inductive: the queue keeps its capacity although the sender   *)
(* puts a fragment back that it took long before.                          *)
THEOREM TypeCorrect == Spec => []TypeOK
<1>1. Init => TypeOK
  <2> SUFFICES ASSUME Init PROVE TypeOK
    OBVIOUS
  <2> USE DEF Init, Threads
  <2>1. opened = 1 /\ session \in 0..opened /\ dead \subseteq 1..opened /\ unreported \subseteq dead
    BY DEF NoSession
  <2>2. queued \in 0..MaxQueued
    BY SessionAssumption
  <2>3. DOMAIN pc = Threads /\ \A t \in Threads : pc[t] \in Steps(t)
    BY DEF Steps, Callback
  <2>4. faults \in [send : Nat, open : Nat, fragile : BOOLEAN] /\ report \in [Threads -> BOOLEAN]
    BY SessionAssumption
  <2>5. /\ connected \in BOOLEAN /\ wakeup \in BOOLEAN
        /\ up \in BOOLEAN /\ gate \in BOOLEAN
        /\ peer \in {"none", "up", "down"}
    OBVIOUS
  <2> QED
    BY <2>1, <2>2, <2>3, <2>4, <2>5 DEF TypeOK
<1>2. TypeOK /\ [Next]_vars => TypeOK'
  <2> SUFFICES ASSUME TypeOK, [Next]_vars PROVE TypeOK'
    OBVIOUS
  <2> USE SessionAssumption
      DEF TypeOK, Steps, Callback, Threads, NoSession, Goto, backend, radio, interface
  <2>1. ASSUME NEW t \in Threads, ReportOnline(t) PROVE TypeOK'
    BY <2>1 DEF ReportOnline
  <2>2. ASSUME NEW t \in Threads, ReportPeers(t) PROVE TypeOK'
    BY <2>2 DEF ReportPeers, PeerState
  <2>3. ASSUME NEW t \in Threads, ReportGate(t) PROVE TypeOK'
    BY <2>3 DEF ReportGate, AfterReport
  <2>4. ASSUME NEW t \in Threads, Wake(t) PROVE TypeOK'
    BY <2>4 DEF Wake, AfterWake
  <2>5. ASSUME NEW s \in unreported, ConnectionLost(s) PROVE TypeOK'
    <3>1. Marked("publisher", "ready")
      BY <2>5, MarkOfflineMarks DEF ConnectionLost
    <3> QED
      BY <2>5, <3>1 DEF ConnectionLost, Marked
  <2>6. CASE CreatePeer
    BY <2>6 DEF CreatePeer, PeerState
  <2>7. CASE Woken
    BY <2>7 DEF Woken
  <2>8. CASE Check
    BY <2>8 DEF Check
  <2>9. CASE Open
    BY <2>9 DEF Open
  <2>10. CASE OpenFails
    BY <2>10 DEF OpenFails
  <2>11. CASE Backoff
    BY <2>11 DEF Backoff
  <2>12. CASE Install
    BY <2>12 DEF Install
  <2>13. CASE NotifyConnected
    BY <2>13 DEF NotifyConnected
  <2>14. CASE TakeFragment
    BY <2>14 DEF TakeFragment
  <2>15. CASE PassGate
    BY <2>15 DEF PassGate
  <2>16. CASE SendSucceeds
    BY <2>16 DEF SendSucceeds
  <2>17. CASE SendRefused
    BY <2>17 DEF SendRefused
  <2>18. CASE SendRaises
    <3>1. Marked("sender", "failed")
      BY <2>18, MarkOfflineMarks DEF SendRaises
    <3>2. faults' \in [send : Nat, open : Nat, fragile : BOOLEAN]
      BY <2>18 DEF SendRaises
    <3> QED
      BY <2>18, <3>1, <3>2 DEF SendRaises, Marked
  <2>19. CASE ReturnFragment
    BY <2>19 DEF ReturnFragment
  <2>20. CASE Lose
    BY <2>20 DEF Lose
  <2>21. CASE PacketArrives
    BY <2>21 DEF PacketArrives
  <2>22. CASE EnqueueFragment
    BY <2>22 DEF EnqueueFragment
  <2>23. CASE UNCHANGED vars
    BY <2>23 DEF vars
  <2> QED
    BY <2>1, <2>2, <2>3, <2>4, <2>5, <2>6, <2>7, <2>8, <2>9, <2>10, <2>11, <2>12,
       <2>13, <2>14, <2>15, <2>16, <2>17, <2>18, <2>19, <2>20, <2>21, <2>22, <2>23
       DEF Next, Publisher, Reconnector, Sender, Report
<1>3. QED
  BY <1>1, <1>2, PTL DEF Spec

(* A backend without a session always has a thread on its way to open one: *)
(* no interleaving of a loss with the reconnector, the sender and the late *)
(* report of a connection loses the wake-up.                               *)
THEOREM ReplacementIsPending == Spec => []ReplacementPending
<1>1. Init => ReplacementPending
  BY DEF Init, ReplacementPending, Threads
<1>2. TypeOK /\ ReplacementPending /\ [Next]_vars => ReplacementPending'
  <2> SUFFICES ASSUME TypeOK, ReplacementPending, [Next]_vars PROVE ReplacementPending'
    OBVIOUS
  <2> USE DEF TypeOK, Steps, Callback, Threads, ReplacementPending, Reporting, Goto,
              backend, radio, interface
  <2>1. ASSUME NEW t \in Threads, ReportOnline(t) PROVE ReplacementPending'
    BY <2>1 DEF ReportOnline
  <2>2. ASSUME NEW t \in Threads, ReportPeers(t) PROVE ReplacementPending'
    BY <2>2 DEF ReportPeers
  <2>3. ASSUME NEW t \in Threads, ReportGate(t) PROVE ReplacementPending'
    BY <2>3 DEF ReportGate, AfterReport
  <2>4. ASSUME NEW t \in Threads, Wake(t) PROVE ReplacementPending'
    BY <2>4 DEF Wake
  <2>5. ASSUME NEW s \in unreported, ConnectionLost(s) PROVE ReplacementPending'
    BY <2>5 DEF ConnectionLost, MarkOffline
  <2>6. CASE CreatePeer
    BY <2>6 DEF CreatePeer
  <2>7. CASE Woken
    BY <2>7 DEF Woken
  <2>8. CASE Check
    BY <2>8 DEF Check
  <2>9. CASE Open
    BY <2>9 DEF Open
  <2>10. CASE OpenFails
    BY <2>10 DEF OpenFails
  <2>11. CASE Backoff
    BY <2>11 DEF Backoff
  <2>12. CASE Install
    BY <2>12 DEF Install, NoSession
  <2>13. CASE NotifyConnected
    BY <2>13 DEF NotifyConnected
  <2>14. CASE TakeFragment
    BY <2>14 DEF TakeFragment
  <2>15. CASE PassGate
    BY <2>15 DEF PassGate
  <2>16. CASE SendSucceeds
    BY <2>16 DEF SendSucceeds
  <2>17. CASE SendRefused
    BY <2>17 DEF SendRefused
  <2>18. CASE SendRaises
    BY <2>18 DEF SendRaises, MarkOffline
  <2>19. CASE ReturnFragment
    BY <2>19 DEF ReturnFragment
  <2>20. CASE Lose
    BY <2>20 DEF Lose
  <2>21. CASE PacketArrives
    BY <2>21 DEF PacketArrives
  <2>22. CASE EnqueueFragment
    BY <2>22 DEF EnqueueFragment
  <2>23. CASE UNCHANGED vars
    BY <2>23 DEF vars
  <2> QED
    BY <2>1, <2>2, <2>3, <2>4, <2>5, <2>6, <2>7, <2>8, <2>9, <2>10, <2>11, <2>12,
       <2>13, <2>14, <2>15, <2>16, <2>17, <2>18, <2>19, <2>20, <2>21, <2>22, <2>23
       DEF Next, Publisher, Reconnector, Sender, Report
<1>3. QED
  BY <1>1, <1>2, TypeCorrect, PTL DEF Spec

(* Only its own loss takes a session out of service.                       *)
THEOREM OnlyTheirOwnLoss == Spec => OnlyOwnLoss
<1>1. TypeOK /\ [Next]_vars
        => [(session # NoSession /\ session' = NoSession)
              => (session \in dead \/ faults'.send > faults.send)]_vars
  <2> SUFFICES ASSUME TypeOK, [Next]_vars, session # NoSession, session' = NoSession
               PROVE  session \in dead \/ faults'.send > faults.send
    OBVIOUS
  <2>1. ASSUME NEW s \in unreported, ConnectionLost(s) PROVE session \in dead
    BY <2>1 DEF ConnectionLost, MarkOffline, TypeOK
  <2>2. ASSUME SendRaises PROVE session \in dead \/ faults'.send > faults.send
    BY <2>2 DEF SendRaises, TypeOK
  <2>3. ASSUME Install PROVE FALSE
    BY <2>3 DEF Install, TypeOK, NoSession
  <2> QED
    BY <2>1, <2>2, <2>3
       DEF Next, Publisher, Reconnector, Sender, Report, backend, vars, ReportOnline,
           ReportPeers, ReportGate, Wake, CreatePeer, Woken, Check, Open, OpenFails,
           Backoff, NotifyConnected, TakeFragment, PassGate, SendSucceeds, SendRefused,
           ReturnFragment, Lose, PacketArrives, EnqueueFragment
<1>2. QED
  BY <1>1, TypeCorrect, PTL DEF Spec, OnlyOwnLoss
-----------------------------------------------------------------------------
(* QuietAgreement, when a session is lost only after it was announced.     *)
(* At any time at most one thread is responsible for the replacement of    *)
(* the session: the one that reports its loss, then the reconnector, which *)
(* the wake-up event starts; and none is while a session is in place.      *)
Replacing(t) == (Reporting(t) /\ ~report[t]) \/ pc[t] = "wake"
Reopening ==
  \/ pc["reconnector"] \in {"check", "open", "install", "backoff"}
  \/ Reporting("reconnector") /\ ~report["reconnector"]

OneReplacer ==
  /\ \A t \in {"publisher", "sender"} : Reporting(t) => ~report[t]
  /\ session # NoSession =>
       ~wakeup /\ ~Reopening /\ ~Replacing("publisher") /\ ~Replacing("sender")
  /\ wakeup => ~Reopening /\ ~Replacing("publisher") /\ ~Replacing("sender")
  /\ Reopening => ~Replacing("publisher") /\ ~Replacing("sender")
  /\ Replacing("publisher") => ~Replacing("sender")
  /\ connected <=> (session # NoSession /\ pc["reconnector"] # "notify")
  /\ pc["reconnector"] = "notify" => session # NoSession
  /\ session \in dead => connected
  /\ pc["reconnector"] = "install" => opened \notin dead

(* While a session is in place, the interface, its peers and the gate are  *)
(* set as far as the reconnector got with its report.                      *)
ReportedSoFar ==
  session # NoSession =>
    /\ pc["reconnector"] \in {"peers", "gate", "wait"} => up
    /\ pc["reconnector"] \in {"gate", "wait"} => peer # "down"
    /\ pc["reconnector"] = "wait" => gate

LEMMA OneReplacerInitially == Init => OneReplacer /\ ReportedSoFar
BY DEF Init, OneReplacer, ReportedSoFar, Replacing, Reopening, Reporting, Threads, NoSession

(* The loss of an announced session.                                       *)
LEMMA AnnouncedLoss ==
  ASSUME TypeOK, OneReplacer, NEW t \in {"publisher", "sender"}, NEW otherwise,
         session # NoSession, connected, MarkOffline(t, session, otherwise),
         UNCHANGED <<wakeup, dead, opened>>, ~Reporting(t)
  PROVE  OneReplacer'
<1>1. /\ session' = NoSession /\ ~connected'
      /\ report' = [report EXCEPT ![t] = FALSE]
      /\ pc' = [pc EXCEPT ![t] = "online"]
  BY DEF MarkOffline, Goto
<1>2. ~wakeup' /\ ~Reopening' /\ pc'["reconnector"] # "notify"
  BY <1>1 DEF OneReplacer, Reopening, Reporting, TypeOK, Threads
<1>3. \A r \in {"publisher", "sender"} : r # t => ~Reporting(r)' /\ ~Replacing(r)'
  BY <1>1 DEF OneReplacer, Replacing, Reporting, TypeOK, Threads
<1>4. Reporting(t)' /\ ~report'[t]
  BY <1>1 DEF Reporting, TypeOK, Threads
<1>5. session' \notin dead'
  BY <1>1 DEF TypeOK, NoSession
<1> QED
  BY <1>1, <1>2, <1>3, <1>4, <1>5 DEF OneReplacer

LEMMA OneReplacerStep ==
  ASSUME ~faults.fragile, TypeOK, ReplacementPending, OneReplacer, [Next]_vars
  PROVE  OneReplacer'
<1>1. OneReplacer'
  <2> USE DEF TypeOK, Steps, Callback, Threads, OneReplacer, Replacing, Reopening,
              ReplacementPending, Reporting, Goto, backend, radio, interface
  <2>1. ASSUME NEW t \in Threads, ReportOnline(t) PROVE OneReplacer'
    BY <2>1 DEF ReportOnline
  <2>2. ASSUME NEW t \in Threads, ReportPeers(t) PROVE OneReplacer'
    BY <2>2 DEF ReportPeers, PeerState
  <2>3. ASSUME NEW t \in Threads, ReportGate(t) PROVE OneReplacer'
    BY <2>3 DEF ReportGate, AfterReport
  <2>4. ASSUME NEW t \in Threads, Wake(t) PROVE OneReplacer'
    BY <2>4 DEF Wake, AfterWake
  <2>5. ASSUME NEW s \in unreported, ConnectionLost(s) PROVE OneReplacer'
    <3>1. CASE s = session
      <4>1. session # NoSession /\ connected
        BY <3>1 DEF NoSession
      <4> QED
        BY <2>5, <3>1, <4>1, AnnouncedLoss DEF ConnectionLost, NoSession
    <3>2. CASE s # session
      <4>1. /\ session' = session /\ connected' = connected /\ report' = report
            /\ pc' = [pc EXCEPT !["publisher"] = "ready"]
            /\ pc["publisher"] = "ready" /\ UNCHANGED <<wakeup, dead, opened>>
        BY ONLY <2>5, <3>2 DEF ConnectionLost, MarkOffline, Goto
      <4>2. \A t \in Threads : pc'[t] = pc[t]
        BY <4>1
      <4> QED
        BY <4>1, <4>2
    <3> QED
      BY <3>1, <3>2
  <2>6. CASE CreatePeer
    BY <2>6 DEF CreatePeer, PeerState
  <2>7. CASE Woken
    BY <2>7 DEF Woken
  <2>8. CASE Check
    BY <2>8 DEF Check
  <2>9. CASE Open
    BY <2>9 DEF Open
  <2>10. CASE OpenFails
    BY <2>10 DEF OpenFails
  <2>11. CASE Backoff
    BY <2>11 DEF Backoff
  <2>12. CASE Install
    <3>1. /\ session = NoSession /\ session' = opened /\ ~connected /\ ~connected'
          /\ wakeup' = wakeup /\ report' = report /\ dead' = dead
          /\ pc' = [pc EXCEPT !["reconnector"] = "notify"]
          /\ Reopening /\ opened \notin dead
      BY <2>12 DEF Install, NoSession
    <3>2. ~Reopening' /\ pc'["reconnector"] = "notify"
      BY <3>1
    <3>3. \A t \in {"publisher", "sender"} : ~Reporting(t)' /\ ~Replacing(t)'
      BY <3>1
    <3>4. session' \notin dead' /\ session' # NoSession /\ ~wakeup'
      BY <3>1 DEF NoSession
    <3> QED
      BY <3>1, <3>2, <3>3, <3>4
  <2>13. CASE NotifyConnected
    BY <2>13 DEF NotifyConnected
  <2>14. CASE TakeFragment
    BY <2>14 DEF TakeFragment
  <2>15. CASE PassGate
    BY <2>15 DEF PassGate
  <2>16. CASE SendSucceeds
    BY <2>16 DEF SendSucceeds
  <2>17. CASE SendRefused
    BY <2>17 DEF SendRefused
  <2>18. CASE SendRaises
    <3>1. session # NoSession /\ connected
      BY <2>18 DEF SendRaises
    <3> QED
      BY <2>18, <3>1, AnnouncedLoss DEF SendRaises, NoSession
  <2>19. CASE ReturnFragment
    BY <2>19 DEF ReturnFragment
  <2>20. CASE Lose
    BY <2>20 DEF Lose
  <2>21. CASE PacketArrives
    BY <2>21 DEF PacketArrives
  <2>22. CASE EnqueueFragment
    BY <2>22 DEF EnqueueFragment
  <2>23. CASE UNCHANGED vars
    BY <2>23 DEF vars
  <2> QED
    BY <2>1, <2>2, <2>3, <2>4, <2>5, <2>6, <2>7, <2>8, <2>9, <2>10, <2>11, <2>12,
       <2>13, <2>14, <2>15, <2>16, <2>17, <2>18, <2>19, <2>20, <2>21, <2>22, <2>23
       DEF Next, Publisher, Reconnector, Sender, Report
<1> QED
  BY <1>1

LEMMA ReportedSoFarStep ==
  ASSUME TypeOK, OneReplacer, ReportedSoFar, [Next]_vars
  PROVE  ReportedSoFar'
<1>1. ReportedSoFar'
  <2> USE DEF TypeOK, Steps, Callback, Threads, OneReplacer, Replacing, Reopening,
              ReportedSoFar, Reporting, Goto, backend, radio, interface
  <2>1. ASSUME NEW t \in Threads, ReportOnline(t) PROVE ReportedSoFar'
    BY <2>1 DEF ReportOnline
  <2>2. ASSUME NEW t \in Threads, ReportPeers(t) PROVE ReportedSoFar'
    BY <2>2 DEF ReportPeers, PeerState
  <2>3. ASSUME NEW t \in Threads, ReportGate(t) PROVE ReportedSoFar'
    BY <2>3 DEF ReportGate, AfterReport
  <2>4. ASSUME NEW t \in Threads, Wake(t) PROVE ReportedSoFar'
    BY <2>4 DEF Wake, AfterWake
  <2>5. ASSUME NEW s \in unreported, ConnectionLost(s) PROVE ReportedSoFar'
    BY <2>5 DEF ConnectionLost, MarkOffline
  <2>6. CASE CreatePeer
    BY <2>6 DEF CreatePeer, PeerState
  <2>7. CASE Woken
    BY <2>7 DEF Woken
  <2>8. CASE Check
    BY <2>8 DEF Check
  <2>9. CASE Open
    BY <2>9 DEF Open
  <2>10. CASE OpenFails
    BY <2>10 DEF OpenFails
  <2>11. CASE Backoff
    BY <2>11 DEF Backoff
  <2>12. CASE Install
    BY <2>12 DEF Install, NoSession
  <2>13. CASE NotifyConnected
    BY <2>13 DEF NotifyConnected
  <2>14. CASE TakeFragment
    BY <2>14 DEF TakeFragment
  <2>15. CASE PassGate
    BY <2>15 DEF PassGate
  <2>16. CASE SendSucceeds
    BY <2>16 DEF SendSucceeds
  <2>17. CASE SendRefused
    BY <2>17 DEF SendRefused
  <2>18. CASE SendRaises
    BY <2>18 DEF SendRaises, MarkOffline
  <2>19. CASE ReturnFragment
    BY <2>19 DEF ReturnFragment
  <2>20. CASE Lose
    BY <2>20 DEF Lose
  <2>21. CASE PacketArrives
    BY <2>21 DEF PacketArrives
  <2>22. CASE EnqueueFragment
    BY <2>22 DEF EnqueueFragment
  <2>23. CASE UNCHANGED vars
    BY <2>23 DEF vars
  <2> QED
    BY <2>1, <2>2, <2>3, <2>4, <2>5, <2>6, <2>7, <2>8, <2>9, <2>10, <2>11, <2>12,
       <2>13, <2>14, <2>15, <2>16, <2>17, <2>18, <2>19, <2>20, <2>21, <2>22, <2>23
       DEF Next, Publisher, Reconnector, Sender, Report
<1> QED
  BY <1>1

(* Whether openings are fragile is decided once.                           *)
LEMMA FragilityDecided ==
  ASSUME TypeOK, [Next]_vars
  PROVE  faults'.fragile = faults.fragile
BY DEF TypeOK, Next, Publisher, Reconnector, Sender, Report, vars, radio, ReportOnline,
       ReportPeers, ReportGate, Wake, ConnectionLost, CreatePeer, Woken, Check, Open,
       OpenFails, Backoff, Install, NotifyConnected, TakeFragment, PassGate, SendSucceeds,
       SendRefused, SendRaises, ReturnFragment, Lose, PacketArrives, EnqueueFragment

(* At rest backend, interface, peers and gate agree, however the callbacks *)
(* of the three threads interleaved, if sessions are only lost once they   *)
(* are announced.                                                          *)
AgreementSoFar == ~faults.fragile => OneReplacer /\ ReportedSoFar

(* Backend, interface, peers and gate agree whenever no thread of          *)
(* native.py is in a callback, as long as sessions are lost once announced.*)
THEOREM QuietlyAgreed == Spec => []QuietAgreement
<1>1. Init => AgreementSoFar
  BY OneReplacerInitially DEF AgreementSoFar
<1>2. TypeOK /\ ReplacementPending /\ AgreementSoFar /\ [Next]_vars => AgreementSoFar'
  BY OneReplacerStep, ReportedSoFarStep, FragilityDecided DEF AgreementSoFar
<1>3. TypeOK /\ ReplacementPending /\ AgreementSoFar => QuietAgreement
  BY DEF TypeOK, Steps, Callback, Threads, ReplacementPending, OneReplacer, ReportedSoFar,
         AgreementSoFar, QuietAgreement, Quiet, Reporting
<1>4. QED
  BY <1>1, <1>2, <1>3, TypeCorrect, ReplacementIsPending, PTL DEF Spec
-----------------------------------------------------------------------------
(* An interface that is Up on a lost session will be told: the event of    *)
(* the loss was not delivered yet, and it is about the session in place.   *)
FalselyUpIsTold == ~faults.fragile /\ FalselyUp => session \in unreported

LossIsTold == session \in dead => session \in unreported

LEMMA LossIsToldStep ==
  ASSUME ~faults.fragile, TypeOK, OneReplacer, LossIsTold, [Next]_vars
  PROVE  LossIsTold'
<1>1. ASSUME UNCHANGED <<session, dead, unreported>> PROVE LossIsTold'
  BY <1>1 DEF LossIsTold
<1>2. ASSUME session' = NoSession, dead' = dead PROVE LossIsTold'
  BY <1>2 DEF LossIsTold, TypeOK, NoSession
<1>3. CASE Lose
  <2>1. /\ dead' = dead \cup {opened} /\ unreported' = unreported \cup {opened}
        /\ session' = session
    BY <1>3 DEF Lose, backend
  <2> QED BY <2>1 DEF LossIsTold
<1>4. ASSUME NEW s \in unreported, ConnectionLost(s) PROVE LossIsTold'
  <2>1. dead' = dead /\ unreported' = unreported \ {s} /\ MarkOffline("publisher", s, "ready")
    BY <1>4 DEF ConnectionLost
  <2>2. CASE s = session
    BY <1>2, <2>1, <2>2 DEF MarkOffline
  <2>3. CASE s # session
    <3>1. session' = session
      BY <2>1, <2>3 DEF MarkOffline
    <3> QED BY <2>1, <2>3, <3>1 DEF LossIsTold
  <2> QED BY <2>2, <2>3
<1>5. CASE SendRaises
  <2>1. session' = NoSession /\ dead' = dead
    BY <1>5 DEF SendRaises, MarkOffline
  <2> QED BY <1>2, <2>1
<1>6. CASE Install
  <2>1. /\ session' = session \/ session' = opened
        /\ UNCHANGED <<dead, unreported>> /\ opened \notin dead
    BY <1>6 DEF Install, radio, OneReplacer
  <2> QED BY <2>1 DEF LossIsTold
<1> QED
  BY <1>1, <1>3, <1>4, <1>5, <1>6
     DEF Next, Publisher, Reconnector, Sender, Report, backend, radio, vars, ReportOnline,
         ReportPeers, ReportGate, Wake, CreatePeer, Woken, Check, Open, OpenFails, Backoff,
         NotifyConnected, TakeFragment, PassGate, SendSucceeds, SendRefused,
         ReturnFragment, PacketArrives, EnqueueFragment

(* No loss is forgotten while the interface is Up: of the threads that     *)
(* replace sessions none takes the event of the session in place away      *)
(* without taking the session out of service.  It is what                  *)
(* FalselyUpEndsIfAnnounced needs beside a publisher that runs, and what   *)
(* a loss before the announcement breaks (ConnectionLost, Install).        *)
THEOREM FalselyUpIsNoticed == Spec => []FalselyUpIsTold
<1> DEFINE Told == ~faults.fragile => LossIsTold
<1>1. Init => Told
  BY DEF Init, LossIsTold
<1>2. TypeOK /\ AgreementSoFar /\ Told /\ [Next]_vars => Told'
  BY LossIsToldStep, FragilityDecided DEF AgreementSoFar
<1>3. Told => FalselyUpIsTold
  BY DEF FalselyUpIsTold, FalselyUp, LossIsTold
<1>4. Init => AgreementSoFar
  BY OneReplacerInitially DEF AgreementSoFar
<1>5. TypeOK /\ ReplacementPending /\ AgreementSoFar /\ [Next]_vars => AgreementSoFar'
  BY OneReplacerStep, ReportedSoFarStep, FragilityDecided DEF AgreementSoFar
<1> HIDE DEF Told
<1> QED
  BY <1>1, <1>2, <1>3, <1>4, <1>5, TypeCorrect, ReplacementIsPending, PTL DEF Spec
=============================================================================
