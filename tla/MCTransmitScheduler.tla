-------------------------- MODULE MCTransmitScheduler --------------------------
(* Calls for the runs of TransmitScheduler.  tcp is the thread that reads    *)
(* frames of the local Reticulum client; repair is the radio callback and    *)
(* the repair poll.                                                          *)
EXTENDS TransmitScheduler

CONSTANTS tcp, repair

Call(producer, class, size, wait, serialize) ==
  [producer |-> producer, class |-> class, size |-> size,
   wait |-> wait, serialize |-> serialize]

(* tcp makes the calls of BridgeEngine.onFrame: every frame waits for room   *)
(* and is serialized if it must be.  Repair traffic is single fragments and  *)
(* never waits.  The priorities are offered by the scheduler's interface.    *)
MCAllCalls ==
  {Call(tcp, "normal", 3, TRUE, TRUE)}
    \cup {Call(repair, class, 1, FALSE, FALSE) : class \in {"control", "high", "announce"}}
================================================================================
