---------------------------- MODULE MCGatewayApply ----------------------------
(* GatewayApply on a small set of drafts around one valid environment.     *)
EXTENDS GatewayApply

MCInitial ==
  [policy |-> "conservative", interval |-> 8, queue |-> 32,
   discovery |-> "off", sources |-> FALSE,
   public |-> {}, publicBootstrap |-> {}, private |-> {}, privateBootstrap |-> {},
   radioIfac |-> NoCredentials, tcpIfac |-> NoCredentials, privateIfac |-> NoCredentials,
   lanVisible |-> FALSE, auth |-> "off", loopback |-> TRUE, login |-> "none",
   mode |-> "gateway_unicast", role |-> "hub", gatewayNode |-> FALSE, allowedNodes |-> TRUE,
   maxPeers |-> 32, idle |-> 900, cooldown |-> 900,
   authRequired |-> FALSE, identities |-> FALSE, dutyOverride |-> FALSE, wellFormed |-> TRUE]

(* Single lines: stale expert pacing under a named policy, discovery       *)
(* without an upstream, a client without its gateway node, one IFAC for    *)
(* two networks.                                                           *)
MCPlain ==
  {Plain([MCInitial EXCEPT !.policy = "balanced", !.discovery = "auto"]),
   Plain([MCInitial EXCEPT !.role = "client"]),
   Plain([MCInitial EXCEPT !.radioIfac = "k1", !.tcpIfac = "k1"])}

(* A name with a stray line that turns discovery on, and one with a stray  *)
(* line that is no assignment.                                             *)
MCStray ==
  {[Plain([MCInitial EXCEPT !.policy = "custom", !.interval = 1]) EXCEPT
      !.stray = [discovery |-> "auto"]],
   [Plain([MCInitial EXCEPT !.public = {"e1"}, !.radioIfac = "k1"]) EXCEPT !.torn = TRUE]}

MCDrafts == MCPlain \cup MCStray
=============================================================================
