---------------------------- MODULE GatewayConfig ----------------------------
(***************************************************************************)
(* The rules for the environment file of a Linux gateway: what             *)
(* validate_gateway_environment (gateway_config.py) accepts and stages,    *)
(* what configuration_values (service_profile.py) renders from it, and     *)
(* what the radio interface (interface.py) accepts when rnsd starts.       *)
(*                                                                         *)
(* An environment is a record of the settings that depend on each other.   *)
(* Settings with a rule of their own only (ports, names, log levels, the   *)
(* syntax of lists and addresses) are one field, wellFormed; a missing     *)
(* setting is its default.  Intervals are in quarters of a second.         *)
(*                                                                         *)
(* A stage is a text: render_env writes a line for each setting and only   *)
(* refuses CR, LF and NUL in a value, parse_env_file also ends a line at   *)
(* VT, FF, FS, GS, RS, U+0085, U+2028 and U+2029.  What stands behind one  *)
(* of these in a value becomes a line of its own, a stray line; blanks at  *)
(* the ends of a value are stripped.                                       *)
(***************************************************************************)
EXTENDS Integers, FiniteSets

CONSTANTS
  Endpoints,     \* upstream hosts and ports
  Credentials    \* IFAC names with their passphrases

NoCredentials == "no credentials"
HalfCredentials == "half"            \* a name or a passphrase, not both

Policies == {"conservative", "balanced", "custom"}
DiscoveryModes == {"off", "manual", "auto", "trusted_auto"}
MeshModes == {"broadcast", "gateway_unicast", "auto_multi_peer"}

Environments ==
  [policy : Policies \cup {"other"}, interval : Nat, queue : Nat,
   discovery : DiscoveryModes, sources : BOOLEAN,
   public : SUBSET Endpoints, publicBootstrap : SUBSET Endpoints,
   private : SUBSET Endpoints, privateBootstrap : SUBSET Endpoints,
   radioIfac : Credentials \cup {NoCredentials, HalfCredentials},
   tcpIfac : Credentials \cup {NoCredentials, HalfCredentials},
   privateIfac : Credentials \cup {NoCredentials, HalfCredentials},
   lanVisible : BOOLEAN,
   auth : {"off", "basic"}, loopback : BOOLEAN, login : {"none", "weak", "strong"},
   mode : MeshModes, role : {"hub", "client"}, gatewayNode : BOOLEAN, allowedNodes : BOOLEAN,
   maxPeers : Nat, idle : Nat, cooldown : Nat,
   authRequired : BOOLEAN, identities : BOOLEAN,
   dutyOverride : BOOLEAN, wellFormed : BOOLEAN]
-----------------------------------------------------------------------------
(* Named policies fix the pacing of the radio.                             *)
PolicyInterval(policy) == IF policy = "balanced" THEN 4 ELSE 8
PolicyQueue(policy) == IF policy = "balanced" THEN 64 ELSE 32

Normalised(e) ==
  IF e.policy = "custom" THEN e
  ELSE [e EXCEPT !.interval = PolicyInterval(e.policy), !.queue = PolicyQueue(e.policy)]

DiscoveryOK(e) ==
  /\ e.discovery = "trusted_auto" => e.sources
  /\ e.discovery = "auto" => ~e.sources

ConsoleOK(e) ==
  IF e.auth = "off" THEN e.loopback /\ e.login = "none" ELSE e.login = "strong"

InRange(value, low, high) == low <= value /\ value <= high
TimeoutOK(seconds) == InRange(seconds, 300, 86400)
IdleOK(idle) == idle = 0 \/ TimeoutOK(idle)
QueueOK(queue) == InRange(queue, 4, 1024)
PeersOK(maxPeers) == InRange(maxPeers, 1, 512)
-----------------------------------------------------------------------------
(* configuration_values: it raises, or it renders.                         *)
RoleOK(e) ==
  /\ e.mode = "broadcast" => e.role = "client"
  /\ e.mode = "auto_multi_peer" => e.role = "hub"

NodesUnchecked(e) ==                             \* mutant: the client needs no node
  e.mode = "gateway_unicast" /\ e.role = "hub" => e.allowedNodes

NodesOK(e) ==
  /\ e.mode = "gateway_unicast" /\ e.role = "client" => e.gatewayNode
  /\ e.mode = "gateway_unicast" /\ e.role = "hub" => e.allowedNodes

UpstreamsOK(e) ==
  /\ e.publicBootstrap \subseteq e.public /\ e.privateBootstrap \subseteq e.private
  /\ e.publicBootstrap \cup e.privateBootstrap # {} => e.discovery \in {"auto", "trusted_auto"}
  /\ e.public \cap e.private = {}
  /\ e.private # {} => e.privateIfac \in Credentials

IfacsWhole(e) == HalfCredentials \notin {e.radioIfac, e.tcpIfac, e.privateIfac}

IfacsDiffer(e) ==
  /\ e.radioIfac \in Credentials => e.radioIfac \notin {e.tcpIfac, e.privateIfac}
  /\ e.tcpIfac \in Credentials => e.tcpIfac # e.privateIfac

Renders(e) ==
  /\ e.wellFormed
  /\ e.policy \in Policies
  /\ InRange(e.interval, 1, 240) /\ QueueOK(e.queue)
  /\ DiscoveryOK(e) /\ RoleOK(e) /\ NodesOK(e) /\ UpstreamsOK(e)
  /\ IfacsWhole(e) /\ IfacsDiffer(e)
  /\ PeersOK(e.maxPeers) /\ IdleOK(e.idle)
  /\ e.authRequired => e.identities

Boundaries(e) ==
  [endpoint : e.public, kind : {"public"}] \cup [endpoint : e.private, kind : {"private"}]

RadioModeOpen(e) == IF Boundaries(e) # {} THEN "internal" ELSE "gateway"   \* mutant
RadioMode(e) == IF Boundaries(e) # {} \/ e.discovery # "off" THEN "internal" ELSE "gateway"

Rendered(e) ==
  [interval |-> e.interval, queue |-> e.queue, mode |-> e.mode, role |-> e.role,
   gatewayNode |-> e.gatewayNode, maxPeers |-> e.maxPeers, idle |-> e.idle,
   acceptBroadcast |-> e.mode = "auto_multi_peer",
   radioMode |-> RadioMode(e),
   lanMode |-> IF e.lanVisible THEN "gateway" ELSE RadioMode(e),
   boundaries |-> Boundaries(e),
   autoconnect |-> e.discovery \in {"auto", "trusted_auto"}]
-----------------------------------------------------------------------------
(* validate_gateway_environment: it raises, or it returns Normalised(e).   *)
Valid(e) ==
  /\ e.policy \in Policies
  /\ DiscoveryOK(e) /\ ConsoleOK(e)
  /\ TimeoutOK(e.cooldown) /\ IdleOK(e.idle)
  /\ ~e.dutyOverride
  /\ Renders(Normalised(e))
-----------------------------------------------------------------------------
(* The text of a stage: the settings it was written from, what its stray   *)
(* lines make of them (they assign settings and cut short the value they   *)
(* were torn from) or stripping does, and whether one of them is no        *)
(* assignment at all.                                                      *)
Plain(e) == [settings |-> e, stray |-> <<>>, torn |-> FALSE]

SingleLines(t) == DOMAIN t.stray = {} /\ ~t.torn

(* stage_environment writes the normalised settings with render_env, which *)
(* leaves such characters where they are;                                  *)
Written(t) == [settings |-> Normalised(t.settings), stray |-> t.stray, torn |-> t.torn]

(* parse_env_file reads them: the last line of a setting counts.           *)
Parsed(t) ==
  [n \in DOMAIN t.settings |-> IF n \in DOMAIN t.stray THEN t.stray[n] ELSE t.settings[n]]

(* gateway-export parses and validates the stage, or fails.                *)
Exports(t) == ~t.torn /\ Valid(Parsed(t))
Exported(t) == Normalised(Parsed(t))
-----------------------------------------------------------------------------
(* What the radio interface accepts when rnsd starts (_validate_mode).     *)
InterfaceAccepts(r) ==
  /\ r.mode = "gateway_unicast" /\ r.role = "client" => r.gatewayNode
  /\ r.mode = "broadcast" => r.role # "hub"
  /\ r.mode = "auto_multi_peer" => r.role = "hub"
  /\ PeersOK(r.maxPeers)
  /\ IdleOK(r.idle)
  /\ QueueOK(r.queue)
  /\ r.interval >= 0

(* A path to the public network: an upstream, or one that discovery may    *)
(* connect later.                                                          *)
PublicPath(r) == r.boundaries # {} \/ r.autoconnect
=============================================================================
