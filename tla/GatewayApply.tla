----------------------------- MODULE GatewayApply -----------------------------
(***************************************************************************)
(* Staging and applying a gateway configuration: the console stages a      *)
(* validated environment and queues a request (gateway_config.py,          *)
(* gateway_apply_queue.py), the host agent (scripts/gateway-apply-agent)   *)
(* claims it, replaces the environment file, recreates the services and    *)
(* rolls back when they are not healthy.  An operator may run              *)
(* `rns-meshtastic gateway-apply` (apply_staged_environment) beside it,    *)
(* which takes part in no lock of the queue.                               *)
(*                                                                         *)
(* A stage never changes and is identified with its content.  Renaming a   *)
(* temporary file replaces it at once; `cp` may stop in the middle.  An    *)
(* operation under the lock of the queue is one step, unless its process   *)
(* dies in it.                                                             *)
(***************************************************************************)
EXTENDS GatewayConfig

CONSTANTS
  Drafts,        \* texts an operator may ask the console to stage
  Initial,       \* the environment the gateway was installed with
  Partial,       \* an environment file `cp` left half written
  None,          \* no such file of the queue
  MaxStages, MaxRequests, MaxByHand, MaxFaults, MaxCrashes   \* bounds

(* Staged texts; Plain(Initial) stands for no stage at all.                *)
Texts == {Written(d) : d \in Drafts} \cup {Plain(Initial)}

ASSUME DraftsAssumption ==
  \A d \in Drafts : d.settings \in Environments /\ Parsed(Written(d)) \in Environments
ASSUME InitialAssumption == Initial \in Environments /\ Valid(Initial)
ASSUME NoneAssumption == Partial \notin Environments /\ None \notin [id : Nat, stage : Texts]
ASSUME BoundsAssumption ==
  /\ MaxStages \in Nat /\ MaxRequests \in Nat /\ MaxByHand \in Nat
  /\ MaxFaults \in Nat /\ MaxCrashes \in Nat

Appliers == {"agent", "hand"}
Files == Environments \cup {Partial}

VARIABLES
  stages,        \* the texts of the staged environments
  file,          \* .env.linux-service
  services,      \* the environment the containers were created with; are they up
  pending,       \* pending.json
  active,        \* active.json
  status,        \* status.json
  apply,         \* what each applier is doing
  proven,        \* environments that passed a health check
  overlapped,    \* both appliers were at work at a time
  cut,           \* an applier died, or an error it ignores left its work undone
  spent          \* how much of each bound is used

vars == <<stages, file, services, pending, active, status, apply, proven,
          overlapped, cut, spent>>
queue == <<pending, active, status>>

Requests == [id : Nat, stage : Texts]
States == {"idle", "queued", "applying", "succeeded", "failed"}
Places == {"idle", "claimed", "exported", "backed", "replaced", "checking",
           "restoring", "restored", "failing", "succeeded"}
Idle == [pc |-> "idle", id |-> 0, stage |-> Plain(Initial), backup |-> Initial]

TypeOK ==
  /\ stages \subseteq Texts
  /\ file \in Files
  /\ services \in [env : Files, up : BOOLEAN]
  /\ pending \in Requests \cup {None} /\ active \in Requests \cup {None}
  /\ status \in [state : States, id : Nat]
  /\ apply \in [Appliers -> [pc : Places, id : Nat, stage : Texts, backup : Files]]
  /\ proven \subseteq Files
  /\ overlapped \in BOOLEAN /\ cut \in BOOLEAN
  /\ spent \in [requests : Nat, byHand : Nat, faults : Nat, crashes : Nat]

Init ==
  /\ stages = {}
  /\ file = Initial
  /\ services = [env |-> Initial, up |-> TRUE]
  /\ pending = None /\ active = None
  /\ status = [state |-> "idle", id |-> 0]
  /\ apply = [p \in Appliers |-> Idle]
  /\ proven = {Initial}
  /\ overlapped = FALSE /\ cut = FALSE
  /\ spent = [requests |-> 0, byHand |-> 0, faults |-> 0, crashes |-> 0]

Goto(p, pc) == apply' = [apply EXCEPT ![p].pc = pc]
Fault == /\ spent.faults < MaxFaults
         /\ spent' = [spent EXCEPT !.faults = @ + 1]
Crash == /\ spent.crashes < MaxCrashes
         /\ spent' = [spent EXCEPT !.crashes = @ + 1]
Busy(p) == apply[p].pc # "idle"
-----------------------------------------------------------------------------
(* The console.                                                            *)
StageEnvironment(d) ==                \* a name of its own, renamed into place
  stages' = stages \cup {Written(d)}

Stage(d) ==
  /\ services.up /\ services.env # Partial
  /\ Cardinality(stages) < MaxStages
  /\ Valid(d.settings)
  /\ StageEnvironment(d)
  /\ UNCHANGED <<file, services, queue, apply, proven, overlapped, cut, spent>>

QueueFreeLoosely == pending = None     \* mutant: a running request is not looked for
QueueFree == pending = None /\ active = None

Request(s) ==
  LET id == spent.requests + 1 IN
  /\ services.up
  /\ spent.requests < MaxRequests
  /\ s \in stages
  /\ QueueFree
  /\ pending' = [id |-> id, stage |-> s]
  /\ status' = [state |-> "queued", id |-> id]
  /\ spent' = [spent EXCEPT !.requests = id]
  /\ UNCHANGED <<stages, file, services, active, apply, proven, overlapped, cut>>
-----------------------------------------------------------------------------
(* The agent claims: its call runs in the console's container.  A call     *)
(* that fails after the claim (its journal entry cannot be written) or is  *)
(* killed leaves the request with nobody.                                  *)
Claimable == ~Busy("agent") /\ services.up /\ pending # None /\ active = None

Claim ==
  /\ Claimable
  /\ active' = pending /\ pending' = None
  /\ status' = [state |-> "applying", id |-> pending.id]
  /\ apply' = [apply EXCEPT !["agent"] =
                 [pc |-> "claimed", id |-> pending.id, stage |-> pending.stage, backup |-> file]]
  /\ overlapped' = (overlapped \/ Busy("hand"))
  /\ UNCHANGED <<stages, file, services, proven, cut, spent>>

ClaimLost ==
  /\ Claimable /\ Fault
  /\ active' = pending /\ pending' = None
  /\ status' = [state |-> "applying", id |-> pending.id]
  /\ cut' = TRUE
  /\ UNCHANGED <<stages, file, services, apply, proven, overlapped>>

ClaimKilled ==
  /\ Claimable /\ Crash
  /\ active' = pending
  /\ pending' \in {pending, None}
  /\ cut' = TRUE
  /\ UNCHANGED <<stages, file, services, status, apply, proven, overlapped>>

(* The operator's own call parses the stage and validates it again.        *)
StartByHand(s) ==
  /\ ~Busy("hand") /\ spent.byHand < MaxByHand
  /\ s \in stages /\ Exports(s)
  /\ apply' = [apply EXCEPT !["hand"] =
                 [pc |-> "exported", id |-> 0, stage |-> s, backup |-> file]]
  /\ overlapped' = (overlapped \/ Busy("agent"))
  /\ spent' = [spent EXCEPT !.byHand = @ + 1]
  /\ UNCHANGED <<stages, file, services, queue, proven, cut>>
-----------------------------------------------------------------------------
(* The steps of an applier.  The agent exports the stage in the container  *)
(* of the console, which parses its text and validates it again.           *)
Export(p) ==
  /\ apply[p].pc = "claimed"
  /\ services.up /\ apply[p].stage \in stages /\ Exports(apply[p].stage)
  /\ Goto(p, "exported")
  /\ UNCHANGED <<stages, file, services, queue, proven, overlapped, cut, spent>>

ExportFailsSilently(p) ==              \* mutant: a failed export is not reported
  /\ apply[p].pc = "claimed"
  /\ ~(services.up /\ apply[p].stage \in stages /\ Exports(apply[p].stage))
  /\ Goto(p, "idle")
  /\ UNCHANGED <<stages, file, services, queue, proven, overlapped, cut, spent>>

ExportFails(p) ==
  /\ apply[p].pc = "claimed"
  /\ ~(services.up /\ apply[p].stage \in stages /\ Exports(apply[p].stage))
  /\ Goto(p, "failing")
  /\ UNCHANGED <<stages, file, services, queue, proven, overlapped, cut, spent>>

(* The export, the check by Compose, the backup or the rename fails: the   *)
(* file is as it was.  Only the operator's call rolls a failed rename back.*)
Refused(p) ==
  /\ apply[p].pc \in {"claimed", "exported", "backed"}
  /\ Fault
  /\ Goto(p, IF p = "hand" /\ apply[p].pc = "backed" THEN "restoring" ELSE "failing")
  /\ UNCHANGED <<stages, file, services, queue, proven, overlapped, cut>>

Backup(p) ==
  /\ apply[p].pc = "exported"
  /\ apply' = [apply EXCEPT ![p].pc = "backed", ![p].backup = file]
  /\ UNCHANGED <<stages, file, services, queue, proven, overlapped, cut, spent>>

Replace(p) ==
  /\ apply[p].pc = "backed"
  /\ file' = Exported(apply[p].stage)
  /\ Goto(p, "replaced")
  /\ UNCHANGED <<stages, services, queue, proven, overlapped, cut, spent>>

Up(p) ==
  /\ apply[p].pc = "replaced"
  /\ services' = [env |-> file, up |-> TRUE]
  /\ Goto(p, "checking")
  /\ UNCHANGED <<stages, file, queue, proven, overlapped, cut, spent>>

NotUp == {services, [env |-> file, up |-> FALSE]}   \* refused, or recreated in vain

UpIgnored(p) ==                        \* mutant: the result of `up` is not looked at
  /\ apply[p].pc = "replaced" /\ Fault
  /\ services' \in NotUp
  /\ Goto(p, "checking")
  /\ UNCHANGED <<stages, file, queue, proven, overlapped, cut>>

UpFails(p) ==
  /\ apply[p].pc = "replaced" /\ Fault
  /\ services' \in NotUp
  /\ Goto(p, "restoring")
  /\ UNCHANGED <<stages, file, queue, proven, overlapped, cut>>

Healthy(p) ==
  /\ apply[p].pc = "checking" /\ services.up
  /\ proven' = proven \cup {services.env}
  /\ Goto(p, "succeeded")
  /\ UNCHANGED <<stages, file, services, queue, overlapped, cut, spent>>

UnhealthyGivesUp(p) ==                 \* mutant: it is reported, not rolled back
  /\ apply[p].pc = "checking" /\ ~services.up
  /\ Goto(p, "failing")
  /\ UNCHANGED <<stages, file, services, queue, proven, overlapped, cut, spent>>

Unhealthy(p) ==
  /\ apply[p].pc = "checking" /\ ~services.up
  /\ Goto(p, "restoring")
  /\ UNCHANGED <<stages, file, services, queue, proven, overlapped, cut, spent>>

Restore(p) ==
  /\ apply[p].pc = "restoring"
  /\ file' = apply[p].backup
  /\ Goto(p, "restored")
  /\ UNCHANGED <<stages, services, queue, proven, overlapped, cut, spent>>

RestoreFails(p) ==
  /\ apply[p].pc = "restoring" /\ Fault
  /\ file' \in {file, Partial}
  /\ Goto(p, IF p = "agent" THEN "restored" ELSE "failing")
  /\ cut' = TRUE
  /\ UNCHANGED <<stages, services, queue, proven, overlapped>>

UpAgain(p) ==
  /\ apply[p].pc = "restored"
  /\ \/ services' = [env |-> file, up |-> TRUE] /\ UNCHANGED spent
     \/ services' \in NotUp /\ Fault
  /\ Goto(p, "failing")
  /\ UNCHANGED <<stages, file, queue, proven, overlapped, cut>>
-----------------------------------------------------------------------------
(* The agent reports through the console's container and ignores a failed  *)
(* report; the operator's call reports to its terminal.                    *)
Outcome(p) == IF apply[p].pc = "succeeded" THEN "succeeded" ELSE "failed"
Reporting(p) == apply[p].pc \in {"succeeded", "failing"}

Report ==
  /\ Reporting("agent") /\ services.up
  /\ active # None /\ active.id = apply["agent"].id
  /\ status' = [state |-> Outcome("agent"), id |-> active.id]
  /\ active' = None
  /\ apply' = [apply EXCEPT !["agent"] = Idle]
  /\ UNCHANGED <<stages, file, services, pending, proven, overlapped, cut, spent>>

Unreported ==
  /\ Reporting("agent")
  /\ \/ ~services.up /\ UNCHANGED spent
     \/ Fault
  /\ apply' = [apply EXCEPT !["agent"] = Idle]
  /\ cut' = TRUE
  /\ UNCHANGED <<stages, file, services, queue, proven, overlapped>>

ReportKilled ==
  /\ Reporting("agent") /\ services.up /\ Crash
  /\ active # None /\ active.id = apply["agent"].id
  /\ status' = [state |-> Outcome("agent"), id |-> active.id]
  /\ apply' = [apply EXCEPT !["agent"] = Idle]
  /\ cut' = TRUE
  /\ UNCHANGED <<stages, file, services, pending, active, proven, overlapped>>

EndByHand ==
  /\ Reporting("hand")
  /\ apply' = [apply EXCEPT !["hand"] = Idle]
  /\ UNCHANGED <<stages, file, services, queue, proven, overlapped, cut, spent>>

(* The applier dies; the agent is started again, and remembers nothing.    *)
Die(p) ==
  /\ Busy(p) /\ Crash
  /\ apply' = [apply EXCEPT ![p] = Idle]
  /\ file' \in {file} \cup (IF apply[p].pc = "restoring" THEN {Partial} ELSE {})
  /\ services' \in {services} \cup (IF apply[p].pc \in {"replaced", "restored"} THEN NotUp ELSE {})
  /\ cut' = TRUE
  /\ UNCHANGED <<stages, queue, proven, overlapped>>
-----------------------------------------------------------------------------
(* The containers: they fall, and Docker starts them again as they were    *)
(* created (restart: unless-stopped).                                      *)
Fall ==
  /\ services.up /\ Fault
  /\ services' = [services EXCEPT !.up = FALSE]
  /\ UNCHANGED <<stages, file, queue, apply, proven, overlapped, cut>>

Return ==
  /\ ~services.up
  /\ services' = [services EXCEPT !.up = TRUE]
  /\ UNCHANGED <<stages, file, queue, apply, proven, overlapped, cut, spent>>
-----------------------------------------------------------------------------
Work(p) ==
  \/ Export(p) \/ ExportFails(p) \/ Refused(p) \/ Backup(p) \/ Replace(p)
  \/ Up(p) \/ UpFails(p) \/ Healthy(p) \/ Unhealthy(p)
  \/ Restore(p) \/ RestoreFails(p) \/ UpAgain(p)

Ending == Report \/ Unreported \/ EndByHand

Next ==
  \/ \E d \in Drafts : Stage(d)
  \/ \E s \in stages : Request(s) \/ StartByHand(s)
  \/ Claim \/ ClaimLost \/ ClaimKilled
  \/ \E p \in Appliers : Work(p) \/ Die(p)
  \/ Ending \/ ReportKilled
  \/ Fall \/ Return

Spec == Init /\ [][Next]_vars

(* The agent and the call go on, and Docker restarts what fell.            *)
FairSpec ==
  Spec /\ WF_vars(Claim) /\ WF_vars(Return)
       /\ \A p \in Appliers : WF_vars(Work(p))
       /\ WF_vars(Report \/ Unreported) /\ WF_vars(EndByHand)
-----------------------------------------------------------------------------
(* One configuration is applied at a time: while a request runs, only the  *)
(* trace of its own claim, cut in the middle, may still be queued          *)
(* (queue_request and claim_request of gateway_apply_queue.py).            *)
OneRequest == pending # None /\ active # None => pending = active

(* The agent and the request it works on agree with active.json, so its    *)
(* report is never refused as "request is not active".                     *)
AgentOwnsActive ==
  Busy("agent") => active = [id |-> apply["agent"].id, stage |-> apply["agent"].stage]

(* A success the console shows is one: the services were created with what *)
(* the requested stage exports and it is in the file, unless somebody      *)
(* applied another by hand meanwhile.                                      *)
SuccessIsReal ==
  [][ status'.state = "succeeded" /\ status' # status /\ ~overlapped =>
        /\ file = Exported(apply["agent"].stage)
        /\ services.env = file /\ file \in proven ]_vars

(* A stage of single lines stays valid when it is parsed and validated     *)
(* again, and exports as it was staged.  Whatever a stage exports, stray   *)
(* lines included, the radio interface accepts when rnsd starts.           *)
StagesApply ==
  \A s \in stages :
    /\ SingleLines(s) => Exports(s) /\ Exported(s) = s.settings
    /\ Exports(s) => InterfaceAccepts(Rendered(Exported(s)))

(* Every stage exports as it was staged.  The code breaks this with a      *)
(* value that render_env takes for a single line and parse_env_file does   *)
(* not.                                                                    *)
StagesReadBack == \A s \in stages : Exports(s) /\ Exported(s) = s.settings

(* No stage opens the radio to the public network, whatever its text reads *)
(* as: with an upstream, or a discovery that may find one later, the radio *)
(* is internal.                                                            *)
RadioStaysPrivate ==
  \A s \in stages :
    Exports(s) /\ PublicPath(Rendered(Exported(s))) => Rendered(Exported(s)).radioMode = "internal"

(* An environment whose services were never healthy does not stay: it      *)
(* proves itself or is rolled back, unless the applier died, its copy of   *)
(* the backup failed, or two appliers took each other's file for backup.   *)
RolledBackUnlessCut == file \notin proven ~> file \in proven \/ cut \/ overlapped

(* The same of two appliers beside each other: "on failure the agent       *)
(* restores the backup and starts the previous configuration"              *)
(* (docs/GATEWAY_CONSOLE.md:186).  The code breaks this: the backup may be *)
(* the unproven environment of the other applier.                          *)
RolledBackBeside == file \notin proven ~> file \in proven \/ cut

(* The same when nobody dies: the agent does not look at the result of     *)
(* copying the backup and reports "previous configuration was restored"    *)
(* (scripts/gateway-apply-agent:106).  The code breaks this: the new       *)
(* environment, or half of a file, stays.                                  *)
RolledBack == file \notin proven ~> file \in proven

(* Every request is answered with success or failure, unless the agent     *)
(* died on it or its call was lost.                                        *)
Answered ==
  \A id \in 1..MaxRequests :
    (pending # None /\ pending.id = id)
      ~> (status.id = id /\ status.state \in {"succeeded", "failed"}) \/ cut
=============================================================================
