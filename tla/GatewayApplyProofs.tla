-------------------------- MODULE GatewayApplyProofs --------------------------
(***************************************************************************)
(* Proofs about staging and applying a gateway configuration.  The first   *)
(* part is about the rules (GatewayConfig): what was accepted once stays   *)
(* acceptable.  The second is about the two appliers and the queue.        *)
(***************************************************************************)
EXTENDS GatewayApply, TLAPS

(* Normalising an environment touches its pacing only.                     *)
LEMMA PolicyPacing ==
  ASSUME NEW policy
  PROVE  PolicyInterval(policy) \in Nat /\ PolicyQueue(policy) \in Nat
BY DEF PolicyInterval, PolicyQueue

LEMMA NormalisedType ==
  ASSUME NEW e \in Environments
  PROVE  Normalised(e) \in Environments
<1>1. ASSUME NEW i \in Nat, NEW x \in Environments
      PROVE  [x EXCEPT !.interval = i] \in Environments
  BY DEF Environments
<1>2. ASSUME NEW q \in Nat, NEW x \in Environments
      PROVE  [x EXCEPT !.queue = q] \in Environments
  BY DEF Environments
<1>3. ASSUME NEW i \in Nat, NEW q \in Nat
      PROVE  [e EXCEPT !.interval = i, !.queue = q] \in Environments
  <2> DEFINE f == [e EXCEPT !.interval = i]
  <2>1. f \in Environments BY <1>1
  <2>2. [f EXCEPT !.queue = q] \in Environments BY <2>1, <1>2
  <2> QED BY <2>2
<1> QED BY <1>3, PolicyPacing DEF Normalised

LEMMA NormalisedKeeps ==
  ASSUME NEW e \in Environments
  PROVE  /\ Normalised(e).policy = e.policy
         /\ Normalised(e).discovery = e.discovery /\ Normalised(e).sources = e.sources
         /\ Normalised(e).public = e.public /\ Normalised(e).publicBootstrap = e.publicBootstrap
         /\ Normalised(e).private = e.private /\ Normalised(e).privateBootstrap = e.privateBootstrap
         /\ Normalised(e).radioIfac = e.radioIfac /\ Normalised(e).tcpIfac = e.tcpIfac
         /\ Normalised(e).privateIfac = e.privateIfac
         /\ Normalised(e).auth = e.auth /\ Normalised(e).loopback = e.loopback
         /\ Normalised(e).login = e.login
         /\ Normalised(e).mode = e.mode /\ Normalised(e).role = e.role
         /\ Normalised(e).gatewayNode = e.gatewayNode /\ Normalised(e).allowedNodes = e.allowedNodes
         /\ Normalised(e).maxPeers = e.maxPeers /\ Normalised(e).idle = e.idle
         /\ Normalised(e).cooldown = e.cooldown
         /\ Normalised(e).authRequired = e.authRequired /\ Normalised(e).identities = e.identities
         /\ Normalised(e).dutyOverride = e.dutyOverride /\ Normalised(e).wellFormed = e.wellFormed
BY DEF Normalised, Environments

LEMMA NormalisedPacing ==
  ASSUME NEW e \in Environments
  PROVE  /\ e.policy = "custom" => Normalised(e) = e
         /\ e.policy # "custom" => /\ Normalised(e).interval = PolicyInterval(e.policy)
                                   /\ Normalised(e).queue = PolicyQueue(e.policy)
BY DEF Normalised, Environments

(* Normalising twice is normalising once.                                  *)
LEMMA NormalisedTwice ==
  ASSUME NEW e \in Environments
  PROVE  Normalised(Normalised(e)) = Normalised(e)
<1>1. CASE e.policy = "custom"
  BY <1>1 DEF Normalised
<1>2. CASE e.policy # "custom"
  <2> DEFINE n == Normalised(e)
  <2>1. n = [e EXCEPT !.interval = PolicyInterval(e.policy), !.queue = PolicyQueue(e.policy)]
    BY <1>2 DEF Normalised
  <2>2. n.policy = e.policy
    BY NormalisedKeeps
  <2>3. Normalised(n) = [n EXCEPT !.interval = PolicyInterval(e.policy),
                                  !.queue = PolicyQueue(e.policy)]
    BY <1>2, <2>2 DEF Normalised
  <2>4. n \in Environments
    BY NormalisedType
  <2> QED BY <2>1, <2>3, <2>4 DEF Environments
<1> QED BY <1>1, <1>2

(* What the console accepted is acceptable as it was staged.               *)
LEMMA ValidNormalised ==
  ASSUME NEW e \in Environments, Valid(e)
  PROVE  Valid(Normalised(e))
<1>1. ASSUME NEW n, n.policy = e.policy, n.discovery = e.discovery, n.sources = e.sources,
             n.auth = e.auth, n.loopback = e.loopback, n.login = e.login,
             n.cooldown = e.cooldown, n.idle = e.idle, n.dutyOverride = e.dutyOverride
      PROVE  /\ n.policy \in Policies /\ DiscoveryOK(n) /\ ConsoleOK(n)
             /\ TimeoutOK(n.cooldown) /\ IdleOK(n.idle) /\ ~n.dutyOverride
  <2>1. n.policy \in Policies /\ TimeoutOK(n.cooldown) /\ IdleOK(n.idle) /\ ~n.dutyOverride
    BY <1>1, Zenon DEF Valid
  <2>2. DiscoveryOK(n)
    BY <1>1, Zenon DEF Valid, DiscoveryOK
  <2>3. ConsoleOK(n)
    BY <1>1, Zenon DEF Valid, ConsoleOK
  <2> QED BY <2>1, <2>2, <2>3
<1>2. /\ Normalised(e).policy \in Policies
      /\ DiscoveryOK(Normalised(e)) /\ ConsoleOK(Normalised(e))
      /\ TimeoutOK(Normalised(e).cooldown) /\ IdleOK(Normalised(e).idle)
      /\ ~Normalised(e).dutyOverride
  <2> HIDE DEF Normalised
  <2> QED BY <1>1, NormalisedKeeps, Zenon
<1>3. Renders(Normalised(Normalised(e)))
  <2>1. Renders(Normalised(e))
    BY Zenon DEF Valid
  <2> QED BY <2>1, NormalisedTwice
<1> QED BY <1>2, <1>3, Zenon DEF Valid

(* The radio interface starts with whatever is rendered: its own checks    *)
(* (_validate_mode) never refuse it.                                       *)
LEMMA RenderedAccepted ==
  ASSUME NEW e \in Environments, Renders(e)
  PROVE  InterfaceAccepts(Rendered(e))
<1>1. /\ Rendered(e).mode = e.mode /\ Rendered(e).role = e.role
      /\ Rendered(e).gatewayNode = e.gatewayNode
      /\ Rendered(e).maxPeers = e.maxPeers /\ Rendered(e).idle = e.idle
      /\ Rendered(e).queue = e.queue /\ Rendered(e).interval = e.interval
  BY DEF Rendered
<1>2. RoleOK(e) /\ NodesOK(e) /\ IdleOK(e.idle) /\ PeersOK(e.maxPeers) /\ QueueOK(e.queue)
  BY Zenon DEF Renders
<1>3. e.interval >= 0
  BY DEF Environments
<1>4. e.mode = "broadcast" => e.role # "hub"
  BY <1>2 DEF RoleOK
<1>5. e.mode = "auto_multi_peer" => e.role = "hub"
  BY <1>2 DEF RoleOK
<1>6. e.mode = "gateway_unicast" /\ e.role = "client" => e.gatewayNode
  BY <1>2, Zenon DEF NodesOK
<1>7. ASSUME NEW r, r.mode = e.mode, r.role = e.role, r.gatewayNode = e.gatewayNode,
             r.maxPeers = e.maxPeers, r.idle = e.idle, r.queue = e.queue, r.interval >= 0
      PROVE  InterfaceAccepts(r)
  BY <1>2, <1>4, <1>5, <1>6, <1>7, Zenon DEF InterfaceAccepts
<1> HIDE DEF Rendered
<1> QED BY <1>1, <1>3, <1>7

LEMMA RenderedPrivate ==
  ASSUME NEW e \in Environments, PublicPath(Rendered(e))
  PROVE  Rendered(e).radioMode = "internal"
<1>1. /\ Rendered(e).radioMode = RadioMode(e)
      /\ Rendered(e).boundaries = Boundaries(e)
      /\ Rendered(e).autoconnect = (e.discovery \in {"auto", "trusted_auto"})
  BY DEF Rendered
<1>2. Boundaries(e) # {} \/ e.discovery # "off"
  BY <1>1 DEF PublicPath
<1> QED BY <1>1, <1>2 DEF RadioMode

(* A text of single lines reads as its settings; any staged text reads as  *)
(* some environment.                                                       *)
LEMMA SingleLinesParsed ==
  ASSUME NEW t, t.settings \in Environments, SingleLines(t)
  PROVE  Parsed(t) = t.settings
<1> DEFINE e == t.settings
<1>1. Parsed(t) = [n \in DOMAIN e |-> e[n]]
  BY DEF Parsed, SingleLines
<1>2. e = [n \in DOMAIN e |-> e[n]]
  BY DEF Environments
<1> QED BY <1>1, <1>2

LEMMA ExportedType ==
  ASSUME NEW t \in Texts
  PROVE  Exported(t) \in Environments
<1>1. CASE t = Plain(Initial)
  <2>1. t.settings = Initial /\ SingleLines(t)
    BY <1>1 DEF Plain, SingleLines
  <2>2. Parsed(t) \in Environments
    BY <2>1, InitialAssumption, SingleLinesParsed
  <2> QED BY <2>2, NormalisedType DEF Exported
<1>2. CASE t \in {Written(d) : d \in Drafts}
  <2>1. Parsed(t) \in Environments
    BY <1>2, DraftsAssumption
  <2> QED BY <2>1, NormalisedType DEF Exported
<1> QED BY <1>1, <1>2 DEF Texts
-----------------------------------------------------------------------------
Jobs == [pc : Places, id : Nat, stage : Texts, backup : Files]

LEMMA JobsType == TypeOK <=>
  /\ stages \subseteq Texts
  /\ file \in Files
  /\ services \in [env : Files, up : BOOLEAN]
  /\ pending \in Requests \cup {None} /\ active \in Requests \cup {None}
  /\ status \in [state : States, id : Nat]
  /\ apply \in [Appliers -> Jobs]
  /\ proven \subseteq Files
  /\ overlapped \in BOOLEAN /\ cut \in BOOLEAN
  /\ spent \in [requests : Nat, byHand : Nat, faults : Nat, crashes : Nat]
BY DEF TypeOK, Jobs

(* An applier goes from place to place and keeps its request.              *)
LEMMA GotoKeeps ==
  ASSUME apply \in [Appliers -> Jobs], NEW p \in Appliers, NEW pc \in Places, Goto(p, pc)
  PROVE  /\ apply' \in [Appliers -> Jobs]
         /\ apply'[p].pc = pc /\ apply'[p].id = apply[p].id
         /\ apply'[p].stage = apply[p].stage /\ apply'[p].backup = apply[p].backup
         /\ \A q \in Appliers \ {p} : apply'[q] = apply[q]
BY DEF Goto, Jobs

LEMMA IdleType == Idle \in Jobs
BY InitialAssumption DEF Idle, Jobs, Places, Files, Texts

LEMMA SpentType ==
  ASSUME spent \in [requests : Nat, byHand : Nat, faults : Nat, crashes : Nat]
  PROVE  /\ Fault => spent' \in [requests : Nat, byHand : Nat, faults : Nat, crashes : Nat]
         /\ Crash => spent' \in [requests : Nat, byHand : Nat, faults : Nat, crashes : Nat]
BY DEF Fault, Crash

LEMMA NotUpType ==
  ASSUME TypeOK, NEW s \in NotUp
  PROVE  s \in [env : Files, up : BOOLEAN]
<1>1. services \in [env : Files, up : BOOLEAN]
  BY DEF TypeOK
<1>2. FALSE \in BOOLEAN /\ file \in Files
  BY Zenon DEF TypeOK
<1>3. ASSUME NEW b \in BOOLEAN PROVE [env |-> file, up |-> b] \in [env : Files, up : BOOLEAN]
  BY <1>2
<1>4. [env |-> file, up |-> FALSE] \in [env : Files, up : BOOLEAN]
  BY <1>2, <1>3
<1> QED BY <1>1, <1>4, Zenon DEF NotUp

(* The types are kept.  One step per action.                               *)
LEMMA TypeStep ==
  ASSUME TypeOK, [Next]_vars
  PROVE  TypeOK'
<1> USE JobsType
<1>1. ASSUME NEW d \in Drafts, Stage(d) PROVE TypeOK'
  <2>1. Written(d) \in Texts
    BY DEF Texts
  <2> QED BY <1>1, <2>1 DEF Stage, StageEnvironment, queue, TypeOK
<1>2. ASSUME NEW s \in stages, Request(s) PROVE TypeOK'
  BY <1>2 DEF Request, Requests, States, TypeOK
<1>3. ASSUME NEW s \in stages, StartByHand(s) PROVE TypeOK'
  <2>1. apply' \in [Appliers -> Jobs]
    BY <1>3 DEF StartByHand, Jobs, Places
  <2>2. spent' \in [requests : Nat, byHand : Nat, faults : Nat, crashes : Nat]
    BY <1>3 DEF StartByHand
  <2>3. overlapped' \in BOOLEAN
    BY <1>3 DEF StartByHand
  <2>4. UNCHANGED <<stages, file, services, queue, proven, cut>>
    BY <1>3 DEF StartByHand
  <2> QED BY <2>1, <2>2, <2>3, <2>4 DEF queue, TypeOK, Jobs
<1>4. CASE Claim
  <2>1. pending \in Requests
    BY <1>4 DEF Claim, Claimable
  <2>2. apply' \in [Appliers -> Jobs]
    BY <1>4, <2>1 DEF Claim, Jobs, Places, Requests
  <2>3. status' \in [state : States, id : Nat]
    BY <1>4, <2>1 DEF Claim, Requests, States
  <2>4. overlapped' \in BOOLEAN
    BY <1>4 DEF Claim
  <2>5. active' = pending /\ pending' = None /\ UNCHANGED <<stages, file, services, proven, cut, spent>>
    BY <1>4 DEF Claim
  <2> QED BY <2>1, <2>2, <2>3, <2>4, <2>5 DEF TypeOK, Jobs
<1>5. CASE ClaimLost
  <2>1. pending \in Requests
    BY <1>5 DEF ClaimLost, Claimable
  <2>2. status' \in [state : States, id : Nat]
    BY <1>5, <2>1 DEF ClaimLost, Requests, States
  <2> QED BY <1>5, <2>1, <2>2, SpentType DEF ClaimLost, TypeOK
<1>6. CASE ClaimKilled
  BY <1>6, SpentType DEF ClaimKilled, Claimable, TypeOK
<1>7. ASSUME NEW p \in Appliers, Work(p) PROVE TypeOK'
  <2>1. CASE \/ Export(p) \/ ExportFails(p) \/ Unhealthy(p)
    <3>1. \E pc \in Places : Goto(p, pc)
      BY <2>1 DEF Export, ExportFails, Unhealthy, Places
    <3>2. apply' \in [Appliers -> Jobs]
      BY <3>1, GotoKeeps
    <3>3. UNCHANGED <<stages, file, services, queue, proven, overlapped, cut, spent>>
      BY <2>1 DEF Export, ExportFails, Unhealthy
    <3> QED BY <3>2, <3>3 DEF queue, TypeOK, Jobs
  <2>2. CASE Refused(p)
    <3>1. \E pc \in Places : Goto(p, pc)
      BY <2>2 DEF Refused, Places
    <3>2. apply' \in [Appliers -> Jobs]
      BY <3>1, GotoKeeps
    <3> QED BY <2>2, <3>2, SpentType DEF Refused, queue, TypeOK, Jobs
  <2>3. CASE Backup(p)
    <3>1. apply \in [Appliers -> Jobs] /\ file \in Files
      BY JobsType
    <3>2. apply' = [apply EXCEPT ![p] = [apply[p] EXCEPT !.pc = "backed", !.backup = file]]
      BY <2>3 DEF Backup
    <3>3. [apply[p] EXCEPT !.pc = "backed", !.backup = file] \in Jobs
      BY <3>1 DEF Jobs, Places
    <3>4. apply' \in [Appliers -> Jobs]
      BY <3>1, <3>2, <3>3
    <3> QED BY <2>3, <3>4 DEF Backup, queue, TypeOK, Jobs
  <2>4. CASE Replace(p)
    <3>1. apply' \in [Appliers -> Jobs]
      BY <2>4, GotoKeeps DEF Replace, Places
    <3>2. apply[p].stage \in Texts
      BY DEF Jobs
    <3>3. file' \in Files
      BY <2>4, <3>2, ExportedType DEF Replace, Files
    <3> QED BY <2>4, <3>1, <3>3 DEF Replace, queue, TypeOK, Jobs
  <2>5. CASE Up(p)
    <3>1. apply' \in [Appliers -> Jobs]
      BY <2>5, GotoKeeps DEF Up, Places
    <3> QED BY <2>5, <3>1 DEF Up, queue, TypeOK, Jobs
  <2>6. CASE UpFails(p)
    <3>1. apply' \in [Appliers -> Jobs]
      BY <2>6, GotoKeeps DEF UpFails, Places
    <3>2. services' \in [env : Files, up : BOOLEAN]
      BY <2>6, NotUpType DEF UpFails
    <3> QED BY <2>6, <3>1, <3>2, SpentType DEF UpFails, queue, TypeOK, Jobs
  <2>7. CASE Healthy(p)
    <3>1. apply' \in [Appliers -> Jobs]
      BY <2>7, GotoKeeps DEF Healthy, Places
    <3> QED BY <2>7, <3>1 DEF Healthy, queue, TypeOK, Jobs
  <2>8. CASE Restore(p)
    <3>1. apply' \in [Appliers -> Jobs]
      BY <2>8, GotoKeeps DEF Restore, Places
    <3>2. file' \in Files
      BY <2>8 DEF Restore, Jobs
    <3> QED BY <2>8, <3>1, <3>2 DEF Restore, queue, TypeOK, Jobs
  <2>9. CASE RestoreFails(p)
    <3>1. \E pc \in Places : Goto(p, pc)
      BY <2>9 DEF RestoreFails, Places
    <3>2. apply' \in [Appliers -> Jobs]
      BY <3>1, GotoKeeps
    <3>3. file' \in Files
      BY <2>9 DEF RestoreFails, Files
    <3> QED BY <2>9, <3>2, <3>3, SpentType DEF RestoreFails, queue, TypeOK, Jobs
  <2>10. CASE UpAgain(p)
    <3>1. apply' \in [Appliers -> Jobs]
      BY <2>10, GotoKeeps DEF UpAgain, Places
    <3>2. services' \in [env : Files, up : BOOLEAN]
      <4>1. CASE services' = [env |-> file, up |-> TRUE]
        BY <4>1
      <4>2. CASE services' \in NotUp
        BY <4>2, NotUpType
      <4> QED BY <2>10, <4>1, <4>2, Zenon DEF UpAgain
    <3>3. spent' \in [requests : Nat, byHand : Nat, faults : Nat, crashes : Nat]
      BY <2>10, SpentType DEF UpAgain
    <3> QED BY <2>10, <3>1, <3>2, <3>3 DEF UpAgain, queue, TypeOK, Jobs
  <2> QED BY <1>7, <2>1, <2>2, <2>3, <2>4, <2>5, <2>6, <2>7, <2>8, <2>9, <2>10 DEF Work
<1>8. ASSUME NEW p \in Appliers, Die(p) PROVE TypeOK'
  <2>1. apply' \in [Appliers -> Jobs]
    BY <1>8, IdleType DEF Die
  <2>2. file' \in Files
    BY <1>8 DEF Die, Files
  <2>3. services' \in [env : Files, up : BOOLEAN]
    BY <1>8, NotUpType DEF Die
  <2> QED BY <1>8, <2>1, <2>2, <2>3, SpentType DEF Die, queue, TypeOK, Jobs
<1>9. CASE Report
  <2>1. apply' \in [Appliers -> Jobs]
    BY <1>9, IdleType DEF Report
  <2>2. status' \in [state : States, id : Nat]
    BY <1>9 DEF Report, Outcome, Requests, States
  <2> QED BY <1>9, <2>1, <2>2 DEF Report, TypeOK, Jobs
<1>10. CASE Unreported
  <2>1. apply' \in [Appliers -> Jobs]
    BY <1>10, IdleType DEF Unreported
  <2>2. spent' \in [requests : Nat, byHand : Nat, faults : Nat, crashes : Nat]
    BY <1>10, SpentType DEF Unreported
  <2> QED BY <1>10, <2>1, <2>2 DEF Unreported, queue, TypeOK, Jobs
<1>11. CASE EndByHand
  <2>1. apply' \in [Appliers -> Jobs]
    BY <1>11, IdleType DEF EndByHand
  <2> QED BY <1>11, <2>1 DEF EndByHand, queue, TypeOK, Jobs
<1>12. CASE ReportKilled
  <2>1. apply' \in [Appliers -> Jobs]
    BY <1>12, IdleType DEF ReportKilled
  <2>2. status' \in [state : States, id : Nat]
    BY <1>12 DEF ReportKilled, Outcome, Requests, States
  <2> QED BY <1>12, <2>1, <2>2, SpentType DEF ReportKilled, TypeOK, Jobs
<1>13. CASE Fall
  BY <1>13, SpentType DEF Fall, queue, TypeOK
<1>14. CASE Return
  BY <1>14 DEF Return, queue, TypeOK
<1>15. CASE UNCHANGED vars
  BY <1>15 DEF vars, TypeOK
<1> QED
  BY <1>1, <1>2, <1>3, <1>4, <1>5, <1>6, <1>7, <1>8, <1>9, <1>10, <1>11, <1>12, <1>13, <1>14, <1>15
     DEF Next, Ending

(* The queue, the files, the services and the appliers have their types.   *)
THEOREM ApplyTypes == Spec => []TypeOK
<1>1. Init => TypeOK
  <2> SUFFICES ASSUME Init PROVE TypeOK
    OBVIOUS
  <2>1. apply \in [Appliers -> Jobs]
    BY IdleType DEF Init
  <2>2. Initial \in Environments /\ Initial \in Files
    BY InitialAssumption DEF Files
  <2>3. services \in [env : Files, up : BOOLEAN]
    BY <2>2 DEF Init
  <2>4. stages \subseteq Texts /\ file \in Files /\ proven \subseteq Files
    BY <2>2 DEF Init
  <2>5. pending \in Requests \cup {None} /\ active \in Requests \cup {None}
    BY DEF Init
  <2>6. status \in [state : States, id : Nat]
    BY DEF Init, States
  <2>7. overlapped \in BOOLEAN /\ cut \in BOOLEAN
    BY DEF Init
  <2>8. spent \in [requests : Nat, byHand : Nat, faults : Nat, crashes : Nat]
    BY DEF Init
  <2> QED BY <2>1, <2>3, <2>4, <2>5, <2>6, <2>7, <2>8, JobsType
<1> QED BY <1>1, TypeStep, PTL DEF Spec
-----------------------------------------------------------------------------
(* Only Stage adds to the stages, and it adds what it validated.           *)
LEMMA StagesChange ==
  ASSUME [Next]_vars
  PROVE  \/ UNCHANGED stages
         \/ \E d \in Drafts : Valid(d.settings) /\ stages' = stages \cup {Written(d)}
<1>1. ASSUME NEW d \in Drafts, Stage(d)
      PROVE  Valid(d.settings) /\ stages' = stages \cup {Written(d)}
  BY <1>1 DEF Stage, StageEnvironment
<1>2. ASSUME NEW s \in stages, Request(s) \/ StartByHand(s) PROVE UNCHANGED stages
  BY <1>2 DEF Request, StartByHand
<1>3. ASSUME NEW p \in Appliers, Work(p) PROVE UNCHANGED stages
  BY <1>3 DEF Work, Export, ExportFails, Refused, Backup, Replace, Up, UpFails, Healthy,
              Unhealthy, Restore, RestoreFails, UpAgain
<1>4. ASSUME NEW p \in Appliers, Die(p) PROVE UNCHANGED stages
  BY <1>4 DEF Die
<1>5. ASSUME Claim \/ ClaimLost \/ ClaimKilled \/ Fall \/ Return PROVE UNCHANGED stages
  BY <1>5 DEF Claim, ClaimLost, ClaimKilled, Fall, Return
<1>6. ASSUME Ending \/ ReportKilled PROVE UNCHANGED stages
  BY <1>6 DEF Ending, Report, Unreported, EndByHand, ReportKilled
<1>7. ASSUME UNCHANGED vars PROVE UNCHANGED stages
  BY <1>7 DEF vars
<1> QED BY <1>1, <1>2, <1>3, <1>4, <1>5, <1>6, <1>7 DEF Next

(* The settings of a stage were validated and are normalised, also when    *)
(* its text reads otherwise.                                               *)
StagesValid ==
  \A s \in stages :
    s.settings \in Environments /\ Valid(s.settings) /\ Normalised(s.settings) = s.settings

LEMMA WrittenValid ==
  ASSUME NEW d \in Drafts, Valid(d.settings)
  PROVE  LET e == Written(d).settings IN e \in Environments /\ Valid(e) /\ Normalised(e) = e
<1>1. d.settings \in Environments /\ Written(d).settings = Normalised(d.settings)
  BY DraftsAssumption DEF Written
<1> HIDE DEF Written
<1> QED BY <1>1, NormalisedType, NormalisedTwice, ValidNormalised

LEMMA StagesStayValid ==
  ASSUME StagesValid, [Next]_vars
  PROVE  StagesValid'
<1>1. CASE UNCHANGED stages
  BY <1>1 DEF StagesValid
<1>2. CASE \E d \in Drafts : Valid(d.settings) /\ stages' = stages \cup {Written(d)}
  <2>1. PICK d \in Drafts : Valid(d.settings) /\ stages' = stages \cup {Written(d)}
    BY <1>2
  <2> QED BY <2>1, WrittenValid DEF StagesValid
<1> QED BY <1>1, <1>2, StagesChange

(* What is exported was rendered by the rules, also from stray lines.      *)
LEMMA ExportsRender ==
  ASSUME NEW t \in Texts, Exports(t)
  PROVE  Exported(t) \in Environments /\ Renders(Exported(t))
<1>1. Renders(Normalised(Parsed(t)))
  BY Zenon DEF Exports, Valid
<1> QED BY <1>1, ExportedType DEF Exported

LEMMA StagedInvariant == Spec => [](StagesApply /\ RadioStaysPrivate)
<1>1. Init => StagesValid
  BY DEF Init, StagesValid
<1>2. ASSUME TypeOK, StagesValid
      PROVE  StagesApply /\ RadioStaysPrivate
  <2>1. ASSUME NEW s \in stages, SingleLines(s)
        PROVE  Exports(s) /\ Exported(s) = s.settings
    <3>1. Parsed(s) = s.settings /\ ~s.torn
      BY <1>2, <2>1, SingleLinesParsed DEF StagesValid, SingleLines
    <3> QED BY <1>2, <3>1 DEF StagesValid, Exports, Exported
  <2>2. ASSUME NEW s \in stages, Exports(s)
        PROVE  /\ InterfaceAccepts(Rendered(Exported(s)))
               /\ PublicPath(Rendered(Exported(s))) => Rendered(Exported(s)).radioMode = "internal"
    <3>1. Exported(s) \in Environments /\ Renders(Exported(s))
      BY <1>2, <2>2, ExportsRender DEF TypeOK
    <3> HIDE DEF Exported
    <3> QED BY <3>1, RenderedAccepted, RenderedPrivate
  <2> QED BY <2>1, <2>2 DEF StagesApply, RadioStaysPrivate
<1> QED BY <1>1, <1>2, StagesStayValid, ApplyTypes, PTL DEF Spec

(* A stage of single lines exports as it was staged, and whatever a stage  *)
(* exports, stray lines included, starts the radio interface: for every    *)
(* environment and every text the console may be given.                    *)
THEOREM StagedConfigurationsApply == Spec => []StagesApply
BY StagedInvariant, PTL

(* Whatever a stage exports keeps the radio internal beside a public path. *)
THEOREM StagedRadioIsPrivate == Spec => []RadioStaysPrivate
BY StagedInvariant, PTL
-----------------------------------------------------------------------------
(* What a step of an applier leaves alone.                                 *)
LEMMA WorkKeeps ==
  ASSUME TypeOK, NEW p \in Appliers, Work(p)
  PROVE  /\ UNCHANGED <<pending, active, status, overlapped>>
         /\ apply[p].pc # "idle" /\ apply'[p].pc # "idle"
         /\ apply'[p].id = apply[p].id /\ apply'[p].stage = apply[p].stage
         /\ \A q \in Appliers \ {p} : apply'[q] = apply[q]
<1> DEFINE Kept == /\ apply'[p].pc # "idle"
                   /\ apply'[p].id = apply[p].id /\ apply'[p].stage = apply[p].stage
                   /\ \A q \in Appliers \ {p} : apply'[q] = apply[q]
<1>1. UNCHANGED <<pending, active, status, overlapped>> /\ apply[p].pc # "idle"
  BY DEF Work, Export, ExportFails, Refused, Backup, Replace, Up, UpFails, Healthy,
         Unhealthy, Restore, RestoreFails, UpAgain, queue
<1>2. CASE Backup(p)
  <2>1. apply \in [Appliers -> Jobs]
    BY JobsType
  <2>2. Kept
    BY <1>2, <2>1 DEF Backup, Jobs
  <2> QED BY <1>1, <2>2
<1>3. CASE ~Backup(p)
  <2>1. \E pc \in Places \ {"idle"} : Goto(p, pc)
    BY <1>3 DEF Work, Export, ExportFails, Refused, Replace, Up, UpFails, Healthy,
                Unhealthy, Restore, RestoreFails, UpAgain, Places
  <2>2. Kept
    BY <2>1, GotoKeeps, JobsType
  <2> QED BY <1>1, <2>2
<1> QED BY <1>2, <1>3

(* The agent and the operator's call interfere only when both are at work, *)
(* which overlapped records.                                               *)
Alone == ~overlapped => ~(Busy("agent") /\ Busy("hand"))

AgentProgress ==
  ~overlapped =>
    /\ apply["agent"].pc \in {"replaced", "checking", "succeeded"} =>
         file = Exported(apply["agent"].stage)
    /\ apply["agent"].pc \in {"checking", "succeeded"} => services.env = file
    /\ apply["agent"].pc = "succeeded" => file \in proven

QueueInv == OneRequest /\ AgentOwnsActive
ApplyInv == Alone /\ AgentProgress

(* The queue: pending and active change in the calls of the console and of *)
(* the agent only, each of which looks at both.                            *)
LEMMA QueueStep ==
  ASSUME TypeOK, QueueInv, [Next]_vars
  PROVE  QueueInv'
<1> USE DEF QueueInv
<1>1. ASSUME UNCHANGED <<pending, active, apply>> PROVE QueueInv'
  BY <1>1 DEF OneRequest, AgentOwnsActive, Busy
<1>2. ASSUME NEW d \in Drafts, Stage(d) PROVE QueueInv'
  BY <1>1, <1>2 DEF Stage, queue
<1>3. ASSUME NEW s \in stages, Request(s) PROVE QueueInv'
  BY <1>3 DEF Request, QueueFree, OneRequest, AgentOwnsActive, Busy
<1>4. ASSUME NEW s \in stages, StartByHand(s) PROVE QueueInv'
  <2>1. apply'["agent"] = apply["agent"]
    BY <1>4, JobsType DEF StartByHand, Appliers
  <2>2. UNCHANGED <<pending, active>>
    BY <1>4 DEF StartByHand, queue
  <2> QED BY <2>1, <2>2 DEF OneRequest, AgentOwnsActive, Busy
<1>5. CASE Claim
  <2>1. pending \in Requests /\ active' = pending /\ pending' = None
    BY <1>5 DEF Claim, Claimable, TypeOK
  <2>2. apply'["agent"].id = pending.id /\ apply'["agent"].stage = pending.stage
    BY <1>5, JobsType DEF Claim, Appliers
  <2>3. pending = [id |-> pending.id, stage |-> pending.stage]
    BY <2>1 DEF Requests
  <2> QED BY <2>1, <2>2, <2>3 DEF OneRequest, AgentOwnsActive, Busy
<1>6. CASE ClaimLost \/ ClaimKilled
  BY <1>6 DEF ClaimLost, ClaimKilled, Claimable, OneRequest, AgentOwnsActive, Busy
<1>7. ASSUME NEW p \in Appliers, Work(p) PROVE QueueInv'
  <2>1. /\ UNCHANGED <<pending, active>> /\ apply[p].pc # "idle"
        /\ apply'[p].id = apply[p].id /\ apply'[p].stage = apply[p].stage
        /\ \A q \in Appliers \ {p} : apply'[q] = apply[q]
    BY <1>7, WorkKeeps
  <2>2. CASE p = "agent"
    BY <2>1, <2>2 DEF OneRequest, AgentOwnsActive, Busy
  <2>3. CASE p # "agent"
    <3>1. apply'["agent"] = apply["agent"]
      BY <2>1, <2>3 DEF Appliers
    <3> QED BY <2>1, <3>1 DEF OneRequest, AgentOwnsActive, Busy
  <2> QED BY <2>2, <2>3
<1>8. ASSUME NEW p \in Appliers, apply' = [apply EXCEPT ![p] = Idle], UNCHANGED pending,
             active' = active \/ (p = "agent" /\ active' = None)
      PROVE  QueueInv'
  <2>1. apply'["agent"] = IF p = "agent" THEN Idle ELSE apply["agent"]
    BY <1>8, JobsType DEF Appliers
  <2>2. Idle.pc = "idle"
    BY DEF Idle
  <2> QED BY <1>8, <2>1, <2>2 DEF OneRequest, AgentOwnsActive, Busy
<1>9. ASSUME NEW p \in Appliers, Die(p) PROVE QueueInv'
  BY <1>8, <1>9 DEF Die, queue
<1>10. CASE Report \/ Unreported \/ ReportKilled
  BY <1>8, <1>10 DEF Report, Unreported, ReportKilled, queue, Appliers
<1>11. CASE EndByHand
  BY <1>8, <1>11 DEF EndByHand, queue, Appliers
<1>12. CASE Fall \/ Return \/ UNCHANGED vars
  BY <1>1, <1>12 DEF Fall, Return, vars, queue
<1> QED
  BY <1>2, <1>3, <1>4, <1>5, <1>6, <1>7, <1>9, <1>10, <1>11, <1>12 DEF Next, Ending

(* One request at a time, and the agent's report is always about it.       *)
THEOREM OneRequestAtATime == Spec => [](OneRequest /\ AgentOwnsActive)
<1>1. Init => QueueInv
  BY DEF Init, QueueInv, OneRequest, AgentOwnsActive, Busy, Idle, Appliers
<1>2. QueueInv => OneRequest /\ AgentOwnsActive
  BY DEF QueueInv
<1> QED BY <1>1, <1>2, QueueStep, ApplyTypes, PTL DEF Spec
-----------------------------------------------------------------------------
(* How far the agent is says what it did, if nobody worked beside it.      *)
LEMMA AgentWorks ==
  ASSUME TypeOK, AgentProgress, Work("agent")
  PROVE  AgentProgress'
<1> DEFINE a == "agent"
<1>0. a \in Appliers
  BY DEF Appliers
<1>1. apply'[a].stage = apply[a].stage /\ overlapped' = overlapped
  BY <1>0, WorkKeeps
<1>2. ASSUME apply'[a].pc \notin {"replaced", "checking", "succeeded"} PROVE AgentProgress'
  BY <1>2 DEF AgentProgress
<1>3. ASSUME NEW pc \in Places, Goto(a, pc) PROVE apply'[a].pc = pc
  BY <1>0, <1>3, GotoKeeps, JobsType
<1>4. CASE Export(a) \/ ExportFails(a) \/ Refused(a) \/ UpFails(a) \/ Unhealthy(a)
  <2>1. \E pc \in {"exported", "failing", "restoring"} : Goto(a, pc)
    BY <1>4 DEF Export, ExportFails, Refused, UpFails, Unhealthy
  <2> QED BY <2>1, <1>2, <1>3 DEF Places
<1>5. CASE Restore(a) \/ RestoreFails(a) \/ UpAgain(a)
  <2>1. \E pc \in {"restored", "failing"} : Goto(a, pc)
    BY <1>5 DEF Restore, RestoreFails, UpAgain
  <2> QED BY <2>1, <1>2, <1>3 DEF Places
<1>6. CASE Backup(a)
  <2>1. apply'[a].pc = "backed"
    BY <1>6, <1>0, JobsType DEF Backup, Jobs
  <2> QED BY <2>1, <1>2
<1>7. CASE Replace(a)
  <2>1. apply'[a].pc = "replaced" /\ file' = Exported(apply[a].stage)
    BY <1>7, <1>3 DEF Replace, Places
  <2> QED BY <2>1, <1>1 DEF AgentProgress
<1>8. CASE Up(a)
  <2>1. apply'[a].pc = "checking" /\ file' = file /\ services'.env = file /\ apply[a].pc = "replaced"
    BY <1>8, <1>3 DEF Up, Places
  <2> QED BY <2>1, <1>1 DEF AgentProgress
<1>9. CASE Healthy(a)
  <2>1. /\ apply'[a].pc = "succeeded" /\ apply[a].pc = "checking"
        /\ file' = file /\ services' = services /\ proven' = proven \cup {services.env}
    BY <1>9, <1>3 DEF Healthy, Places
  <2> QED BY <2>1, <1>1 DEF AgentProgress
<1> QED BY <1>4, <1>5, <1>6, <1>7, <1>8, <1>9 DEF Work

LEMMA ApplyStep ==
  ASSUME TypeOK, ApplyInv, [Next]_vars
  PROVE  ApplyInv'
<1> USE DEF ApplyInv
<1>1. ASSUME UNCHANGED <<file, apply, proven, overlapped>>, services'.env = services.env
      PROVE  ApplyInv'
  BY <1>1 DEF Alone, AgentProgress, Busy
<1>2. ASSUME NEW d \in Drafts, Stage(d) PROVE ApplyInv'
  BY <1>1, <1>2 DEF Stage
<1>3. ASSUME NEW s \in stages, Request(s) PROVE ApplyInv'
  BY <1>1, <1>3 DEF Request
<1>4. ASSUME NEW s \in stages, StartByHand(s) PROVE ApplyInv'
  <2>1. apply'["agent"] = apply["agent"] /\ apply'["hand"].pc # "idle"
    BY <1>4, JobsType DEF StartByHand, Appliers
  <2>2. UNCHANGED <<file, services, proven>> /\ overlapped' = (overlapped \/ Busy("agent"))
    BY <1>4 DEF StartByHand
  <2> QED BY <2>1, <2>2 DEF Alone, AgentProgress, Busy
<1>5. CASE Claim
  <2>1. apply'["agent"].pc = "claimed" /\ apply'["hand"] = apply["hand"]
    BY <1>5, JobsType DEF Claim, Appliers
  <2>2. overlapped' = (overlapped \/ Busy("hand"))
    BY <1>5 DEF Claim
  <2> QED BY <2>1, <2>2 DEF Alone, AgentProgress, Busy
<1>6. CASE ClaimLost \/ ClaimKilled
  BY <1>1, <1>6 DEF ClaimLost, ClaimKilled
<1>7. CASE Work("agent")
  <2>1. /\ overlapped' = overlapped /\ apply["agent"].pc # "idle"
        /\ apply'["hand"] = apply["hand"]
    BY <1>7, WorkKeeps DEF Appliers
  <2>2. AgentProgress'
    BY <1>7, AgentWorks
  <2> QED BY <2>1, <2>2 DEF Alone, Busy
<1>8. CASE Work("hand")
  <2>1. /\ overlapped' = overlapped /\ apply["hand"].pc # "idle"
        /\ apply'["agent"] = apply["agent"]
    BY <1>8, WorkKeeps DEF Appliers
  <2> QED BY <2>1 DEF Alone, AgentProgress, Busy
<1>9. ASSUME apply' = [apply EXCEPT !["agent"] = Idle], UNCHANGED overlapped
      PROVE  ApplyInv'
  <2>1. apply'["agent"].pc = "idle"
    BY <1>9, JobsType DEF Appliers, Idle
  <2> QED BY <1>9, <2>1 DEF Alone, AgentProgress, Busy
<1>10. ASSUME apply' = [apply EXCEPT !["hand"] = Idle], UNCHANGED overlapped,
              Busy("hand") \/ UNCHANGED <<file, services, proven>>
       PROVE  ApplyInv'
  <2>1. apply'["hand"].pc = "idle" /\ apply'["agent"] = apply["agent"]
    BY <1>10, JobsType DEF Appliers, Idle
  <2> QED BY <1>10, <2>1 DEF Alone, AgentProgress, Busy
<1>11. ASSUME NEW p \in Appliers, Die(p) PROVE ApplyInv'
  <2>1. p = "agent" \/ p = "hand"
    BY DEF Appliers
  <2> QED BY <1>9, <1>10, <1>11, <2>1 DEF Die
<1>12. CASE Report \/ Unreported \/ ReportKilled
  BY <1>9, <1>12 DEF Report, Unreported, ReportKilled
<1>13. CASE EndByHand
  BY <1>10, <1>13 DEF EndByHand
<1>14. CASE Fall \/ Return
  <2>1. services'.env = services.env
    BY <1>14, JobsType DEF Fall, Return
  <2> QED BY <1>1, <1>14, <2>1 DEF Fall, Return
<1>15. CASE UNCHANGED vars
  BY <1>1, <1>15 DEF vars
<1>16. ASSUME NEW p \in Appliers, Work(p) PROVE ApplyInv'
  BY <1>7, <1>8, <1>16 DEF Appliers
<1> QED
  BY <1>2, <1>3, <1>4, <1>5, <1>6, <1>11, <1>12, <1>13, <1>14, <1>15, <1>16 DEF Next, Ending

(* The status becomes "succeeded" in the agent's report only, after a      *)
(* health check.                                                           *)
LEMMA StatusChange ==
  ASSUME [Next]_vars, status'.state = "succeeded", status' # status
  PROVE  apply["agent"].pc = "succeeded"
<1>1. ASSUME NEW d \in Drafts, Stage(d) PROVE FALSE
  BY <1>1 DEF Stage, queue
<1>2. ASSUME NEW s \in stages, Request(s) \/ StartByHand(s) PROVE FALSE
  BY <1>2 DEF Request, StartByHand, queue
<1>3. ASSUME NEW p \in Appliers, Work(p) PROVE FALSE
  BY <1>3 DEF Work, Export, ExportFails, Refused, Backup, Replace, Up, UpFails, Healthy,
              Unhealthy, Restore, RestoreFails, UpAgain, queue
<1>4. ASSUME NEW p \in Appliers, Die(p) PROVE FALSE
  BY <1>4 DEF Die, queue
<1>5. ASSUME Claim \/ ClaimLost \/ ClaimKilled PROVE FALSE
  BY <1>5 DEF Claim, ClaimLost, ClaimKilled
<1>6. ASSUME Report \/ ReportKilled PROVE apply["agent"].pc = "succeeded"
  BY <1>6 DEF Report, ReportKilled, Outcome
<1>7. ASSUME Unreported \/ EndByHand \/ Fall \/ Return \/ UNCHANGED vars PROVE FALSE
  BY <1>7 DEF Unreported, EndByHand, Fall, Return, vars, queue
<1> QED BY <1>1, <1>2, <1>3, <1>4, <1>5, <1>6, <1>7 DEF Next, Ending

(* A success the console shows is one.                                     *)
THEOREM SuccessesAreReal == Spec => SuccessIsReal
<1>1. Init => ApplyInv
  BY DEF Init, ApplyInv, Alone, AgentProgress, Busy, Idle, Appliers
<1>2. ASSUME ApplyInv, [Next]_vars
      PROVE  [ status'.state = "succeeded" /\ status' # status /\ ~overlapped =>
                 /\ file = Exported(apply["agent"].stage)
                 /\ services.env = file /\ file \in proven ]_vars
  BY <1>2, StatusChange DEF ApplyInv, AgentProgress
<1> QED BY <1>1, <1>2, ApplyStep, ApplyTypes, PTL DEF Spec, SuccessIsReal
-----------------------------------------------------------------------------
(* The part of RolledBackUnlessCut that needs no fairness: nothing is at    *)
(* rest on an environment that never proved itself, with its exceptions.   *)
RestsOnProven ==
  file \notin proven => cut \/ overlapped \/ \E p \in Appliers : Busy(p)

(* Rolling back: an applier at work alone keeps a proven environment, in   *)
(* the file or as its backup.                                              *)
Unsettled == {"replaced", "checking", "restoring"}

BackupsProven ==
  \A p \in Appliers : apply[p].pc \in Unsettled \cup {"backed"} => apply[p].backup \in proven

ChecksTheFile ==
  \A p \in Appliers : apply[p].pc = "checking" => services.env = file

FileProven ==
  file \in proven \/ \E p \in Appliers : apply[p].pc \in Unsettled

RollbackInv ==
  cut \/ overlapped \/ (BackupsProven /\ ChecksTheFile /\ FileProven)

(* A step of an applier that works alone, at its place before and after.   *)
LEMMA OnlyOne ==
  ASSUME TypeOK, Alone, ~overlapped, NEW p \in Appliers, Busy(p), NEW q \in Appliers, q # p
  PROVE  apply[q].pc = "idle"
BY DEF Alone, Busy, Appliers

LEMMA WorkRollsBack ==
  ASSUME TypeOK, Alone, RollbackInv, ~cut', ~overlapped, ~cut, NEW p \in Appliers, Work(p)
  PROVE  RollbackInv'
<1>0. /\ BackupsProven /\ ChecksTheFile /\ FileProven
      /\ apply \in [Appliers -> Jobs] /\ Busy(p)
  BY WorkKeeps, JobsType DEF RollbackInv, Busy
<1>1. \A q \in Appliers \ {p} : apply'[q] = apply[q] /\ apply'[q].pc = "idle"
  BY <1>0, WorkKeeps, OnlyOne
<1>2. proven \subseteq proven'
  BY DEF Work, Export, ExportFails, Refused, Backup, Replace, Up, UpFails, Healthy,
         Unhealthy, Restore, RestoreFails, UpAgain
<1>3. FileProven => apply[p].pc \in Unsettled \/ file \in proven
  BY <1>1 DEF FileProven, Unsettled
<1>4. ASSUME apply'[p].pc \in Unsettled \cup {"backed"} => apply'[p].backup \in proven',
             apply'[p].pc = "checking" => services'.env = file',
             file' \in proven' \/ apply'[p].pc \in Unsettled
      PROVE  RollbackInv'
  <2>1. \A q \in Appliers : q # p => apply'[q].pc \notin Unsettled \cup {"backed"}
    BY <1>1 DEF Unsettled
  <2>2. BackupsProven' /\ ChecksTheFile'
    BY <1>4, <2>1 DEF BackupsProven, ChecksTheFile, Unsettled
  <2>3. FileProven'
    BY <1>4 DEF FileProven
  <2> QED BY <2>2, <2>3 DEF RollbackInv
<1>5. ASSUME NEW pc \in Places, Goto(p, pc)
      PROVE  apply'[p].pc = pc /\ apply'[p].backup = apply[p].backup
  BY <1>0, <1>5, GotoKeeps
<1>6. apply[p].pc \in Unsettled \cup {"backed"} => apply[p].backup \in proven
  BY <1>0 DEF BackupsProven
<1>7. apply[p].pc = "checking" => services.env = file
  BY <1>0 DEF ChecksTheFile
<1> USE DEF Unsettled, Places
<1>8. CASE Export(p) \/ ExportFails(p)
  <2>1. /\ apply[p].pc = "claimed" /\ file' = file
        /\ \E pc \in {"exported", "failing"} : Goto(p, pc)
    BY <1>8 DEF Export, ExportFails
  <2> QED BY <1>0, <1>2, <1>3, <1>4, <1>5, <2>1
<1>9. CASE Refused(p)
  <2>1. /\ apply[p].pc \in {"claimed", "exported", "backed"} /\ file' = file
        /\ \/ Goto(p, "failing")
           \/ apply[p].pc = "backed" /\ Goto(p, "restoring")
    BY <1>9 DEF Refused
  <2> QED BY <1>0, <1>2, <1>3, <1>4, <1>5, <1>6, <2>1
<1>10. CASE Backup(p)
  <2>1. apply[p].pc = "exported" /\ file' = file
    BY <1>10 DEF Backup
  <2>2. apply'[p].pc = "backed" /\ apply'[p].backup = file
    BY <1>0, <1>10 DEF Backup, Jobs
  <2> QED BY <1>0, <1>2, <1>3, <1>4, <2>1, <2>2
<1>11. CASE Replace(p)
  <2>1. apply[p].pc = "backed" /\ Goto(p, "replaced")
    BY <1>11 DEF Replace
  <2> QED BY <1>2, <1>4, <1>5, <1>6, <2>1
<1>12. CASE Up(p)
  <2>1. apply[p].pc = "replaced" /\ Goto(p, "checking") /\ services'.env = file /\ file' = file
    BY <1>12 DEF Up
  <2> QED BY <1>2, <1>4, <1>5, <1>6, <2>1
<1>13. CASE UpFails(p) \/ Unhealthy(p)
  <2>1. apply[p].pc \in {"replaced", "checking"} /\ Goto(p, "restoring")
    BY <1>13 DEF UpFails, Unhealthy
  <2> QED BY <1>2, <1>4, <1>5, <1>6, <2>1
<1>14. CASE Healthy(p)
  <2>1. /\ apply[p].pc = "checking" /\ Goto(p, "succeeded")
        /\ file' = file /\ services.env \in proven'
    BY <1>14 DEF Healthy
  <2> QED BY <1>4, <1>5, <1>7, <2>1
<1>15. CASE Restore(p)
  <2>1. apply[p].pc = "restoring" /\ Goto(p, "restored") /\ file' = apply[p].backup
    BY <1>15 DEF Restore
  <2> QED BY <1>2, <1>4, <1>5, <1>6, <2>1
<1>16. CASE RestoreFails(p)
  BY <1>16 DEF RestoreFails
<1>17. CASE UpAgain(p)
  <2>1. apply[p].pc = "restored" /\ Goto(p, "failing") /\ file' = file
    BY <1>17 DEF UpAgain
  <2> QED BY <1>0, <1>2, <1>3, <1>4, <1>5, <2>1
<1> QED BY <1>8, <1>9, <1>10, <1>11, <1>12, <1>13, <1>14, <1>15, <1>16, <1>17 DEF Work

LEMMA RollbackStep ==
  ASSUME TypeOK, ApplyInv, RollbackInv, [Next]_vars
  PROVE  RollbackInv'
<1> SUFFICES ASSUME ~cut', ~overlapped' PROVE RollbackInv'
  BY DEF RollbackInv
<1>0. apply \in [Appliers -> Jobs] /\ Alone
  BY JobsType DEF ApplyInv
<1>1. ASSUME UNCHANGED <<file, apply, proven, cut, overlapped>>, services'.env = services.env
      PROVE  RollbackInv'
  BY <1>1 DEF RollbackInv, BackupsProven, ChecksTheFile, FileProven
<1>2. ASSUME NEW p \in Appliers, NEW job \in Jobs,
             job.pc \notin Unsettled \cup {"backed"}, apply[p].pc \notin Unsettled,
             apply' = [apply EXCEPT ![p] = job],
             UNCHANGED <<file, services, proven, cut>>, ~overlapped
      PROVE  RollbackInv'
  <2>1. /\ \A q \in Appliers : apply'[q] = IF q = p THEN job ELSE apply[q]
        /\ BackupsProven /\ ChecksTheFile /\ FileProven
    BY <1>0, <1>2 DEF RollbackInv
  <2>2. BackupsProven' /\ ChecksTheFile' /\ FileProven'
    BY <1>2, <2>1 DEF BackupsProven, ChecksTheFile, FileProven, Unsettled
  <2> QED BY <2>2 DEF RollbackInv
<1>3. ASSUME NEW d \in Drafts, Stage(d) PROVE RollbackInv'
  BY <1>1, <1>3 DEF Stage
<1>4. ASSUME NEW s \in stages, Request(s) PROVE RollbackInv'
  BY <1>1, <1>4 DEF Request
<1>5. ASSUME NEW s \in stages, StartByHand(s) PROVE RollbackInv'
  <2> DEFINE job == [pc |-> "exported", id |-> 0, stage |-> s, backup |-> file]
  <2>1. /\ apply["hand"].pc = "idle" /\ apply' = [apply EXCEPT !["hand"] = job]
        /\ overlapped' = (overlapped \/ Busy("agent")) /\ UNCHANGED <<file, services, proven, cut>>
    BY <1>5 DEF StartByHand, Busy
  <2>2. job \in Jobs
    BY DEF Jobs, Places, TypeOK
  <2> QED BY <1>2, <2>1, <2>2 DEF Unsettled, Appliers
<1>6. CASE Claim
  <2> DEFINE job == [pc |-> "claimed", id |-> pending.id, stage |-> pending.stage, backup |-> file]
  <2>1. /\ apply["agent"].pc = "idle" /\ apply' = [apply EXCEPT !["agent"] = job]
        /\ overlapped' = (overlapped \/ Busy("hand")) /\ UNCHANGED <<file, services, proven, cut>>
    BY <1>6 DEF Claim, Claimable, Busy
  <2>2. job \in Jobs
    <3>1. pending \in Requests /\ file \in Files
      BY <1>6 DEF Claim, Claimable, TypeOK
    <3> QED BY <3>1 DEF Jobs, Places, Requests
  <2> QED BY <1>2, <2>1, <2>2 DEF Unsettled, Appliers
<1>7. CASE ClaimLost \/ ClaimKilled
  BY <1>7 DEF ClaimLost, ClaimKilled
<1>8. ASSUME NEW p \in Appliers, Work(p) PROVE RollbackInv'
  <2>1. overlapped' = overlapped /\ (cut => cut')
    <3>1. cut' = TRUE \/ cut' = cut
      BY <1>8 DEF Work, Export, ExportFails, Refused, Backup, Replace, Up, UpFails, Healthy,
                  Unhealthy, Restore, RestoreFails, UpAgain
    <3> QED BY <1>8, <3>1, WorkKeeps
  <2> QED BY <1>0, <1>8, <2>1, WorkRollsBack
<1>9. ASSUME NEW p \in Appliers, Die(p) PROVE RollbackInv'
  BY <1>9 DEF Die
<1>10. CASE Unreported \/ ReportKilled
  BY <1>10 DEF Unreported, ReportKilled
<1>11. CASE Report \/ EndByHand
  <2>1. PICK p \in Appliers : /\ Reporting(p) /\ apply' = [apply EXCEPT ![p] = Idle]
                              /\ UNCHANGED <<file, services, proven, cut, overlapped>>
    BY <1>11 DEF Report, EndByHand, Appliers
  <2>2. apply[p].pc \notin Unsettled /\ Idle.pc \notin Unsettled \cup {"backed"}
    BY <2>1 DEF Reporting, Idle, Unsettled
  <2> QED BY <1>2, <2>1, <2>2, IdleType
<1>12. CASE Fall \/ Return
  <2>1. services'.env = services.env
    BY <1>12, JobsType DEF Fall, Return
  <2> QED BY <1>1, <1>12, <2>1 DEF Fall, Return
<1>13. CASE UNCHANGED vars
  BY <1>1, <1>13 DEF vars
<1> QED
  BY <1>3, <1>4, <1>5, <1>6, <1>7, <1>8, <1>9, <1>10, <1>11, <1>12, <1>13 DEF Next, Ending

(* What is left when nobody works on it proved itself or was rolled back,  *)
(* unless an applier was cut off or two worked at a time.                  *)
THEOREM OnlyProvenRests == Spec => []RestsOnProven
<1>1. Init => ApplyInv /\ RollbackInv
  <2> SUFFICES ASSUME Init PROVE ApplyInv /\ RollbackInv
    OBVIOUS
  <2>1. \A p \in Appliers : apply[p].pc = "idle"
    BY DEF Init, Idle
  <2>2. ApplyInv
    BY <2>1 DEF Init, ApplyInv, Alone, AgentProgress, Busy, Appliers
  <2>3. RollbackInv
    BY <2>1 DEF Init, RollbackInv, BackupsProven, ChecksTheFile, FileProven, Unsettled
  <2> QED BY <2>2, <2>3
<1>2. RollbackInv => RestsOnProven
  BY DEF RollbackInv, FileProven, RestsOnProven, Unsettled, Busy
<1> QED BY <1>1, <1>2, ApplyStep, RollbackStep, ApplyTypes, PTL DEF Spec
-----------------------------------------------------------------------------
(* The newest request is never forgotten: it waits, the agent is at work   *)
(* on it, or its result is in the status, unless a call was cut.           *)
NoRequestForgotten ==
  LET newest == spent.requests IN
  newest > 0 /\ ~cut =>
    \/ pending # None /\ pending.id = newest
    \/ Busy("agent") /\ active # None /\ active.id = newest
    \/ status.id = newest /\ status.state \in {"succeeded", "failed"}

(* Answers: both files of the queue are about the newest request.          *)
NewestOnly ==
  /\ pending # None => pending.id = spent.requests
  /\ active # None => active.id = spent.requests

RequestInv == NewestOnly /\ NoRequestForgotten

LEMMA RequestStep ==
  ASSUME TypeOK, RequestInv, [Next]_vars
  PROVE  RequestInv'
<1> USE DEF RequestInv
<1>0. apply \in [Appliers -> Jobs] /\ spent.requests \in Nat
  BY JobsType
<1>1. ASSUME UNCHANGED <<pending, active, status>>, spent'.requests = spent.requests,
             Busy("agent") => Busy("agent")', cut => cut'
      PROVE  RequestInv'
  BY <1>1 DEF NewestOnly, NoRequestForgotten
<1>2. ASSUME Fault \/ Crash \/ UNCHANGED spent PROVE spent'.requests = spent.requests
  BY <1>2, JobsType DEF Fault, Crash
<1>3. ASSUME NEW d \in Drafts, Stage(d) PROVE RequestInv'
  BY <1>1, <1>2, <1>3 DEF Stage, queue, Busy
<1>4. ASSUME NEW s \in stages, Request(s) PROVE RequestInv'
  <2>1. /\ spent'.requests = spent.requests + 1 /\ active' = None /\ pending' # None
        /\ pending'.id = spent.requests + 1
    <3>1. spent' = [spent EXCEPT !.requests = spent.requests + 1]
      BY <1>4 DEF Request
    <3>2. [id |-> spent.requests + 1, stage |-> s] \in [id : Nat, stage : Texts]
      BY <1>0, <1>4 DEF TypeOK
    <3> QED BY <1>4, <3>1, <3>2, JobsType, NoneAssumption DEF Request, QueueFree
  <2> QED BY <2>1 DEF NewestOnly, NoRequestForgotten
<1>5. ASSUME NEW s \in stages, StartByHand(s) PROVE RequestInv'
  <2>1. spent'.requests = spent.requests
    BY <1>5, JobsType DEF StartByHand
  <2>2. apply'["agent"] = apply["agent"]
    BY <1>0, <1>5 DEF StartByHand, Appliers
  <2> QED BY <1>1, <1>5, <2>1, <2>2 DEF StartByHand, queue, Busy
<1>6. CASE Claim
  <2>1. /\ active' = pending /\ pending' = None /\ pending # None /\ spent' = spent
    BY <1>6 DEF Claim, Claimable
  <2>2. apply'["agent"].pc = "claimed"
    BY <1>0, <1>6 DEF Claim, Appliers
  <2> QED BY <2>1, <2>2 DEF NewestOnly, NoRequestForgotten, Busy
<1>7. CASE ClaimLost \/ ClaimKilled
  <2>1. /\ active' = pending /\ pending' \in {pending, None} /\ cut' = TRUE
        /\ spent'.requests = spent.requests
    BY <1>2, <1>7 DEF ClaimLost, ClaimKilled
  <2> QED BY <2>1 DEF NewestOnly, NoRequestForgotten
<1>8. ASSUME NEW p \in Appliers, Work(p) PROVE RequestInv'
  <2>1. /\ UNCHANGED <<pending, active, status>>
        /\ apply'["agent"].pc = apply["agent"].pc \/ apply'["agent"].pc # "idle"
    BY <1>8, WorkKeeps DEF Appliers
  <2>2. (Fault \/ UNCHANGED spent) /\ (cut' = TRUE \/ cut' = cut)
    BY <1>8 DEF Work, Export, ExportFails, Refused, Backup, Replace, Up, UpFails, Healthy,
                Unhealthy, Restore, RestoreFails, UpAgain
  <2> QED BY <1>1, <1>2, <2>1, <2>2 DEF Busy
<1>9. ASSUME cut' = TRUE, UNCHANGED <<pending, active>>, spent'.requests = spent.requests
      PROVE  RequestInv'
  BY <1>9 DEF NewestOnly, NoRequestForgotten
<1>10. ASSUME NEW p \in Appliers, Die(p) PROVE RequestInv'
  BY <1>2, <1>9, <1>10 DEF Die, queue
<1>11. CASE Unreported \/ ReportKilled
  BY <1>2, <1>9, <1>11 DEF Unreported, ReportKilled, queue
<1>12. CASE Report
  <2>1. /\ active # None /\ active' = None /\ pending' = pending /\ spent' = spent
        /\ status' = [state |-> Outcome("agent"), id |-> active.id]
    BY <1>12 DEF Report
  <2>2. Outcome("agent") \in {"succeeded", "failed"}
    BY DEF Outcome
  <2> QED BY <2>1, <2>2 DEF NewestOnly, NoRequestForgotten
<1>13. CASE EndByHand
  <2>1. apply'["agent"] = apply["agent"]
    BY <1>0, <1>13 DEF EndByHand, Appliers
  <2> QED BY <1>1, <1>13, <2>1 DEF EndByHand, queue, Busy
<1>14. CASE Fall \/ Return
  BY <1>1, <1>2, <1>14 DEF Fall, Return, queue, Busy
<1>15. CASE UNCHANGED vars
  BY <1>1, <1>15 DEF vars, Busy
<1> QED
  BY <1>3, <1>4, <1>5, <1>6, <1>7, <1>8, <1>10, <1>11, <1>12, <1>13, <1>14, <1>15
     DEF Next, Ending

(* The newest request waits, is worked on or is answered, unless a call    *)
(* was cut.                                                                *)
THEOREM RequestsAreRemembered == Spec => []NoRequestForgotten
<1>1. Init => RequestInv
  BY DEF Init, RequestInv, NewestOnly, NoRequestForgotten
<1>2. RequestInv => NoRequestForgotten
  BY DEF RequestInv
<1> QED BY <1>1, <1>2, RequestStep, ApplyTypes, PTL DEF Spec
=============================================================================
