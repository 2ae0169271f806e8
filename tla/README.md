# RNS over Meshtastic: TLA+ models, model checking and proofs

This directory holds TLA+ models of the parts of this repository in which
several threads, lossy radio links and retries meet, the TLC configurations
that check them on small instances, and proofs that TLAPS checks for every
value of the constants.  Names in the models are the names of the source where
TLA+ allows it; `PROJECT.json` maps each definition to the lines it translates.

Contents: [System](#the-system) · [Modules](#the-modules) ·
[Runs](#the-runs) · [Fairness](#fairness-and-environment) ·
[Proofs](#the-proofs) · [Disagreements](#where-code-and-documentation-disagree) ·
[Not modelled](#what-is-not-modelled)

## The system

Reticulum (RNS) frames of up to a few hundred bytes are carried over
Meshtastic radios as packets of port 76.  A frame is cut into fragments, each
fragment is one radio packet, and receivers ask for the fragments they miss.
There are two implementations of the link: a Python Reticulum interface
(`src/rns_meshtastic`) and an Android app (`android/.../bridge`) that serves a
Reticulum stack through a local TCP port.  Beside them stand the tools of a
Linux gateway (settings, apply queue, LXMD control, console).

```
 Reticulum --- interface.py --- framing.py          Reticulum client (TCP)
               tx queue+worker   (fragments, REQ)        |
                   |                                ReticulumTcpServer + spool
        native.py / mqtt.py                              |
        (PhoneAPI session)                          BridgeEngine -- FragmentProtocol
                   |                                     |    \--- RnsPeerRouter
               radio firmware  ~~~ radio ~~~        TransmitScheduler -- AckTracker
                                                         |
                                         TCP / BLE PhoneAPI transport -- DeviceQueueFlowControl
```

### Inventory

| Component | State it keeps | Operations | What is hard | What makes it correct |
|---|---|---|---|---|
| Fragment protocol, `framing.py` | next index (one byte), assemblies per (source, index), transmit cache, two tables of completed frames, rolling window of repair requests | `encode`, `receive`, `poll_repairs`, each under one lock | loss, duplication, late copies, reuse of the index, two triggers of a repair | a frame goes up once and as it was sent; requests keep backoff and budget; a repairable frame is repaired |
| Reticulum interface, `interface.py` | priority queue of fragments, gate of the worker, peer interfaces, frames buffered before `final_init` | `process_outgoing`, packet and state callbacks, worker loop | three threads call in; a failed send returns to the queue; room is tested before it is used | no fragment of a frame queued without the others; peers follow the parent |
| Native backend, `transports/native.py` | current session, `_online`, wake-up event | `start`, reconnect loop, `send`, connection-lost event, `close` | late and early events of replaced sessions; callbacks outside the lock | a lost session is replaced; everyone agrees at rest |
| MQTT backend, `transports/mqtt.py` | connection state, window of seen packet ids | publish, receive, reconnect | duplicates of broker and of other gateways | the window drops copies and nothing else |
| Android fragment protocol, `FragmentProtocol.java` | as `framing.py` | as `framing.py` | wall clock; deferred control | as `framing.py` |
| Transmit scheduler, `TransmitScheduler.java` | four queues, counters of frames, fragments, control and serialized frames, three fairness counters | `enqueue`, `enqueueSerialized`, worker loop, `close` | blocked producers, send outside the lock, retries, starvation | exact counters, reserve for repair, FIFO per class, no starvation |
| Bridge engine, `BridgeEngine.java` | the components it wires | frames from TCP, packets from radio, repair poll | capacity asked before and used after `receive` | a deferred repair costs no attempt |
| Local TCP server and spool, `ReticulumTcpServer.java`, `InboundFrameSpool.java` | current client, frames kept for it with expiry | accept, deliver, replay | replacement of the client during a write or a replay; expiry during replay | frames are replayed once and in order |
| Device queue flow control, `DeviceQueueFlowControl.java` | credits of the radio's queue | acquire, status, reset | a failed send returns a credit after a reset | never more in flight than the radio's queue holds |
| TCP and BLE PhoneAPI transports | connection, reader and writer state | connect, send, read, reconnect | one GATT operation at a time, timeouts against late callbacks | operations do not overlap |
| Acknowledgement tracking, `AckTracker.java`, `AdaptiveAckPolicy.java` | outstanding packets, suppression window | sent, acknowledged, expire | an answer before `sent()` registered the packet | sent = acknowledged + failed + expired + outstanding |
| Multi-peer router, `RnsPeerRouter.java` | learned routes with expiry | observe, route | eviction and expiry are separate | no route to a peer that expired |
| Gateway configuration, `gateway_config.py`, `service_profile.py` | staged and live environment, backup | validate, stage, render, apply, health check, rollback | rules of two validators and of the interface must agree; rollback that fails | what is staged applies; the radio stays private |
| Gateway apply queue and agent, `gateway_apply_queue.py`, `scripts/gateway-apply-agent` | request, active and result files | submit, claim, complete | crashes between two file operations; an operator's call beside the agent | one request at a time, none lost silently, no false success |
| Gateway console, `gateway_console.py` | what the last status request saw; HTTP | status, stage, apply, events | requests on many threads compare files of different age | no event invented or repeated |
| Event journal, `event_journal.py` | journal with increasing ids | append, read from cursor | several processes, stamps taken before the lock, clock steps | no reader misses an event |
| LXMD control, `lxmd_control.py` | cooldown file | manual announce | crash before the cooldown is written | announces keep their distance |
| CLI, traffic report, settings schema, Android shell, codecs, deployment | views, settings, byte buffers | | little state of their own | |

Interactions: Reticulum threads, the meshtastic publisher thread, the
reconnect thread and the transmit worker call into `interface.py` and
`native.py`; the connectivity callback runs *outside* the backend's lock
(except when `send` itself finds the session lost) and writes the interface,
its peers and the worker's gate in three separate steps.  On Android the TCP
reader blocks in the scheduler until there is room; radio callbacks and the
repair poll enqueue control fragments without waiting; the scheduler's worker
sends outside its lock.  The list `hazards` in `PROJECT.json` names, line by
line, what can go wrong at these meetings and the property that watches it.

## The modules

| Module | What it is |
|---|---|
| `FragmentProtocol` | one protocol object of `framing.py` as operators from an object, arguments and a clock to a result |
| `FragmentLink` | nodes with such objects, the calls of `interface.py`, and a radio that loses, duplicates, reorders and delays; the properties of the protocol |
| `GatewayInterface` | the threads of `interface.py` around the transmit queue, the peers, `final_init` and `detach` |
| `PhoneApiSession` | the session of `native.py` with its three threads, the connectivity callback of `interface.py`, and the gate and retry of the worker |
| `MqttBackend` | `transports/mqtt.py`: a sender, the broker, and the receiver with its table of packets seen |
| `TransmitScheduler` | `TransmitScheduler.java`, producers and worker, one action per critical section |
| `TransmitLanes` | the abstract specification the scheduler implements: a FIFO lane per class |
| `LocalServer` | `ReticulumTcpServer.java` and `InboundFrameSpool.java`: the radio thread, the accept thread and the readers of the clients |
| `GatewayConfig` | the rules of `gateway_config.py`, `service_profile.py` and `interface.py` for one environment |
| `GatewayApply` | staging, the apply queue, the agent, `apply_staged_environment` beside it, and the containers |
| `EventJournal` | `event_journal.py` as operators on a journal |
| `GatewayConsole` | the observers of `gateway_console.py`, the announces of `lxmd_control.py`, and a browser, around one journal |
| `MCFragmentLink`, `MCTransmitScheduler`, `MCGatewayApply`, `MCGatewayConsole` | values of the constants for TLC |
| `FragmentLinkProofs`, `GatewayInterfaceProofs`, `PhoneApiSessionProofs`, `MqttBackendProofs`, `TransmitSchedulerProofs`, `LocalServerProofs`, `GatewayApplyProofs`, `GatewayConsoleProofs` | theorems and proofs about the module they are named after |

The interface is modelled three times, each time around another neighbour:
`FragmentLink` has its protocol and abstracts its queue, `GatewayInterface` has
its queue and abstracts protocol and backend, `PhoneApiSession` has the backend
and counts fragments.  What one abstracts is a free choice in it (a queue that
has room or not, an answer or none, a send that succeeds or fails), so it
allows at least what the other does.

### FragmentProtocol and FragmentLink

`FragmentProtocol` composes as a value, not as a state machine: every public
method of the Python class holds one lock from beginning to end, so a method
is an operator.  `Encode`, `Receive` and `PollRepairs` are the three methods;
`HandleFragment`, `HandleRequest`, `RequestRepair`, `Cleanup`, `Complete` are
the private methods they call.  The ordered dictionaries are sequences (their
order decides which assembly is repaired first) or functions (the tables of
completed frames, where it does not matter: entries are ordered by time and a
monotonic clock).  Abstractions: a chunk of bytes is an opaque value; the
8-byte digest of a frame is the frame; a handler that reads the clock several
times reads it once; telemetry is left out.  `REQUEST` payloads carry position
0 for "the final one", as in the code.  What fragments carry comes from the
constant `Chunks`, so the type of a table of fragments can be stated.

`FragmentLink` gives each node an object.  `Send` is a frame of Reticulum
(`encode`), `Deliver` a packet from the radio, `Poll` the worker's periodic
`poll_repairs`, `Restart` a process that starts with index 0.  `Deliver` and
`Poll` see any value of `allow_control`, which in the code is
"the transmit queue has room": the queue itself is abstracted to that choice.
A fragment enters the radio in the step that queues it; waiting in the queue
is part of the radio's delay.  `sent`, `delivered` and `asked` are histories
that only properties read.

* `MixedOnlyByReuse`: a frame that goes up was sent under that index by that
  source, or the source used the index for two frames within `2 * StateTtl +
  Latency`.  The index has one byte and restarts at 0, so reuse can mix two
  frames of equal length; the property says nothing else can.
* `DeliveredOncePerTtl`: late copies never hand a (source, index) up twice
  within `StateTtl`.
* `CompletionDelivers`: of the two tables of completed frames the one by index
  always covers the one by digest, so the digest test silently drops nothing.
* `RepairBudgetRespected`, `RepairBackoff`: the rolling budget of requests,
  and per missing position the number of attempts and their doubling distance,
  whether a fragment or the poll triggered them.
* `RepairedInTime`: with a prompt worker and a bounded number of lost packets,
  an assembly that exists is either still before a computed deadline or its
  frame was delivered: none is late, and none is given up.  It replaces a
  liveness property: the protocol's promise is about a clock, so it is stated
  with one.

### GatewayInterface

Four kinds of threads meet in `interface.py`: those of Reticulum that offer a
frame to a peer (`OfferFrame`, `PutFragment`: the check for the whole frame,
then one `put` per fragment, under `_queue_admission_lock`), the worker
(`TakeControl`, `TakeData`, `TakeNothing`, `SendSucceeds`, `SendFails`,
`ReturnItem`, `PollRepairs`, `PutRepair`, `StopWorker`), the callback thread of
the backend (`Arrive`, `KeepEarly`, `PutAnswer`, `DeliverFrame`) and the main
thread (`SetFinalized`, `SwapEarly`, `Drain`, `Detach`, `DetachPeers`).  A step
ends where another thread may act: between the check of the room and each put,
between the test of `_finalized` and the append, between taking a fragment and
sending it.  `_put_tx` (repairs and retries) does not take the admission lock,
and the model lets it in anywhere.  Repair transmissions are alike and only
counted; data fragments keep their identity and whether they were retried.
What a packet makes the protocol do is one of two kinds: it asks for, or
answers with, one transmission if the queue has room, or it completes a frame,
which may create a peer.

* `TruncatedOnlyByRace`: only another thread's put between check and last
  fragment can leave a frame queued in part.
* `InOnePlace`: a fragment that was put is queued, held, or over, once.
* `LateOnlyByRetry`: fragments leave in the order of admission; only one whose
  own send failed falls behind.
* `OneStrandedAtMost`: `final_init` loses sight of at most one early packet.
* `NoPeerOutlivesDetach`: with MQTT, whose `close()` joins the callback thread,
  no peer interface is left after `detach`; with the native backend one at most.
* `DataServed`: a queued fragment is sent or dropped whatever fails, if repair
  traffic, which always goes first, pauses now and then.

### PhoneApiSession

Sessions are numbered as they are opened.  Each of the three threads has a
program counter whose steps are the parts of the code between two points
where another thread can act: the locked part of `_mark_offline`, the three
assignments of the connectivity callback (`online`, the peers, the gate of the
worker), the wake-up, and the stages of `_reconnect_loop` (`Woken`, `Check`,
`Open`, `Install`, `NotifyConnected`, `OpenFails`, `Backoff`).  `LockFree`
holds the lock of the backend while `send` reports its own loss.  Fragments
are counted, not told apart.  `faults.fragile` is a history: a session was
lost before it was announced.

* `QuietAgreement`: when no callback runs, backend, interface, peers and gate
  agree, unless a session was lost before it was announced.
* `ReplacementPending`: without a session some thread is on its way to open
  one.
* `OnlyOwnLoss`: only its own loss takes a session out of service.
* `QueuedFramesSent`, `FalselyUpEnds`: the two promises of `README.md:157-161`,
  violated in general; `QueuedSentIfAnnounced` and `FalselyUpEndsIfAnnounced`
  say that they hold if sessions are only lost once announced.

### MqttBackend

`CheckConnected` and `Publish` are the two halves of `send` (the test of
`_connected` is outside the lock), `Connect` and `LoseConnection` what the
network does, `OnConnect` and `OnDisconnect` the callbacks that follow later,
`Close` and `StartAgain` the end of a process and the next one, which begins
with an arbitrary packet id.  paho keeps a message published without a
connection and sends it later, although `send` reported failure and the worker
repeats it.  `OnMessage` delivers any packet the broker has, as often as it
likes: a broker's repetition and the copy another gateway uplinked are the
same packet.

* `TwiceOnlyByRetry`: a fragment comes twice within the window only if a send
  that paho had taken was called failed and repeated.
* `OnlyCopiesDropped`: what the table drops was given within the window, also
  when ids wrap or begin again.

### TransmitScheduler and TransmitLanes

One action is one critical section of `lock`.  `Enqueue`, `Block`, `Resume`
and `GiveUp` are the paths through `enqueue` and `enqueueSerialized` (admitted
at once, waiting, admitted or rejected after waiting).  The worker's loop is
`Take` (choose a class and remove the head), `StartSend` (pacing is over; the
send runs outside the lock), then `SendMore`, `SendLast`, `Retry` or
`Abandon`.  `AnnounceTimer` is the time of the next announce passing.  `Close`
does not wait for the worker, as in the code, so an in-flight batch survives
it.  `consecutiveControlSends` and `consecutiveNonAnnounceFrames` are counted
up to the value they are compared with.  Left out: byte limits (they repeat
the fragment limits in another unit), pacing delays, telemetry; therefore a
rejected call changes nothing.  A batch is an identifier that is free again
when the frame left.

* `Accounting`: the counters of the open scheduler are exact.
* `ReserveHonoured`: control traffic finds the reserve free of data, also
  beside a serialized frame.
* `SerializedAlone`: a frame beyond the normal limits is the only data frame.
* `FifoLanes`: the scheduler implements `TransmitLanes` under the mapping
  *lane = batch in flight followed by the queue of its class*, although the
  worker takes a batch out of the queue and puts it back.
* `ClassesServed`: an admitted control, normal or announce frame leaves; only
  frames of high priority may pass normal ones for ever.
* `BackpressureReleases`: a waiting producer is released once only normal
  frames are left.

### LocalServer

`SendDirect` and `SendSpooled` are `sendFrame` as the radio thread calls it;
`Accept`, `Replace`, `Peek`, `Replay`, `ReplayFails`, `Remove`, `Check`,
`Announce` and `StartReader` are the steps of the accept thread, which holds
`writeLock` from `Replace` to the end of the replay (`LockFree`) and reports
the connection after it released the lock.  `ReaderEnds` is the `finally` of a
reader thread, `Leave` a client that closes its end, `Close` the shutdown,
`Look` a snapshot taken for telemetry, which expires frames like every call on
the spool.  A write to a client that left may succeed (the kernel buffers it)
or fail.  Frames are numbered as they arrive; their content decides what is a
duplicate.  Left out: the limit in bytes, which refuses frames like the limit
in frames, counters, and the frames from the client to the radio, which change
no state here.  A write ends, in success or failure: a client that stays
connected and never reads would block the holder of `writeLock` for good.

* `Fifo`: frames are written in the order of their arrival and once, although
  two threads write them, one directly and one from the spool.
* `LostOnlyBehindExpired`: a frame leaves the spool written or expired, with
  one exception: when a replayed frame expires while it is written, its removal
  takes the next frame with it (`InboundFrameSpool.java:107`).  The clock is
  the wall clock: it goes on, or is set back, at any step, also during a
  replay, and a client may take any time.  `NothingLost`, without the
  exception, is what the code breaks (`local_server_expiry`).
* `ConnectedIsReported`: a client that is served was reported as connected,
  however late its predecessors end.
* `SpoolDrains`, `LeaversNoticed`: a client that stays gets the whole spool,
  and one that left is noticed.

### GatewayConfig and GatewayApply

An environment is a record of the settings that depend on each other; settings
with a rule of their own only are one flag, `wellFormed`.  `Valid` is
`validate_gateway_environment`, `Normalised` the environment it returns (a
named policy fixes the pacing), `Renders` and `Rendered` are
`configuration_values`, and `InterfaceAccepts` is `_validate_mode` of the
interface that reads the result.  Three pieces of code check overlapping
rules, written at different times; `StagesApply` says they agree.

A stage is not an environment but a text, and what is applied is what the text
reads as.  `render_env` writes a line per setting and refuses CR, LF and NUL;
`parse_env_file` splits with `str.splitlines()`, which also ends a line at VT,
FF, FS, GS, RS, U+0085, U+2028 and U+2029.  A draft is therefore a record of
its settings, of what stray lines in its values make of them when they are
read (`stray`), and of whether one of them is no assignment (`torn`).
`Written` is the staged text, `Parsed` what it reads as, and `Exports` and
`Exported` what `gateway-export` makes of it; agent and operator apply
`Exported`.  Docker Compose reads the live file with a parser of its own, which
is external: the file written by `gateway-export` holds single lines as Python
splits them, and is taken to be read as written.

In `GatewayApply` the console stages and requests, the agent goes through
`apply_request` (`Claim`, `Export`, `Backup`, `Replace`, `Up`, `Healthy` or
`Unhealthy`, `Restore`, `UpAgain`, `Report`), and an operator may run
`gateway-apply` at the same time (`StartByHand`, the same steps, `EndByHand`):
that command takes no lock of the queue.  Operations under the queue's lock are
one step, except that the process may be killed between the two files it
writes (`ClaimKilled`, `ReportKilled`).  Renames are atomic; `cp` is not, so a
failed or killed restore may leave a file half written.  Any command may fail
(`Refused`, `UpFails`, `RestoreFails`, `Unreported`, `ClaimLost`), any applier
die (`Die`), the containers fall and return (`Fall`, `Return`), and with them
the console through which the agent claims and reports.

* `OneRequest`: a request is queued beside a running one only as the trace of
  its own claim, cut in the middle.
* `SuccessIsReal`: a result "succeeded" is only written when the requested
  environment is in the file, the services run with it and were healthy,
  unless somebody applied another by hand meanwhile.
* `StagesApply`: a stage of single lines is valid again and exports as it was
  staged, and whatever a stage exports, stray lines included, the interface
  accepts.  That every stage exports as it was staged (`StagesReadBack`) is
  what the code breaks (`GatewayApplyText.cfg`).
* `RadioStaysPrivate`: whatever the text of a stage reads as, what it exports
  never leaves the radio as `gateway` beside a path to the public network.
* `RolledBackUnlessCut`: an environment that never proved healthy does not
  stay, unless an applier died, its copy of the backup failed, or two appliers
  took each other's file for a backup.
* `Answered`: every request is answered, unless the agent died on it or its
  call was lost.

The exceptions are part of the statements because the code has no recovery for
them: a claim whose call dies leaves `active.json` behind until a person
removes it.  Two of them contradict the documentation and have a configuration
of their own: `RolledBack` (nobody dies, and the copy of the backup fails,
`GatewayApplyCopy.cfg`) and `RolledBackBeside` (two appliers beside each other,
`GatewayApplyBeside.cfg`).

### EventJournal and GatewayConsole

`Appended`, `Selected` and `Cursor` are `append` and `read`; `AppendedAll` is a
run of events and `Taken` the keys of a run of announces, which the status
request works through in order.  An event is
stamped before the journal is locked and a clock may step back, so a stamp is
any of `Stamps`.  In `GatewayConsole` the radio interface replaces its
telemetry file (`BackendDown`, `Announce`, `Restart`); a status request reads
it (`Read`), or finds it missing or unreadable and takes it for `{}`
(`ReadFails`, after `_load_json`), and compares it under the lock with what the
last one saw (`ObserveCounters`, `ObserveAnnounces`), so a request may compare
a file that is older than one already compared, or none: every counter is then
0, and 0 is stored as the previous value.  `ConsoleRestarts` forgets everything
seen.  lxmd announces, saves the time and appends an event in three steps
(`ManualAnnounce`, `SaveManual`, `LogManual`) and may die in between; a saved
time that cannot be read allows the announce.  `Tick` is passing time.  Of the
counters, the one of disconnects stands for all; upstreams and LAN clients are
compared in the same way.

* `NoDisconnectInvented`: from the file a count goes on from to the file
  compared last, no more disconnects are reported than happened between the
  two.  The count goes on from the first file of a running console and, since
  the code takes a counter that went back for a restart, from every file that
  is older than its predecessor; a failed read is the oldest file of all.  An
  older file of an rnsd that was restarted since may be reported whole, but no
  more than that rnsd counted (`Origin`).
* `HistoryRaisesNoAlert`: a report is about a disconnect that no comparison saw
  before.  The code breaks it in two ways, after a failed read
  (`ConsoleFailedRead.cfg`) and when one request overtakes another
  (`ConsoleOvertaken.cfg`).
* `AnnouncedOnce`: a running console journals an announce once, except where an
  older file was compared after a newer one.  A failed read lists no announce
  and forgets none.
* `ReaderMissesNothing`: a browser that goes on from its cursor gets every
  event still in the file.
* `CooldownKept`: manual announces keep their distance across restarts, unless
  lxmd died between an announce and its saving or could not read the saved
  time; `RestartKeepsCooldown`, without the first exception, is what the code
  breaks (`ConsoleCooldown.cfg`).

## The runs

| Run | Question | Instance and bounds |
|---|---|---|
| `fragment_reuse` | What can mix two frames, and is the request budget kept? | 2 nodes, 2 frames of equal length, 2 indices, TTL 1, restart of the sender, 2 sends, 1 loss, clock to 5: beyond `ReuseDistance` (3), so both near and far reuse occur; budget 2 in a window of 2, a queue that may be full |
| `fragment_repair` | Is every started frame repaired, once, and with backoff? | broadcast of 2 fragments to 2 receivers, 2 losses anywhere (fragments, requests, answers), 1 duplicate, 3 attempts, TTL 8, clock to 12: past the deadline of 8, and past the lifetime of what was received first |
| `gateway_interface` | What do the races of the queue, `final_init` and `detach` do? | 2 frames of 2 fragments into a queue of 2, 2 early packets, 1 peer; failing sends without bound, repair traffic without bound |
| `session_races` | Do all copies of the state agree again, are frames sent? | 2 losses at any moment, 1 failing send, 2 failing attempts, queue of 2 |
| `session_lost_early` | Are queued frames sent in every case? | 1 loss, 1 failed attempt; *violated* |
| `session_falsely_up` | Does a falsely Up interface always end? | 1 loss, no traffic; *violated* |
| `mqtt_backend` | What does the window drop, what does it let through twice? | 2 fragments, 2 ids (so they wrap and collide), 3 sends, 3 arrivals, window of 1, one new start |
| `scheduler` | Are counters, reserve, serialization and order kept, and is every class served? | 3 batches; limits of 3 frames and 3 fragments, one of each reserved; a normal frame of 3 fragments, which only fits serialized, and endless control, high and announce traffic; 2 failures; close at any time |
| `local_server` | Are frames delivered in order, what is lost, and are connections reported? | 2 clients, one of which replaces the other or follows it; 4 frames of 3 contents into a spool of 2, so frames are refused as duplicates and for room; lifetime 1, clock up to 2 and back at any step, so frames expire, also while they are replayed; close at any time |
| `local_server_expiry` | Is a frame lost when time passes during its replay? | the same with 3 frames of 2 contents and a clock up to 3; *violated* |
| `gateway_apply` | Does apply do what it reports, and answer? | 5 drafts around a valid environment (stale expert pacing with discovery, a client without its gateway, one IFAC for two networks; fast custom pacing with a stray line that turns discovery on, an upstream with a stray line that is no assignment), 2 stages, 2 requests, 1 call by hand, 2 faults, 1 crash |
| `gateway_console` | Do concurrent status requests tell the truth? | 2 requests (alike: symmetry), 4 changes of the telemetry, failed reads, announces or restarts, a journal of 2 events, 2 recent announces and 2 remembered, 2 stamps, so ids collide and clocks step back |

The runs above are those of `PROJECT.json`.  Six more configurations each give
TLC one property that the code breaks, stated beside the property that names
the exception, and TLC prints the trace
(`tlc -config <configuration> <module>`):

| Configuration | Module | Property | Instance |
|---|---|---|---|
| `GatewayApplyText.cfg` | `MCGatewayApply` | `StagesReadBack` | the drafts of `gateway_apply`, no crash |
| `GatewayApplyBeside.cfg` | `MCGatewayApply` | `RolledBackBeside` | drafts of single lines, 1 request beside 1 call by hand, 1 fault, no crash |
| `GatewayApplyCopy.cfg` | `MCGatewayApply` | `RolledBack` | drafts of single lines, requests only, 2 faults, no crash |
| `ConsoleFailedRead.cfg` | `GatewayConsole` | `HistoryRaisesNoAlert` | 1 status request at a time, 3 changes |
| `ConsoleOvertaken.cfg` | `GatewayConsole` | `HistoryRaisesNoAlert` | 2 status requests, 3 changes, every read succeeds |
| `ConsoleCooldown.cfg` | `GatewayConsole` | `RestartKeepsCooldown` | 3 changes, every read succeeds |

Why the bounds are enough to show something: in every run each action fires
and each counter reaches the limit at which the code takes another branch
(queue full, budget spent, attempts spent, table expired, index wrapped,
reserve used).  For each property `PROJECT.json` names a mutant of the code
(operators marked `mutant` beside the original) for which TLC finds a
violation under the same bounds.  Constants such as 127 positions, 256 indices
or 512 cached frames are constants of the modules; the runs give small values
where the limit is of interest and keep the real one where it is not.

All configurations but those of `MqttBackend` and `GatewayConsole` say `CHECK_DEADLOCK FALSE`: the
fragment link ends at the bound of its clock, a closed scheduler or a detached
interface has nothing left to do, an applied gateway and a connected session
are at rest.

## Fairness and environment

* `FragmentLink` has none.  Promptness is a guard: with `PromptWorker` the
  clock waits for due repairs (the worker polls every half second, an
  interval far below the cooldown of 5 s), and packets arrive or are lost
  within `Latency`.
* `GatewayInterface`: weak fairness of every thread.  `TakeData` is strongly
  fair because repair traffic disables it while it lasts, and `DataServed` is
  conditional on that traffic pausing at the moment the worker looks
  (`RepairTrafficPauses`): the code gives repairs absolute priority.  That a
  send tried again and again succeeds at last is an assumption on the radio.
* `PhoneApiSession`: weak fairness of the three threads.  Losses and failed
  attempts are bounded, which is the assumption that the radio is reachable
  again at last.
* `TransmitScheduler`: weak fairness of the worker thread, of each waiting
  producer (`notifyAll` after every change of capacity) and of the announce
  timer.  `RadioRecovers` is an assumption on the radio, not on the code:
  of the fragments of a class that are tried again and again, some are sent.
  It is needed because a radio that refuses for ever has every frame
  abandoned after `MaxFailures`, which also empties the queue, but lets one
  class fail always and another never, and the counters that decide turns
  are only touched by successful sends.
* `LocalServer`: weak fairness of the accept thread, because each of its waits
  inside the replay is a write that ends, and of a reader whose stream ended,
  because its blocking read returns.  Nothing is assumed of clients: they may
  stay for ever or never come.
* `GatewayApply`: weak fairness of the agent's polling, of both appliers (the
  loops that wait for health are bounded, and each command of Docker is taken
  to end) and of `Return`, because the containers are `restart: unless-stopped`.  Faults and
  crashes are bounded.
* `MqttBackend` and `GatewayConsole`: safety only.

## The proofs

Every theorem holds for every value of the constants that satisfies the named
assumptions of the modules, and every invariant and action property that the
passing runs check is the statement of one of them, with one exception
(`RepairedInTime`, see the end).  Each statement was checked by TLC before it
was proved.

Induction over data is not available (the induction theorems of the library
take an operator as parameter), so facts about filters, searches and folds are
stated by positions, without recursion:

* a filtered sequence keeps the elements of a set of positions, in order, and
  the position of each is the number of kept positions up to it (`Selection`,
  `Rank`); a search finds the least position that qualifies;
* where an induction is needed it runs over a set of naturals: a non-empty set
  has a least element (`WFMin` of the library), so a set that contains 0 and
  with each element the next contains all (`Induct`);
* a recursive function (`AppendedAll`, `Taken`) is a `CHOOSE` of a function
  that satisfies its equation; that one exists is proved with `Induct`.

### FragmentLinkProofs

* `CompletedFramesAreIndexed` (`CompletionDelivers`), `DeliveredOnce`
  (`DeliveredOncePerTtl`).  What an assembly holds plays no part: the argument
  is about the two tables.  `Quiet` and `HandsUp` say what a call can do to
  them, `EncodeIsQuiet`, `PollIsQuiet` and `ReceiveResult` that the three
  methods do just that.  The inductive invariant is that neither table is from
  the future, that the index table covers the frame table (`ObjectInv`: expiry
  uses one cutoff for both), and that a delivery younger than `StateTtl` is
  still in the index table, no older than it was (`Remembered`).  A frame can
  then only be handed up when its index was forgotten, that is, when every
  earlier delivery is too old.
* `RequestsWithinBudget` (`RepairBudgetRespected`).  Every call asks for
  nothing or for one position (`IsCall`).  `BudgetInv` relates the history of
  requests to the times the object keeps: those within the window are the times
  kept (`Counted`), and any `RepairBudget + 1` consecutive requests span at
  least the window (`Spaced`), which is what the rolling budget means.
* `RequestsBackOff` (`RepairBackoff`).  `BackoffInv` says that the attempts an
  assembly counts for a position are the requests made on its behalf
  (`Counts`), that requests that are still live have their assembly
  (`LiveHasAssembly`), and that each is as late as its number demands
  (`Backoff`).  Live means that the assembly was not given up since: a new
  assembly of the same index counts from the beginning.
* `FramesAreNotMixed` (`MixedOnlyByReuse`).  `LinkInv` follows a fragment
  everywhere it can be: in the radio (`PacketInv`), in an assembly
  (`IsPure`), in the sender's cache for repairs (`CacheIsOf`) and in what was
  handed up (`AreSent`).  All parts of an assembly are of one frame, sent no
  longer ago than lifetime and delay allow, or the source used the index twice
  within the bound (`Reused`); a fragment of another frame that joins an
  assembly is the proof of such a reuse.
* `DueRepairsAreAsked` (`RepairsArePunctual`, stated beside its proof): with a
  prompt worker, a missing position that was due a tick ago and is not asked
  for waits for the budget alone.  `PaceInv` goes through every call: none
  makes a position late that was not (`KeepsPace`: a fragment that changes what
  is missing is progress and starts the wait again, and a request does so for
  its position), and none takes back that the window was spent
  (`CallKeepsSpent`).  When time passes, a poll had nothing to ask; if anything
  is late, `LateIsPolled` says the poll selected it and `SpentInWindow` that
  the budget was used up by requests of the window.

### GatewayInterfaceProofs

* `InterfaceTypes`: in particular the limits of the queue and of the peers.
* `TruncationsAreRaces`: strengthened by `AdmissionInv`: a frame that is being
  put and not raced still finds the room its check found.
* `OnePacketIsStranded`, `LittleIsLeftBehind`: one callback thread, so at most
  one packet is between the test and the append when the list is taken
  (`StrandInv`), and at most one peer is created after `detach` emptied the
  table (`LeftInv`).
* `FragmentsStayInPlace` (`InOnePlace`): `PlacesInv` keeps what is queued, held
  and over apart, and bounds all of it by what was put.
* `OnlyRetriesFallBehind` (`LateOnlyByRetry`): the order part of the same
  invariant (`InOrder`): what waits is ordered by frame and part except for
  fragments that were tried again, and what is over precedes it with the same
  exception.

### PhoneApiSessionProofs

* `TypeCorrect`; the capacity of the queue is the interesting part, since the
  sender puts a fragment back that it took long before.
* `ReplacementIsPending`: inductive given the types.
* `OnlyTheirOwnLoss`: an action property from the guards of `MarkOffline`.
* `QuietlyAgreed`: the invariant says that at most one thread is replacing the
  state at a time (`OneReplacer`) and that each copy equals what has been
  reported so far (`ReportedSoFar`), as long as no session was lost before it
  was announced, which is necessary (`session_lost_early`).
* `FalselyUpIsNoticed`: with the same exception, an interface that is Up on a
  dead session is so only while the report of its loss is still to come
  (`FalselyUpIsTold`, from `LossIsTold`).

### MqttBackendProofs

* `MqttTypes`.
* `CopiesAreDropped` (`OnlyCopiesDropped`).  The table of packets seen is
  ordered by age (`Ordered`), so `Cleaned`, which drops from the front until it
  meets a young entry, drops the old ones and no other; and its young entries
  are what was given within the window (`Windowed`).
* `OnlyRetriesRepeat` (`TwiceOnlyByRetry`).  Packet ids wrap and start again
  anywhere, so a packet does not determine its fragment by its id.  `Held`
  says that a message paho holds is one the sender has published, and
  `SentOnce` that a fragment in two packets was published twice, which the
  sender only does after a send that was called failed.

### TransmitSchedulerProofs

* `TypeCorrect`: `TypeOK` is inductive.
* `AccountingHolds`: `Accounting` is not inductive, because what a step adds
  to a counter is only right if the batch is where it should be.  `Placed`
  says so: every size is bounded (`Bounded`), the batch in flight and all
  queued batches are live and of the class of their queue (`InFlightLive`,
  `QueuedLive`), and no batch is queued twice (`QueuedOnce`).  `Placed` is
  inductive given the types, `Accounting` given both.  `OneMore` and `Without`
  say what one batch more or less does to the cardinalities.
* `SerializedIsAlone`: from exact counters, `HasSerializedCapacity` means that
  no data is live, and a positive `serializedFrames` that a serialized one is.
* `ReserveIsHonoured`: strengthened by `DataWithinLimits` (what data occupies
  stays below the normal limits unless a serialized frame is alone).
* `NobodyStandsStill`: while a producer waits for room, the worker holds a
  batch, finds one, or waits for the time of an announce (`NoStandstill`), so
  they never wait for each other.  Exact counters say that something is live
  (`RoomWhenEmpty`: a producer only waits with a call an empty scheduler would
  admit), `Kept` that a live batch is queued or with the worker, `Running` that
  the worker is there, and `SomeChoice` that whatever waits has its turn.
* `RadioIsUsed` (`IdleOnlyForAnnounce`): the alternation of control and data
  and the turn of announces leave an idle worker without a choice, although
  something waits, in one case only: all data are announces that are spaced
  and before their time.  Control frames then wait with them.  The bridge asks
  for no spacing (`PaceAnnounces` false, `BridgeEngine.java:114`), and nothing
  waits.
* `ImplementsLanes`: `Spec => FifoLanes`.  `Order(c)` is the batch in flight
  followed by the queue of `c`, and `View` what a lane shows of it.  Taking,
  retrying and requeueing leave the order alone (`TakeKeepsLanes`,
  `RequeueKeepsOrder`); admission, sending, abandoning and close are the
  abstract `Accept`, `Transmit`, `GiveUpHead` and `Shut`.  `Placed` is needed:
  were a batch in two places, a fragment sent would shorten two lanes.

### LocalServerProofs

* `TypeCorrect`, `FifoHolds`: with or without time passing in a replay.  The
  inductive invariant `Orderly` strengthens `Fifo` by what makes the two
  writers one: outside a replay a connected client finds the spool empty
  (`Drained`), everything written is older than everything spooled
  (`WrittenFirst`), and during a replay the frame in hand is not younger than
  the head of the spool (`PeekedNext`; it may have expired meanwhile).
* `SpoolIsDrained`: the first of these parts, stated by itself.
* `SpoolLosesOnlyBehindExpired` (`LostOnlyBehindExpired`): at any speed of the
  clients and whatever the clock does.  What expiry drops is the front of the
  spool up to the first entry that is young (`FreshDropsExpired`).  If the
  frame that was written is still there at its removal it is the head, and was
  written; if it is not, it expired, and the frame behind all expired ones is
  the one that is lost.  The clock may go back, so the entries need not be
  ordered by time, and the proof does not use that they are.
* `ClientsAreReported` (`ConnectedIsReported`): from `Replace` on the client is
  the one just accepted or none (`InPlace`), so a predecessor that ends late
  cannot take back the report of its successor (`Told`).
* `ClientsAreWatched`: a connected client has a reader, or the accept thread is
  about to start it (`Watched`), so no client can leave unseen.

### GatewayApplyProofs

* `ApplyTypes`.
* `StagedConfigurationsApply` (`StagesApply`), `StagedRadioIsPrivate`
  (`RadioStaysPrivate`): for every environment a browser may submit, and every
  text it may be staged as, not only the drafts of the run.  What is staged
  was validated (`StagesValid`).  A text of single lines reads back as its
  settings, and normalising touches the pacing only, so every rule that holds
  before it holds after it, and twice is once.  Of any other text nothing is
  known but that it was validated again when it was exported: `RenderedAccepted`
  and `RenderedPrivate` derive the rules of the interface from those of the
  renderer for whatever was exported.
* `OneRequestAtATime`: `QueueInv` relates the two request files and what the
  agent works on, across killed claims and reports.
* `SuccessesAreReal`: without an overlap one applier is at work (`Alone`), and
  what it has done so far is what its step says (`AgentProgress`).
* `OnlyProvenRests`: when no applier is at work the environment in the file
  proved itself, with the exceptions of `RolledBackUnlessCut` (`RestsOnProven`).
  An applier that works alone keeps a proven environment in the file or as its
  backup (`FileProven`, `BackupsProven`), and checks the services of the file
  it wrote (`ChecksTheFile`).
* `RequestsAreRemembered`: unless a call was cut, the newest request waits, is
  worked on or is answered (`NoRequestForgotten`); both files of the queue are
  about it (`NewestOnly`).

### GatewayConsoleProofs

* `ConsoleTypes`.
* `BrowsersMissNothing` (`ReaderMissesNothing`): `Sound` says that the ids of
  the journal increase, that the cursor is not beyond the newest, and that an
  event was read exactly if the cursor passed it; ids increase because the
  newest id is read under the lock, whatever the clocks show (`RoomAbove`).
* `AnnouncesKeepTheirDistance` (`CooldownKept`): as long as lxmd never died
  between an announce and its saving, the time it saved is that of the last
  announce whenever it may announce (`CooldownInv`).
* `DisconnectsAreReal` (`NoDisconnectInvented`): whatever order requests read
  and compare in, and whichever reads fail.  The files a request can still look
  at (`Files`, with the one a failed read stands for) are ordered by their
  number: of two files the newer counts no fewer disconnects over all time, and
  if they are of the same rnsd the difference of their counters is what
  happened in between (`FilesInv`).  `CountInv` says that the baseline is the
  counter of the file compared last and that the count since its origin is
  within what happened.  A comparison in order adds at most what happened
  between the two files; one against the order starts a new origin.
* `AnnouncesAreJournaledOnce` (`AnnouncedOnce`): the keys a console remembers
  are the youngest of those it journaled (`Youngest`), and cover what the
  files still to be compared may list (`Covers`).  It needs that the console
  remembers no fewer announces than a file lists.

### Only model-checked

* Liveness (`DataServed`, `ClassesServed`, `BackpressureReleases`,
  `QueuedSentIfAnnounced`, `FalselyUpEndsIfAnnounced`, `SpoolDrains`,
  `LeaversNoticed`, `RolledBackUnlessCut`, `Answered`): TLAPS does not reason
  about fairness and `ENABLED`.  What such a property needs beside fairness is
  proved where it can be stated without: `NoStandstill` for
  `BackpressureReleases`, `IdleOnlyForAnnounce` for `ClassesServed`,
  `QuietAgreement` for `QueuedSentIfAnnounced`,
  `FalselyUpIsTold` for `FalselyUpEndsIfAnnounced`, `Drained` for
  `SpoolDrains`, `Watched` for `LeaversNoticed`, `RestsOnProven` for
  `RolledBackUnlessCut`, `NoRequestForgotten` for `Answered`.
* `RepairedInTime`: it holds for the waiting times of the run, where the
  deadline is computed from the constants and the losses left; the general
  statement would need an induction over both the losses and the doubling
  intervals.  What one step of that induction rests on is proved:
  `RepairsArePunctual` (a due attempt is made) and `RepairBackoff` (attempts
  are no more and no denser than allowed).

## Where code and documentation disagree

1. `InboundFrameSpool.java:107`: `removeReplayed` expires old frames before it
   removes the head.  If the frame just written passed its lifetime while it
   was written, it is dropped as expired and the next one, never written, is
   removed in its place (`local_server_expiry`).
2. `native.py:260`: a session lost between its installation and
   `_notify_connected`, followed by one failed reconnect, leaves the gate of
   the transmit worker closed on a working session (`session_lost_early`).
3. `native.py:184`: a connection-lost event that arrives while the session is
   being opened is ignored, and an idle interface stays Up on a dead session
   (`session_falsely_up`).

The first three have a run; the following have a configuration, listed after
the runs:

4. `gateway_config.py:138`: `render_env` refuses CR, LF and NUL in a value,
   and `parse_env_file` also ends a line at other separators such as U+2028.  A
   value with one of them is validated and staged, and then fails the export or
   exports another configuration (`GatewayApplyText.cfg`).
5. `gateway_config.py:288`: an operator's `gateway-apply` and the agent share no
   lock.  Each may take the unproven environment of the other for its backup;
   when both fail, what is restored never proved healthy (`GatewayApplyBeside.cfg`).
6. `scripts/gateway-apply-agent:100`: a failed `cp -p` of the backup is
   ignored, and `:106` reports that the previous configuration was restored;
   `docs/GATEWAY_CONSOLE.md:186` promises the same (`GatewayApplyCopy.cfg`).
7. `gateway_console.py:584`: a telemetry file that is missing or cannot be read
   sets the baseline of every counter to 0, and the next good file reports its
   whole count as new; `docs/GATEWAY_CONSOLE.md:165` says that history raises no
   alert (`ConsoleFailedRead.cfg`).
8. `gateway_console.py:275`: the telemetry is read before the lock is taken, so
   a slower request compares an older file, and what came after it is reported
   again (`ConsoleOvertaken.cfg`).
9. `lxmd_control.py:175` announces before it saves the time: a crash in between
   lets the next announce come at once, although `docs/GATEWAY_CONSOLE.md:127`
   says a restart does not bypass the cooldown (`ConsoleCooldown.cfg`).

Seen while reading or in exceptions the properties name, without either:

* `TransmitScheduler.java:519` counts waiting control frames against the limit
  of data, so repair traffic that never drains keeps a data frame from being
  admitted; `README.md:131` promises that repair cannot starve new frames.
  Admitted frames are served (`ClassesServed`).
* `TransmitScheduler.java:384-397`: a spaced announce that waits for its time
  counts as waiting data, so after one control fragment the repairs behind it
  wait up to the announce interval on an idle radio (`IdleOnlyForAnnounce`).
  `BridgeEngine` configures no interval.
* `framing.py:302` accepts position -128 as final fragment 128, which
  `docs/PORT76_PROTOCOL.md:17` and the Java implementation call invalid.
* `cli.py:479` says "rolled back" also when the rollback itself failed.
* `cli.py:506-512`: a claim is made before its journal entry; when the entry
  cannot be written the call fails, the agent does not learn of the claim, and
  the request stays active for ever (the exception of `Answered`).
* `gateway_console.py:366-368` updates `_missing_since` without the lock; of
  two concurrent requests the slower may journal announces again (the exception
  `overtaken` of `AnnouncedOnce`); after a restart of the console the announces
  still listed are journaled once more.
* `lxmd_control.py:190`: a state file that cannot be read counts as no last
  announce, so the cooldown is not kept (the second exception of
  `CooldownKept`).

## What is not modelled

* The Android components other than scheduler, local server and spool.
  `FragmentProtocol.java` is the protocol of `framing.py` again, with a wall
  clock and deferred control; `BridgeEngine.java` wires components that are
  modelled one by one, with the same check-then-use of the queue's room as
  `interface.py`; `DeviceQueueFlowControl.java`, `AckTracker.java`,
  `RnsPeerRouter.java` and the TCP and BLE transports have state of their own
  (credits, outstanding packets, learned routes, the GATT operation in flight)
  and would be the next modules.
* `traffic_report.py`, `config_schema.py`, `contracts.py`, `lan_policy.py`, the
  commands of `cli.py` that print, HTTP and authentication of the console, the
  wire codecs: data transformations and views whose properties are of single
  calls, or I/O.
* The Android service lifecycle, the user interface, deployment files.
* Of the modelled components: byte limits (scheduler, spool, journal), pacing
  and telemetry counters, the encoding of packets and envelopes, the shutdown
  of the native backend, source filters that depend on the mesh mode, alerts
  of the console, redaction in the journal.
* The firmware, the radio, the broker, Docker and Compose are environment,
  modelled from how the code uses them.
