---------------------------- MODULE GatewayConsole ----------------------------
(***************************************************************************)
(* The gateway console at run time (gateway_console.py): status requests,  *)
(* each on a thread of its own, read the telemetry file of the radio       *)
(* interface and compare it under a lock with what the last request saw;   *)
(* what changed goes to the journal.  lxmd (lxmd_control.py) appends its   *)
(* manual announces to the same journal and keeps their cooldown in a      *)
(* file; a browser reads the journal with a cursor.                        *)
(*                                                                         *)
(* Of the telemetry the counter of disconnects and the recent announces    *)
(* are kept: the other counters, upstreams and LAN clients are compared    *)
(* in the same way.                                                        *)
(***************************************************************************)
EXTENDS EventJournal, SequencesExt

CONSTANTS
  Polls,         \* status requests that may be under way together
  None,          \* nothing seen or saved yet
  Recent,        \* announces the telemetry file lists (64)
  Keys,          \* announces the console remembers (256)
  Cooldown,      \* of manual announces
  Stamps,        \* what a clock may show when an event is appended
  Unreadable,    \* a file may be missing or fail to be read
  MaxChanges     \* bound on changes of the telemetry, failed reads, manual
                 \* announces and restarts

ASSUME NoneAssumption == None \notin Int
ASSUME BoundsAssumption ==
  /\ Recent \in Nat \ {0} /\ Keys \in Nat /\ Recent <= Keys
  /\ Cooldown \in Nat /\ Stamps \subseteq Nat \ {0} /\ MaxChanges \in Nat
  /\ Unreadable \in BOOLEAN

VARIABLES
  telemetry,     \* the file of the radio interface
  polls,         \* what each status request is doing
  watch,         \* what the console remembers between status requests
  journal,       \* the file of events
  cursor,        \* of the browser
  lxmd,          \* the controller, the age of the time in its file, and of the last announce
  changes,       \* how much of the bound is used
  history        \* what the properties compare with

vars == <<telemetry, polls, watch, journal, cursor, lxmd, changes, history>>

(* A file counts disconnects and announces since rnsd started.  Its number *)
(* at and the disconnects there ever were, lost, are history.              *)
Telemetry == [at : Nat, downs : Nat, lost : Nat, before : Nat, announced : Nat]

(* What a missing or unreadable file is taken for: {}, so every counter is *)
(* 0 and no announce is listed.  A new file of a new rnsd says the same.   *)
NoFile == [at |-> 0, downs |-> 0, lost |-> 0, before |-> 0, announced |-> 0]
Places == {"idle", "read", "counted"}
Idle == [pc |-> "idle", seen |-> NoFile]
Ages == 0..Cooldown

TypeOK ==
  /\ telemetry \in Telemetry
  /\ polls \in [Polls -> [pc : Places, seen : Telemetry]]
  /\ watch \in [downs : Nat \cup {None}, keys : Seq(Nat)]
  /\ Len(watch.keys) <= Keys
  /\ journal \in Seq([id : Nat, read : BOOLEAN]) /\ Len(journal) <= MaxEvents
  /\ cursor \in Nat
  /\ lxmd \in [pc : {"idle", "announced", "saved"}, saved : Ages \cup {None},
               age : Ages \cup {None}, soon : BOOLEAN, died : BOOLEAN]
  /\ changes \in 0..MaxChanges
  /\ history \in [last : Telemetry, from : Int, counted : Nat, most : Nat, again : BOOLEAN,
                  journaled : SUBSET Nat, twice : BOOLEAN, announces : Nat, overtaken : BOOLEAN]

Init ==
  /\ telemetry = NoFile
  /\ polls = [p \in Polls |-> Idle]
  /\ watch = [downs |-> None, keys |-> <<>>]
  /\ journal = <<>> /\ cursor = 0
  /\ lxmd = [pc |-> "idle", saved |-> None, age |-> None, soon |-> FALSE, died |-> FALSE]
  /\ changes = 0
  /\ history = [last |-> NoFile, from |-> 0, counted |-> 0, most |-> 0, again |-> FALSE,
                journaled |-> {}, twice |-> FALSE, announces |-> 0, overtaken |-> FALSE]

(* Every event is stamped before the journal is locked: a clock may show   *)
(* anything by then, also less than it did for the event before.  Events   *)
(* of one request are appended together; what comes between them is a      *)
(* matter of stamps.                                                       *)
Log(count) ==
  \E clocks \in [1..count -> Stamps] : journal' = AppendedAll(journal, clocks)
-----------------------------------------------------------------------------
Change == changes < MaxChanges /\ changes' = changes + 1

(* The radio interface writes its telemetry: the backend was lost, an      *)
(* announce passed, rnsd started anew and counts from the beginning.       *)
Write(t) ==
  /\ Change
  /\ telemetry' = [t EXCEPT !.at = changes']
  /\ UNCHANGED <<polls, watch, journal, cursor, lxmd, history>>

BackendDown == Write([telemetry EXCEPT !.downs = @ + 1, !.lost = @ + 1])
Announce == Write([telemetry EXCEPT !.announced = @ + 1])
Restart == Write([telemetry EXCEPT !.downs = 0, !.before = telemetry.announced])

RecentAnnounces(t) ==
  LET first == IF t.announced - t.before > Recent THEN t.announced - Recent ELSE t.before IN
  [i \in 1..(t.announced - first) |-> first + i]
-----------------------------------------------------------------------------
(* A status request reads the file, or fails to (_load_json) ...           *)
Seen(p, t) ==
  /\ polls[p].pc = "idle"
  /\ polls' = [polls EXCEPT ![p] = [pc |-> "read", seen |-> t]]
  /\ UNCHANGED <<telemetry, watch, journal, cursor, lxmd, history>>

Read(p) == Seen(p, telemetry) /\ UNCHANGED changes
ReadFails(p) == Unreadable /\ Seen(p, NoFile) /\ Change

(* ... and compares it, under the lock, with what was seen before.  The    *)
(* first request sets the baseline; a counter that went back is a restart. *)
DisconnectsInAll(t) ==                 \* mutant: the counter itself is reported
  IF watch.downs = None \/ t.downs <= watch.downs THEN 0 ELSE t.downs
Disconnects(t) ==
  IF watch.downs = None \/ t.downs <= watch.downs THEN 0 ELSE t.downs - watch.downs

(* The history of the comparisons: the file compared last, and what the    *)
(* count goes on from: the first file, or one older than the last.  If the *)
(* older file counts more than the newer, that of another rnsd, the code   *)
(* reports the difference: the count then goes on from the start of the    *)
(* rnsd of the older file.                                                 *)
Rewound(t) == watch.downs = None \/ t.at < history.last.at
Origin(t) == IF Disconnects(t) = 0 THEN t.lost ELSE t.lost - t.downs

Compared(t) ==
  LET delta == Disconnects(t) IN
  [history EXCEPT
     !.last = t,
     !.from = IF Rewound(t) THEN Origin(t) ELSE @,
     !.counted = IF Rewound(t) THEN delta ELSE @ + delta,
     !.most = IF t.lost > @ THEN t.lost ELSE @,
     !.again = @ \/ (delta > 0 /\ delta > t.lost - history.most)]

ObserveCounters(p) ==
  LET t == polls[p].seen IN
  /\ polls[p].pc = "read"
  /\ polls' = [polls EXCEPT ![p].pc = "counted"]
  /\ watch' = [watch EXCEPT !.downs = t.downs]
  /\ Log(IF Disconnects(t) > 0 THEN 1 ELSE 0)
  /\ history' = Compared(t)
  /\ UNCHANGED <<telemetry, cursor, lxmd, changes>>

RememberLast(keys, a) == <<a>>         \* mutant: only the last key is kept
Remember(keys, a) ==
  IF Len(keys) < Keys THEN Append(keys, a) ELSE Append(Tail(keys), a)

Take(state, a) ==
  IF Contains(state.keys, a) THEN state
  ELSE [keys |-> Remember(state.keys, a), new |-> Append(state.new, a)]

Taken(keys, announces) ==
  LET after[n \in 0..Len(announces)] ==
        IF n = 0 THEN [keys |-> keys, new |-> <<>>] ELSE Take(after[n - 1], announces[n])
  IN after[Len(announces)]

ObserveAnnounces(p) ==
  LET t == polls[p].seen
      taken == Taken(watch.keys, RecentAnnounces(t)) IN
  /\ polls[p].pc = "counted"
  /\ polls' = [polls EXCEPT ![p] = Idle]
  /\ watch' = [watch EXCEPT !.keys = taken.keys]
  /\ Log(Len(taken.new))
  /\ history' = [history EXCEPT
       !.journaled = @ \cup ToSet(taken.new),
       !.twice = @ \/ ToSet(taken.new) \cap history.journaled # {},
       !.announces = IF t.at > @ THEN t.at ELSE @,
       !.overtaken = @ \/ (t # NoFile /\ t.at < history.announces)]
  /\ UNCHANGED <<telemetry, cursor, lxmd, changes>>

(* The console starts anew and has seen nothing; so does the history.      *)
ConsoleRestarts ==
  /\ Change
  /\ polls' = [p \in Polls |-> Idle]
  /\ watch' = [downs |-> None, keys |-> <<>>]
  /\ history' = [history EXCEPT
       !.last = NoFile, !.from = 0, !.counted = 0, !.most = telemetry.lost,
       !.journaled = {}, !.announces = 0]
  /\ UNCHANGED <<telemetry, journal, cursor, lxmd>>
-----------------------------------------------------------------------------
(* lxmd: announce, save the time, write the event; it may die in between.  *)
(* If the saved time cannot be read there was none.                        *)
Cooled(age) == age = None \/ age = Cooldown

AllowedAtOnce(readable) == lxmd.pc = "idle"      \* mutant: the saved time is not looked at
Allowed(readable) == lxmd.pc = "idle" /\ (readable => Cooled(lxmd.saved))

ManualAnnounce(readable) ==
  /\ readable \/ Unreadable
  /\ Allowed(readable) /\ Change
  /\ lxmd' = [lxmd EXCEPT !.pc = "announced", !.age = 0,
                          !.soon = readable /\ ~Cooled(lxmd.age)]
  /\ UNCHANGED <<telemetry, polls, watch, journal, cursor, history>>

SaveManual ==
  /\ lxmd.pc = "announced"
  /\ lxmd' = [lxmd EXCEPT !.pc = "saved", !.saved = lxmd.age]
  /\ UNCHANGED <<telemetry, polls, watch, journal, cursor, changes, history>>

LogManual ==
  /\ lxmd.pc = "saved"
  /\ lxmd' = [lxmd EXCEPT !.pc = "idle"]
  /\ Log(1)
  /\ UNCHANGED <<telemetry, polls, watch, cursor, changes, history>>

LxmdDies ==
  /\ lxmd.pc # "idle"
  /\ lxmd' = [lxmd EXCEPT !.pc = "idle", !.died = @ \/ lxmd.pc = "announced"]
  /\ UNCHANGED <<telemetry, polls, watch, journal, cursor, changes, history>>

Older(age) == IF Cooled(age) THEN age ELSE age + 1
Tick ==
  /\ lxmd' = [lxmd EXCEPT !.saved = Older(@), !.age = Older(@)]
  /\ UNCHANGED <<telemetry, polls, watch, journal, cursor, changes, history>>
-----------------------------------------------------------------------------
Browse(limit) ==
  /\ cursor' = Cursor(journal, cursor, limit)
  /\ journal' = [i \in DOMAIN journal |->
                   [journal[i] EXCEPT !.read = @ \/ i \in Selected(journal, cursor, limit)]]
  /\ UNCHANGED <<telemetry, polls, watch, lxmd, changes, history>>

Next ==
  \/ BackendDown \/ Announce \/ Restart \/ ConsoleRestarts
  \/ \E p \in Polls : Read(p) \/ ReadFails(p) \/ ObserveCounters(p) \/ ObserveAnnounces(p)
  \/ \E readable \in BOOLEAN : ManualAnnounce(readable)
  \/ SaveManual \/ LogManual \/ LxmdDies \/ Tick
  \/ \E limit \in 1..MaxEvents : Browse(limit)

Spec == Init /\ [][Next]_vars
-----------------------------------------------------------------------------
(* The console never reports more disconnects than there were between the  *)
(* file its count goes on from and the one it compared last, however often *)
(* rnsd restarted and however requests overtook each other.  The count     *)
(* goes on from another file when a request compares an older one, or none *)
(* because the file could not be read: _observe_telemetry takes no notice  *)
(* of that and reports again what came after it, but no more; and if the   *)
(* older file is of an rnsd that was since restarted, no more than that    *)
(* rnsd counted.                                                           *)
NoDisconnectInvented == history.counted <= history.last.lost - history.from

(* "A historical cumulative counter by itself keeps no alert active"       *)
(* (docs/GATEWAY_CONSOLE.md:165): a report is about disconnects that no    *)
(* comparison saw before and that were not there when the console started. *)
(* The code breaks this after a failed read and after an overtaken one.    *)
HistoryRaisesNoAlert == ~history.again

(* A running console journals an announce once, unless a request compared  *)
(* an older file after a newer one: it remembers more announces than the   *)
(* file lists.                                                             *)
AnnouncedOnce == ~history.twice \/ history.overtaken

(* A reader that goes on from its cursor gets every event that is still in *)
(* the file, although several processes append, stamp their events before  *)
(* they lock, and clocks step back.                                        *)
ReaderMissesNothing ==
  \A i \in DOMAIN journal : journal[i].read <=> journal[i].id <= cursor

(* Manual announces keep their distance across restarts of lxmd, unless it *)
(* died between an announce and its saving, or could not read the time.    *)
CooldownKept == ~lxmd.soon \/ lxmd.died

(* "Cooldown state is kept in the LXMD volume, so a restart does not       *)
(* bypass it" (docs/GATEWAY_CONSOLE.md:127).  The code breaks this when    *)
(* lxmd dies between an announce and its saving.                           *)
RestartKeepsCooldown == ~lxmd.soon
=============================================================================
