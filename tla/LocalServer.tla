----------------------------- MODULE LocalServer -----------------------------
(***************************************************************************)
(* The loopback server of the Android bridge (ReticulumTcpServer.java) and *)
(* the spool of frames it keeps while no Reticulum client is connected     *)
(* (InboundFrameSpool.java).                                               *)
(*                                                                         *)
(* The radio thread hands frames to sendFrame.  The accept thread replaces *)
(* the client, replays the spool under writeLock, then reports the         *)
(* connection without the lock.  Each client has a reader thread, which    *)
(* notices its end.  Any thread may look at the spool in between           *)
(* (publish), and looking expires frames.                                  *)
(*                                                                         *)
(* client and output are always assigned together and are one variable.    *)
(* Left out: the byte limit of the spool, which acts like the limit on     *)
(* frames, its counters, and frames from the client to the radio.          *)
(***************************************************************************)
EXTENDS Integers, Sequences, FiniteSets

CONSTANTS
  Contents,     \* what frames hold: equal contents have equal digests
  MaxSpooled,   \* MAX_SPOOLED_FRAMES, 32
  Ttl,          \* SPOOL_TTL_MILLIS, 5 minutes
  MaxFrames, MaxClients, MaxClock   \* bounds

ASSUME ServerAssumption ==
  /\ MaxSpooled \in Nat \ {0} /\ Ttl \in Nat \ {0}
  /\ MaxClients \in Nat /\ MaxClock \in Nat

NoClient == 0

VARIABLES
  clock,
  arrived,     \* frames handed to sendFrame, numbered 1, 2, ...
  spool,       \* sequence of [frame, content, at]
  client,      \* the current client: clients are numbered as they are accepted
  accepted,    \* number of clients accepted
  link,        \* client -> "up", "gone" (it left), "shut" (closed here)
  readers,     \* clients whose reader thread runs
  acceptor,    \* what the accept thread does next
  peeked,      \* the frame being replayed
  reported,    \* the last onClientState
  closed,
  written      \* history: the frames written, in order

vars == <<clock, arrived, spool, client, accepted, link, readers, acceptor, peeked,
          reported, closed, written>>

Init ==
  /\ clock = 0 /\ arrived = 0
  /\ spool = <<>>
  /\ client = NoClient /\ accepted = 0
  /\ link = [c \in 1..MaxClients |-> "up"]
  /\ readers = {}
  /\ acceptor = "accept" /\ peeked = 0
  /\ reported = FALSE /\ closed = FALSE
  /\ written = <<>>

(* writeLock is only held from one step to another by the replay.          *)
LockFreeInReplay == TRUE                        \* mutant: the replay takes no lock
LockFree == acceptor \notin {"flush", "write", "remove"}
-----------------------------------------------------------------------------
(* The spool.  cleanupExpired stops at the first entry whose time is not   *)
(* over: behind it there may be older ones, as the clock may be set back.  *)

ExpiredAtOnce(s) ==                             \* mutant: no lifetime
  {i \in DOMAIN s : \A j \in 1..i : s[j].at < clock}
Expired(s) == {i \in DOMAIN s : \A j \in 1..i : s[j].at < clock - Ttl}
Fresh(s) == SubSeq(s, Cardinality(Expired(s)) + 1, Len(s))

Holds(s, content) == \E i \in DOMAIN s : s[i].content = content

HasRoom(s) == Len(s) < MaxSpooled

(* offer: a duplicate, and a frame that finds no room, is refused.         *)
Offer(n, content) ==
  LET s == Fresh(spool) IN
  spool' = IF ~Holds(s, content) /\ HasRoom(s)
           THEN Append(s, [frame |-> n, content |-> content, at |-> clock])
           ELSE s

(* publish reads a snapshot of the spool.                                  *)
Look ==
  /\ Expired(spool) # {}
  /\ spool' = Fresh(spool)
  /\ UNCHANGED <<clock, arrived, client, accepted, link, readers, acceptor, peeked,
                 reported, closed, written>>
-----------------------------------------------------------------------------
(* A write to a client that left may still succeed: the kernel buffers it. *)
MayWrite(c) == link[c] \in {"up", "gone"}
MayFail(c) == link[c] \in {"gone", "shut"}

(* disconnectBrokenClient.                                                 *)
Disconnect ==
  /\ client' = NoClient
  /\ link' = [link EXCEPT ![client] = "shut"]
  /\ reported' = FALSE

(* sendFrame: the frame is written, or goes to the spool.                  *)
SendDirect ==
  /\ arrived < MaxFrames
  /\ LockFree
  /\ client # NoClient /\ MayWrite(client)
  /\ arrived' = arrived + 1
  /\ written' = Append(written, arrived')
  /\ UNCHANGED <<clock, spool, client, accepted, link, readers, acceptor, peeked,
                 reported, closed>>

SendSpooled(content) ==
  /\ arrived < MaxFrames
  /\ LockFree
  /\ arrived' = arrived + 1
  /\ \/ client = NoClient /\ UNCHANGED <<client, link, reported>>
     \/ client # NoClient /\ MayFail(client) /\ Disconnect
  /\ Offer(arrived', content)
  /\ UNCHANGED <<clock, accepted, readers, acceptor, peeked, closed, written>>
-----------------------------------------------------------------------------
(* The accept thread.  A client connects ...                               *)
Accept ==
  /\ acceptor = "accept"
  /\ ~closed
  /\ accepted < MaxClients
  /\ accepted' = accepted + 1
  /\ acceptor' = "replace"
  /\ UNCHANGED <<clock, arrived, spool, client, link, readers, peeked, reported,
                 closed, written>>

(* ... takes the place of the one before, which is closed ...              *)
Replace ==
  /\ acceptor = "replace"
  /\ client' = accepted
  /\ link' = IF client = NoClient THEN link ELSE [link EXCEPT ![client] = "shut"]
  /\ acceptor' = "flush"
  /\ UNCHANGED <<clock, arrived, spool, accepted, readers, peeked, reported, closed,
                 written>>

(* ... and gets the frames of the spool.                                   *)
Peek ==
  /\ acceptor = "flush"
  /\ spool' = Fresh(spool)
  /\ IF spool' = <<>>
     THEN acceptor' = "check" /\ UNCHANGED peeked
     ELSE acceptor' = "write" /\ peeked' = Head(spool').frame
  /\ UNCHANGED <<clock, arrived, client, accepted, link, readers, reported, closed, written>>

Replay ==
  /\ acceptor = "write"
  /\ MayWrite(client)
  /\ written' = Append(written, peeked)
  /\ acceptor' = "remove"
  /\ UNCHANGED <<clock, arrived, spool, client, accepted, link, readers, peeked,
                 reported, closed>>

ReplayFails ==
  /\ acceptor = "write"
  /\ MayFail(client)
  /\ Disconnect
  /\ acceptor' = "check"
  /\ UNCHANGED <<clock, arrived, spool, accepted, readers, peeked, closed, written>>

AfterRemoveOnce == "check"                      \* mutant: one frame per client
AfterRemove == "flush"

(* removeReplayed.                                                         *)
Remove ==
  LET s == Fresh(spool) IN
  /\ acceptor = "remove"
  /\ spool' = IF s = <<>> THEN s ELSE Tail(s)
  /\ acceptor' = AfterRemove
  /\ UNCHANGED <<clock, arrived, client, accepted, link, readers, peeked, reported,
                 closed, written>>

(* The lock is released: is the client still the current one?              *)
Check ==
  /\ acceptor = "check"
  /\ acceptor' = IF client = accepted THEN "announce" ELSE "start"
  /\ UNCHANGED <<clock, arrived, spool, client, accepted, link, readers, peeked,
                 reported, closed, written>>

Announce ==
  /\ acceptor = "announce"
  /\ reported' = TRUE
  /\ acceptor' = "start"
  /\ UNCHANGED <<clock, arrived, spool, client, accepted, link, readers, peeked,
                 closed, written>>

StartReader ==
  /\ acceptor = "start"
  /\ readers' = readers \cup {accepted}
  /\ acceptor' = "accept"
  /\ UNCHANGED <<clock, arrived, spool, client, accepted, link, peeked, reported,
                 closed, written>>
-----------------------------------------------------------------------------
(* The reader of client c meets the end of its stream, or finds the server *)
(* closed.  It only disconnects its own client.                            *)
IsCurrentWhileOpen(c) == client = c /\ ~closed  \* mutant: nothing to do once closed
IsCurrent(c) == client = c

EndReportedAlways(c) == FALSE                   \* mutant: also of an older client
EndReported(c) == IF IsCurrent(c) THEN FALSE ELSE reported

ReaderEnds(c) ==
  /\ LockFree
  /\ link[c] # "up" \/ closed
  /\ readers' = readers \ {c}
  /\ client' = IF IsCurrent(c) THEN NoClient ELSE client
  /\ reported' = EndReported(c)
  /\ link' = [link EXCEPT ![c] = "shut"]
  /\ UNCHANGED <<clock, arrived, spool, accepted, acceptor, peeked, closed, written>>

(* The client closes its end.                                              *)
Leave(c) ==
  /\ c <= accepted
  /\ link[c] = "up"
  /\ link' = [link EXCEPT ![c] = "gone"]
  /\ UNCHANGED <<clock, arrived, spool, client, accepted, readers, acceptor, peeked,
                 reported, closed, written>>

(* close() takes no lock: a client accepted meanwhile stays open.          *)
Close ==
  /\ ~closed
  /\ closed' = TRUE
  /\ link' = IF client = NoClient THEN link ELSE [link EXCEPT ![client] = "shut"]
  /\ UNCHANGED <<clock, arrived, spool, client, accepted, readers, acceptor, peeked,
                 reported, written>>

(* Time passes, or the clock of the phone is set, at any moment, also      *)
(* while a replayed frame is written (currentTimeMillis).                  *)
Tick ==
  /\ clock' \in 0..MaxClock \ {clock}
  /\ UNCHANGED <<arrived, spool, client, accepted, link, readers, acceptor, peeked,
                 reported, closed, written>>

AcceptThread ==
  Replace \/ Peek \/ Replay \/ ReplayFails \/ Remove \/ Check \/ Announce \/ StartReader

Next ==
  \/ SendDirect
  \/ \E content \in Contents : SendSpooled(content)
  \/ Accept \/ Replace \/ Peek \/ Replay \/ ReplayFails \/ Remove
  \/ Check \/ Announce \/ StartReader
  \/ \E c \in readers : ReaderEnds(c)
  \/ \E c \in 1..MaxClients : Leave(c)
  \/ Look \/ Close \/ Tick

Spec == Init /\ [][Next]_vars

(* The accept thread runs on, as long as its clients read or leave, and so *)
(* does a reader whose stream ended.                                       *)
FairSpec ==
  /\ Spec
  /\ WF_vars(AcceptThread)
  /\ \A c \in 1..MaxClients : WF_vars(c \in readers /\ link[c] # "up" /\ ReaderEnds(c))
-----------------------------------------------------------------------------
Entries == [frame : Nat \ {0}, content : Contents, at : Nat]
AcceptorSteps ==
  {"accept", "replace", "flush", "write", "remove", "check", "announce", "start"}

TypeOK ==
  /\ clock \in Nat /\ arrived \in Nat
  /\ spool \in Seq(Entries) /\ Len(spool) <= MaxSpooled
  /\ accepted \in 0..MaxClients /\ client \in 0..accepted
  /\ link \in [1..MaxClients -> {"up", "gone", "shut"}]
  /\ readers \subseteq 1..accepted
  /\ acceptor \in AcceptorSteps
  /\ peeked \in 0..arrived
  /\ reported \in BOOLEAN /\ closed \in BOOLEAN
  /\ written \in Seq(1..arrived)

(* "FIFO replay" (README.md:125): frames are written in the order in which *)
(* they arrived and none twice, though some are written directly, some are *)
(* replayed, and clients are replaced or break at any moment.              *)
Fifo == \A i, j \in DOMAIN written : i < j => written[i] < written[j]

(* A frame only leaves the spool once it was written or its five minutes   *)
(* are over.  The code breaks this (InboundFrameSpool.removeReplayed).     *)
Spooled == {spool[i].frame : i \in DOMAIN spool}
Written == {written[i] : i \in DOMAIN written}

LeavesRightly(i) ==
  spool[i].frame \in Spooled' \/ spool[i].frame \in Written \/ spool[i].at < clock - Ttl

NothingLost == [][\A i \in DOMAIN spool : LeavesRightly(i)]_vars

(* What holds instead, whatever the clients and the clock do: a            *)
(* frame is lost only at the removal of a replayed one that expired while  *)
(* it was written, and then only the one that comes next.  Nothing else    *)
(* that runs meanwhile (expiry, refusals, replays that fail, a client that *)
(* takes the place of another) loses a frame.                              *)
ReplayedExpired == \A j \in DOMAIN Fresh(spool) : Fresh(spool)[j].frame # peeked

LostBehindExpired(i) ==
  acceptor = "remove" /\ ReplayedExpired /\ i = Cardinality(Expired(spool)) + 1

LostOnlyBehindExpired ==
  [][\A i \in DOMAIN spool : LeavesRightly(i) \/ LostBehindExpired(i)]_vars

(* When no thread is between two steps, a connected client has been        *)
(* reported: no late report of the end of an older client hides it.        *)
ConnectedIsReported ==
  acceptor = "accept" /\ client # NoClient => reported

(* A client that stays gets the whole spool.                               *)
SpoolDrains ==
  (client # NoClient /\ spool # <<>>) ~> (client = NoClient \/ spool = <<>>)

(* A client that left is noticed, if only by its reader.                   *)
LeaversNoticed ==
  \A c \in 1..MaxClients : (client = c /\ link[c] = "gone") ~> (client # c)
=============================================================================
