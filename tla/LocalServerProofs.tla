-------------------------- MODULE LocalServerProofs --------------------------
(***************************************************************************)
(* Theorems about LocalServer, for every capacity and lifetime of the      *)
(* spool and however the clock moves.                                      *)
(***************************************************************************)
EXTENDS LocalServer, FiniteSetTheorems, SequenceTheorems, TLAPS

InOrder(s) == \A i, j \in DOMAIN s : i < j => s[i].frame < s[j].frame
From(s, low) == \A i \in DOMAIN s : low <= s[i].frame
UpTo(s, high) == \A i \in DOMAIN s : s[i].frame <= high

LEMMA CountUpTo ==
  ASSUME NEW n \in Nat
  PROVE  IsFiniteSet(1..n) /\ Cardinality(1..n) = n
<1>1. /\ IsFiniteSet(1..n)
      /\ Cardinality(1..n) = IF 1 > n THEN 0 ELSE n - 1 + 1
  BY FS_Interval
<1>2. (IF 1 > n THEN 0 ELSE n - 1 + 1) = n
  OBVIOUS
<1> QED
  BY <1>1, <1>2

(* cleanupExpired removes frames from the front.                           *)
LEMMA FreshIsSuffix ==
  ASSUME NEW s \in Seq(Entries)
  PROVE  \E k \in 0..Len(s) :
           /\ k = Cardinality(Expired(s)) /\ IsFiniteSet(Expired(s))
           /\ Fresh(s) \in Seq(Entries)
           /\ Len(Fresh(s)) = Len(s) - k
           /\ \A i \in 1..Len(Fresh(s)) : Fresh(s)[i] = s[i + k]
<1>1. Expired(s) \in SUBSET (1..Len(s))
  BY DEF Expired
<1>2. IsFiniteSet(1..Len(s)) /\ Cardinality(1..Len(s)) = Len(s)
  <2>1. Len(s) \in Nat
    OBVIOUS
  <2> QED
    BY <2>1, CountUpTo
<1>3. /\ IsFiniteSet(Expired(s))
      /\ Cardinality(Expired(s)) <= Len(s)
  BY <1>1, <1>2, FS_Subset
<1>4. Cardinality(Expired(s)) \in 0..Len(s)
  BY <1>3, FS_CardinalityType
<1>5. PICK k \in 0..Len(s) : k = Cardinality(Expired(s))
  BY <1>4
<1>6. Fresh(s) = SubSeq(s, k + 1, Len(s))
  BY <1>5 DEF Fresh
<1>7. /\ SubSeq(s, k + 1, Len(s)) \in Seq(Entries)
      /\ Len(SubSeq(s, k + 1, Len(s))) = Len(s) - k
      /\ \A i \in 1..(Len(s) - k) : SubSeq(s, k + 1, Len(s))[i] = s[i + k]
  BY SMTT(30)
<1> QED
  BY <1>3, <1>5, <1>6, <1>7

LEMMA FreshKeeps ==
  ASSUME NEW s \in Seq(Entries), NEW low \in Nat, NEW high \in Nat
  PROVE  /\ Fresh(s) \in Seq(Entries) /\ Len(Fresh(s)) <= Len(s)
         /\ InOrder(s) => InOrder(Fresh(s))
         /\ From(s, low) => From(Fresh(s), low)
         /\ UpTo(s, high) => UpTo(Fresh(s), high)
         /\ s = <<>> => Fresh(s) = <<>>
<1>1. PICK k \in 0..Len(s) :
        /\ Fresh(s) \in Seq(Entries)
        /\ Len(Fresh(s)) = Len(s) - k
        /\ \A i \in 1..Len(Fresh(s)) : Fresh(s)[i] = s[i + k]
  BY FreshIsSuffix
<1>2. \A i \in DOMAIN Fresh(s) : i + k \in DOMAIN s /\ Fresh(s)[i] = s[i + k]
  BY <1>1
<1>3. InOrder(s) => InOrder(Fresh(s))
  BY <1>1, <1>2 DEF InOrder
<1>4. From(s, low) => From(Fresh(s), low)
  BY <1>2 DEF From
<1>5. UpTo(s, high) => UpTo(Fresh(s), high)
  BY <1>2 DEF UpTo
<1>6. s = <<>> => Fresh(s) = <<>>
  BY <1>1
<1> QED
  BY <1>1, <1>3, <1>4, <1>5, <1>6

(* A frame that is offered is the newest, or not in the spool.             *)
LEMMA OfferKeeps ==
  ASSUME TypeOK, UpTo(spool, arrived), NEW content \in Contents, Offer(arrived + 1, content)
  PROVE  /\ spool' \in Seq(Entries) /\ Len(spool') <= MaxSpooled
         /\ UpTo(spool', arrived + 1)
         /\ InOrder(spool) => InOrder(spool')
         /\ \A low \in 0..arrived + 1 : From(spool, low) => From(spool', low)
<1> DEFINE s == Fresh(spool)
           new == [frame |-> arrived + 1, content |-> content, at |-> clock]
<1>1. /\ arrived \in Nat /\ new \in Entries
      /\ spool \in Seq(Entries) /\ Len(spool) <= MaxSpooled
  BY DEF TypeOK, Entries
<1>2. /\ s \in Seq(Entries) /\ Len(s) <= Len(spool) /\ UpTo(s, arrived)
      /\ InOrder(spool) => InOrder(s)
      /\ \A low \in 0..arrived + 1 : From(spool, low) => From(s, low)
  <2>1. ASSUME NEW low \in 0..arrived + 1 PROVE From(spool, low) => From(s, low)
    <3>1. low \in Nat
      BY <1>1
    <3> QED
      BY <1>1, <3>1, FreshKeeps
  <2> QED
    BY <1>1, <2>1, FreshKeeps
<1>3. \/ spool' = s
      \/ spool' = Append(s, new) /\ Len(s) < MaxSpooled
  BY DEF Offer, HasRoom
<1>4. CASE spool' = s
  <2> HIDE DEF s
  <2>1. UpTo(spool', arrived + 1)
    <3>1. \A i \in DOMAIN s : s[i] \in Entries
      BY <1>2
    <3> QED
      BY <1>1, <1>2, <1>4, <3>1 DEF UpTo, Entries
  <2>2. Len(s) <= MaxSpooled
    BY <1>1, <1>2, ServerAssumption
  <2> QED
    BY <1>2, <1>4, <2>1, <2>2
<1>5. CASE spool' = Append(s, new) /\ Len(s) < MaxSpooled
  <2> HIDE DEF s
  <2>1. /\ spool' \in Seq(Entries) /\ Len(spool') = Len(s) + 1
        /\ DOMAIN s = 1..Len(s) /\ DOMAIN spool' = 1..(Len(s) + 1) /\ Len(s) \in Nat
        /\ \A i \in DOMAIN s : spool'[i] = s[i]
        /\ spool'[Len(s) + 1].frame = arrived + 1
    BY <1>1, <1>2, <1>5
  <2>2. \A i \in DOMAIN spool' : i \in DOMAIN s \/ i = Len(s) + 1
    BY <1>2, <2>1
  <2>3. \A i \in DOMAIN s : s[i].frame \in Nat /\ s[i].frame < arrived + 1
    <3>1. \A i \in DOMAIN s : s[i] \in Entries
      BY <1>2
    <3> QED
      BY <1>1, <1>2, <3>1 DEF UpTo, Entries
  <2>4. UpTo(spool', arrived + 1)
    BY <1>1, <1>2, <2>1, <2>2, <2>3 DEF UpTo
  <2>5. InOrder(spool) => InOrder(spool')
    <3> SUFFICES ASSUME InOrder(s), NEW i \in DOMAIN spool', NEW j \in DOMAIN spool', i < j
                 PROVE  spool'[i].frame < spool'[j].frame
      BY <1>2 DEF InOrder
    <3>1. i \in DOMAIN s
      BY <2>1
    <3>2. CASE j \in DOMAIN s
      BY <2>1, <3>1, <3>2 DEF InOrder
    <3>3. CASE j = Len(s) + 1
      BY <2>1, <2>3, <3>1, <3>3
    <3> QED
      BY <2>2, <3>2, <3>3
  <2>6. \A low \in 0..arrived + 1 : From(spool, low) => From(spool', low)
    <3> SUFFICES ASSUME NEW low \in 0..arrived + 1, From(s, low), NEW i \in DOMAIN spool'
                 PROVE  low <= spool'[i].frame
      BY <1>2 DEF From
    <3> QED
      BY <1>1, <2>1, <2>2 DEF From
  <2>7. Len(spool') <= MaxSpooled
    BY <1>2, <1>5, <2>1, ServerAssumption
  <2> QED
    BY <2>1, <2>4, <2>5, <2>6, <2>7
<1> QED
  BY <1>3, <1>4, <1>5
-----------------------------------------------------------------------------
(* The strengthening of Fifo.  A client that is served directly has no     *)
(* frames before it in the spool, and what was written comes before what   *)
(* is spooled and what is being replayed; the frame being replayed is the  *)
(* head of the spool, unless it expired.                                   *)
WrittenBelow(n) == \A i \in DOMAIN written : written[i] < n

(* A client that is served directly has nothing waiting in the spool: the  *)
(* replay went on until it was empty, and sendFrame spools nothing beside  *)
(* a client.                                                               *)
Drained == LockFree /\ client # NoClient => spool = <<>>

WrittenFirst ==
  acceptor # "remove" => \A j \in DOMAIN spool : WrittenBelow(spool[j].frame)
PeekedNext ==
  /\ acceptor \in {"write", "remove"} => peeked > 0 /\ From(spool, peeked)
  /\ acceptor = "write" => WrittenBelow(peeked)
  /\ acceptor = "remove" => WrittenBelow(peeked + 1)

Orderly ==
  /\ TypeOK
  /\ InOrder(spool) /\ UpTo(spool, arrived)
  /\ Drained /\ WrittenFirst /\ PeekedNext /\ Fifo
  /\ acceptor # "accept" => accepted > 0

LEMMA InitOrderly == Init => Orderly
<1> SUFFICES ASSUME Init PROVE Orderly
  OBVIOUS
<1> USE DEF Init
<1>1. TypeOK
  <2>1. accepted \in 0..MaxClients /\ client \in 0..accepted /\ peeked \in 0..arrived
    BY ServerAssumption DEF NoClient
  <2>2. spool \in Seq(Entries) /\ Len(spool) <= MaxSpooled /\ written \in Seq(1..arrived)
    BY ServerAssumption
  <2> QED
    BY <2>1, <2>2 DEF TypeOK, AcceptorSteps
<1>2. InOrder(spool) /\ UpTo(spool, arrived) /\ Drained /\ Fifo
  BY DEF InOrder, UpTo, Drained, Fifo
<1>3. WrittenFirst /\ PeekedNext
  BY DEF WrittenFirst, PeekedNext
<1> QED
  BY <1>1, <1>2, <1>3 DEF Orderly

(* Steps that touch neither the spool nor what was written.                *)
Bystander ==
  /\ UNCHANGED <<arrived, spool, peeked, written>>
  /\ acceptor' = "accept" \/ accepted' = accepted + 1
     \/ (acceptor # "accept" /\ accepted' = accepted)
     \/ UNCHANGED <<acceptor, accepted>>
  /\ acceptor' = acceptor \/ (acceptor' \notin {"write", "remove"} /\ acceptor # "remove")
  /\ LockFree' => client' = NoClient \/ (client' = client /\ LockFree)

LEMMA BystanderKeepsOrder ==
  ASSUME Orderly, Bystander, TypeOK'
  PROVE  Orderly'
<1>1. InOrder(spool)' /\ UpTo(spool, arrived)' /\ Fifo'
  BY DEF Orderly, Bystander, InOrder, UpTo, Fifo
<1>2. Drained'
  BY DEF Orderly, Bystander, Drained
<1>3. WrittenFirst'
  BY DEF Orderly, Bystander, WrittenFirst, WrittenBelow
<1>4. PeekedNext'
  BY DEF Orderly, Bystander, PeekedNext, WrittenBelow, From
<1>5. acceptor' # "accept" => accepted' > 0
  BY DEF Orderly, Bystander, TypeOK
<1> QED
  BY <1>1, <1>2, <1>3, <1>4, <1>5 DEF Orderly

LEMMA ShutKeepsLinks ==
  ASSUME TypeOK, NEW c \in Nat
  PROVE  [link EXCEPT ![c] = "shut"] \in [1..MaxClients -> {"up", "gone", "shut"}]
BY DEF TypeOK

LEMMA AcceptorKeepsOrder ==
  ASSUME Orderly, Accept \/ Replace \/ ReplayFails \/ Check \/ Announce \/ StartReader
  PROVE  Orderly'
<1> USE DEF Disconnect, NoClient, AcceptorSteps
<1>t. TypeOK
  BY DEF Orderly
<1>c. client \in Nat /\ accepted \in Nat
  BY <1>t DEF TypeOK
<1>1. CASE Accept
  <2>1. TypeOK'
    BY <1>t, <1>1, ServerAssumption DEF TypeOK, Accept
  <2>2. Bystander
    BY <1>1 DEF Bystander, Accept, LockFree
  <2> QED
    BY <2>1, <2>2, BystanderKeepsOrder
<1>2. CASE Replace
  <2>1. TypeOK'
    BY <1>t, <1>2, <1>c, ShutKeepsLinks DEF TypeOK, Replace
  <2>2. Bystander
    BY <1>2 DEF Bystander, Replace, LockFree
  <2> QED
    BY <2>1, <2>2, BystanderKeepsOrder
<1>3. CASE ReplayFails
  <2>1. TypeOK'
    <3>1. /\ client' \in 0..accepted /\ reported' \in BOOLEAN /\ acceptor' \in AcceptorSteps
          /\ link' \in [1..MaxClients -> {"up", "gone", "shut"}]
      BY <1>t, <1>3, <1>c, ShutKeepsLinks DEF ReplayFails
    <3> QED
      BY <1>t, <1>3, <3>1 DEF TypeOK, ReplayFails
  <2>2. Bystander
    BY <1>3 DEF Bystander, ReplayFails, LockFree
  <2> QED
    BY <2>1, <2>2, BystanderKeepsOrder
<1>4. CASE Check
  <2>1. TypeOK'
    BY <1>t, <1>4 DEF TypeOK, Check
  <2>2. Bystander
    BY <1>4 DEF Bystander, Check, LockFree
  <2> QED
    BY <2>1, <2>2, BystanderKeepsOrder
<1>5. CASE Announce
  <2>1. TypeOK'
    BY <1>t, <1>5 DEF TypeOK, Announce
  <2>2. Bystander
    BY <1>5 DEF Bystander, Announce, LockFree
  <2> QED
    BY <2>1, <2>2, BystanderKeepsOrder
<1>6. CASE StartReader
  <2>1. TypeOK'
    <3>1. accepted \in 1..accepted
      BY <1>6, <1>c DEF Orderly, StartReader
    <3> QED
      BY <1>t, <1>6, <3>1 DEF TypeOK, StartReader
  <2>2. Bystander
    BY <1>6 DEF Bystander, StartReader, LockFree
  <2> QED
    BY <2>1, <2>2, BystanderKeepsOrder
<1> QED
  BY <1>1, <1>2, <1>3, <1>4, <1>5, <1>6

LEMMA OthersKeepOrder ==
  ASSUME Orderly,
         \/ \E c \in readers : ReaderEnds(c)
         \/ \E c \in 1..MaxClients : Leave(c)
         \/ Close \/ Tick
  PROVE  Orderly'
<1> USE DEF NoClient
<1>t. TypeOK
  BY DEF Orderly
<1>c. client \in Nat /\ accepted \in Nat
  BY <1>t DEF TypeOK
<1>1. ASSUME NEW c \in readers, ReaderEnds(c) PROVE Orderly'
  <2>1. TypeOK'
    <3>1. client' \in 0..accepted /\ readers' \subseteq 1..accepted
      BY <1>t, <1>1, <1>c DEF TypeOK, ReaderEnds, IsCurrent
    <3>3. reported' = FALSE \/ reported' = reported
      BY <1>1 DEF ReaderEnds, EndReported
    <3>4. reported' \in BOOLEAN
      BY <1>t, <3>3 DEF TypeOK
    <3>2. link' \in [1..MaxClients -> {"up", "gone", "shut"}]
      BY <1>t, <1>1 DEF TypeOK, ReaderEnds
    <3> QED
      BY <1>t, <1>1, <3>1, <3>2, <3>4 DEF TypeOK, ReaderEnds
  <2>2. Bystander
    BY <1>1 DEF Bystander, ReaderEnds, IsCurrent, LockFree
  <2> QED
    BY <2>1, <2>2, BystanderKeepsOrder
<1>2. ASSUME NEW c \in 1..MaxClients, Leave(c) PROVE Orderly'
  <2>1. TypeOK'
    BY <1>t, <1>2 DEF TypeOK, Leave
  <2>2. Bystander
    BY <1>2 DEF Bystander, Leave, LockFree
  <2> QED
    BY <2>1, <2>2, BystanderKeepsOrder
<1>3. CASE Close
  <2>1. TypeOK'
    BY <1>t, <1>3 DEF TypeOK, Close
  <2>2. Bystander
    BY <1>3 DEF Bystander, Close, LockFree
  <2> QED
    BY <2>1, <2>2, BystanderKeepsOrder
<1>4. CASE Tick
  <2>1. TypeOK'
    BY <1>t, <1>4 DEF TypeOK, Tick
  <2>2. Bystander
    BY <1>4 DEF Bystander, Tick, LockFree
  <2> QED
    BY <2>1, <2>2, BystanderKeepsOrder
<1> QED
  BY <1>1, <1>2, <1>3, <1>4

(* Steps that only let frames expire.                                      *)
LEMMA LookKeepsOrder == ASSUME Orderly, Look PROVE Orderly'
<1>1. /\ TypeOK /\ spool \in Seq(Entries) /\ Len(spool) <= MaxSpooled
      /\ arrived \in Nat /\ peeked \in Nat
  BY DEF Orderly, TypeOK
<1>2. /\ spool' \in Seq(Entries) /\ Len(spool') <= Len(spool)
      /\ InOrder(spool') /\ UpTo(spool', arrived)
      /\ From(spool, peeked) => From(spool', peeked)
      /\ spool = <<>> => spool' = <<>>
  BY <1>1, FreshKeeps DEF Look, Orderly
<1>3. TypeOK'
  BY <1>1, <1>2, ServerAssumption DEF TypeOK, Look
<1>4. UpTo(spool, arrived)' /\ InOrder(spool)' /\ Fifo' /\ Drained'
  BY <1>2 DEF Orderly, Look, Fifo, Drained, LockFree, UpTo, InOrder
<1>5. WrittenFirst'
  <2>1. PICK k \in 0..Len(spool) :
          /\ Len(spool') = Len(spool) - k
          /\ \A j \in 1..Len(spool') : spool'[j] = spool[j + k]
    BY <1>1, FreshIsSuffix DEF Look
  <2>2. \A j \in DOMAIN spool' : j + k \in DOMAIN spool /\ spool'[j] = spool[j + k]
    BY <1>1, <1>2, <2>1
  <2> QED
    BY <2>2 DEF Orderly, Look, WrittenFirst, WrittenBelow
<1>6. PeekedNext'
  BY <1>2 DEF Orderly, Look, PeekedNext, WrittenBelow, From
<1>7. acceptor' # "accept" => accepted' > 0
  BY DEF Orderly, Look
<1> QED
  BY <1>3, <1>4, <1>5, <1>6, <1>7 DEF Orderly

LEMMA PeekKeepsOrder == ASSUME Orderly, Peek PROVE Orderly'
<1>1. /\ TypeOK /\ spool \in Seq(Entries) /\ Len(spool) <= MaxSpooled
      /\ arrived \in Nat /\ peeked \in Nat
      /\ acceptor = "flush" /\ accepted > 0
  BY DEF Orderly, TypeOK, Peek
<1>2. /\ spool' \in Seq(Entries) /\ Len(spool') <= Len(spool)
      /\ InOrder(spool') /\ UpTo(spool', arrived)
  BY <1>1, FreshKeeps DEF Peek, Orderly
<1>3. \A j \in DOMAIN spool' : spool'[j].frame \in Nat \ {0} /\ WrittenBelow(spool'[j].frame)
  <2>1. PICK k \in 0..Len(spool) :
          /\ Len(spool') = Len(spool) - k
          /\ \A j \in 1..Len(spool') : spool'[j] = spool[j + k]
    BY <1>1, FreshIsSuffix DEF Peek
  <2>2. \A j \in DOMAIN spool' : j + k \in DOMAIN spool /\ spool'[j] = spool[j + k]
    BY <1>1, <1>2, <2>1
  <2>3. \A j \in DOMAIN spool' : spool'[j] \in Entries
    BY <1>2
  <2> QED
    BY <1>1, <2>2, <2>3 DEF Orderly, WrittenFirst, Entries
<1>4. \/ spool' = <<>> /\ acceptor' = "check" /\ peeked' = peeked
      \/ spool' # <<>> /\ acceptor' = "write" /\ peeked' = spool'[1].frame
  BY <1>2 DEF Peek
<1>5. spool' # <<>> => 1 \in DOMAIN spool'
  BY <1>2
<1>6. TypeOK'
  <2>1. peeked' \in 0..arrived
    BY <1>1, <1>2, <1>3, <1>4, <1>5 DEF TypeOK, UpTo
  <2> QED
    BY <1>1, <1>2, <1>4, <2>1, ServerAssumption DEF TypeOK, Peek, AcceptorSteps
<1>7. UpTo(spool, arrived)' /\ InOrder(spool)' /\ Fifo'
  BY <1>2 DEF Orderly, Peek, Fifo, UpTo, InOrder
<1>8. Drained'
  BY <1>4 DEF Drained, LockFree
<1>9. WrittenFirst'
  BY <1>3 DEF WrittenFirst, WrittenBelow, Peek
<1>10. PeekedNext'
  <2>1. CASE spool' = <<>>
    BY <1>4, <2>1 DEF PeekedNext
  <2>2. CASE spool' # <<>>
    <3>1. peeked' > 0 /\ WrittenBelow(peeked')
      BY <1>3, <1>4, <1>5, <2>2
    <3>2. From(spool', peeked')
      BY <1>2, <1>3, <1>4, <1>5, <2>2 DEF InOrder, From
    <3> QED
      BY <1>4, <2>2, <3>1, <3>2 DEF PeekedNext, WrittenBelow, Peek, From
  <2> QED
    BY <2>1, <2>2
<1> QED
  BY <1>1, <1>6, <1>7, <1>8, <1>9, <1>10 DEF Orderly, Peek

(* A frame above all that was written is written next.                     *)
LEMMA WriteKeepsFifo ==
  ASSUME TypeOK, Fifo, NEW n \in Nat, WrittenBelow(n), written' = Append(written, n)
  PROVE  /\ \A bound \in Nat : n <= bound /\ arrived <= bound /\ 0 < n => written' \in Seq(1..bound)
         /\ Fifo'
         /\ \A m \in Nat : n < m => WrittenBelow(m)'
<1>1. /\ written \in Seq(1..arrived) /\ arrived \in Nat
      /\ DOMAIN written = 1..Len(written) /\ Len(written) \in Nat
  BY DEF TypeOK
<1>2. /\ DOMAIN written' = 1..(Len(written) + 1)
      /\ \A i \in DOMAIN written : written'[i] = written[i] /\ written[i] \in 1..arrived
      /\ written'[Len(written) + 1] = n
  BY <1>1
<1>3. \A i \in DOMAIN written' : i \in DOMAIN written \/ i = Len(written) + 1
  BY <1>1, <1>2
<1>4. ASSUME NEW bound \in Nat, n <= bound, arrived <= bound, 0 < n
      PROVE  written' \in Seq(1..bound)
  <2>1. written \in Seq(1..bound)
    BY <1>1, <1>4, SeqMonotonic, 1..arrived \subseteq 1..bound
  <2>2. n \in 1..bound
    BY <1>4
  <2> QED
    BY <2>1, <2>2
<1>5. Fifo'
  <2> SUFFICES ASSUME NEW i \in DOMAIN written', NEW j \in DOMAIN written', i < j
               PROVE  written'[i] < written'[j]
    BY DEF Fifo
  <2>1. i \in DOMAIN written
    BY <1>1, <1>2
  <2>2. CASE j \in DOMAIN written
    BY <1>2, <2>1, <2>2 DEF Fifo
  <2>3. CASE j = Len(written) + 1
    BY <1>2, <2>1, <2>3 DEF WrittenBelow
  <2> QED
    BY <1>3, <2>2, <2>3
<1>6. ASSUME NEW m \in Nat, n < m PROVE WrittenBelow(m)'
  <2>1. ASSUME NEW i \in DOMAIN written' PROVE written'[i] < m
    BY <1>1, <1>2, <1>3, <1>6 DEF WrittenBelow
  <2> QED
    BY <2>1 DEF WrittenBelow
<1> QED
  BY <1>4, <1>5, <1>6

LEMMA SendDirectKeepsOrder == ASSUME Orderly, SendDirect PROVE Orderly'
<1>1. /\ TypeOK /\ arrived \in Nat /\ Fifo /\ spool = <<>> /\ spool' = spool
      /\ arrived' = arrived + 1 /\ written' = Append(written, arrived + 1)
      /\ acceptor' = acceptor /\ acceptor \notin {"write", "remove"}
  BY DEF Orderly, TypeOK, SendDirect, Drained, LockFree
<1>2. WrittenBelow(arrived + 1)
  <2>1. \A i \in DOMAIN written : written[i] \in 1..arrived
    BY <1>1 DEF TypeOK
  <2> QED
    BY <1>1, <2>1 DEF WrittenBelow
<1>3. written' \in Seq(1..(arrived + 1)) /\ Fifo'
  BY <1>1, <1>2, WriteKeepsFifo
<1>4. TypeOK'
  <2>1. peeked \in 0..arrived'
    BY <1>1 DEF TypeOK
  <2> QED
    BY <1>1, <1>3, <2>1 DEF TypeOK, SendDirect
<1>5. InOrder(spool)' /\ UpTo(spool, arrived)' /\ Drained' /\ WrittenFirst'
  BY <1>1 DEF InOrder, UpTo, Drained, WrittenFirst
<1>6. PeekedNext'
  BY <1>1 DEF PeekedNext
<1>7. acceptor' # "accept" => accepted' > 0
  BY DEF Orderly, SendDirect
<1> QED
  BY <1>3, <1>4, <1>5, <1>6, <1>7 DEF Orderly

LEMMA SendSpooledKeepsOrder ==
  ASSUME Orderly, NEW content \in Contents, SendSpooled(content)
  PROVE  Orderly'
<1>1. /\ TypeOK /\ arrived \in Nat /\ Fifo /\ InOrder(spool) /\ UpTo(spool, arrived)
      /\ arrived' = arrived + 1 /\ Offer(arrived + 1, content)
      /\ UNCHANGED <<written, acceptor, accepted, peeked, readers, closed, clock>>
      /\ acceptor \notin {"write", "remove"}
      /\ client' = NoClient
  BY DEF Orderly, TypeOK, SendSpooled, Disconnect, LockFree
<1>2. /\ spool' \in Seq(Entries) /\ Len(spool') <= MaxSpooled
      /\ InOrder(spool') /\ UpTo(spool', arrived + 1)
  BY <1>1, OfferKeeps
<1>3. TypeOK'
  <2>1. client \in Nat /\ client' \in 0..accepted
    BY <1>1 DEF TypeOK, NoClient
  <2>2. link' \in [1..MaxClients -> {"up", "gone", "shut"}] /\ reported' \in BOOLEAN
    <3>1. \/ link' = link /\ reported' = reported
          \/ link' = [link EXCEPT ![client] = "shut"] /\ reported' = FALSE
      BY DEF SendSpooled, Disconnect
    <3> QED
      BY <1>1, <2>1, <3>1, ShutKeepsLinks DEF TypeOK
  <2>3. peeked \in 0..arrived' /\ written \in Seq(1..arrived')
    BY <1>1, SeqMonotonic, 1..arrived \subseteq 1..(arrived + 1) DEF TypeOK
  <2> QED
    BY <1>1, <1>2, <2>1, <2>2, <2>3 DEF TypeOK
<1>4. Drained' /\ PeekedNext' /\ Fifo' /\ (acceptor' # "accept" => accepted' > 0)
  BY <1>1 DEF Orderly, Drained, PeekedNext, Fifo
<1>5. WrittenFirst'
  <2> SUFFICES ASSUME NEW j \in DOMAIN spool', NEW i \in DOMAIN written
               PROVE  written[i] < spool'[j].frame
    BY <1>1 DEF WrittenFirst, WrittenBelow
  <2>1. written[i] \in 1..arrived
    BY <1>1 DEF TypeOK
  <2>2. written[i] + 1 \in 0..arrived + 1
    BY <1>1, <2>1
  <2>3. \A k \in DOMAIN spool : spool[k].frame \in Nat /\ written[i] < spool[k].frame
    <3>1. \A k \in DOMAIN spool : spool[k] \in Entries
      BY <1>1 DEF TypeOK
    <3> QED
      BY <1>1, <3>1 DEF Orderly, WrittenFirst, WrittenBelow, Entries
  <2>4. From(spool, written[i] + 1)
    BY <2>1, <2>3 DEF From
  <2>5. From(spool', written[i] + 1)
    BY <1>1, <2>2, <2>4, OfferKeeps
  <2>6. spool'[j].frame \in Nat
    <3>1. spool'[j] \in Entries
      BY <1>2
    <3> QED
      BY <3>1 DEF Entries
  <2> QED
    BY <2>1, <2>5, <2>6 DEF From
<1> QED
  BY <1>1, <1>2, <1>3, <1>4, <1>5 DEF Orderly

LEMMA ReplayKeepsOrder == ASSUME Orderly, Replay PROVE Orderly'
<1>1. /\ TypeOK /\ arrived \in Nat /\ Fifo /\ acceptor = "write" /\ acceptor' = "remove"
      /\ peeked \in Nat /\ 0 < peeked /\ peeked <= arrived /\ WrittenBelow(peeked)
      /\ From(spool, peeked) /\ written' = Append(written, peeked)
      /\ UNCHANGED <<spool, arrived, peeked, accepted>>
  BY DEF Orderly, TypeOK, Replay, PeekedNext
<1>2. /\ written' \in Seq(1..arrived) /\ Fifo' /\ WrittenBelow(peeked + 1)'
  BY <1>1, WriteKeepsFifo
<1>3. TypeOK'
  BY <1>1, <1>2 DEF TypeOK, Replay, AcceptorSteps
<1>4. InOrder(spool)' /\ UpTo(spool, arrived)' /\ Drained' /\ WrittenFirst'
  BY <1>1 DEF Orderly, InOrder, UpTo, Drained, WrittenFirst, LockFree
<1>5. PeekedNext'
  BY <1>1, <1>2 DEF PeekedNext, From, WrittenBelow
<1>6. acceptor' # "accept" => accepted' > 0
  BY <1>1 DEF Orderly
<1> QED
  BY <1>2, <1>3, <1>4, <1>5, <1>6 DEF Orderly

LEMMA RemoveKeepsOrder == ASSUME Orderly, Remove PROVE Orderly'
<1> DEFINE s == Fresh(spool)
<1>1. /\ TypeOK /\ spool \in Seq(Entries) /\ Len(spool) <= MaxSpooled
      /\ arrived \in Nat /\ peeked \in Nat /\ From(spool, peeked)
      /\ acceptor = "remove" /\ acceptor' = "flush" /\ WrittenBelow(peeked + 1)
      /\ UNCHANGED <<arrived, peeked, written, accepted>>
      /\ accepted > 0
  BY DEF Orderly, TypeOK, Remove, PeekedNext, AfterRemove
<1>2. /\ s \in Seq(Entries) /\ Len(s) <= MaxSpooled
      /\ InOrder(s) /\ UpTo(s, arrived) /\ From(s, peeked)
  BY <1>1, FreshKeeps, ServerAssumption DEF Orderly
<1>3. spool' = IF s = <<>> THEN s ELSE Tail(s)
  BY DEF Remove
<1> HIDE DEF s
<1>4. /\ spool' \in Seq(Entries) /\ Len(spool') <= MaxSpooled
      /\ \A j \in DOMAIN spool' : j + 1 \in DOMAIN s /\ spool'[j] = s[j + 1]
  <2>1. CASE s = <<>>
    BY <1>2, <1>3, <2>1
  <2>2. CASE s # <<>>
    <3>1. /\ Tail(s) \in Seq(Entries) /\ Len(Tail(s)) = Len(s) - 1 /\ Len(s) \in Nat
          /\ \A j \in 1..Len(Tail(s)) : Tail(s)[j] = s[j + 1]
      BY <1>2, <2>2, HeadTailProperties
    <3> QED
      BY <1>2, <1>3, <2>2, <3>1, ServerAssumption
  <2> QED
    BY <2>1, <2>2
<1>5. TypeOK'
  BY <1>1, <1>4 DEF TypeOK, Remove, AcceptorSteps
<1>6. InOrder(spool)' /\ UpTo(spool, arrived)'
  <2>1. \A i, j \in DOMAIN spool' : i < j => i + 1 < j + 1
    BY <1>4
  <2>2. InOrder(spool')
    BY <1>2, <1>4, <2>1 DEF InOrder
  <2>3. UpTo(spool', arrived)
    BY <1>2, <1>4 DEF UpTo
  <2> QED
    BY <1>1, <2>2, <2>3 DEF InOrder, UpTo
<1>7. Drained' /\ PeekedNext' /\ Fifo'
  BY <1>1 DEF Orderly, Drained, PeekedNext, Fifo, LockFree
<1>8. WrittenFirst'
  <2> SUFFICES ASSUME NEW j \in DOMAIN spool', NEW i \in DOMAIN written
               PROVE  written[i] < spool'[j].frame
    BY <1>1 DEF WrittenFirst, WrittenBelow
  <2>1. /\ 1 \in DOMAIN s /\ j + 1 \in DOMAIN s /\ 1 < j + 1
        /\ spool'[j] = s[j + 1]
    BY <1>2, <1>4
  <2>2. s[1].frame \in Nat /\ s[j + 1].frame \in Nat
    <3>1. s[1] \in Entries /\ s[j + 1] \in Entries
      BY <1>2, <2>1
    <3> QED
      BY <3>1 DEF Entries
  <2>3. peeked <= s[1].frame /\ s[1].frame < s[j + 1].frame
    BY <1>2, <2>1 DEF From, InOrder
  <2>4. written[i] \in Nat /\ written[i] < peeked + 1
    BY <1>1 DEF WrittenBelow, TypeOK
  <2> QED
    BY <1>1, <2>1, <2>2, <2>3, <2>4
<1> QED
  BY <1>1, <1>5, <1>6, <1>7, <1>8 DEF Orderly

LEMMA NextKeepsOrder == Orderly /\ [Next]_vars => Orderly'
<1> SUFFICES ASSUME Orderly, [Next]_vars PROVE Orderly'
  OBVIOUS
<1>1. CASE SendDirect
  BY <1>1, SendDirectKeepsOrder
<1>2. ASSUME NEW content \in Contents, SendSpooled(content) PROVE Orderly'
  BY <1>2, SendSpooledKeepsOrder
<1>3. CASE Accept \/ Replace \/ ReplayFails \/ Check \/ Announce \/ StartReader
  BY <1>3, AcceptorKeepsOrder
<1>4. CASE Peek
  BY <1>4, PeekKeepsOrder
<1>5. CASE Replay
  BY <1>5, ReplayKeepsOrder
<1>6. CASE Remove
  BY <1>6, RemoveKeepsOrder
<1>7. CASE Look
  BY <1>7, LookKeepsOrder
<1>8. CASE (\E c \in readers : ReaderEnds(c)) \/ (\E c \in 1..MaxClients : Leave(c))
           \/ Close \/ Tick
  BY <1>8, OthersKeepOrder
<1>9. CASE UNCHANGED vars
  BY <1>9 DEF vars, Orderly, TypeOK, InOrder, UpTo, Drained, LockFree, WrittenFirst,
              WrittenBelow, PeekedNext, From, Fifo
<1> QED
  BY <1>1, <1>2, <1>3, <1>4, <1>5, <1>6, <1>7, <1>8, <1>9 DEF Next

(* The types hold, in particular the capacity of the spool, and what is    *)
(* replayed is a frame that arrived.                                       *)
THEOREM TypeCorrect == Spec => []TypeOK
<1>1. Orderly => TypeOK
  BY DEF Orderly
<1> QED
  BY <1>1, InitOrderly, NextKeepsOrder, PTL DEF Spec

(* "FIFO replay" (README.md:125): frames are written in the order of their *)
(* arrival and once, whatever connects, leaves, breaks or expires.         *)
THEOREM FifoHolds == Spec => []Fifo
<1>1. Orderly => Fifo
  BY DEF Orderly
<1> QED
  BY <1>1, InitOrderly, NextKeepsOrder, PTL DEF Spec

(* Whoever is served directly finds the spool empty, whatever the replay   *)
(* met: it ends when the spool is empty or the client is gone.             *)
THEOREM SpoolIsDrained == Spec => []Drained
<1>1. Orderly => Drained
  BY DEF Orderly
<1> QED
  BY <1>1, InitOrderly, NextKeepsOrder, PTL DEF Spec
-----------------------------------------------------------------------------
(* Reports.  From its replacement to the start of its reader the client is *)
(* the one accepted last, or gone; outside of that a client is reported.   *)
InPlace == acceptor \notin {"accept", "replace"} => client \in {NoClient, accepted}

Told == acceptor \in {"accept", "replace", "start"} /\ client # NoClient => reported

Reports == InPlace /\ Told

LEMMA NextKeepsReports == TypeOK /\ Reports /\ [Next]_vars => Reports'
<1> SUFFICES ASSUME TypeOK, Reports, [Next]_vars PROVE Reports'
  OBVIOUS
<1>1. ASSUME UNCHANGED <<client, accepted, acceptor, reported>> PROVE Reports'
  BY <1>1 DEF Reports, InPlace, Told
<1>2. CASE SendDirect \/ Look \/ Close \/ Tick
  BY <1>1, <1>2 DEF SendDirect, Look, Close, Tick
<1>3. ASSUME NEW content \in Contents, SendSpooled(content) PROVE Reports'
  <2>1. UNCHANGED <<accepted, acceptor>>
    BY <1>3 DEF SendSpooled
  <2>2. UNCHANGED <<client, reported>> \/ client' = NoClient
    BY <1>3 DEF SendSpooled, Disconnect
  <2> QED BY <1>1, <2>1, <2>2 DEF Reports, InPlace, Told
<1>4. CASE Accept
  BY <1>4 DEF Accept, Reports, InPlace, Told
<1>5. CASE Replace
  BY <1>5 DEF Replace, Reports, InPlace, Told
<1>6. CASE Peek
  <2>1. /\ acceptor = "flush" /\ acceptor' \in {"check", "write"}
        /\ UNCHANGED <<client, accepted, reported>>
    BY <1>6 DEF Peek
  <2> QED BY <2>1 DEF Reports, InPlace, Told
<1>7. CASE Replay
  BY <1>7 DEF Replay, Reports, InPlace, Told
<1>8. CASE ReplayFails
  BY <1>8 DEF ReplayFails, Disconnect, Reports, InPlace, Told
<1>9. CASE Remove
  BY <1>9 DEF Remove, AfterRemove, Reports, InPlace, Told
<1>10. CASE Check
  <2>1. /\ acceptor = "check" /\ acceptor' = IF client = accepted THEN "announce" ELSE "start"
        /\ UNCHANGED <<client, accepted, reported>>
    BY <1>10 DEF Check
  <2>2. client = accepted \/ client = NoClient
    BY <2>1 DEF Reports, InPlace
  <2> QED BY <2>1, <2>2 DEF Reports, InPlace, Told
<1>11. CASE Announce
  BY <1>11 DEF Announce, Reports, InPlace, Told
<1>12. CASE StartReader
  BY <1>12 DEF StartReader, Reports, InPlace, Told
<1>13. ASSUME NEW c \in readers, ReaderEnds(c) PROVE Reports'
  <2>1. UNCHANGED <<accepted, acceptor>>
    BY <1>13 DEF ReaderEnds
  <2>2. CASE client = c
    <3>1. client' = NoClient
      BY <1>13, <2>2 DEF ReaderEnds, IsCurrent
    <3> QED BY <2>1, <3>1 DEF Reports, InPlace, Told
  <2>3. CASE client # c
    <3>1. UNCHANGED <<client, reported>>
      BY <1>13, <2>3 DEF ReaderEnds, IsCurrent, EndReported
    <3> QED BY <1>1, <2>1, <3>1
  <2> QED BY <2>2, <2>3
<1>14. ASSUME NEW c \in 1..MaxClients, Leave(c) PROVE Reports'
  BY <1>1, <1>14 DEF Leave
<1>15. CASE UNCHANGED vars
  BY <1>1, <1>15 DEF vars
<1> QED BY <1>2, <1>3, <1>4, <1>5, <1>6, <1>7, <1>8, <1>9, <1>10, <1>11, <1>12, <1>13,
            <1>14, <1>15 DEF Next

(* Whenever the accept thread waits for the next client, the current one   *)
(* has been reported: neither the late end of an older client nor a broken *)
(* write leaves a connected client hidden.                                 *)
THEOREM ClientsAreReported == Spec => []ConnectedIsReported
<1>1. Init => Reports
  BY DEF Init, Reports, InPlace, Told
<1>2. Reports => ConnectedIsReported
  BY DEF Reports, Told, ConnectedIsReported
<1> QED BY <1>1, <1>2, NextKeepsReports, TypeCorrect, PTL DEF Spec

(* The current client has a reader, or is the one that the accept thread   *)
(* is about to start a reader for.                                         *)
Watched ==
  client # NoClient =>
    client \in readers \/ (client = accepted /\ acceptor \notin {"accept", "replace"})

LEMMA NextKeepsWatched == TypeOK /\ Watched /\ [Next]_vars => Watched'
<1> SUFFICES ASSUME TypeOK, Watched, [Next]_vars PROVE Watched'
  OBVIOUS
<1>1. ASSUME UNCHANGED <<client, accepted, acceptor, readers>> PROVE Watched'
  BY <1>1 DEF Watched
<1>2. ASSUME client' = NoClient PROVE Watched'
  BY <1>2 DEF Watched
<1>3. ASSUME acceptor \notin {"accept", "replace"}, acceptor' \notin {"accept", "replace"},
             UNCHANGED <<client, accepted, readers>>
      PROVE  Watched'
  BY <1>3 DEF Watched
<1>4. CASE SendDirect \/ Look \/ Close \/ Tick
  BY <1>1, <1>4 DEF SendDirect, Look, Close, Tick
<1>5. ASSUME NEW content \in Contents, SendSpooled(content) PROVE Watched'
  BY <1>1, <1>2, <1>5 DEF SendSpooled, Disconnect
<1>6. CASE Accept
  <2>1. acceptor = "accept" /\ UNCHANGED <<client, readers>>
    BY <1>6 DEF Accept
  <2> QED BY <2>1 DEF Watched
<1>7. CASE Replace
  BY <1>7 DEF Replace, Watched
<1>8. CASE Peek \/ Replay \/ Remove \/ Check \/ Announce
  BY <1>3, <1>8 DEF Peek, Replay, Remove, AfterRemove, Check, Announce
<1>9. CASE ReplayFails
  BY <1>2, <1>9 DEF ReplayFails, Disconnect
<1>10. CASE StartReader
  BY <1>10 DEF StartReader, Watched
<1>11. ASSUME NEW c \in readers, ReaderEnds(c) PROVE Watched'
  <2>1. /\ readers' = readers \ {c} /\ UNCHANGED <<accepted, acceptor>>
        /\ client' = IF client = c THEN NoClient ELSE client
    BY <1>11 DEF ReaderEnds, IsCurrent
  <2> QED BY <2>1 DEF Watched
<1>12. ASSUME NEW c \in 1..MaxClients, Leave(c) PROVE Watched'
  BY <1>1, <1>12 DEF Leave
<1>13. CASE UNCHANGED vars
  BY <1>1, <1>13 DEF vars
<1> QED BY <1>4, <1>5, <1>6, <1>7, <1>8, <1>9, <1>10, <1>11, <1>12, <1>13 DEF Next

(* A client is never connected without a thread that will see it leave,    *)
(* though readers start outside the lock, after the client was installed   *)
(* and replayed to, and end late: what LeaversNoticed needs beside threads *)
(* that run.                                                               *)
THEOREM ClientsAreWatched == Spec => []Watched
<1>1. Init => Watched
  BY DEF Init, Watched
<1> QED BY <1>1, NextKeepsWatched, TypeCorrect, PTL DEF Spec
-----------------------------------------------------------------------------
(* What leaves the spool at a removal.  The frame that was written is the  *)
(* first of those that did not expire, or it expired itself, since the     *)
(* spool is in order and holds nothing before it.                          *)
WasWritten == acceptor = "remove" => peeked \in Written

(* cleanupExpired only removes frames whose time is over.                  *)
LEMMA FreshDropsExpired ==
  ASSUME TypeOK
  PROVE  \E k \in 0..Len(spool) :
           /\ k = Cardinality(Expired(spool))
           /\ \A i \in DOMAIN spool : i <= k => spool[i].at < clock - Ttl
           /\ \A i \in DOMAIN spool :
                i > k => i - k \in DOMAIN Fresh(spool) /\ Fresh(spool)[i - k] = spool[i]
<1>1. /\ spool \in Seq(Entries) /\ Len(spool) \in Nat /\ DOMAIN spool = 1..Len(spool)
      /\ clock \in Nat /\ Ttl \in Nat
  BY ServerAssumption DEF TypeOK
<1>2. PICK k \in 0..Len(spool) :
        /\ k = Cardinality(Expired(spool)) /\ IsFiniteSet(Expired(spool))
        /\ Fresh(spool) \in Seq(Entries)
        /\ Len(Fresh(spool)) = Len(spool) - k
        /\ \A i \in 1..Len(Fresh(spool)) : Fresh(spool)[i] = spool[i + k]
  BY <1>1, FreshIsSuffix
<1>3. ASSUME NEW i \in DOMAIN spool, i <= k PROVE spool[i].at < clock - Ttl
  <2> SUFFICES ASSUME ~(spool[i].at < clock - Ttl) PROVE FALSE
    OBVIOUS
  <2>1. \A j \in Expired(spool) : j \in 1..(i - 1)
    BY <1>1 DEF Expired
  <2>2. IsFiniteSet(1..(i - 1)) /\ Cardinality(1..(i - 1)) = i - 1
    <3>1. i - 1 \in Nat
      BY <1>1
    <3> QED
      BY <3>1, CountUpTo
  <2>3. Cardinality(Expired(spool)) <= i - 1
    BY <2>1, <2>2, FS_Subset
  <2> QED
    BY <1>1, <1>2, <1>3, <2>3
<1>4. /\ DOMAIN Fresh(spool) = 1..(Len(spool) - k)
      /\ \A i \in 1..(Len(spool) - k) : Fresh(spool)[i] = spool[i + k]
  BY <1>2
<1>5. ASSUME NEW i \in DOMAIN spool, i > k
      PROVE  i - k \in DOMAIN Fresh(spool) /\ Fresh(spool)[i - k] = spool[i]
  <2>1. i \in 1..Len(spool) /\ i - k \in 1..(Len(spool) - k) /\ (i - k) + k = i
    BY <1>1, <1>2, <1>5
  <2> QED
    BY <1>4, <2>1
<1> QED
  BY <1>2, <1>3, <1>5

(* What one step takes out of the spool.                                   *)
StepLosesNothing == \A i \in DOMAIN spool : LeavesRightly(i)

StepLosesOnlyBehindExpired ==
  \A i \in DOMAIN spool : LeavesRightly(i) \/ LostBehindExpired(i)

LEMMA SameSpool == ASSUME UNCHANGED spool PROVE StepLosesNothing
BY DEF StepLosesNothing, LeavesRightly, Spooled

LEMMA ExpiryLosesNothing ==
  ASSUME TypeOK,
         \A j \in DOMAIN Fresh(spool) : j \in DOMAIN spool' /\ spool'[j] = Fresh(spool)[j]
  PROVE  StepLosesNothing
<1> SUFFICES ASSUME NEW i \in DOMAIN spool PROVE LeavesRightly(i)
  BY DEF StepLosesNothing
<1>1. PICK k \in 0..Len(spool) :
        /\ \A j \in DOMAIN spool : j <= k => spool[j].at < clock - Ttl
        /\ \A j \in DOMAIN spool :
             j > k => j - k \in DOMAIN Fresh(spool) /\ Fresh(spool)[j - k] = spool[j]
  BY FreshDropsExpired
<1>2. i <= k \/ i > k
  BY DEF TypeOK
<1>3. CASE i <= k
  BY <1>1, <1>3 DEF LeavesRightly
<1>4. CASE i > k
  <2>1. i - k \in DOMAIN spool' /\ spool'[i - k] = spool[i]
    BY <1>1, <1>4
  <2> QED
    BY <2>1 DEF LeavesRightly, Spooled
<1> QED
  BY <1>2, <1>3, <1>4

LEMMA OfferLosesNothing ==
  ASSUME TypeOK, NEW n \in Nat \ {0}, NEW content \in Contents, Offer(n, content)
  PROVE  StepLosesNothing
<1> DEFINE s == Fresh(spool)
           new == [frame |-> n, content |-> content, at |-> clock]
<1>1. new \in Entries /\ s \in Seq(Entries)
  BY FreshIsSuffix DEF TypeOK, Entries
<1>2. spool' = s \/ spool' = Append(s, new)
  BY DEF Offer
<1>3. \A j \in DOMAIN s : j \in DOMAIN spool' /\ spool'[j] = s[j]
  <2> HIDE DEF s, new
  <2> QED
    BY <1>1, <1>2
<1> QED
  BY <1>3, ExpiryLosesNothing

LEMMA RemoveLosesOnlyNext ==
  ASSUME Orderly, WasWritten, Remove
  PROVE  StepLosesOnlyBehindExpired
<1> DEFINE s == Fresh(spool)
<1>1. /\ TypeOK /\ spool \in Seq(Entries) /\ Len(spool) \in Nat /\ DOMAIN spool = 1..Len(spool)
      /\ peeked \in Nat /\ From(spool, peeked) /\ InOrder(spool)
      /\ acceptor = "remove" /\ peeked \in Written
  BY DEF Orderly, TypeOK, Remove, PeekedNext, WasWritten
<1>2. PICK k \in 0..Len(spool) :
        /\ k = Cardinality(Expired(spool))
        /\ \A i \in DOMAIN spool : i <= k => spool[i].at < clock - Ttl
        /\ \A i \in DOMAIN spool : i > k => i - k \in DOMAIN s /\ s[i - k] = spool[i]
  BY <1>1, FreshDropsExpired
<1>3. /\ s \in Seq(Entries) /\ InOrder(s) /\ From(s, peeked)
      /\ DOMAIN s = 1..Len(s) /\ Len(s) \in Nat
  BY <1>1, FreshKeeps
<1>4. spool' = IF s = <<>> THEN s ELSE Tail(s)
  BY DEF Remove
<1> SUFFICES ASSUME NEW i \in DOMAIN spool PROVE LeavesRightly(i) \/ LostBehindExpired(i)
  BY DEF StepLosesOnlyBehindExpired
<1>5. i <= k \/ i = k + 1 \/ i > k + 1
  BY <1>1
<1>6. CASE i <= k
  BY <1>2, <1>6 DEF LeavesRightly
<1>7. CASE i > k + 1
  <2>1. i - k \in 1..Len(s) /\ s[i - k] = spool[i] /\ i - k > 1
    BY <1>1, <1>2, <1>3, <1>7
  <2> HIDE DEF s
  <2>2. s # <<>>
    BY <1>3, <2>1
  <2>3. /\ Len(Tail(s)) = Len(s) - 1 /\ DOMAIN Tail(s) = 1..(Len(s) - 1)
        /\ \A j \in 1..(Len(s) - 1) : Tail(s)[j] = s[j + 1]
    BY <1>3, <2>2, HeadTailProperties
  <2>4. (i - k) - 1 \in 1..(Len(s) - 1) /\ ((i - k) - 1) + 1 = i - k
    BY <1>1, <1>3, <2>1
  <2>5. (i - k) - 1 \in DOMAIN spool' /\ spool'[(i - k) - 1] = spool[i]
    BY <1>4, <2>1, <2>2, <2>3, <2>4
  <2> QED
    BY <2>5 DEF LeavesRightly, Spooled
<1>8. CASE i = k + 1
  <2>1. 1 \in DOMAIN s /\ s[1] = spool[i]
    BY <1>1, <1>2, <1>8
  <2>2. CASE spool[i].frame = peeked
    BY <1>1, <2>2 DEF LeavesRightly
  <2>3. CASE spool[i].frame # peeked
    <3>1. \A j \in DOMAIN s : s[j].frame \in Nat /\ peeked <= s[j].frame
      <4>1. \A j \in DOMAIN s : s[j] \in Entries
        BY <1>3
      <4> QED
        BY <1>3, <4>1 DEF Entries, From
    <3>2. \A j \in DOMAIN s : s[1].frame <= s[j].frame
      <4>1. \A j \in DOMAIN s : j = 1 \/ 1 < j
        BY <1>3
      <4> HIDE DEF s
      <4> QED
        BY <1>3, <2>1, <3>1, <4>1 DEF InOrder
    <3>3. \A j \in DOMAIN s : s[j].frame # peeked
      <4> HIDE DEF s
      <4> QED
        BY <1>1, <2>1, <2>3, <3>1, <3>2
    <3>4. ReplayedExpired
      BY <3>3 DEF ReplayedExpired
    <3> QED
      BY <1>1, <1>2, <1>8, <3>4 DEF LostBehindExpired
  <2> QED
    BY <2>2, <2>3
<1> QED
  BY <1>5, <1>6, <1>7, <1>8

LEMMA NextLosesOnlyBehindExpired ==
  ASSUME Orderly, WasWritten, Next
  PROVE  WasWritten' /\ StepLosesOnlyBehindExpired
<1>t. TypeOK /\ spool \in Seq(Entries) /\ written \in Seq(1..arrived)
  BY DEF Orderly, TypeOK
<1>n. StepLosesNothing => StepLosesOnlyBehindExpired
  BY DEF StepLosesNothing, StepLosesOnlyBehindExpired
<1>1. CASE SendDirect
  <2>1. acceptor' # "remove" /\ UNCHANGED spool
    BY <1>1 DEF SendDirect, LockFree
  <2> QED
    BY <1>n, <2>1, SameSpool DEF WasWritten
<1>2. ASSUME NEW content \in Contents, SendSpooled(content)
      PROVE  WasWritten' /\ StepLosesNothing
  <2>1. /\ arrived + 1 \in Nat \ {0} /\ Offer(arrived + 1, content)
        /\ acceptor' # "remove"
    BY <1>2, <1>t DEF SendSpooled, LockFree, TypeOK
  <2> QED
    BY <1>t, <2>1, OfferLosesNothing DEF WasWritten
<1>3. CASE Accept \/ Replace \/ ReplayFails \/ Check \/ Announce \/ StartReader
  <2>1. acceptor' # "remove" /\ UNCHANGED spool
    BY <1>3 DEF Accept, Replace, ReplayFails, Check, Announce, StartReader
  <2> QED
    BY <1>n, <2>1, SameSpool DEF WasWritten
<1>4. CASE (\E c \in readers : ReaderEnds(c)) \/ (\E c \in 1..MaxClients : Leave(c))
           \/ Close \/ Tick
  <2>1. UNCHANGED <<spool, acceptor, peeked, written>>
    BY <1>4 DEF ReaderEnds, Leave, Close, Tick
  <2> QED
    BY <1>n, <2>1, SameSpool DEF WasWritten, Written
<1>5. CASE Look
  <2>1. spool' = Fresh(spool) /\ UNCHANGED <<acceptor, peeked, written>>
    BY <1>5 DEF Look
  <2> QED
    BY <1>n, <1>t, <2>1, ExpiryLosesNothing DEF WasWritten, Written
<1>6. CASE Peek
  <2>1. spool' = Fresh(spool) /\ acceptor' # "remove"
    BY <1>6 DEF Peek
  <2> QED
    BY <1>n, <1>t, <2>1, ExpiryLosesNothing DEF WasWritten
<1>7. CASE Replay
  <2>1. written' = Append(written, peeked) /\ peeked' = peeked /\ UNCHANGED spool
    BY <1>7 DEF Replay
  <2>2. Len(written) + 1 \in DOMAIN written' /\ written'[Len(written) + 1] = peeked'
    BY <1>t, <2>1
  <2> QED
    BY <1>n, <2>1, <2>2, SameSpool DEF WasWritten, Written
<1>8. CASE Remove
  BY <1>8, RemoveLosesOnlyNext DEF Remove, AfterRemove, WasWritten
<1> QED
  BY <1>n, <1>1, <1>2, <1>3, <1>4, <1>5, <1>6, <1>7, <1>8 DEF Next

(* At any speed of the clients, and whatever the clock does, a frame only  *)
(* leaves the spool written or expired, or as the first one behind a       *)
(* replayed frame that expired while it was written (removeReplayed        *)
(* expires before it removes the head): one frame for every such replay,   *)
(* and none by anything else that runs meanwhile.                          *)
THEOREM SpoolLosesOnlyBehindExpired == Spec => LostOnlyBehindExpired
<1>1. Init => Orderly /\ WasWritten
  BY InitOrderly DEF Init, WasWritten
<1>2. Orderly /\ WasWritten /\ [Next]_vars
        => Orderly' /\ WasWritten' /\ [StepLosesOnlyBehindExpired]_vars
  <2> SUFFICES ASSUME Orderly, WasWritten, [Next]_vars
               PROVE  Orderly' /\ WasWritten' /\ [StepLosesOnlyBehindExpired]_vars
    OBVIOUS
  <2>1. Orderly'
    BY NextKeepsOrder
  <2>2. CASE Next
    BY <2>1, <2>2, NextLosesOnlyBehindExpired
  <2>3. CASE UNCHANGED vars
    BY <2>1, <2>3 DEF vars, WasWritten, Written
  <2> QED
    BY <2>2, <2>3
<1>3. LostOnlyBehindExpired <=> [][StepLosesOnlyBehindExpired]_vars
  BY DEF LostOnlyBehindExpired, StepLosesOnlyBehindExpired
<1> QED
  BY <1>1, <1>2, <1>3, PTL DEF Spec
=============================================================================
