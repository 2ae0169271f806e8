-------------------------- MODULE FragmentLinkProofs --------------------------
(***************************************************************************)
(* Proofs about the fragment protocol.  First what the tables of completed *)
(* frames remember, where what an assembly holds plays no part; then what  *)
(* the methods do to assemblies, cache and log (LinkInv): the budget and   *)
(* the backoff of requests, and where a frame that goes up comes from; at  *)
(* last what is still unasked (PaceInv).                                   *)
(***************************************************************************)
EXTENDS FragmentLink, FiniteSetTheorems, WellFoundedInduction, TLAPS

(* The object keeps two tables of completed frames.                        *)
HasTables(p) == "completed" \in DOMAIN p /\ "completedIndices" \in DOMAIN p

(* The times of a table are not in the future.                             *)
Past(table, t) == \A k \in DOMAIN table : table[k] \in Int /\ table[k] <= t

ObjectInv(p, t) ==
  /\ HasTables(p)
  /\ Past(p.completed, t) /\ Past(p.completedIndices, t)
  /\ CompletedIsIndexed(p)

(* q differs from p in other fields than the two tables only.              *)
SameTables(p, q) ==
  HasTables(q) /\ q.completed = p.completed /\ q.completedIndices = p.completedIndices

LEMMA SameTablesKeep ==
  ASSUME NEW p, NEW q, NEW t, ObjectInv(p, t), SameTables(p, q)
  PROVE  ObjectInv(q, t)
BY DEF ObjectInv, SameTables, CompletedIsIndexed

LEMMA WithEntry ==
  ASSUME NEW f, NEW k, NEW v
  PROVE  /\ DOMAIN With(f, k, v) = {k} \cup DOMAIN f
         /\ With(f, k, v)[k] = v
         /\ \A x \in DOMAIN f : x # k => With(f, k, v)[x] = f[x]
BY DEF With

LEMMA RetainedKeeps ==
  ASSUME NEW table, NEW cutoff
  PROVE  /\ \A k : k \in DOMAIN Retained(table, cutoff) <=> k \in DOMAIN table /\ table[k] >= cutoff
         /\ \A k \in DOMAIN Retained(table, cutoff) : Retained(table, cutoff)[k] = table[k]
BY DEF Retained

(* Expiry forgets a frame no later than its index.                         *)
LEMMA CleanupKeeps ==
  ASSUME NEW p, NEW t \in Int, ObjectInv(p, t)
  PROVE  /\ ObjectInv(Cleanup(p, t), t)
         /\ Cleanup(p, t).completedIndices = Retained(p.completedIndices, t - StateTtl)
<1> DEFINE cutoff == t - StateTtl
           q == Cleanup(p, t)
<1>0. cutoff \in Int
  BY ProtocolAssumption
<1>1. /\ HasTables(q) /\ q.completed = Retained(p.completed, cutoff)
      /\ q.completedIndices = Retained(p.completedIndices, cutoff)
  BY DEF ObjectInv, HasTables, Cleanup
<1>2. Past(q.completed, t) /\ Past(q.completedIndices, t)
  BY <1>1, RetainedKeeps DEF Past, ObjectInv
<1>3. CompletedIsIndexed(q)
  <2> SUFFICES ASSUME NEW k \in DOMAIN q.completed
               PROVE  /\ <<k[1], k[2]>> \in DOMAIN q.completedIndices
                      /\ q.completedIndices[<<k[1], k[2]>>] >= q.completed[k]
    BY DEF CompletedIsIndexed
  <2>1. k \in DOMAIN p.completed /\ p.completed[k] >= cutoff /\ q.completed[k] = p.completed[k]
    BY <1>1, RetainedKeeps
  <2> DEFINE i == <<k[1], k[2]>>
  <2>2. i \in DOMAIN p.completedIndices /\ p.completedIndices[i] >= p.completed[k]
    BY <2>1 DEF ObjectInv, CompletedIsIndexed
  <2>3. p.completedIndices[i] \in Int /\ p.completed[k] \in Int
    BY <2>1, <2>2 DEF ObjectInv, Past
  <2>4. i \in DOMAIN q.completedIndices /\ q.completedIndices[i] = p.completedIndices[i]
    BY <1>0, <1>1, <2>1, <2>2, <2>3, RetainedKeeps
  <2> QED BY <2>1, <2>2, <2>4
<1> QED BY <1>1, <1>2, <1>3 DEF ObjectInv

(* A completed frame is entered in both tables at once.                    *)
LEMMA MarkKeeps ==
  ASSUME NEW p, NEW t \in Int, ObjectInv(p, t), NEW key, NEW frame, key = <<key[1], key[2]>>
  PROVE  LET q == MarkCompleted(p, <<key[1], key[2], frame>>, t)
         IN  ObjectInv(q, t) /\ q.completedIndices = With(p.completedIndices, key, t)
<1> DEFINE done == <<key[1], key[2], frame>>
           q == MarkCompleted(p, done, t)
<1>1. done[1] = key[1] /\ done[2] = key[2] /\ <<done[1], done[2]>> = key
  OBVIOUS
<1>2. /\ HasTables(q) /\ q.completed = With(p.completed, done, t)
      /\ q.completedIndices = With(p.completedIndices, key, t)
  <2> HIDE DEF done
  <2>1. /\ HasTables(q) /\ q.completed = With(p.completed, done, t)
        /\ q.completedIndices = With(p.completedIndices, <<done[1], done[2]>>, t)
    BY DEF ObjectInv, HasTables, MarkCompleted
  <2> QED BY <1>1, <2>1
<1> HIDE DEF done, q
<1>3. /\ DOMAIN q.completed = {done} \cup DOMAIN p.completed /\ q.completed[done] = t
      /\ \A k \in DOMAIN p.completed : k # done => q.completed[k] = p.completed[k]
  BY <1>2 DEF With
<1>4. /\ DOMAIN q.completedIndices = {key} \cup DOMAIN p.completedIndices
      /\ q.completedIndices[key] = t
      /\ \A k \in DOMAIN p.completedIndices : k # key => q.completedIndices[k] = p.completedIndices[k]
  BY <1>2 DEF With
<1>5. Past(q.completed, t) /\ Past(q.completedIndices, t)
  BY <1>3, <1>4 DEF Past, ObjectInv
<1>6. CompletedIsIndexed(q)
  <2> SUFFICES ASSUME NEW k \in DOMAIN q.completed
               PROVE  /\ <<k[1], k[2]>> \in DOMAIN q.completedIndices
                      /\ q.completedIndices[<<k[1], k[2]>>] >= q.completed[k]
    BY DEF CompletedIsIndexed
  <2> DEFINE i == <<k[1], k[2]>>
  <2>1. CASE i = key
    BY <1>4, <1>5, <2>1 DEF Past
  <2>2. CASE i # key
    <3>1. k # done
      BY <1>1, <2>2
    <3>2. k \in DOMAIN p.completed /\ q.completed[k] = p.completed[k]
      BY <1>3, <3>1
    <3>3. i \in DOMAIN p.completedIndices /\ p.completedIndices[i] >= p.completed[k]
      BY <3>2 DEF ObjectInv, CompletedIsIndexed
    <3> QED BY <1>4, <2>2, <3>2, <3>3
  <2> QED BY <2>1, <2>2
<1>7. ObjectInv(q, t)
  BY <1>2, <1>5, <1>6 DEF ObjectInv
<1> QED BY <1>2, <1>7 DEF done, q
-----------------------------------------------------------------------------
(* The methods.                                                            *)

LEMMA RequestRepairKeeps ==
  ASSUME NEW p, NEW i, NEW immediate, NEW t, HasTables(p)
  PROVE  LET r == RequestRepair(p, i, immediate, t)
         IN  SameTables(p, r.state) /\ r.frames = <<>>
<1> DEFINE a == p.assemblies[i]
           due == Due(a, immediate, t)
           times == FreshRepairTimes(p.repairTimes, t)
           tables == [p.assemblies EXCEPT ![i].repairs = With(@, Min(due), NextRepair(a, Min(due), t))]
           asks == [p EXCEPT !.repairTimes = Append(times, t), !.assemblies = tables]
           request == <<Transmission(a.source, RequestPayload(a.index, Min(due)))>>
<1>1. RequestRepair(p, i, immediate, t)
        = IF due = {} \/ Len(times) >= RepairBudget THEN Silent(p)
          ELSE Result(asks, request, <<>>)
  BY DEF RequestRepair
<1>2. SameTables(p, asks)
  <2> HIDE DEF tables, times
  <2> QED BY DEF SameTables, HasTables
<1> HIDE DEF due, times, asks, request
<1> QED BY <1>1, <1>2 DEF Silent, Result, SameTables

LEMMA HandleRequestKeeps ==
  ASSUME NEW p, NEW source, NEW payload, HasTables(p)
  PROVE  LET r == HandleRequest(p, source, payload)
         IN  SameTables(p, r.state) /\ r.frames = <<>>
BY DEF HandleRequest, Silent, Result, SameTables

(* A call that hands no frame up: what it remembers is what has not        *)
(* expired.                                                                *)
Quiet(p, r, t) ==
  /\ ObjectInv(r.state, t)
  /\ r.state.completedIndices = Retained(p.completedIndices, t - StateTtl)

LEMMA EncodeIsQuiet ==
  ASSUME NEW p, NEW t \in Int, ObjectInv(p, t), NEW frame, NEW destination
  PROVE  Quiet(p, Encode(p, frame, destination, t), t)
<1> DEFINE q == Cleanup(p, t)
           r == Encode(p, frame, destination, t)
<1>1. ObjectInv(q, t) /\ q.completedIndices = Retained(p.completedIndices, t - StateTtl)
  BY CleanupKeeps
<1>2. SameTables(q, r.state)
  <2>1. PICK index, cache : r.state = [q EXCEPT !.nextIndex = index, !.txCache = cache]
    BY DEF Encode, Result
  <2> HIDE DEF q, r
  <2> QED BY <1>1, <2>1 DEF SameTables, ObjectInv, HasTables
<1> HIDE DEF q, r
<1>3. ObjectInv(r.state, t)
  BY <1>1, <1>2, SameTablesKeep
<1> QED BY <1>1, <1>2, <1>3 DEF Quiet, SameTables, r

LEMMA PollIsQuiet ==
  ASSUME NEW p, NEW t \in Int, ObjectInv(p, t), NEW allowControl
  PROVE  Quiet(p, PollRepairs(p, allowControl, t), t)
<1> DEFINE q == Cleanup(p, t)
           r == PollRepairs(p, allowControl, t)
<1>1. ObjectInv(q, t) /\ q.completedIndices = Retained(p.completedIndices, t - StateTtl)
  BY CleanupKeeps
<1>2. PICK i : r = RequestRepair(q, i, FALSE, t) \/ r = Silent(q)
  BY DEF PollRepairs
<1> HIDE DEF q, r
<1>3. SameTables(q, r.state)
  <2>1. HasTables(q) /\ SameTables(q, q)
    BY <1>1 DEF SameTables, ObjectInv
  <2>2. CASE r = RequestRepair(q, i, FALSE, t)
    BY <2>1, <2>2, RequestRepairKeeps
  <2>3. CASE r = Silent(q)
    BY <2>1, <2>3 DEF Silent, Result
  <2> QED BY <1>2, <2>2, <2>3
<1>4. ObjectInv(r.state, t)
  BY <1>1, <1>3, SameTablesKeep
<1> QED BY <1>1, <1>3, <1>4 DEF Quiet, SameTables, r

(* A call that hands one frame up: its index was forgotten, and is         *)
(* remembered from now on.                                                 *)
HandsUp(p, r, key, t) ==
  LET kept == Retained(p.completedIndices, t - StateTtl) IN
  /\ ObjectInv(r.state, t)
  /\ key \notin DOMAIN kept
  /\ r.state.completedIndices = With(kept, key, t)
  /\ \E frame : r.frames = <<frame>>

LEMMA CompleteResult ==
  ASSUME NEW p, NEW t \in Int, ObjectInv(p, t), NEW key, NEW a, key = <<key[1], key[2]>>
  PROVE  LET r == Complete(p, key, a, t) IN
         \/ SameTables(p, r.state) /\ r.frames = <<>>
         \/ /\ ObjectInv(r.state, t)
            /\ r.state.completedIndices = With(p.completedIndices, key, t)
            /\ \E frame : r.frames = <<frame>>
<1> DEFINE frame == [q \in 1..a.finalPosition |-> a.fragments[q]]
           done == <<key[1], key[2], frame>>
           left == Without(p.assemblies, key)
           rest == [p EXCEPT !.assemblies = left]
<1>1. Complete(p, key, a, t)
        = IF done \in DOMAIN p.completed THEN Silent(rest)
          ELSE Result(MarkCompleted(rest, done, t), <<>>, <<frame>>)
  BY DEF Complete
<1> HIDE DEF left, frame
<1>2. SameTables(p, rest)
  BY DEF SameTables, ObjectInv, HasTables
<1> HIDE DEF rest
<1>3. ObjectInv(rest, t)
  BY <1>2, SameTablesKeep
<1>4. /\ ObjectInv(MarkCompleted(rest, done, t), t)
      /\ MarkCompleted(rest, done, t).completedIndices = With(p.completedIndices, key, t)
  BY <1>2, <1>3, MarkKeeps DEF SameTables
<1> HIDE DEF done
<1> QED BY <1>1, <1>2, <1>4 DEF Silent, Result

LEMMA ReceiveResult ==
  ASSUME NEW p, NEW t \in Int, ObjectInv(p, t),
         NEW source, NEW payload, NEW allowControl
  PROVE  LET r == Receive(p, source, payload, allowControl, t) IN
         \/ Quiet(p, r, t) /\ r.frames = <<>>
         \/ HandsUp(p, r, <<source, payload.index>>, t)
<1> DEFINE q == Cleanup(p, t)
           r == Receive(p, source, payload, allowControl, t)
           key == <<source, payload.index>>
<1>1. /\ ObjectInv(q, t)
      /\ q.completedIndices = Retained(p.completedIndices, t - StateTtl)
  BY CleanupKeeps
<1>2. key = <<key[1], key[2]>>
  OBVIOUS
<1>3. \/ SameTables(q, r.state) /\ r.frames = <<>>
      \/ HandsUp(p, r, key, t)
  <2>1. CASE payload.kind # "data"
    <3>1. r = HandleRequest(q, source, payload) \/ r = Silent(q)
      BY <2>1 DEF Receive
    <3> HIDE DEF q, r
    <3> QED BY <1>1, <3>1, HandleRequestKeeps DEF Silent, Result, SameTables, ObjectInv
  <2>2. CASE payload.kind = "data"
    <3>1. r = HandleFragment(q, source, payload, allowControl, t)
      BY <2>2 DEF Receive
    <3>2. CASE key \in DOMAIN q.completedIndices
      <4>1. r = Silent(q)
        BY <3>1, <3>2 DEF HandleFragment
      <4> HIDE DEF q, r
      <4> QED BY <1>1, <4>1 DEF Silent, Result, SameTables, ObjectInv
    <3>3. CASE key \notin DOMAIN q.completedIndices
      <4>1. PICK a, i, assemblies :
              LET kept == [q EXCEPT !.assemblies = assemblies] IN
              \/ r = Silent(q)
              \/ r = Complete(q, key, a, t)
              \/ r = RequestRepair(kept, i, TRUE, t)
              \/ r = Silent(kept)
        BY <3>1 DEF HandleFragment
      <4> HIDE DEF q, r
      <4> DEFINE kept == [q EXCEPT !.assemblies = assemblies]
      <4>2. SameTables(q, kept)
        BY <1>1 DEF SameTables, ObjectInv, HasTables
      <4> HIDE DEF kept
      <4>3. CASE r = Silent(q)
        BY <1>1, <4>3 DEF Silent, Result, SameTables, ObjectInv
      <4>4. CASE r = Complete(q, key, a, t)
        BY <1>1, <1>2, <3>3, <4>4, CompleteResult DEF HandsUp
      <4>5. CASE r = RequestRepair(kept, i, TRUE, t)
        <5>1. HasTables(kept)
          BY <4>2 DEF SameTables
        <5>2. SameTables(kept, r.state) /\ r.frames = <<>>
          BY <4>5, <5>1, RequestRepairKeeps
        <5> QED BY <4>2, <5>2 DEF SameTables
      <4>6. CASE r = Silent(kept)
        BY <4>2, <4>6 DEF Silent, Result, SameTables
      <4> QED BY <4>1, <4>3, <4>4, <4>5, <4>6 DEF kept
    <3> QED BY <3>2, <3>3
  <2> QED BY <2>1, <2>2
<1> HIDE DEF q, r, key
<1>4. SameTables(q, r.state) => Quiet(p, r, t)
  BY <1>1, SameTablesKeep DEF SameTables, Quiet
<1> QED BY <1>3, <1>4 DEF r, key
-----------------------------------------------------------------------------
(* The link.                                                               *)

ObjectsInv == DOMAIN proto = Nodes /\ \A n \in Nodes : ObjectInv(proto[n], now)

Key(d) == <<d.source, d.index>>

(* The deliveries of a node: their times are past, and as long as one is   *)
(* not older than StateTtl its index is remembered, no less recently.      *)
Remembered(log, p, t) ==
  /\ \E S : log \in Seq(S)
  /\ \A j \in DOMAIN log : log[j].at \in Int /\ log[j].at <= t
  /\ \A j \in DOMAIN log : t - log[j].at <= StateTtl =>
       /\ Key(log[j]) \in DOMAIN p.completedIndices
       /\ p.completedIndices[Key(log[j])] >= log[j].at

Apart(log) ==
  \A i, j \in DOMAIN log :
    i < j /\ Key(log[i]) = Key(log[j]) => log[j].at - log[i].at > StateTtl

IInv ==
  /\ now \in Int
  /\ ObjectsInv
  /\ DOMAIN delivered = Nodes
  /\ \A n \in Nodes : Remembered(delivered[n], proto[n], now) /\ Apart(delivered[n])

LEMMA ForgettingKeeps ==
  ASSUME NEW log, NEW p, NEW q, NEW t \in Int, Remembered(log, p, t), ObjectInv(p, t),
         q.completedIndices = Retained(p.completedIndices, t - StateTtl)
  PROVE  Remembered(log, q, t)
<1>1. ASSUME NEW j \in DOMAIN log, t - log[j].at <= StateTtl
      PROVE  /\ Key(log[j]) \in DOMAIN q.completedIndices
             /\ q.completedIndices[Key(log[j])] >= log[j].at
  <2> DEFINE k == Key(log[j])
  <2>1. k \in DOMAIN p.completedIndices /\ p.completedIndices[k] >= log[j].at
    BY <1>1 DEF Remembered
  <2>2. p.completedIndices[k] \in Int /\ log[j].at \in Int
    BY <2>1 DEF ObjectInv, Past, Remembered
  <2>3. p.completedIndices[k] >= t - StateTtl
    BY <1>1, <2>1, <2>2, ProtocolAssumption
  <2> HIDE DEF k
  <2>4. k \in DOMAIN q.completedIndices /\ q.completedIndices[k] = p.completedIndices[k]
    BY <2>1, <2>3, RetainedKeeps
  <2> QED BY <2>1, <2>4 DEF k
<1> QED BY <1>1 DEF Remembered

LEMMA AppendTo ==
  ASSUME NEW log, NEW d, \E S : log \in Seq(S)
  PROVE  /\ \E T : log \o <<d>> \in Seq(T)
         /\ DOMAIN (log \o <<d>>) = DOMAIN log \cup {Len(log) + 1}
         /\ DOMAIN log \subseteq 1..Len(log) /\ Len(log) \in Nat
         /\ (log \o <<d>>)[Len(log) + 1] = d
         /\ \A j \in DOMAIN log : (log \o <<d>>)[j] = log[j]
<1>1. PICK S : log \in Seq(S)
  OBVIOUS
<1> DEFINE T == S \cup {d}
<1>2. log \in Seq(T)
  BY <1>1
<1>3. <<d>> \in Seq(T)
  OBVIOUS
<1> HIDE DEF T
<1>4. log \o <<d>> \in Seq(T)
  BY <1>2, <1>3
<1> QED BY <1>2, <1>3, <1>4

LEMMA HandingUpKeeps ==
  ASSUME NEW log, NEW p, NEW q, NEW t \in Int, NEW d, d.at = t,
         Remembered(log, p, t), Apart(log), ObjectInv(p, t),
         Key(d) \notin DOMAIN Retained(p.completedIndices, t - StateTtl),
         q.completedIndices = With(Retained(p.completedIndices, t - StateTtl), Key(d), t)
  PROVE  Remembered(log \o <<d>>, q, t) /\ Apart(log \o <<d>>)
<1> DEFINE kept == Retained(p.completedIndices, t - StateTtl)
           more == log \o <<d>>
           half == [completedIndices |-> kept]
<1>1. Remembered(log, half, t)
  BY ForgettingKeeps
<1>2. /\ \E T : more \in Seq(T)
      /\ DOMAIN more = DOMAIN log \cup {Len(log) + 1}
      /\ DOMAIN log \subseteq 1..Len(log) /\ Len(log) \in Nat
      /\ more[Len(log) + 1] = d
      /\ \A j \in DOMAIN log : more[j] = log[j]
  BY AppendTo DEF Remembered
<1>3. \A k \in DOMAIN kept : k # Key(d)
  OBVIOUS
<1> HIDE DEF kept, more
<1>4. /\ DOMAIN q.completedIndices = {Key(d)} \cup DOMAIN kept
      /\ q.completedIndices[Key(d)] = t
      /\ \A k \in DOMAIN kept : q.completedIndices[k] = kept[k]
  BY <1>3 DEF With, kept
<1>5. ASSUME NEW j \in DOMAIN log, t - log[j].at <= StateTtl
      PROVE  /\ Key(log[j]) \in DOMAIN kept /\ kept[Key(log[j])] >= log[j].at
             /\ Key(log[j]) # Key(d)
  BY <1>1, <1>3, <1>5 DEF Remembered
<1>6. \A j \in DOMAIN log : log[j].at \in Int /\ log[j].at <= t
  BY DEF Remembered
<1>7. Remembered(more, q, t)
  <2>1. ASSUME NEW j \in DOMAIN more
        PROVE  /\ more[j].at \in Int /\ more[j].at <= t
               /\ t - more[j].at <= StateTtl =>
                    /\ Key(more[j]) \in DOMAIN q.completedIndices
                    /\ q.completedIndices[Key(more[j])] >= more[j].at
    <3>1. CASE j \in DOMAIN log
      BY <1>2, <1>4, <1>5, <1>6, <3>1
    <3>2. CASE j = Len(log) + 1
      BY <1>2, <1>4, <3>2
    <3> QED BY <1>2, <3>1, <3>2
  <2> QED BY <1>2, <2>1 DEF Remembered
<1>8. Apart(more)
  <2> SUFFICES ASSUME NEW i \in DOMAIN more, NEW j \in DOMAIN more,
                      i < j, Key(more[i]) = Key(more[j])
               PROVE  more[j].at - more[i].at > StateTtl
    BY DEF Apart
  <2>1. i \in DOMAIN log
    BY <1>2
  <2>2. CASE j \in DOMAIN log
    BY <1>2, <2>1, <2>2 DEF Apart
  <2>3. CASE j = Len(log) + 1
    BY <1>2, <1>5, <1>6, <2>1, <2>3, ProtocolAssumption
  <2> QED BY <1>2, <2>2, <2>3
<1> QED BY <1>7, <1>8 DEF more
-----------------------------------------------------------------------------
LEMMA Initially == Init => IInv
<1> SUFFICES ASSUME Init PROVE IInv
  OBVIOUS
<1>1. ASSUME NEW n \in Nodes
      PROVE  /\ ObjectInv(proto[n], now)
             /\ delivered[n] = <<>>
  <2>1. proto[n] = InitProtocol /\ delivered[n] = <<>>
    BY DEF Init
  <2>2. /\ HasTables(InitProtocol) /\ InitProtocol.completed = EmptyMap
        /\ InitProtocol.completedIndices = EmptyMap
    BY DEF InitProtocol, HasTables
  <2>3. DOMAIN EmptyMap = {}
    BY DEF EmptyMap
  <2> QED BY <2>1, <2>2, <2>3 DEF ObjectInv, Past, CompletedIsIndexed
<1>2. \A p : Remembered(<<>>, p, now) /\ Apart(<<>>)
  <2>1. <<>> \in Seq({}) /\ DOMAIN <<>> = {}
    OBVIOUS
  <2> QED BY <2>1 DEF Remembered, Apart
<1>3. now \in Int /\ DOMAIN proto = Nodes /\ DOMAIN delivered = Nodes
  BY DEF Init
<1> QED BY <1>1, <1>2, <1>3 DEF IInv, ObjectsInv

(* A node that calls without handing a frame up.                           *)
LEMMA QuietStep ==
  ASSUME IInv, NEW n, NEW r, n \in Nodes => Quiet(proto[n], r, now),
         proto' = [proto EXCEPT ![n] = r.state], now' = now,
         DOMAIN delivered' = Nodes, \A m \in Nodes : delivered'[m] = delivered[m]
  PROVE  IInv'
<1>1. ASSUME NEW m \in Nodes
      PROVE  /\ ObjectInv(proto'[m], now)
             /\ Remembered(delivered'[m], proto'[m], now) /\ Apart(delivered'[m])
  <2>1. CASE m = n
    <3>1. proto'[m] = r.state /\ Quiet(proto[m], r, now) /\ ObjectInv(proto[m], now)
      BY <2>1 DEF IInv, ObjectsInv
    <3>2. now \in Int /\ Remembered(delivered[m], proto[m], now) /\ Apart(delivered[m])
      BY DEF IInv
    <3>3. Remembered(delivered[m], r.state, now)
      BY <3>1, <3>2, ForgettingKeeps DEF Quiet
    <3> QED BY <3>1, <3>2, <3>3 DEF Quiet
  <2>2. CASE m # n
    BY <2>2 DEF IInv, ObjectsInv
  <2> QED BY <2>1, <2>2
<1> QED BY <1>1 DEF IInv, ObjectsInv

LEMMA DeliverStep ==
  ASSUME IInv, NEW packet, NEW allowControl, NEW again, Deliver(packet, allowControl, again)
  PROVE  IInv'
<1> DEFINE n == packet.dst
           r == Receive(proto[n], packet.src, packet.payload, allowControl, now)
           key == <<packet.src, packet.payload.index>>
           up == [j \in DOMAIN r.frames |->
                    [source |-> packet.src, index |-> packet.payload.index,
                     frame |-> r.frames[j], at |-> now]]
<1>1. /\ proto' = [proto EXCEPT ![n] = r.state] /\ now' = now
      /\ delivered' = [delivered EXCEPT ![n] = delivered[n] \o up]
  BY DEF Deliver, Commit
<1>2. CASE n \notin Nodes
  <2> HIDE DEF n, r, up
  <2>1. /\ DOMAIN proto' = Nodes /\ DOMAIN delivered' = Nodes
        /\ \A m \in Nodes : proto'[m] = proto[m] /\ delivered'[m] = delivered[m]
    BY <1>1, <1>2 DEF IInv, ObjectsInv
  <2> QED BY <1>1, <2>1 DEF IInv, ObjectsInv
<1>3. CASE n \in Nodes
  <2>1. now \in Int /\ ObjectInv(proto[n], now)
    BY <1>3 DEF IInv, ObjectsInv
  <2>2. \/ Quiet(proto[n], r, now) /\ r.frames = <<>>
        \/ HandsUp(proto[n], r, key, now)
    BY <2>1, ReceiveResult
  <2>3. CASE Quiet(proto[n], r, now) /\ r.frames = <<>>
    <3>1. up = <<>>
      BY <2>3
    <3>2. PICK S : delivered[n] \in Seq(S)
      BY <1>3 DEF IInv, Remembered
    <3>3. delivered[n] \o up = delivered[n]
      <4> HIDE DEF up, n
      <4> QED BY <3>1, <3>2
    <3> HIDE DEF n, r, up
    <3>4. DOMAIN delivered' = Nodes /\ \A m \in Nodes : delivered'[m] = delivered[m]
      BY <1>1, <3>3 DEF IInv
    <3> QED BY <1>1, <2>3, <3>4, QuietStep
  <2>4. CASE HandsUp(proto[n], r, key, now)
    <3>1. PICK frame : r.frames = <<frame>>
      BY <2>4 DEF HandsUp
    <3> DEFINE d == [source |-> packet.src, index |-> packet.payload.index,
                     frame |-> frame, at |-> now]
    <3>2. up = <<d>>
      <4> HIDE DEF r
      <4> QED BY <3>1
    <3>3. Key(d) = key /\ d.at = now
      BY DEF Key
    <3> HIDE DEF r, key, d, up, n
    <3>4. /\ Remembered(delivered[n] \o <<d>>, r.state, now)
          /\ Apart(delivered[n] \o <<d>>)
      BY <1>3, <2>1, <2>4, <3>3, HandingUpKeeps DEF HandsUp, IInv
    <3>5. ASSUME NEW m \in Nodes
          PROVE  /\ ObjectInv(proto'[m], now)
                 /\ Remembered(delivered'[m], proto'[m], now) /\ Apart(delivered'[m])
      <4>1. CASE m = n
        BY <1>1, <2>4, <3>2, <3>4, <4>1 DEF IInv, ObjectsInv, HandsUp
      <4>2. CASE m # n
        BY <1>1, <4>2 DEF IInv, ObjectsInv
      <4> QED BY <4>1, <4>2
    <3> QED BY <1>1, <3>5 DEF IInv, ObjectsInv
  <2> QED BY <2>2, <2>3, <2>4
<1> QED BY <1>2, <1>3

LEMMA RestartStep ==
  ASSUME IInv, NEW n, Restart(n)
  PROVE  IInv'
<1>1. /\ proto' = [proto EXCEPT ![n] = InitProtocol] /\ now' = now
      /\ delivered' = [delivered EXCEPT ![n] = <<>>]
  BY DEF Restart
<1>2. now \in Int /\ HasTables(InitProtocol) /\ InitProtocol.completed = EmptyMap
      /\ InitProtocol.completedIndices = EmptyMap /\ DOMAIN EmptyMap = {}
  BY DEF IInv, InitProtocol, HasTables, EmptyMap
<1>3. ObjectInv(InitProtocol, now)
  BY <1>2 DEF ObjectInv, Past, CompletedIsIndexed
<1>4. Remembered(<<>>, InitProtocol, now) /\ Apart(<<>>)
  <2>1. <<>> \in Seq({}) /\ DOMAIN <<>> = {}
    OBVIOUS
  <2> QED BY <2>1 DEF Remembered, Apart
<1>5. ASSUME NEW m \in Nodes
      PROVE  /\ ObjectInv(proto'[m], now)
             /\ Remembered(delivered'[m], proto'[m], now) /\ Apart(delivered'[m])
  <2>1. CASE m = n
    BY <1>1, <1>3, <1>4, <2>1 DEF IInv, ObjectsInv
  <2>2. CASE m # n
    BY <1>1, <2>2 DEF IInv, ObjectsInv
  <2> QED BY <2>1, <2>2
<1> QED BY <1>1, <1>5 DEF IInv, ObjectsInv

LEMMA TickStep ==
  ASSUME IInv, Tick
  PROVE  IInv'
<1>1. now \in Int /\ now' = now + 1 /\ proto' = proto /\ delivered' = delivered
  BY DEF IInv, Tick
<1>2. ASSUME NEW m \in Nodes
      PROVE  /\ ObjectInv(proto[m], now + 1)
             /\ Remembered(delivered[m], proto[m], now + 1)
  <2>1. ObjectInv(proto[m], now) /\ Remembered(delivered[m], proto[m], now)
    BY DEF IInv, ObjectsInv
  <2>2. ObjectInv(proto[m], now + 1)
    BY <1>1, <2>1 DEF ObjectInv, Past
  <2>3. Remembered(delivered[m], proto[m], now + 1)
    BY <1>1, <2>1, ProtocolAssumption DEF Remembered
  <2> QED BY <2>2, <2>3
<1> QED BY <1>1, <1>2 DEF IInv, ObjectsInv

LEMMA Inductive == IInv /\ [Next]_vars => IInv'
<1> SUFFICES ASSUME IInv, [Next]_vars PROVE IInv'
  OBVIOUS
<1>1. now \in Int /\ \A n \in Nodes : ObjectInv(proto[n], now)
  BY DEF IInv, ObjectsInv
<1>2. ASSUME NEW n, NEW destination, NEW frame, Send(n, destination, frame)
      PROVE  IInv'
  <2> DEFINE r == Encode(proto[n], frame, destination, now)
  <2>1. proto' = [proto EXCEPT ![n] = r.state] /\ now' = now /\ delivered' = delivered
    BY <1>2 DEF Send, Commit
  <2>2. n \in Nodes => Quiet(proto[n], r, now)
    BY <1>1, EncodeIsQuiet
  <2> HIDE DEF r
  <2> QED BY <2>1, <2>2, QuietStep DEF IInv
<1>3. ASSUME NEW n, NEW allowControl, Poll(n, allowControl)
      PROVE  IInv'
  <2> DEFINE r == PollRepairs(proto[n], allowControl, now)
  <2>1. proto' = [proto EXCEPT ![n] = r.state] /\ now' = now /\ delivered' = delivered
    BY <1>3 DEF Poll, Commit
  <2>2. n \in Nodes => Quiet(proto[n], r, now)
    BY <1>1, PollIsQuiet
  <2> HIDE DEF r
  <2> QED BY <2>1, <2>2, QuietStep DEF IInv
<1>4. ASSUME NEW packet, Lose(packet)
      PROVE  IInv'
  BY <1>4 DEF Lose, IInv, ObjectsInv
<1>5. CASE UNCHANGED vars
  BY <1>5 DEF vars, IInv, ObjectsInv
<1> QED BY <1>2, <1>3, <1>4, <1>5, DeliverStep, RestartStep, TickStep DEF Next

(* Of the two tables of completed frames, the one by index covers the one  *)
(* by digest in every reachable state, for every choice of lifetimes, loss *)
(* and restarts: the digest test of _handle_fragment_locked never drops a  *)
(* frame that the index test let through.                                  *)
THEOREM CompletedFramesAreIndexed == Spec => []CompletionDelivers
<1>1. IInv => CompletionDelivers
  BY DEF IInv, ObjectsInv, ObjectInv, CompletionDelivers
<1> QED BY <1>1, Initially, Inductive, PTL DEF Spec

(* However a radio loses, duplicates and delays fragments, a node hands    *)
(* one (source, index) to Reticulum at most once within StateTtl.          *)
THEOREM DeliveredOnce == Spec => []DeliveredOncePerTtl
<1>1. IInv => DeliveredOncePerTtl
  <2> SUFFICES ASSUME IInv, NEW n \in Nodes,
                      NEW i \in DOMAIN delivered[n], NEW j \in DOMAIN delivered[n],
                      i < j, delivered[n][i].source = delivered[n][j].source,
                      delivered[n][i].index = delivered[n][j].index
               PROVE  delivered[n][j].at - delivered[n][i].at > StateTtl
    BY DEF DeliveredOncePerTtl
  <2> QED BY DEF IInv, Apart, Key
<1> QED BY <1>1, Initially, Inductive, PTL DEF Spec
-----------------------------------------------------------------------------
(* Entries of a sequence, selected by their positions.                     *)

(* A set of natural numbers has a least element.                           *)
LEMMA LeastNat ==
  ASSUME NEW S \in SUBSET Nat, S # {}
  PROVE  \E m \in S : \A k \in S : m <= k
<1>1. PICK m \in S : \A k \in S : ~(<<k, m>> \in OpToRel(<, Nat))
  BY WFMin, NatLessThanWellFounded
<1>2. \A k \in S : ~(k < m)
  BY <1>1 DEF OpToRel
<1> QED BY <1>2

LEMMA MinOf ==
  ASSUME NEW S \in SUBSET Nat, S # {}
  PROVE  Min(S) \in S /\ \A k \in S : Min(S) <= k
BY LeastNat DEF Min

(* How many members of keep are at most n.                                 *)
Rank(keep, n) == Cardinality({j \in keep : j <= n})

LEMMA RankStep ==
  ASSUME NEW keep \in SUBSET Nat, IsFiniteSet(keep), NEW n \in Nat
  PROVE  /\ Rank(keep, n) \in Nat /\ Rank(keep, n) <= Cardinality(keep)
         /\ n + 1 \in keep => Rank(keep, n + 1) = Rank(keep, n) + 1
         /\ n + 1 \notin keep => Rank(keep, n + 1) = Rank(keep, n)
<1> DEFINE low == {j \in keep : j <= n}
           next == {j \in keep : j <= n + 1}
<1>1. IsFiniteSet(low) /\ Cardinality(low) \in Nat /\ Cardinality(low) <= Cardinality(keep)
  BY FS_Subset, FS_CardinalityType
<1>2. n + 1 \in keep => next = low \cup {n + 1}
  <2>1. \A j \in keep : j <= n + 1 <=> j <= n \/ j = n + 1
    OBVIOUS
  <2> QED BY <2>1
<1>3. n + 1 \notin low
  OBVIOUS
<1>4. n + 1 \notin keep => next = low
  <2>1. \A j \in keep : j <= n + 1 <=> j <= n \/ j = n + 1
    OBVIOUS
  <2> QED BY <2>1
<1> HIDE DEF low, next
<1>5. n + 1 \in keep => Cardinality(next) = Cardinality(low) + 1
  BY <1>1, <1>2, <1>3, FS_AddElement
<1> QED BY <1>1, <1>4, <1>5 DEF Rank, low, next

LEMMA RankGrows ==
  ASSUME NEW keep \in SUBSET Nat, IsFiniteSet(keep), NEW m \in Nat, NEW n \in keep, m < n
  PROVE  Rank(keep, m) < Rank(keep, n)
<1> DEFINE low == {j \in keep : j <= m}
           high == {j \in keep : j <= n}
<1>1. IsFiniteSet(high) /\ low \subseteq high /\ n \in high /\ n \notin low
  <2>1. \A j \in keep : j <= m => j <= n
    OBVIOUS
  <2>2. low \subseteq high
    BY <2>1
  <2>3. high \in SUBSET keep /\ n \in high /\ n \notin low
    OBVIOUS
  <2>4. IsFiniteSet(high)
    BY <2>3, FS_Subset
  <2> QED BY <2>2, <2>3, <2>4
<1> HIDE DEF low, high
<1>2. IsFiniteSet(low) /\ Cardinality(low) <= Cardinality(high)
      /\ (Cardinality(low) = Cardinality(high) => low = high)
  BY <1>1, FS_Subset
<1>3. Cardinality(low) \in Nat /\ Cardinality(high) \in Nat
  BY <1>1, <1>2, FS_CardinalityType
<1> QED BY <1>1, <1>2, <1>3 DEF Rank, low, high

(* Every k up to the size of keep is the rank of exactly one member.       *)
LEMMA NthFacts ==
  ASSUME NEW L \in Nat, NEW keep \in SUBSET (1..L)
  PROVE  /\ IsFiniteSet(keep) /\ Cardinality(keep) \in Nat
         /\ \A k \in 1..Cardinality(keep) :
              Nth(keep, k) \in keep /\ Rank(keep, Nth(keep, k)) = k
         /\ \A i \in keep : /\ Rank(keep, i) \in 1..Cardinality(keep)
                            /\ Nth(keep, Rank(keep, i)) = i
<1> DEFINE N == Cardinality(keep)
<1>0. IsFiniteSet(keep) /\ N \in Nat /\ keep \in SUBSET Nat
  <2>1. IsFiniteSet(1..L)
    BY FS_Interval
  <2>2. IsFiniteSet(keep)
    BY <2>1, FS_Subset
  <2> QED BY <2>2, FS_CardinalityType
<1>1. Rank(keep, 0) = 0
  <2>1. \A j \in keep : ~(j <= 0)
    OBVIOUS
  <2>2. {j \in keep : j <= 0} = {}
    BY <2>1
  <2> QED BY <2>2, FS_EmptySet DEF Rank
<1>2. Rank(keep, L) = N
  <2>1. \A j \in keep : j <= L
    OBVIOUS
  <2>2. {j \in keep : j <= L} = keep
    BY <2>1
  <2> QED BY <2>2 DEF Rank
<1>3. \A i, j \in keep : Rank(keep, i) = Rank(keep, j) => i = j
  <2> SUFFICES ASSUME NEW i \in keep, NEW j \in keep, i < j
               PROVE  Rank(keep, i) # Rank(keep, j)
    BY <1>0
  <2>1. Rank(keep, i) \in Nat /\ Rank(keep, j) \in Nat /\ Rank(keep, i) < Rank(keep, j)
    BY <1>0, RankStep, RankGrows
  <2> QED BY <2>1
<1>4. \A i \in keep : Nth(keep, Rank(keep, i)) = i
  <2> SUFFICES ASSUME NEW i \in keep PROVE Nth(keep, Rank(keep, i)) = i
    OBVIOUS
  <2>1. \A h \in keep : Cardinality({j \in keep : j <= h}) = Rank(keep, h)
    BY DEF Rank
  <2> HIDE DEF N
  <2> QED BY <1>3, <2>1 DEF Nth
<1>5. \A i \in keep : Rank(keep, i) \in 1..N
  <2> SUFFICES ASSUME NEW i \in keep PROVE Rank(keep, i) \in 1..N
    OBVIOUS
  <2>1. 0 \in Nat /\ i \in Nat /\ 0 < i
    BY <1>0
  <2>2. Rank(keep, 0) < Rank(keep, i)
    BY <1>0, <2>1, RankGrows
  <2>3. Rank(keep, i) \in Nat /\ Rank(keep, i) <= N
    BY <1>0, <2>1, RankStep
  <2> HIDE DEF N
  <2> QED BY <1>0, <1>1, <2>2, <2>3
<1>6. \A k \in 1..N : \E i \in keep : Rank(keep, i) = k
  <2> SUFFICES ASSUME NEW k \in 1..N PROVE \E i \in keep : Rank(keep, i) = k
    OBVIOUS
  <2> DEFINE S == {n \in Nat : Rank(keep, n) >= k}
  <2>1. S \in SUBSET Nat /\ L \in S
    BY <1>0, <1>2
  <2>2. PICK m \in S : \A n \in S : m <= n
    BY <2>1, LeastNat
  <2>3. m \in Nat /\ Rank(keep, m) >= k
    BY <2>2
  <2>4. m # 0
    BY <1>1, <2>3
  <2>5. m - 1 \in Nat /\ m - 1 \notin S
    BY <2>2, <2>3, <2>4
  <2>6. (m - 1) + 1 = m
    BY <2>3
  <2>7. /\ Rank(keep, m - 1) \in Nat
        /\ m \in keep => Rank(keep, m) = Rank(keep, m - 1) + 1
        /\ m \notin keep => Rank(keep, m) = Rank(keep, m - 1)
    BY <1>0, <2>5, <2>6, RankStep
  <2>8. Rank(keep, m - 1) < k
    BY <2>5, <2>7
  <2> HIDE DEF S, N
  <2> QED BY <2>3, <2>7, <2>8, <1>0
<1>7. \A k \in 1..N : Nth(keep, k) \in keep /\ Rank(keep, Nth(keep, k)) = k
  BY <1>4, <1>6
<1> QED BY <1>0, <1>4, <1>5, <1>7

(* What is kept are the entries of keep, each once.                        *)
LEMMA KeptFacts ==
  ASSUME NEW T, NEW s \in Seq(T), NEW keep \in SUBSET DOMAIN s
  PROVE  /\ Kept(s, keep) \in Seq(T) /\ Len(Kept(s, keep)) <= Len(s)
         /\ \A k \in DOMAIN Kept(s, keep) :
              Nth(keep, k) \in keep /\ Kept(s, keep)[k] = s[Nth(keep, k)]
         /\ \A j, k \in DOMAIN Kept(s, keep) : j # k => Nth(keep, j) # Nth(keep, k)
         /\ \A i \in keep : \E k \in DOMAIN Kept(s, keep) : Kept(s, keep)[k] = s[i]
<1> DEFINE L == Len(s)
           N == Cardinality(keep)
<1>1. L \in Nat /\ DOMAIN s = 1..L /\ keep \in SUBSET (1..L)
  OBVIOUS
<1> HIDE DEF L
<1>2. /\ IsFiniteSet(keep) /\ N \in Nat
      /\ \A k \in 1..N : Nth(keep, k) \in keep /\ Rank(keep, Nth(keep, k)) = k
      /\ \A i \in keep : Rank(keep, i) \in 1..N /\ Nth(keep, Rank(keep, i)) = i
  BY <1>1, NthFacts
<1>3. N <= L
  <2>1. IsFiniteSet(1..L) /\ Cardinality(1..L) = L
    BY <1>1, FS_Interval
  <2> QED BY <1>1, <2>1, FS_Subset
<1> HIDE DEF N
<1>4. Kept(s, keep) = [k \in 1..N |-> s[Nth(keep, k)]]
  BY DEF Kept, N
<1>5. Kept(s, keep) \in Seq(T) /\ DOMAIN Kept(s, keep) = 1..N /\ Len(Kept(s, keep)) = N
  <2>1. \A k \in 1..N : s[Nth(keep, k)] \in T
    BY <1>2
  <2> QED BY <1>2, <1>4, <2>1
<1>6. \A j, k \in 1..N : j # k => Nth(keep, j) # Nth(keep, k)
  BY <1>2
<1>7. \A i \in keep : \E k \in 1..N : Kept(s, keep)[k] = s[i]
  <2> SUFFICES ASSUME NEW i \in keep PROVE \E k \in 1..N : Kept(s, keep)[k] = s[i]
    OBVIOUS
  <2>1. Rank(keep, i) \in 1..N /\ Nth(keep, Rank(keep, i)) = i
    BY <1>2
  <2> QED BY <1>4, <2>1
<1> QED BY <1>2, <1>3, <1>4, <1>5, <1>6, <1>7 DEF L

(* The first entry that passes, or 0.                                      *)
LEMMA Selected ==
  ASSUME NEW T, NEW s \in Seq(T), NEW key
  PROVE  LET i == SelectInSeq(s, LAMBDA b : <<b.source, b.index>> = key) IN
         \/ i = 0 /\ \A k \in DOMAIN s : <<s[k].source, s[k].index>> # key
         \/ i \in DOMAIN s /\ <<s[i].source, s[i].index>> = key
<1> DEFINE I == {k \in 1..Len(s) : <<s[k].source, s[k].index>> = key}
<1>1. SelectInSeq(s, LAMBDA b : <<b.source, b.index>> = key) = IF I # {} THEN Min(I) ELSE 0
  BY DEF SelectInSeq
<1>2. I \in SUBSET Nat /\ DOMAIN s = 1..Len(s)
  OBVIOUS
<1>3. I # {} => Min(I) \in I
  BY <1>2, MinOf
<1> QED BY <1>1, <1>2, <1>3

-----------------------------------------------------------------------------
(* What a protocol object is made of.                                      *)

IsSeq(s) == \E T : s \in Seq(T)

IsAssembly(a, t) ==
  /\ {"source", "index", "updatedAt", "fragments", "finalPosition", "repairs"} \subseteq DOMAIN a
  /\ a.updatedAt \in Int /\ a.updatedAt <= t
  /\ a.finalPosition \in Nat
  /\ DOMAIN a.fragments \subseteq Nat \ {0}
  /\ DOMAIN a.repairs \subseteq Nat
  /\ \A q \in DOMAIN a.repairs :
       /\ a.repairs[q].at \in Int /\ a.repairs[q].at <= t
       /\ a.repairs[q].attempts \in Nat

IsData(payload) == payload.kind = "data" /\ payload.position \in Int \ {0}

IsEntry(c, t) ==
  /\ c.createdAt \in Int /\ c.createdAt <= t
  /\ \A i \in DOMAIN c.fragments : IsData(c.fragments[i])

Distinct(table) ==
  \A i, j \in DOMAIN table : i # j => Key(table[i]) # Key(table[j])

IsTable(table, t) ==
  /\ IsSeq(table)
  /\ \A k \in DOMAIN table : IsAssembly(table[k], t)
  /\ Distinct(table)

IsCache(cache, t) ==
  /\ IsSeq(cache)
  /\ \A k \in DOMAIN cache : IsEntry(cache[k], t)

IsObject(p, t) ==
  /\ {"nextIndex", "assemblies", "txCache", "repairTimes"} \subseteq DOMAIN p
  /\ IsTable(p.assemblies, t)
  /\ IsCache(p.txCache, t)
  /\ p.repairTimes \in Seq(Int)

(* An entry of the second sequence for each of the first.                  *)
Selection(kept, s) ==
  IsSeq(kept) /\ \A k \in DOMAIN kept : \E i \in DOMAIN s : kept[k] = s[i]

LEMMA KeptIsSelection ==
  ASSUME NEW s, IsSeq(s), NEW keep \in SUBSET DOMAIN s
  PROVE  /\ Selection(Kept(s, keep), s)
         /\ \A k \in DOMAIN Kept(s, keep) : \E i \in keep : Kept(s, keep)[k] = s[i]
         /\ \A i \in keep : \E k \in DOMAIN Kept(s, keep) : Kept(s, keep)[k] = s[i]
<1>1. PICK T : s \in Seq(T)
  BY DEF IsSeq
<1>2. /\ Kept(s, keep) \in Seq(T)
      /\ \A k \in DOMAIN Kept(s, keep) :
           Nth(keep, k) \in keep /\ Kept(s, keep)[k] = s[Nth(keep, k)]
      /\ \A i \in keep : \E k \in DOMAIN Kept(s, keep) : Kept(s, keep)[k] = s[i]
  BY <1>1, KeptFacts
<1> QED BY <1>2 DEF Selection, IsSeq

LEMMA KeptIsTable ==
  ASSUME NEW table, NEW t, IsTable(table, t), NEW keep \in SUBSET DOMAIN table
  PROVE  IsTable(Kept(table, keep), t)
<1>1. PICK T : table \in Seq(T)
  BY DEF IsTable, IsSeq
<1> DEFINE kept == Kept(table, keep)
<1>2. /\ kept \in Seq(T)
      /\ \A k \in DOMAIN kept : Nth(keep, k) \in keep /\ kept[k] = table[Nth(keep, k)]
      /\ \A j, k \in DOMAIN kept : j # k => Nth(keep, j) # Nth(keep, k)
  BY <1>1, KeptFacts
<1> HIDE DEF kept
<1>3. \A k \in DOMAIN kept : IsAssembly(kept[k], t)
  BY <1>2 DEF IsTable
<1>4. Distinct(kept)
  BY <1>2 DEF IsTable, Distinct
<1> QED BY <1>2, <1>3, <1>4 DEF IsTable, IsSeq, kept

LEMMA KeptIsCache ==
  ASSUME NEW cache, NEW t, IsCache(cache, t), NEW keep \in SUBSET DOMAIN cache
  PROVE  IsCache(Kept(cache, keep), t)
<1>1. IsSeq(cache)
  BY DEF IsCache
<1>2. Selection(Kept(cache, keep), cache)
  BY <1>1, KeptIsSelection
<1> QED BY <1>2 DEF IsCache, Selection

(* What is popped from the front is not newer.                             *)
LEMMA NewerFacts ==
  ASSUME NEW times \in Seq(Int), NEW cutoff \in Int
  PROVE  LET left == NewerThan(times, cutoff) IN
         /\ left \in Seq(Int) /\ Len(left) <= Len(times)
         /\ \A k \in 1..Len(left) : left[k] = times[Len(times) - Len(left) + k]
         /\ \A i \in 1..Len(times) - Len(left) : times[i] <= cutoff
<1> DEFINE newer == {i \in DOMAIN times : times[i] > cutoff}
           L == Len(times)
<1>1. L \in Nat /\ DOMAIN times = 1..L /\ newer \in SUBSET Nat
  OBVIOUS
<1>2. NewerThan(times, cutoff) = IF newer = {} THEN <<>> ELSE SubSeq(times, Min(newer), L)
  BY DEF NewerThan
<1>3. CASE newer = {}
  <2>1. \A i \in 1..L : times[i] <= cutoff
    BY <1>1, <1>3
  <2> HIDE DEF newer
  <2> QED BY <1>1, <1>2, <1>3, <2>1
<1>4. CASE newer # {}
  <2> DEFINE m == Min(newer)
  <2>1. m \in newer /\ \A k \in newer : m <= k
    BY <1>1, <1>4, MinOf
  <2>2. m \in 1..L
    BY <1>1, <2>1
  <2>3. ASSUME NEW i \in 1..m - 1 PROVE times[i] <= cutoff
    <3>1. i \in 1..L /\ times[i] \in Int /\ ~(m <= i)
      BY <1>1, <2>2
    <3>2. i \notin newer
      BY <2>1, <3>1
    <3> QED BY <1>1, <3>1, <3>2
  <2> HIDE DEF newer, m
  <2>4. SubSeq(times, m, L) \in Seq(Int) /\ Len(SubSeq(times, m, L)) = L - m + 1
        /\ \A k \in 1..L - m + 1 : SubSeq(times, m, L)[k] = times[m + k - 1]
    BY <1>1, <2>2
  <2>5. NewerThan(times, cutoff) = SubSeq(times, m, L)
    BY <1>2, <1>4 DEF m
  <2> DEFINE left == SubSeq(times, m, L)
  <2> HIDE DEF left
  <2>6. /\ left \in Seq(Int) /\ Len(left) = L - m + 1
        /\ \A k \in 1..L - m + 1 : left[k] = times[m + k - 1]
    BY <2>4 DEF left
  <2> HIDE DEF L
  <2>7. L - Len(left) = m - 1 /\ Len(left) <= L
    BY <1>1, <2>2, <2>6
  <2>8. \A k \in 1..Len(left) : left[k] = times[L - Len(left) + k]
    BY <1>1, <2>2, <2>6, <2>7
  <2> QED BY <2>3, <2>5, <2>6, <2>7, <2>8 DEF L, left
<1> QED BY <1>3, <1>4

LEMMA FreshType ==
  ASSUME NEW times \in Seq(Int), NEW t \in Int
  PROVE  FreshRepairTimes(times, t) \in Seq(Int)
<1>1. t - RepairWindow \in Int
  BY ProtocolAssumption
<1>2. NewerThan(times, t - RepairWindow) \in Seq(Int)
  BY <1>1, NewerFacts
<1> QED BY <1>2 DEF FreshRepairTimes

LEMMA CleanupShape ==
  ASSUME NEW p, NEW t \in Int, IsObject(p, t)
  PROVE  LET q == Cleanup(p, t) IN
         /\ IsObject(q, t) /\ q.nextIndex = p.nextIndex
         /\ q.repairTimes = FreshRepairTimes(p.repairTimes, t)
         /\ Selection(q.assemblies, p.assemblies) /\ Selection(q.txCache, p.txCache)
         /\ \A k \in DOMAIN q.assemblies : q.assemblies[k].updatedAt >= t - StateTtl
         /\ \A k \in DOMAIN q.txCache : q.txCache[k].createdAt >= t - StateTtl
<1> DEFINE cutoff == t - StateTtl
           q == Cleanup(p, t)
           keepA == {i \in DOMAIN p.assemblies : p.assemblies[i].updatedAt >= cutoff}
           keepC == {i \in DOMAIN p.txCache : p.txCache[i].createdAt >= cutoff}
<1>1. /\ q.assemblies = Unexpired(p.assemblies, cutoff)
      /\ q.txCache = UnexpiredTx(p.txCache, cutoff)
      /\ q.repairTimes = FreshRepairTimes(p.repairTimes, t)
      /\ q.nextIndex = p.nextIndex /\ DOMAIN q = DOMAIN p
  BY DEF Cleanup, IsObject
<1>2. q.assemblies = Kept(p.assemblies, keepA) /\ q.txCache = Kept(p.txCache, keepC)
  BY <1>1 DEF Unexpired, UnexpiredTx
<1>3. keepA \in SUBSET DOMAIN p.assemblies /\ keepC \in SUBSET DOMAIN p.txCache
  OBVIOUS
<1>4. /\ \A i \in keepA : p.assemblies[i].updatedAt >= cutoff
      /\ \A i \in keepC : p.txCache[i].createdAt >= cutoff
  OBVIOUS
<1> HIDE DEF keepA, keepC, q, cutoff
<1>5. IsTable(q.assemblies, t) /\ IsCache(q.txCache, t)
  BY <1>2, <1>3, KeptIsTable, KeptIsCache DEF IsObject
<1>6. /\ Selection(q.assemblies, p.assemblies)
      /\ \A k \in DOMAIN q.assemblies : \E i \in keepA : q.assemblies[k] = p.assemblies[i]
  BY <1>2, <1>3, KeptIsSelection DEF IsObject, IsTable
<1>7. /\ Selection(q.txCache, p.txCache)
      /\ \A k \in DOMAIN q.txCache : \E i \in keepC : q.txCache[k] = p.txCache[i]
  BY <1>2, <1>3, KeptIsSelection DEF IsObject, IsCache
<1>8. q.repairTimes \in Seq(Int)
  BY <1>1, NewerFacts, ProtocolAssumption DEF FreshRepairTimes, IsObject
<1>9. IsObject(q, t)
  BY <1>1, <1>5, <1>8 DEF IsObject
<1> QED BY <1>1, <1>4, <1>6, <1>7, <1>9 DEF q, cutoff

-----------------------------------------------------------------------------
(* What the methods do, said of their results.                             *)

LEMMA MissingIsOpen ==
  ASSUME NEW a, NEW t, IsAssembly(a, t)
  PROVE  /\ Missing(a) \in SUBSET Nat
         /\ \A q \in Missing(a) : q \notin DOMAIN a.fragments /\ (q = 0 <=> a.finalPosition = 0)
<1>1. CASE a.finalPosition = 0
  BY <1>1 DEF Missing, IsAssembly
<1>2. CASE a.finalPosition # 0
  BY <1>2 DEF Missing, IsAssembly
<1> QED BY <1>1, <1>2

(* The assembly a is asked for position q at time t.                       *)
IsAsked(a, q, t) ==
  /\ q \in Missing(a)
  /\ q \in DOMAIN a.repairs =>
       /\ a.repairs[q].attempts < MaxRepairAttempts
       /\ t - a.repairs[q].at >= RequestCooldown * 2^(a.repairs[q].attempts)

Asking(a, q, t) == [a EXCEPT !.repairs = With(@, q, NextRepair(a, q, t))]

(* The request for position q of the assembly i of p, within the budget.   *)
Asks(p, i, q, r, t) ==
  LET a == p.assemblies[i]
      times == FreshRepairTimes(p.repairTimes, t)
  IN /\ IsAsked(a, q, t)
     /\ Len(times) < RepairBudget
     /\ r.state = [p EXCEPT !.repairTimes = Append(times, t),
                            !.assemblies = [@ EXCEPT ![i] = Asking(a, q, t)]]
     /\ r.transmissions = <<Transmission(a.source, RequestPayload(a.index, q))>>
     /\ r.frames = <<>>

IsSilent(p, r) == r.state = p /\ r.transmissions = <<>> /\ r.frames = <<>>

LEMMA SilentIsSilent == ASSUME NEW p PROVE IsSilent(p, Silent(p))
BY DEF IsSilent, Silent, Result

LEMMA RequestRepairShape ==
  ASSUME NEW p, NEW t \in Int, IsObject(p, t), NEW i \in DOMAIN p.assemblies, NEW immediate
  PROVE  LET r == RequestRepair(p, i, immediate, t) IN
         IsSilent(p, r) \/ \E q : Asks(p, i, q, r, t)
<1> DEFINE a == p.assemblies[i]
           due == Due(a, immediate, t)
           times == FreshRepairTimes(p.repairTimes, t)
           q == Min(due)
           asking == [p EXCEPT !.repairTimes = Append(times, t),
                               !.assemblies[i].repairs = With(@, q, NextRepair(a, q, t))]
           request == <<Transmission(a.source, RequestPayload(a.index, q))>>
           r == RequestRepair(p, i, immediate, t)
<1>1. r = IF due = {} \/ Len(times) >= RepairBudget THEN Silent(p)
          ELSE Result(asking, request, <<>>)
  BY DEF RequestRepair
<1>2. CASE due = {} \/ Len(times) >= RepairBudget
  <2>1. r = Silent(p)
    BY <1>1, <1>2
  <2> QED BY <2>1, SilentIsSilent
<1>3. CASE due # {} /\ ~(Len(times) >= RepairBudget)
  <2>1. IsAssembly(a, t)
    BY DEF IsObject, IsTable
  <2>2. due \subseteq Missing(a)
    BY DEF Due
  <2>3. due \in SUBSET Nat
    BY <2>1, <2>2, MissingIsOpen
  <2>4. q \in due
    BY <1>3, <2>3, MinOf
  <2>5. IsAsked(a, q, t)
    <3> HIDE DEF q, a
    <3> QED BY <2>4 DEF Due, IsAsked
  <2>6. times \in Seq(Int)
    BY FreshType DEF IsObject
  <2>7. Len(times) < RepairBudget
    <3> HIDE DEF times
    <3> QED BY <1>3, <2>6, ProtocolAssumption
  <2>8. r = Result(asking, request, <<>>)
    BY <1>1, <1>3
  <2>9. asking = [p EXCEPT !.repairTimes = Append(times, t),
                           !.assemblies = [@ EXCEPT ![i] = Asking(a, q, t)]]
    <3> HIDE DEF q, times
    <3> QED BY DEF Asking
  <2> HIDE DEF q, times, asking, due
  <2>10. Asks(p, i, q, r, t)
    <3> HIDE DEF r
    <3> QED BY <2>5, <2>7, <2>8, <2>9 DEF Asks, Result, times
  <2> QED BY <2>10
<1> QED BY <1>2, <1>3

(* A fragment enters the assembly of its key, or starts one.               *)
Enters(p, key, payload, i, table, t) ==
  /\ IsSeq(table) /\ i \in DOMAIN table
  /\ \A k \in DOMAIN table \ {i} : k \in DOMAIN p.assemblies /\ table[k] = p.assemblies[k]
  /\ DOMAIN p.assemblies \subseteq DOMAIN table
  /\ \/ /\ i \in DOMAIN p.assemblies /\ Key(p.assemblies[i]) = key
        /\ table[i] = AddFragment(p.assemblies[i], payload, t)
     \/ /\ i \notin DOMAIN p.assemblies
        /\ \A k \in DOMAIN p.assemblies : Key(p.assemblies[k]) # key
        /\ table[i] = AddFragment(NewAssembly(key[1], key[2], t), payload, t)

(* The results of a fragment that is not dropped.                          *)
Reassembles(p, key, payload, i, table, r, t) ==
  LET a == table[i]
      kept == [p EXCEPT !.assemblies = table]
  IN \/ Missing(a) = {} /\ r = Complete(p, key, a, t)
     \/ Missing(a) # {} /\ IsSilent(kept, r)
     \/ Missing(a) # {} /\ r = RequestRepair(kept, i, TRUE, t)

LEMMA HandleFragmentShape ==
  ASSUME NEW p, NEW t \in Int, IsObject(p, t), NEW source, NEW payload, NEW allowControl
  PROVE  LET r == HandleFragment(p, source, payload, allowControl, t)
             key == <<source, payload.index>>
         IN \/ IsSilent(p, r)
            \/ /\ payload.position # 0
               /\ \E i, table : Enters(p, key, payload, i, table, t)
                                /\ Reassembles(p, key, payload, i, table, r, t)
<1> DEFINE key == <<source, payload.index>>
           at == SelectInSeq(p.assemblies, LAMBDA b : <<b.source, b.index>> = key)
           i == IF at = 0 THEN Len(p.assemblies) + 1 ELSE at
           old == IF at = 0 THEN NewAssembly(source, payload.index, t) ELSE p.assemblies[at]
           a == AddFragment(old, payload, t)
           table == IF at = 0 THEN Append(p.assemblies, a) ELSE ReplaceAt(p.assemblies, at, a)
           kept == [p EXCEPT !.assemblies = table]
           r == HandleFragment(p, source, payload, allowControl, t)
<1>1. r = IF payload.position = 0 \/ key \in DOMAIN p.completedIndices THEN Silent(p)
          ELSE IF Missing(a) = {} THEN Complete(p, key, a, t)
          ELSE IF allowControl /\ a.finalPosition # 0 THEN RequestRepair(kept, i, TRUE, t)
          ELSE Silent(kept)
  BY DEF HandleFragment
<1>2. PICK T : p.assemblies \in Seq(T)
  BY DEF IsObject, IsTable, IsSeq
<1>3. \/ at = 0 /\ \A k \in DOMAIN p.assemblies : Key(p.assemblies[k]) # key
      \/ at \in DOMAIN p.assemblies /\ Key(p.assemblies[at]) = key
  BY <1>2, Selected DEF Key
<1>4. key[1] = source /\ key[2] = payload.index
  OBVIOUS
<1> HIDE DEF at, r
<1>5. Enters(p, key, payload, i, table, t) /\ table[i] = a
  <2> DEFINE s == p.assemblies
  <2>1. Len(s) \in Nat /\ DOMAIN s = 1..Len(s) /\ s \in Seq(T \cup {a})
    BY <1>2
  <2>2. CASE at = 0
    <3>1. \A k \in DOMAIN s : Key(s[k]) # key
      BY <1>3, <2>1, <2>2
    <3>2. i = Len(s) + 1 /\ table = Append(s, a) /\ a = AddFragment(NewAssembly(key[1], key[2], t), payload, t)
      BY <1>4, <2>2
    <3> HIDE DEF i, table, a, s, key
    <3>3. /\ table \in Seq(T \cup {a}) /\ DOMAIN table = 1..Len(s) + 1
          /\ table[Len(s) + 1] = a /\ \A k \in 1..Len(s) : table[k] = s[k]
      BY <2>1, <3>2
    <3>4. IsSeq(table)
      BY <3>3 DEF IsSeq
    <3> QED BY <2>1, <3>1, <3>2, <3>3, <3>4 DEF Enters, s
  <2>3. CASE at # 0
    <3>1. at \in DOMAIN s /\ Key(s[at]) = key
      BY <1>3, <2>3
    <3>2. i = at /\ table = ReplaceAt(s, at, a) /\ a = AddFragment(s[at], payload, t)
      BY <2>3
    <3> HIDE DEF i, table, a, s, key
    <3>3. /\ table \in Seq(T \cup {a}) /\ DOMAIN table = 1..Len(s)
          /\ table[at] = a /\ \A k \in DOMAIN s \ {at} : table[k] = s[k]
      BY <2>1, <3>1, <3>2 DEF ReplaceAt
    <3>4. IsSeq(table)
      BY <3>3 DEF IsSeq
    <3> QED BY <2>1, <3>1, <3>2, <3>3, <3>4 DEF Enters, s
  <2> QED BY <2>2, <2>3
<1> HIDE DEF i, table, a, key
<1>6. IsSilent(p, Silent(p)) /\ IsSilent(kept, Silent(kept))
  BY SilentIsSilent
<1>7. IsSilent(p, r) \/ (payload.position # 0 /\ Reassembles(p, key, payload, i, table, r, t))
  BY <1>1, <1>5, <1>6 DEF Reassembles
<1> QED BY <1>5, <1>7 DEF r, key

(* A step of an assembly that asks for no position that was already there: *)
(* what it is still open for, it was open for, with the same requests.     *)
Open(a) == {q \in Nat : q \notin DOMAIN a.fragments /\ (q = 0 => a.finalPosition = 0)}

SameRequests(a, b) ==
  \A q \in Open(b) :
    /\ q \in Open(a)
    /\ q \in DOMAIN b.repairs <=> q \in DOMAIN a.repairs
    /\ q \in DOMAIN b.repairs => b.repairs[q] = a.repairs[q]

LEMMA AddFragmentFacts ==
  ASSUME NEW t \in Int, NEW a, IsAssembly(a, t), NEW payload, IsData(payload)
  PROVE  LET b == AddFragment(a, payload, t)
             position == Abs(payload.position)
         IN /\ IsAssembly(b, t) /\ b.source = a.source /\ b.index = a.index
            /\ position \in Nat \ {0}
            /\ b.fragments = With(a.fragments, position, payload.body)
            /\ b.finalPosition = IF payload.position < 0 THEN position ELSE a.finalPosition
            /\ b.updatedAt \in {t, a.updatedAt}
            /\ SameRequests(a, b)
<1> DEFINE b == AddFragment(a, payload, t)
           position == Abs(payload.position)
           final == payload.position < 0
           progress == \/ position \notin DOMAIN a.fragments
                       \/ a.fragments[position] # payload.body
                       \/ final /\ a.finalPosition # position
           answered == (IF progress THEN {position} ELSE {}) \cup (IF final THEN {0} ELSE {})
<1>1. position \in Nat \ {0}
  BY DEF Abs, IsData
<1>2. b = [a EXCEPT !.updatedAt = IF progress THEN t ELSE @,
                    !.fragments = With(@, position, payload.body),
                    !.finalPosition = IF final THEN position ELSE @,
                    !.repairs = Restrict(@, DOMAIN @ \ answered)]
  BY DEF AddFragment
<1>3. answered \subseteq {position} \cup (IF final THEN {0} ELSE {})
  OBVIOUS
<1> HIDE DEF answered, progress, b, position
<1>4. /\ DOMAIN b = DOMAIN a /\ b.source = a.source /\ b.index = a.index
      /\ b.updatedAt = IF progress THEN t ELSE a.updatedAt
      /\ b.fragments = With(a.fragments, position, payload.body)
      /\ b.finalPosition = IF final THEN position ELSE a.finalPosition
      /\ b.repairs = Restrict(a.repairs, DOMAIN a.repairs \ answered)
  BY <1>2 DEF IsAssembly
<1>5. /\ DOMAIN b.repairs = DOMAIN a.repairs \ answered
      /\ \A q \in DOMAIN b.repairs : b.repairs[q] = a.repairs[q]
  BY <1>4 DEF Restrict
<1>6. DOMAIN b.fragments = {position} \cup DOMAIN a.fragments
  BY <1>4 DEF With
<1>7. IsAssembly(b, t)
  <2>1. b.updatedAt \in Int /\ b.updatedAt <= t /\ b.finalPosition \in Nat
    BY <1>1, <1>4 DEF IsAssembly
  <2>2. DOMAIN b.fragments \subseteq Nat \ {0} /\ DOMAIN b.repairs \subseteq Nat
    BY <1>1, <1>5, <1>6 DEF IsAssembly
  <2>3. \A q \in DOMAIN b.repairs :
          /\ b.repairs[q].at \in Int /\ b.repairs[q].at <= t
          /\ b.repairs[q].attempts \in Nat
    BY <1>5 DEF IsAssembly
  <2> QED BY <1>4, <2>1, <2>2, <2>3 DEF IsAssembly
<1>8. SameRequests(a, b)
  <2> SUFFICES ASSUME NEW q \in Nat, q \notin DOMAIN b.fragments,
                      q = 0 => b.finalPosition = 0
               PROVE  /\ q \notin DOMAIN a.fragments /\ (q = 0 => a.finalPosition = 0)
                      /\ q \in DOMAIN b.repairs <=> q \in DOMAIN a.repairs
                      /\ q \in DOMAIN b.repairs => b.repairs[q] = a.repairs[q]
    BY DEF SameRequests, Open
  <2>1. q \notin DOMAIN a.fragments /\ q # position
    BY <1>6
  <2>2. q = 0 => ~final /\ a.finalPosition = 0
    BY <1>1, <1>4
  <2>3. q \notin answered
    BY <1>3, <2>1, <2>2
  <2> QED BY <1>5, <2>1, <2>2, <2>3
<1> QED BY <1>1, <1>4, <1>7, <1>8 DEF b, position

LEMMA NewAssemblyFacts ==
  ASSUME NEW t \in Int, NEW source, NEW index
  PROVE  LET a == NewAssembly(source, index, t) IN
         /\ IsAssembly(a, t) /\ a.source = source /\ a.index = index
         /\ DOMAIN a.fragments = {} /\ a.finalPosition = 0 /\ DOMAIN a.repairs = {}
         /\ a.updatedAt = t
<1>1. DOMAIN EmptyMap = {}
  BY DEF EmptyMap
<1> QED BY <1>1 DEF NewAssembly, IsAssembly

LEMMA EntersFacts ==
  ASSUME NEW p, NEW t \in Int, IsObject(p, t), NEW key, key = <<key[1], key[2]>>,
         NEW payload, IsData(payload), NEW i, NEW table, Enters(p, key, payload, i, table, t)
  PROVE  /\ IsTable(table, t) /\ Key(table[i]) = key
         /\ IsObject([p EXCEPT !.assemblies = table], t)
<1>1. IsAssembly(table[i], t) /\ Key(table[i]) = key
  <2>1. CASE i \in DOMAIN p.assemblies /\ Key(p.assemblies[i]) = key
    <3>1. table[i] = AddFragment(p.assemblies[i], payload, t)
      BY <2>1 DEF Enters
    <3>2. IsAssembly(p.assemblies[i], t)
      BY <2>1 DEF IsObject, IsTable
    <3> QED BY <2>1, <3>1, <3>2, AddFragmentFacts DEF Key
  <2>2. CASE i \notin DOMAIN p.assemblies
    <3> DEFINE a == NewAssembly(key[1], key[2], t)
    <3>1. table[i] = AddFragment(a, payload, t)
      BY <2>2 DEF Enters
    <3>2. IsAssembly(a, t) /\ a.source = key[1] /\ a.index = key[2]
      BY NewAssemblyFacts
    <3> HIDE DEF a
    <3> QED BY <3>1, <3>2, AddFragmentFacts DEF Key
  <2> QED BY <2>1, <2>2 DEF Enters
<1>2. \A k \in DOMAIN table : k # i => k \in DOMAIN p.assemblies /\ table[k] = p.assemblies[k]
  BY DEF Enters
<1>3. \A k \in DOMAIN table : k # i => Key(table[k]) # key
  <2>1. CASE i \in DOMAIN p.assemblies /\ Key(p.assemblies[i]) = key
    BY <1>2, <2>1 DEF IsObject, IsTable, Distinct
  <2>2. CASE \A k \in DOMAIN p.assemblies : Key(p.assemblies[k]) # key
    BY <1>2, <2>2
  <2> QED BY <2>1, <2>2 DEF Enters
<1>4. Distinct(table)
  <2> SUFFICES ASSUME NEW j \in DOMAIN table, NEW k \in DOMAIN table, j # k
               PROVE  Key(table[j]) # Key(table[k])
    BY DEF Distinct
  <2>1. CASE j = i \/ k = i
    BY <1>1, <1>3, <2>1
  <2>2. CASE j # i /\ k # i
    BY <1>2, <2>2 DEF IsObject, IsTable, Distinct
  <2> QED BY <2>1, <2>2
<1>5. \A k \in DOMAIN table : IsAssembly(table[k], t)
  BY <1>1, <1>2 DEF IsObject, IsTable
<1>6. IsTable(table, t)
  BY <1>4, <1>5 DEF IsTable, Enters
<1> QED BY <1>1, <1>6 DEF IsObject

LEMMA AskingFacts ==
  ASSUME NEW a, NEW t \in Int, IsAssembly(a, t), NEW q \in Missing(a)
  PROVE  LET b == Asking(a, q, t) IN
         /\ IsAssembly(b, t) /\ q \in Nat
         /\ b.source = a.source /\ b.index = a.index /\ b.updatedAt = a.updatedAt
         /\ b.fragments = a.fragments /\ b.finalPosition = a.finalPosition
         /\ DOMAIN b.repairs = {q} \cup DOMAIN a.repairs
         /\ b.repairs[q].at = t
         /\ b.repairs[q].attempts =
              IF q \in DOMAIN a.repairs THEN a.repairs[q].attempts + 1 ELSE 1
         /\ \A x \in DOMAIN a.repairs : x # q => b.repairs[x] = a.repairs[x]
<1> DEFINE b == Asking(a, q, t)
           new == NextRepair(a, q, t)
<1>1. q \in Nat
  BY MissingIsOpen
<1>2. /\ DOMAIN b = DOMAIN a /\ b.repairs = With(a.repairs, q, new)
      /\ b.source = a.source /\ b.index = a.index /\ b.updatedAt = a.updatedAt
      /\ b.fragments = a.fragments /\ b.finalPosition = a.finalPosition
  BY DEF Asking, IsAssembly
<1>3. new.at = t /\ new.attempts = IF q \in DOMAIN a.repairs THEN a.repairs[q].attempts + 1 ELSE 1
  BY DEF NextRepair
<1>4. new.attempts \in Nat
  BY <1>3 DEF IsAssembly
<1> HIDE DEF b, new
<1>5. /\ DOMAIN b.repairs = {q} \cup DOMAIN a.repairs /\ b.repairs[q] = new
      /\ \A x \in DOMAIN a.repairs : x # q => b.repairs[x] = a.repairs[x]
  BY <1>2 DEF With
<1>6. \A x \in DOMAIN b.repairs :
        /\ b.repairs[x].at \in Int /\ b.repairs[x].at <= t
        /\ b.repairs[x].attempts \in Nat
  BY <1>3, <1>4, <1>5 DEF IsAssembly
<1>7. DOMAIN b.repairs \subseteq Nat
  BY <1>1, <1>5 DEF IsAssembly
<1>8. IsAssembly(b, t)
  BY <1>2, <1>6, <1>7 DEF IsAssembly
<1> QED BY <1>1, <1>2, <1>3, <1>5, <1>8 DEF b

LEMMA AsksFacts ==
  ASSUME NEW p, NEW t \in Int, IsObject(p, t), NEW i \in DOMAIN p.assemblies,
         NEW q, NEW r, Asks(p, i, q, r, t)
  PROVE  LET table == r.state.assemblies IN
         /\ IsObject(r.state, t)
         /\ DOMAIN table = DOMAIN p.assemblies
         /\ table[i] = Asking(p.assemblies[i], q, t)
         /\ \A k \in DOMAIN table : /\ k # i => table[k] = p.assemblies[k]
                                    /\ Key(table[k]) = Key(p.assemblies[k])
         /\ r.state.repairTimes = Append(FreshRepairTimes(p.repairTimes, t), t)
         /\ r.state.txCache = p.txCache
<1> DEFINE a == p.assemblies[i]
           new == Asking(a, q, t)
           table == [p.assemblies EXCEPT ![i] = new]
           times == FreshRepairTimes(p.repairTimes, t)
<1>1. IsAssembly(a, t) /\ q \in Missing(a)
  BY DEF IsObject, IsTable, Asks, IsAsked
<1>2. IsAssembly(new, t) /\ Key(new) = Key(a)
  BY <1>1, AskingFacts DEF Key
<1>3. r.state = [p EXCEPT !.repairTimes = Append(times, t), !.assemblies = table]
  BY DEF Asks
<1>4. PICK T : p.assemblies \in Seq(T)
  BY DEF IsObject, IsTable, IsSeq
<1>5. times \in Seq(Int)
  BY FreshType DEF IsObject
<1> HIDE DEF times, new
<1>6. Append(times, t) \in Seq(Int)
  BY <1>5
<1>7. table \in Seq(T \cup {new}) /\ DOMAIN table = DOMAIN p.assemblies
  BY <1>4
<1>8. \A k \in DOMAIN table : /\ k # i => table[k] = p.assemblies[k]
                              /\ Key(table[k]) = Key(p.assemblies[k])
  BY <1>2, <1>7
<1>9. table[i] = new
  OBVIOUS
<1> HIDE DEF table
<1>10. Distinct(table)
  BY <1>7, <1>8 DEF IsObject, IsTable, Distinct
<1>11. \A k \in DOMAIN table : IsAssembly(table[k], t)
  BY <1>2, <1>7, <1>8, <1>9 DEF IsObject, IsTable
<1>12. IsTable(table, t)
  BY <1>7, <1>10, <1>11 DEF IsTable, IsSeq
<1>13. /\ DOMAIN r.state = DOMAIN p /\ r.state.assemblies = table
       /\ r.state.repairTimes = Append(times, t) /\ r.state.txCache = p.txCache
  BY <1>3 DEF IsObject
<1>14. IsObject(r.state, t)
  BY <1>6, <1>12, <1>13 DEF IsObject
<1> QED BY <1>7, <1>8, <1>9, <1>13, <1>14 DEF times, new

(* The frame of a complete assembly.                                       *)
Assembled(a) == [q \in 1..a.finalPosition |-> a.fragments[q]]

LEMMA CompleteShape ==
  ASSUME NEW p, NEW t \in Int, IsObject(p, t), NEW key, NEW a,
         NEW r, r = Complete(p, key, a, t)
  PROVE  /\ IsObject(r.state, t)
         /\ r.state.txCache = p.txCache /\ r.state.repairTimes = p.repairTimes
         /\ Selection(r.state.assemblies, p.assemblies)
         /\ r.transmissions = <<>>
         /\ r.frames = <<>> \/ r.frames = <<Assembled(a)>>
<1> DEFINE frame == Assembled(a)
           done == <<key[1], key[2], frame>>
           left == Without(p.assemblies, key)
           rest == [p EXCEPT !.assemblies = left]
           keep == {i \in DOMAIN p.assemblies :
                      <<p.assemblies[i].source, p.assemblies[i].index>> # key}
<1>1. r = IF done \in DOMAIN p.completed THEN Silent(rest)
          ELSE Result(MarkCompleted(rest, done, t), <<>>, <<frame>>)
  BY DEF Complete, Assembled
<1>2. left = Kept(p.assemblies, keep) /\ keep \in SUBSET DOMAIN p.assemblies
  BY DEF Without
<1> HIDE DEF left, frame, keep
<1>3. IsTable(left, t) /\ Selection(left, p.assemblies)
  BY <1>2, KeptIsTable, KeptIsSelection DEF IsObject, IsTable
<1>4. IsObject(rest, t) /\ rest.txCache = p.txCache /\ rest.repairTimes = p.repairTimes
      /\ rest.assemblies = left
  BY <1>3 DEF IsObject
<1> HIDE DEF rest, done
<1>5. LET m == MarkCompleted(rest, done, t) IN
        /\ DOMAIN m = DOMAIN rest /\ m.txCache = rest.txCache
        /\ m.repairTimes = rest.repairTimes /\ m.assemblies = rest.assemblies
  BY <1>4 DEF MarkCompleted, IsObject
<1>6. r.state.txCache = p.txCache /\ r.state.repairTimes = p.repairTimes
      /\ r.state.assemblies = left /\ DOMAIN r.state = DOMAIN rest
      /\ r.transmissions = <<>> /\ (r.frames = <<>> \/ r.frames = <<frame>>)
  BY <1>1, <1>4, <1>5 DEF Silent, Result
<1>7. IsObject(r.state, t)
  BY <1>3, <1>4, <1>6 DEF IsObject
<1> QED BY <1>3, <1>6, <1>7 DEF frame

LEMMA HandleRequestShape ==
  ASSUME NEW p, NEW t \in Int, IsObject(p, t), NEW source, NEW payload
  PROVE  LET r == HandleRequest(p, source, payload) IN
         /\ r.state = p /\ r.frames = <<>>
         /\ \/ r.transmissions = <<>>
            \/ \E k \in DOMAIN p.txCache : \E i \in DOMAIN p.txCache[k].fragments :
                 r.transmissions = <<Transmission(source, p.txCache[k].fragments[i])>>
<1> DEFINE entry(destination) ==
             SelectInSeq(p.txCache, LAMBDA c :
               c.index = payload.index /\ c.destination = destination)
           hit == IF entry(source) # 0 THEN entry(source) ELSE entry(Broadcast)
           parts == p.txCache[hit].fragments
           requested == IF payload.position = 0 THEN Len(parts) ELSE Abs(payload.position)
           r == HandleRequest(p, source, payload)
<1>1. r = IF hit # 0 /\ requested \in DOMAIN parts
          THEN Result(p, <<Transmission(source, parts[requested])>>, <<>>)
          ELSE Silent(p)
  BY DEF HandleRequest
<1>2. \A d : entry(d) = 0 \/ entry(d) \in DOMAIN p.txCache
  <2> SUFFICES ASSUME NEW d PROVE entry(d) = 0 \/ entry(d) \in DOMAIN p.txCache
    OBVIOUS
  <2> DEFINE I == {k \in 1..Len(p.txCache) :
                     p.txCache[k].index = payload.index /\ p.txCache[k].destination = d}
  <2>1. entry(d) = IF I # {} THEN Min(I) ELSE 0
    BY DEF SelectInSeq
  <2>2. PICK T : p.txCache \in Seq(T)
    BY DEF IsObject, IsCache, IsSeq
  <2>3. I \in SUBSET Nat /\ I \in SUBSET DOMAIN p.txCache
    BY <2>2
  <2>4. I # {} => Min(I) \in I
    BY <2>3, MinOf
  <2> HIDE DEF I, entry
  <2> QED BY <2>1, <2>3, <2>4
<1> HIDE DEF entry
<1>3. hit = 0 \/ hit \in DOMAIN p.txCache
  BY <1>2
<1> HIDE DEF hit, requested, r
<1> QED BY <1>1, <1>3 DEF Silent, Result, r

LEMMA FragmentsFacts ==
  ASSUME NEW T, NEW frame \in Seq(T), NEW index
  PROVE  LET parts == Fragments(frame, index) IN
         /\ DOMAIN parts = DOMAIN frame
         /\ \A i \in DOMAIN parts :
              /\ IsData(parts[i]) /\ parts[i].index = index
              /\ Abs(parts[i].position) = i /\ parts[i].body = frame[i]
              /\ parts[i].position < 0 <=> i = Len(frame)
<1> SUFFICES ASSUME NEW i \in DOMAIN frame
             PROVE  LET x == DataPayload(index, IF i = Len(frame) THEN -i ELSE i, frame[i]) IN
                    /\ IsData(x) /\ x.index = index
                    /\ Abs(x.position) = i /\ x.body = frame[i]
                    /\ x.position < 0 <=> i = Len(frame)
  BY DEF Fragments
<1>1. i \in Nat \ {0}
  OBVIOUS
<1> QED BY <1>1 DEF DataPayload, IsData, Abs

Each(destination, parts) == [i \in DOMAIN parts |-> Transmission(destination, parts[i])]

NewEntry(index, destination, t, parts) ==
  [index |-> index, destination |-> destination, createdAt |-> t, fragments |-> parts]

LEMMA EncodeShape ==
  ASSUME NEW p, NEW t \in Int, IsObject(p, t),
         NEW T, NEW frame \in Seq(T), NEW destination,
         NEW r, r = Encode(p, frame, destination, t),
         NEW q, q = Cleanup(p, t),
         NEW parts, parts = Fragments(frame, p.nextIndex)
  PROVE  /\ IsObject(r.state, t)
         /\ r.state.assemblies = q.assemblies /\ r.state.repairTimes = q.repairTimes
         /\ r.frames = <<>>
         /\ r.transmissions = Each(destination, parts)
         /\ \A k \in DOMAIN r.state.txCache :
              \/ \E j \in DOMAIN q.txCache : r.state.txCache[k] = q.txCache[j]
              \/ r.state.txCache[k] = NewEntry(p.nextIndex, destination, t, parts)
<1> DEFINE new == NewEntry(q.nextIndex, destination, t, parts)
           keep == {i \in DOMAIN q.txCache :
                      q.txCache[i].index # q.nextIndex \/ q.txCache[i].destination # destination}
           others == Others(q.txCache, q.nextIndex, destination)
           cache == Append(others, new)
           left == IF Len(cache) > TxCacheLimit THEN Tail(cache) ELSE cache
           next == NextIndex(q.nextIndex)
<1>1. IsObject(q, t) /\ q.nextIndex = p.nextIndex
  BY CleanupShape
<1>2. r = Result([q EXCEPT !.nextIndex = next, !.txCache = left],
                 Each(destination, parts), <<>>)
  BY <1>1 DEF Encode, Each, NewEntry
<1>3. others = Kept(q.txCache, keep) /\ keep \in SUBSET DOMAIN q.txCache
  BY DEF Others
<1>4. IsEntry(new, t)
  BY FragmentsFacts DEF IsEntry, NewEntry
<1> HIDE DEF others, keep, new, next
<1>5. Selection(others, q.txCache) /\ IsCache(others, t)
  BY <1>1, <1>3, KeptIsSelection, KeptIsCache DEF IsObject, IsCache
<1>6. PICK S : others \in Seq(S)
  BY <1>5 DEF IsCache, IsSeq
<1>7. /\ cache \in Seq(S \cup {new}) /\ DOMAIN cache = 1..Len(others) + 1
      /\ \A k \in DOMAIN cache : cache[k] = new \/ (k \in DOMAIN others /\ cache[k] = others[k])
  <2>1. others \in Seq(S \cup {new}) /\ Len(others) \in Nat /\ DOMAIN others = 1..Len(others)
    BY <1>6
  <2>2. cache \in Seq(S \cup {new}) /\ Len(cache) = Len(others) + 1
    BY <2>1
  <2>3. \A k \in 1..Len(others) + 1 : cache[k] = IF k = Len(others) + 1 THEN new ELSE others[k]
    BY <2>1
  <2> HIDE DEF cache
  <2>4. DOMAIN cache = 1..Len(others) + 1
    BY <2>2
  <2>5. ASSUME NEW k \in 1..Len(others) + 1
        PROVE  cache[k] = new \/ (k \in DOMAIN others /\ cache[k] = others[k])
    BY <2>1, <2>3
  <2> QED BY <2>2, <2>4, <2>5
<1>8. /\ left \in Seq(S \cup {new})
      /\ \A k \in DOMAIN left : left[k] = new \/ \E j \in DOMAIN others : left[k] = others[j]
  <2>1. CASE left = cache
    BY <1>7, <2>1
  <2>2. CASE left = Tail(cache)
    <3> HIDE DEF cache, left
    <3>1. cache # <<>>
      BY <1>6, <1>7
    <3>2. /\ Tail(cache) \in Seq(S \cup {new})
          /\ \A k \in DOMAIN Tail(cache) : k + 1 \in DOMAIN cache /\ Tail(cache)[k] = cache[k + 1]
      BY <1>7, <3>1
    <3> QED BY <1>7, <2>2, <3>2
  <2> QED BY <2>1, <2>2
<1> HIDE DEF left, cache
<1>9. \A k \in DOMAIN left : left[k] = new \/ \E j \in DOMAIN q.txCache : left[k] = q.txCache[j]
  BY <1>5, <1>8 DEF Selection
<1>10. IsCache(left, t)
  BY <1>1, <1>4, <1>8, <1>9 DEF IsCache, IsSeq, IsObject
<1>11. /\ r.state.txCache = left /\ r.state.assemblies = q.assemblies
       /\ r.state.repairTimes = q.repairTimes /\ DOMAIN r.state = DOMAIN q
       /\ r.frames = <<>>
       /\ r.transmissions = Each(destination, parts)
  <2>1. /\ r.state = [q EXCEPT !.nextIndex = next, !.txCache = left] /\ r.frames = <<>>
        /\ r.transmissions = Each(destination, parts)
    BY <1>2 DEF Result
  <2> QED BY <1>1, <2>1 DEF IsObject
<1>12. IsObject(r.state, t)
  BY <1>1, <1>10, <1>11 DEF IsObject
<1> QED BY <1>1, <1>9, <1>11, <1>12 DEF new

(* Assemblies that stay, without a request of their own, and new ones.     *)
Moves(old, new) ==
  \A k \in DOMAIN new :
    \/ \E j \in DOMAIN old : Key(old[j]) = Key(new[k]) /\ SameRequests(old[j], new[k])
    \/ /\ \A j \in DOMAIN old : Key(old[j]) # Key(new[k])
       /\ \A q \in Open(new[k]) : q \notin DOMAIN new[k].repairs

LEMMA SelectionMoves ==
  ASSUME NEW old, NEW new, Selection(new, old)
  PROVE  Moves(old, new)
BY DEF Selection, Moves, SameRequests

LEMMA EntersMoves ==
  ASSUME NEW p, NEW t \in Int, IsObject(p, t), NEW key, key = <<key[1], key[2]>>,
         NEW payload, IsData(payload), NEW i, NEW table, Enters(p, key, payload, i, table, t)
  PROVE  Moves(p.assemblies, table)
<1> SUFFICES ASSUME NEW k \in DOMAIN table
             PROVE  \/ \E j \in DOMAIN p.assemblies :
                         Key(p.assemblies[j]) = Key(table[k]) /\ SameRequests(p.assemblies[j], table[k])
                    \/ /\ \A j \in DOMAIN p.assemblies : Key(p.assemblies[j]) # Key(table[k])
                       /\ \A q \in Open(table[k]) : q \notin DOMAIN table[k].repairs
  BY DEF Moves
<1>1. CASE k # i
  <2>1. k \in DOMAIN p.assemblies /\ table[k] = p.assemblies[k]
    BY <1>1 DEF Enters
  <2> QED BY <2>1 DEF SameRequests
<1>2. CASE k = i /\ i \in DOMAIN p.assemblies
  <2>1. table[i] = AddFragment(p.assemblies[i], payload, t)
    BY <1>2 DEF Enters
  <2>2. IsAssembly(p.assemblies[i], t)
    BY <1>2 DEF IsObject, IsTable
  <2>3. SameRequests(p.assemblies[i], table[i]) /\ Key(table[i]) = Key(p.assemblies[i])
    BY <2>1, <2>2, AddFragmentFacts DEF Key
  <2> QED BY <1>2, <2>3
<1>3. CASE k = i /\ i \notin DOMAIN p.assemblies
  <2> DEFINE a == NewAssembly(key[1], key[2], t)
  <2>1. table[i] = AddFragment(a, payload, t) /\ \A j \in DOMAIN p.assemblies : Key(p.assemblies[j]) # key
    BY <1>3 DEF Enters
  <2>2. IsAssembly(a, t) /\ DOMAIN a.repairs = {} /\ a.source = key[1] /\ a.index = key[2]
    BY NewAssemblyFacts
  <2> HIDE DEF a
  <2>3. SameRequests(a, table[i]) /\ Key(table[i]) = key
    BY <2>1, <2>2, AddFragmentFacts DEF Key
  <2> QED BY <1>3, <2>1, <2>2, <2>3 DEF SameRequests
<1> QED BY <1>1, <1>2, <1>3

(* A call of node n: it asks for nothing, or for one position.             *)
AsksNothing(p, r, t) ==
  LET q == Cleanup(p, t) IN
  /\ IsObject(r.state, t)
  /\ r.state.repairTimes = q.repairTimes
  /\ Moves(q.assemblies, r.state.assemblies)
  /\ Requests(r.transmissions) = <<>>

AsksOnce(p, m, i, x, r, t) ==
  LET q == Cleanup(p, t) IN
  /\ IsObject(m, t)
  /\ m.repairTimes = q.repairTimes
  /\ Moves(q.assemblies, m.assemblies)
  /\ i \in DOMAIN m.assemblies
  /\ Asks(m, i, x, r, t)

IsCall(p, r, t) == AsksNothing(p, r, t) \/ \E m, i, x : AsksOnce(p, m, i, x, r, t)

LEMMA RequestsFacts ==
  /\ Requests(<<>>) = <<>>
  /\ \A d, x : x.kind = "data" => Requests(<<Transmission(d, x)>>) = <<>>
  /\ \A d, index, q : Requests(<<Transmission(d, RequestPayload(index, q))>>)
                        = <<Transmission(d, RequestPayload(index, q))>>
BY DEF Requests, Transmission, RequestPayload

LEMMA EncodeIsCall ==
  ASSUME NEW p, NEW t \in Int, IsObject(p, t),
         NEW T, NEW frame \in Seq(T), NEW destination
  PROVE  IsCall(p, Encode(p, frame, destination, t), t)
<1> SUFFICES ASSUME NEW r, r = Encode(p, frame, destination, t),
                    NEW q, q = Cleanup(p, t),
                    NEW parts, parts = Fragments(frame, p.nextIndex)
             PROVE  IsCall(p, r, t)
  OBVIOUS
<1>1. /\ IsObject(r.state, t)
      /\ r.state.assemblies = q.assemblies /\ r.state.repairTimes = q.repairTimes
      /\ r.transmissions = Each(destination, parts)
  BY EncodeShape
<1>2. DOMAIN parts = DOMAIN frame /\ \A i \in DOMAIN parts : parts[i].kind = "data"
  BY FragmentsFacts DEF IsData
<1>3. Moves(q.assemblies, q.assemblies)
  BY DEF Moves, SameRequests
<1>4. Requests(r.transmissions) = <<>>
  <2>1. CASE frame = <<>>
    BY <1>1, <1>2, <2>1, RequestsFacts DEF Each
  <2>2. CASE frame # <<>>
    <3>1. 1 \in DOMAIN parts
      BY <1>2, <2>2
    <3>2. r.transmissions[1].payload.kind = "data"
      BY <1>1, <1>2, <3>1 DEF Transmission, Each
    <3> QED BY <3>2 DEF Requests
  <2> QED BY <2>1, <2>2
<1> QED BY <1>1, <1>3, <1>4 DEF IsCall, AsksNothing

LEMMA AskingIsCall ==
  ASSUME NEW p, NEW t \in Int, NEW m, IsObject(m, t), NEW i \in DOMAIN m.assemblies,
         m.repairTimes = Cleanup(p, t).repairTimes,
         Moves(Cleanup(p, t).assemblies, m.assemblies),
         NEW immediate
  PROVE  /\ IsCall(p, RequestRepair(m, i, immediate, t), t)
         /\ \A r : IsSilent(m, r) => IsCall(p, r, t)
<1> DEFINE q == Cleanup(p, t)
<1>1. ASSUME NEW r, IsSilent(m, r) PROVE IsCall(p, r, t)
  <2> HIDE DEF q
  <2>1. r.state = m /\ Requests(r.transmissions) = <<>>
    BY <1>1, RequestsFacts DEF IsSilent
  <2> QED BY <2>1 DEF IsCall, AsksNothing
<1>2. IsCall(p, RequestRepair(m, i, immediate, t), t)
  <2> DEFINE r == RequestRepair(m, i, immediate, t)
  <2>1. IsSilent(m, r) \/ \E x : Asks(m, i, x, r, t)
    BY RequestRepairShape
  <2> HIDE DEF r
  <2>2. ASSUME NEW x, Asks(m, i, x, r, t) PROVE IsCall(p, r, t)
    BY <2>2 DEF IsCall, AsksOnce
  <2> QED BY <1>1, <2>1, <2>2 DEF r
<1> QED BY <1>1, <1>2

(* r is silent, or the request of some assembly of q.                      *)
RepairOf(q, i, r, t) == \E immediate : r = RequestRepair(q, i, immediate, t)

PollsOnce(q, r, t) ==
  IsSilent(q, r) \/ \E i \in DOMAIN q.assemblies : RepairOf(q, i, r, t)

LEMMA PollShape ==
  ASSUME NEW p, NEW t \in Int, IsObject(p, t), NEW allowControl
  PROVE  PollsOnce(Cleanup(p, t), PollRepairs(p, allowControl, t), t)
<1> SUFFICES ASSUME NEW q, q = Cleanup(p, t), NEW r, r = PollRepairs(p, allowControl, t)
             PROVE  PollsOnce(q, r, t)
  OBVIOUS
<1> DEFINE stalled(a) == t - a.updatedAt >= RequestCooldown /\ Due(a, FALSE, t) # {}
           i == SelectInSeq(q.assemblies, LAMBDA a :
                  t - a.updatedAt >= RequestCooldown /\ Due(a, FALSE, t) # {})
           I == {k \in 1..Len(q.assemblies) : stalled(q.assemblies[k])}
<1>1. IsObject(q, t)
  BY CleanupShape
<1>2. r = IF allowControl /\ i # 0 THEN RequestRepair(q, i, FALSE, t) ELSE Silent(q)
  BY DEF PollRepairs
<1>3. i = IF I # {} THEN Min(I) ELSE 0
  BY DEF SelectInSeq
<1> HIDE DEF i
<1>4. PICK T : q.assemblies \in Seq(T)
  BY <1>1 DEF IsObject, IsTable, IsSeq
<1>5. I \in SUBSET Nat /\ I \in SUBSET DOMAIN q.assemblies
  <2> HIDE DEF stalled
  <2> QED BY <1>4
<1> HIDE DEF I
<1>6. i = 0 \/ i \in DOMAIN q.assemblies
  BY <1>3, <1>5, MinOf
<1>7. IsSilent(q, Silent(q))
  BY SilentIsSilent
<1>8. CASE r = Silent(q)
  BY <1>7, <1>8 DEF PollsOnce
<1>9. CASE i \in DOMAIN q.assemblies /\ r = RequestRepair(q, i, FALSE, t)
  BY <1>9 DEF PollsOnce, RepairOf
<1> QED BY <1>2, <1>6, <1>8, <1>9

LEMMA PollIsCall ==
  ASSUME NEW p, NEW t \in Int, IsObject(p, t), NEW allowControl
  PROVE  IsCall(p, PollRepairs(p, allowControl, t), t)
<1> SUFFICES ASSUME NEW q, q = Cleanup(p, t), NEW r, r = PollRepairs(p, allowControl, t)
             PROVE  IsCall(p, r, t)
  OBVIOUS
<1>1. IsObject(q, t)
  BY CleanupShape
<1>2. Moves(q.assemblies, q.assemblies)
  BY DEF Moves, SameRequests
<1>3. CASE IsSilent(q, r)
  <2>1. r.state = q /\ Requests(r.transmissions) = <<>>
    BY <1>3, RequestsFacts DEF IsSilent
  <2> QED BY <1>1, <1>2, <2>1 DEF IsCall, AsksNothing
<1>4. ASSUME NEW i \in DOMAIN q.assemblies, NEW immediate, r = RequestRepair(q, i, immediate, t)
      PROVE  IsCall(p, r, t)
  BY <1>1, <1>2, <1>4, AskingIsCall
<1>5. PollsOnce(q, r, t)
  BY PollShape
<1> QED BY <1>3, <1>4, <1>5 DEF PollsOnce, RepairOf

LEMMA ReceiveIsCall ==
  ASSUME NEW p, NEW t \in Int, IsObject(p, t), NEW source, NEW payload,
         payload.kind = "data" => IsData(payload), NEW allowControl
  PROVE  IsCall(p, Receive(p, source, payload, allowControl, t), t)
<1> DEFINE q == Cleanup(p, t)
           key == <<source, payload.index>>
           r == Receive(p, source, payload, allowControl, t)
<1>1. IsObject(q, t)
  BY CleanupShape
<1>2. Moves(q.assemblies, q.assemblies)
  BY DEF Moves, SameRequests
<1>3. ASSUME IsSilent(q, r) PROVE IsCall(p, r, t)
  <2>1. r.state = q /\ Requests(r.transmissions) = <<>>
    BY <1>3, RequestsFacts DEF IsSilent
  <2> HIDE DEF q, r
  <2> QED BY <1>1, <1>2, <2>1 DEF IsCall, AsksNothing, q
<1>4. CASE payload.kind # "data"
  <2>1. r = HandleRequest(q, source, payload) \/ r = Silent(q)
    BY <1>4 DEF Receive
  <2>2. CASE r = Silent(q)
    BY <1>3, <2>2, SilentIsSilent
  <2>3. CASE r = HandleRequest(q, source, payload)
    <3>1. /\ r.state = q
          /\ \/ r.transmissions = <<>>
             \/ \E k \in DOMAIN q.txCache : \E i \in DOMAIN q.txCache[k].fragments :
                  r.transmissions = <<Transmission(source, q.txCache[k].fragments[i])>>
      BY <1>1, <2>3, HandleRequestShape
    <3> HIDE DEF q, r
    <3>2. \A k \in DOMAIN q.txCache : \A i \in DOMAIN q.txCache[k].fragments :
            q.txCache[k].fragments[i].kind = "data"
      BY <1>1 DEF IsObject, IsCache, IsEntry, IsData
    <3>3. Requests(r.transmissions) = <<>>
      <4>1. CASE r.transmissions = <<>>
        BY <4>1, RequestsFacts
      <4>2. ASSUME NEW x, x.kind = "data", r.transmissions = <<Transmission(source, x)>>
            PROVE  Requests(r.transmissions) = <<>>
        BY <4>2, RequestsFacts
      <4> QED BY <3>1, <3>2, <4>1, <4>2
    <3> QED BY <1>1, <1>2, <3>1, <3>3 DEF IsCall, AsksNothing, q, r
  <2> QED BY <2>1, <2>2, <2>3
<1>5. CASE payload.kind = "data"
  <2>1. r = HandleFragment(q, source, payload, allowControl, t)
    BY <1>5 DEF Receive
  <2>2. \/ IsSilent(q, r)
        \/ \E i, table : Enters(q, key, payload, i, table, t)
                         /\ Reassembles(q, key, payload, i, table, r, t)
    BY <1>1, <2>1, HandleFragmentShape
  <2>3. ASSUME NEW i, NEW table, Enters(q, key, payload, i, table, t),
               Reassembles(q, key, payload, i, table, r, t)
        PROVE  IsCall(p, r, t)
    <3>1. key = <<key[1], key[2]>> /\ IsData(payload)
      BY <1>5
    <3> DEFINE kept == [q EXCEPT !.assemblies = table]
    <3> HIDE DEF q, r, key
    <3>2. IsObject(kept, t) /\ Moves(q.assemblies, table)
      BY <1>1, <2>3, <3>1, EntersFacts, EntersMoves
    <3>3. kept.assemblies = table /\ kept.repairTimes = q.repairTimes
      BY <1>1 DEF IsObject
    <3>4. i \in DOMAIN kept.assemblies
      BY <2>3, <3>3 DEF Enters
    <3> HIDE DEF kept
    <3>5. CASE r = RequestRepair(kept, i, TRUE, t) \/ IsSilent(kept, r)
      BY <3>2, <3>3, <3>4, <3>5, AskingIsCall DEF q
    <3>6. CASE r = Complete(q, key, table[i], t)
      <4> DEFINE c == Complete(q, key, table[i], t)
      <4>1. /\ IsObject(c.state, t) /\ c.state.repairTimes = q.repairTimes
            /\ Selection(c.state.assemblies, q.assemblies) /\ c.transmissions = <<>>
        BY <1>1, CompleteShape
      <4> HIDE DEF c
      <4>2. Moves(q.assemblies, c.state.assemblies) /\ Requests(c.transmissions) = <<>>
        BY <4>1, SelectionMoves, RequestsFacts
      <4>3. r = c
        BY <3>6 DEF c
      <4> QED BY <4>1, <4>2, <4>3 DEF IsCall, AsksNothing, q
    <3> QED BY <2>3, <3>5, <3>6 DEF Reassembles, kept
  <2> QED BY <1>3, <2>2, <2>3
<1> QED BY <1>4, <1>5

-----------------------------------------------------------------------------
(* The log of requests.                                                    *)

IsRequest(d, t) ==
  /\ DOMAIN d = {"source", "index", "position", "at", "live"}
  /\ d.at \in Int /\ d.at <= t /\ d.live \in BOOLEAN

IsLog(log, t) == IsSeq(log) /\ \A j \in DOMAIN log : IsRequest(log[j], t)

SameRequest(d, e) ==
  d.source = e.source /\ d.index = e.index /\ d.position = e.position /\ d.at = e.at

(* The keys of the assemblies that a call leaves open.                     *)
StillOpen(p, r, t) == Keys(Cleanup(p, t).assemblies) \cap Keys(r.state.assemblies)

(* The entries of log, live as long as their key is open.                  *)
Carries(log, more, open) ==
  \A j \in DOMAIN log :
    /\ j \in DOMAIN more /\ SameRequest(log[j], more[j])
    /\ more[j].live <=> log[j].live /\ Key(log[j]) \in open

Marked(log, open) ==
  [j \in DOMAIN log |->
     [log[j] EXCEPT !.live = @ /\ <<log[j].source, log[j].index>> \in open]]

LEMMA MarkedFacts ==
  ASSUME NEW log, NEW t, IsLog(log, t), NEW open
  PROVE  /\ IsLog(Marked(log, open), t) /\ Len(Marked(log, open)) = Len(log)
         /\ DOMAIN Marked(log, open) = DOMAIN log /\ DOMAIN log = 1..Len(log) /\ Len(log) \in Nat
         /\ Carries(log, Marked(log, open), open)
<1> DEFINE new == Marked(log, open)
<1>1. PICK T : log \in Seq(T)
  BY DEF IsLog, IsSeq
<1>2. /\ DOMAIN new = DOMAIN log
      /\ \A j \in DOMAIN log :
           new[j] = [log[j] EXCEPT !.live = @ /\ <<log[j].source, log[j].index>> \in open]
  BY DEF Marked
<1> HIDE DEF new
<1>3. ASSUME NEW j \in DOMAIN log
      PROVE  /\ IsRequest(new[j], t) /\ SameRequest(log[j], new[j])
             /\ new[j].live <=> log[j].live /\ Key(log[j]) \in open
  <2>1. IsRequest(log[j], t)
    BY DEF IsLog
  <2> DEFINE d == log[j]
             e == [d EXCEPT !.live = @ /\ <<d.source, d.index>> \in open]
  <2>2. new[j] = e
    BY <1>2
  <2> HIDE DEF d
  <2>3. IsRequest(d, t)
    BY <2>1 DEF d
  <2>4. /\ DOMAIN e = DOMAIN d /\ e.source = d.source /\ e.index = d.index
        /\ e.position = d.position /\ e.at = d.at
        /\ e.live = (d.live /\ <<d.source, d.index>> \in open)
    BY <2>3 DEF IsRequest
  <2> HIDE DEF e
  <2>5. e.live \in BOOLEAN /\ (e.live <=> d.live /\ Key(d) \in open)
    BY <2>4 DEF Key
  <2> QED BY <2>2, <2>3, <2>4, <2>5 DEF IsRequest, SameRequest, d
<1>4. new \in Seq({new[j] : j \in DOMAIN log}) /\ Len(new) = Len(log)
  <2>1. DOMAIN log = 1..Len(log) /\ Len(log) \in Nat
    BY <1>1
  <2>2. new = [j \in 1..Len(log) |-> new[j]]
    BY <1>2, <2>1 DEF new, Marked
  <2> QED BY <2>1, <2>2
<1>5. IsLog(new, t)
  BY <1>2, <1>3, <1>4 DEF IsLog, IsSeq
<1>6. Carries(log, new, open)
  BY <1>2, <1>3 DEF Carries
<1> QED BY <1>1, <1>2, <1>4, <1>5, <1>6 DEF new

LEMMA LoggedNothing ==
  ASSUME NEW log, NEW t, IsLog(log, t), t = now, NEW p, NEW r, Requests(r.transmissions) = <<>>
  PROVE  LET more == Logged(log, p, r) IN
         /\ IsLog(more, t) /\ Len(more) = Len(log)
         /\ DOMAIN more = DOMAIN log /\ DOMAIN log = 1..Len(log) /\ Len(log) \in Nat
         /\ Carries(log, more, StillOpen(p, r, t))
         /\ more = Marked(log, StillOpen(p, r, t))
<1> DEFINE open == StillOpen(p, r, t)
           requests == Requests(r.transmissions)
           entries == [j \in DOMAIN requests |->
             [source |-> requests[j].destination, index |-> requests[j].payload.index,
              position |-> requests[j].payload.position, at |-> now, live |-> TRUE]]
<1>1. Logged(log, p, r) = Marked(log, open) \o entries
  BY DEF Logged, Marked, StillOpen
<1>2. entries = <<>>
  <2> HIDE DEF requests
  <2> QED BY DEF requests
<1> HIDE DEF entries, open
<1>3. /\ IsLog(Marked(log, open), t) /\ Len(Marked(log, open)) = Len(log)
      /\ DOMAIN Marked(log, open) = DOMAIN log /\ DOMAIN log = 1..Len(log) /\ Len(log) \in Nat
      /\ Carries(log, Marked(log, open), open)
  BY MarkedFacts
<1>4. Logged(log, p, r) = Marked(log, open)
  BY <1>1, <1>2, <1>3 DEF IsLog, IsSeq
<1> QED BY <1>3, <1>4 DEF open

LEMMA LoggedOnce ==
  ASSUME NEW log, NEW t \in Int, IsLog(log, t), t = now, NEW p, NEW r,
         NEW source, NEW index, NEW q,
         r.transmissions = <<Transmission(source, RequestPayload(index, q))>>
  PROVE  LET more == Logged(log, p, r)
             last == more[Len(log) + 1]
         IN /\ IsLog(more, t) /\ Len(more) = Len(log) + 1
            /\ DOMAIN more = 1..Len(log) + 1 /\ DOMAIN log = 1..Len(log) /\ Len(log) \in Nat
            /\ Carries(log, more, StillOpen(p, r, t))
            /\ last.source = source /\ last.index = index /\ last.position = q
            /\ last.at = t /\ last.live
            /\ \A j \in DOMAIN log : more[j] = Marked(log, StillOpen(p, r, t))[j]
<1> DEFINE open == StillOpen(p, r, t)
           entry == [source |-> source, index |-> index, position |-> q, at |-> now, live |-> TRUE]
           requests == Requests(r.transmissions)
           entries == [j \in DOMAIN requests |->
             [source |-> requests[j].destination, index |-> requests[j].payload.index,
              position |-> requests[j].payload.position, at |-> now, live |-> TRUE]]
           more == Logged(log, p, r)
           old == Marked(log, open)
<1>1. more = old \o entries
  BY DEF Logged, Marked, StillOpen
<1>2. entries = <<entry>>
  <2>1. requests = <<Transmission(source, RequestPayload(index, q))>>
    BY RequestsFacts
  <2> HIDE DEF requests
  <2>2. /\ DOMAIN requests = 1..1 /\ requests[1].destination = source
        /\ requests[1].payload.index = index /\ requests[1].payload.position = q
    BY <2>1 DEF Transmission, RequestPayload
  <2>3. DOMAIN entries = 1..1
    BY <2>2
  <2>4. 1 \in DOMAIN requests
    BY <2>2
  <2>5. entries[1] = entry
    BY <2>2, <2>4
  <2>6. entries = [j \in DOMAIN entries |-> entries[j]]
    OBVIOUS
  <2> HIDE DEF entries, entry
  <2>7. \A j \in 1..1 : j = 1
    OBVIOUS
  <2>8. entries = [j \in 1..1 |-> entry]
    BY <2>3, <2>5, <2>6, <2>7
  <2> QED BY <2>8
<1>3. /\ IsRequest(entry, t) /\ entry.source = source /\ entry.index = index
      /\ entry.position = q /\ entry.at = t /\ entry.live
  BY DEF IsRequest
<1> HIDE DEF entries, open, more, old, entry
<1>4. /\ IsLog(old, t) /\ Len(old) = Len(log)
      /\ DOMAIN old = DOMAIN log /\ DOMAIN log = 1..Len(log) /\ Len(log) \in Nat
      /\ Carries(log, old, open)
  BY MarkedFacts DEF old
<1>5. more = old \o <<entry>> /\ \E S : old \in Seq(S)
  BY <1>1, <1>2, <1>4 DEF IsLog, IsSeq
<1>6. /\ \E T : more \in Seq(T)
      /\ DOMAIN more = DOMAIN old \cup {Len(old) + 1}
      /\ more[Len(old) + 1] = entry
      /\ \A j \in DOMAIN old : more[j] = old[j]
  BY <1>5, AppendTo
<1>7. DOMAIN more = 1..Len(log) + 1 /\ Len(more) = Len(log) + 1
  BY <1>4, <1>6
<1>8. IsLog(more, t)
  BY <1>3, <1>4, <1>6 DEF IsLog, IsSeq
<1>9. Carries(log, more, open)
  BY <1>4, <1>6 DEF Carries
<1> QED BY <1>3, <1>4, <1>6, <1>7, <1>8, <1>9 DEF more, open, old

-----------------------------------------------------------------------------
(* The budget: the request times an object keeps are those of the last     *)
(* requests of its log, and the requests before them are past the window.  *)

Spaced(log) ==
  \A j \in DOMAIN log :
    j + RepairBudget \in DOMAIN log =>
      log[j + RepairBudget].at - log[j].at >= RepairWindow

Counted(log, times, t) ==
  /\ Len(times) <= Len(log)
  /\ \A k \in 1..Len(times) : times[k] = log[Len(log) - Len(times) + k].at
  /\ \A i \in 1..Len(log) - Len(times) : log[i].at <= t - RepairWindow

BudgetInv(log, times, t) ==
  Len(times) <= RepairBudget /\ Counted(log, times, t) /\ Spaced(log)

LEMMA BudgetFresh ==
  ASSUME NEW log, NEW t \in Int, IsLog(log, t), NEW times \in Seq(Int), BudgetInv(log, times, t)
  PROVE  /\ FreshRepairTimes(times, t) \in Seq(Int)
         /\ BudgetInv(log, FreshRepairTimes(times, t), t)
<1> DEFINE cutoff == t - RepairWindow
           left == NewerThan(times, cutoff)
           L == Len(log)
           N == Len(times)
           M == Len(left)
<1>1. cutoff \in Int /\ RepairBudget \in Int
  BY ProtocolAssumption
<1>2. left = FreshRepairTimes(times, t)
  BY DEF FreshRepairTimes
<1> HIDE DEF cutoff
<1>3. /\ left \in Seq(Int) /\ M <= N
      /\ \A k \in 1..M : left[k] = times[N - M + k]
      /\ \A i \in 1..N - M : times[i] <= cutoff
  BY <1>1, NewerFacts
<1> HIDE DEF left
<1>4. L \in Nat /\ N \in Nat /\ M \in Nat
  BY <1>3 DEF IsLog, IsSeq
<1>5. /\ N <= L /\ N <= RepairBudget
      /\ \A k \in 1..N : times[k] = log[L - N + k].at
      /\ \A i \in 1..L - N : log[i].at <= cutoff
  BY DEF BudgetInv, Counted, cutoff
<1> HIDE DEF L, N, M
<1>6. ASSUME NEW k \in 1..M PROVE left[k] = log[L - M + k].at
  <2>1. N - M + k \in 1..N /\ L - N + (N - M + k) = L - M + k
    BY <1>3, <1>4
  <2> QED BY <1>3, <1>5, <2>1
<1>7. ASSUME NEW i \in 1..L - M PROVE log[i].at <= cutoff
  <2>1. CASE i \in 1..L - N
    BY <1>5, <2>1
  <2>2. CASE i \notin 1..L - N
    <3> DEFINE k == i - (L - N)
    <3>1. k \in 1..N - M /\ k \in 1..N /\ L - N + k = i
      BY <1>3, <1>4, <1>5, <2>2
    <3> HIDE DEF k
    <3>2. times[k] <= cutoff /\ times[k] = log[i].at
      BY <1>3, <1>5, <3>1
    <3> QED BY <3>2
  <2> QED BY <2>1, <2>2
<1>8. M <= L /\ M <= RepairBudget
  BY <1>1, <1>3, <1>4, <1>5
<1>9. BudgetInv(log, left, t)
  BY <1>6, <1>7, <1>8 DEF BudgetInv, Counted, L, M, cutoff
<1> QED BY <1>2, <1>3, <1>9

LEMMA BudgetCarries ==
  ASSUME NEW log, NEW t, NEW times \in Seq(Int), BudgetInv(log, times, t), NEW more, NEW open,
         Len(more) = Len(log), DOMAIN more = DOMAIN log, DOMAIN log = 1..Len(log),
         Len(log) \in Nat, Carries(log, more, open)
  PROVE  BudgetInv(more, times, t)
<1>1. \A j \in 1..Len(log) : more[j].at = log[j].at
  BY DEF Carries, SameRequest
<1>2. Spaced(more)
  BY <1>1 DEF BudgetInv, Spaced
<1>3. Counted(more, times, t)
  <2> DEFINE L == Len(log)
             N == Len(times)
  <2>1. L \in Nat /\ N \in Nat /\ N <= L
    BY DEF BudgetInv, Counted
  <2>2. /\ \A k \in 1..N : times[k] = log[L - N + k].at
        /\ \A i \in 1..L - N : log[i].at <= t - RepairWindow
    BY DEF BudgetInv, Counted
  <2> HIDE DEF L, N
  <2>3. /\ \A k \in 1..N : L - N + k \in 1..L
        /\ \A i \in 1..L - N : i \in 1..L
    BY <2>1
  <2>4. /\ \A k \in 1..N : times[k] = more[L - N + k].at
        /\ \A i \in 1..L - N : more[i].at <= t - RepairWindow
    BY <1>1, <2>2, <2>3 DEF L
  <2> QED BY <2>1, <2>4 DEF Counted, L, N
<1> QED BY <1>2, <1>3 DEF BudgetInv

LEMMA BudgetAppends ==
  ASSUME NEW log, NEW t \in Int, IsLog(log, t), NEW times \in Seq(Int), BudgetInv(log, times, t),
         Len(times) < RepairBudget, NEW more, NEW open, Len(more) = Len(log) + 1,
         DOMAIN more = 1..Len(log) + 1, DOMAIN log = 1..Len(log), Len(log) \in Nat,
         Carries(log, more, open), more[Len(log) + 1].at = t
  PROVE  BudgetInv(more, Append(times, t), t)
<1> DEFINE L == Len(log)
           N == Len(times)
           new == Append(times, t)
<1>1. \A j \in 1..L : more[j].at = log[j].at
  BY DEF Carries, SameRequest
<1>2. L \in Nat /\ N \in Nat /\ N <= L /\ N < RepairBudget /\ RepairBudget \in Nat \ {0}
      /\ RepairWindow \in Int
  BY ProtocolAssumption DEF BudgetInv, Counted
<1>3. /\ \A k \in 1..N : times[k] = log[L - N + k].at
      /\ \A i \in 1..L - N : log[i].at <= t - RepairWindow
      /\ \A j \in 1..L : log[j].at \in Int
  BY DEF BudgetInv, Counted, IsLog, IsRequest
<1>4. /\ Len(new) = N + 1 /\ new[N + 1] = t
      /\ \A k \in 1..N : new[k] = times[k]
  OBVIOUS
<1>5. Spaced(log) /\ DOMAIN log = 1..L /\ DOMAIN more = 1..L + 1 /\ Len(more) = L + 1
      /\ more[L + 1].at = t
  BY DEF BudgetInv
<1> HIDE DEF L, N, new
<1>6. ASSUME NEW k \in 1..Len(new) PROVE new[k] = more[Len(more) - Len(new) + k].at
  <2>1. CASE k = N + 1
    <3>1. Len(more) - Len(new) + k = L + 1
      BY <1>2, <1>4, <1>5, <2>1
    <3> QED BY <1>4, <1>5, <2>1, <3>1
  <2>2. CASE k # N + 1
    <3>0. k \in 1..N + 1 /\ Len(new) = N + 1 /\ Len(more) = L + 1
      BY ONLY k \in 1..Len(new), <1>4, <1>5
    <3>1. k \in 1..N
      BY ONLY <1>2, <2>2, <3>0
    <3>2. Len(more) - Len(new) + k = L - N + k
      BY ONLY <1>2, <3>0, <3>1
    <3>3. L - N + k \in 1..L
      BY ONLY <1>2, <3>1
    <3> QED BY <1>1, <1>3, <1>4, <3>1, <3>2, <3>3
  <2> QED BY <2>1, <2>2
<1>7. ASSUME NEW i \in 1..Len(more) - Len(new) PROVE more[i].at <= t - RepairWindow
  <2>1. i \in 1..L - N /\ i \in 1..L
    BY <1>2, <1>4, <1>5
  <2> QED BY <1>1, <1>3, <2>1
<1>8. Counted(more, new, t)
  <2>1. Len(new) <= Len(more)
    BY <1>2, <1>4, <1>5
  <2> QED BY <1>6, <1>7, <2>1 DEF Counted
<1>9. Spaced(more)
  <2> SUFFICES ASSUME NEW j \in 1..L + 1, j + RepairBudget \in 1..L + 1
               PROVE  more[j + RepairBudget].at - more[j].at >= RepairWindow
    BY <1>5 DEF Spaced
  <2>1. CASE j + RepairBudget \in 1..L
    <3>1. j \in 1..L
      BY <1>2, <2>1
    <3> QED BY <1>1, <1>5, <2>1, <3>1 DEF Spaced
  <2>2. CASE j + RepairBudget = L + 1
    <3>1. j \in 1..L - N /\ j \in 1..L
      BY <1>2, <2>2
    <3>2. more[j].at = log[j].at /\ log[j].at <= t - RepairWindow /\ log[j].at \in Int
      BY <1>1, <1>3, <3>1
    <3>3. more[j + RepairBudget].at = t
      BY <1>5, <2>2
    <3>4. t - log[j].at >= RepairWindow
      BY <1>2, <3>2
    <3> QED BY <3>2, <3>3, <3>4
  <2> QED BY <1>2, <2>1, <2>2
<1>10. Len(new) <= RepairBudget
  BY <1>2, <1>4
<1> QED BY <1>8, <1>9, <1>10 DEF BudgetInv, new

LEMMA BudgetCall ==
  ASSUME NEW p, NEW log, NEW t \in Int, t = now, IsObject(p, t), IsLog(log, t),
         BudgetInv(log, p.repairTimes, t), NEW r, IsCall(p, r, t)
  PROVE  /\ IsObject(r.state, t) /\ IsLog(Logged(log, p, r), t)
         /\ BudgetInv(Logged(log, p, r), r.state.repairTimes, t)
<1> DEFINE q == Cleanup(p, t)
           more == Logged(log, p, r)
<1>1. q.repairTimes = FreshRepairTimes(p.repairTimes, t) /\ p.repairTimes \in Seq(Int)
  BY CleanupShape DEF IsObject
<1>2. q.repairTimes \in Seq(Int) /\ BudgetInv(log, q.repairTimes, t)
  BY <1>1, BudgetFresh
<1>3. CASE AsksNothing(p, r, t)
  <2>1. Requests(r.transmissions) = <<>> /\ r.state.repairTimes = q.repairTimes
        /\ IsObject(r.state, t)
    BY <1>3 DEF AsksNothing
  <2>2. /\ IsLog(more, t) /\ Len(more) = Len(log)
        /\ DOMAIN more = DOMAIN log /\ DOMAIN log = 1..Len(log) /\ Len(log) \in Nat
        /\ Carries(log, more, StillOpen(p, r, t))
    BY <2>1, LoggedNothing
  <2> HIDE DEF more, q
  <2>3. BudgetInv(more, q.repairTimes, t)
    BY <1>2, <2>2, BudgetCarries
  <2> QED BY <2>1, <2>2, <2>3 DEF more
<1>4. ASSUME NEW m, NEW i, NEW x, AsksOnce(p, m, i, x, r, t)
      PROVE  /\ IsObject(r.state, t) /\ IsLog(more, t)
             /\ BudgetInv(more, r.state.repairTimes, t)
  <2> DEFINE times == FreshRepairTimes(m.repairTimes, t)
             a == m.assemblies[i]
  <2>1. IsObject(m, t) /\ m.repairTimes = q.repairTimes /\ i \in DOMAIN m.assemblies
        /\ Asks(m, i, x, r, t)
    BY <1>4 DEF AsksOnce
  <2>2. times \in Seq(Int) /\ BudgetInv(log, times, t)
    BY <1>2, <2>1, BudgetFresh
  <2>3. IsObject(r.state, t) /\ r.state.repairTimes = Append(times, t)
    BY <2>1, AsksFacts
  <2>4. Len(times) < RepairBudget
        /\ r.transmissions = <<Transmission(a.source, RequestPayload(a.index, x))>>
    BY <2>1 DEF Asks
  <2>5. /\ IsLog(more, t) /\ Len(more) = Len(log) + 1
        /\ DOMAIN more = 1..Len(log) + 1 /\ DOMAIN log = 1..Len(log) /\ Len(log) \in Nat
        /\ Carries(log, more, StillOpen(p, r, t)) /\ more[Len(log) + 1].at = t
    <3> HIDE DEF a
    <3> QED BY <2>4, LoggedOnce
  <2> HIDE DEF times, more
  <2> QED BY <2>2, <2>3, <2>4, <2>5, BudgetAppends
<1> QED BY <1>3, <1>4 DEF IsCall

-----------------------------------------------------------------------------
(* The backoff: the attempts an assembly counts for a position it is open  *)
(* for are the live requests for it in the log.                            *)

LiveFor(log, key, q) ==
  {j \in DOMAIN log : log[j].live /\ Key(log[j]) = key /\ log[j].position = q}

Counts(log, a) ==
  \A q \in Open(a) :
    /\ q \notin DOMAIN a.repairs => LiveFor(log, Key(a), q) = {}
    /\ q \in DOMAIN a.repairs =>
         /\ Cardinality(LiveFor(log, Key(a), q)) = a.repairs[q].attempts
         /\ \A j \in LiveFor(log, Key(a), q) : log[j].at <= a.repairs[q].at

Backoff(log) ==
  \A j \in DOMAIN log : log[j].live =>
    /\ Cardinality(LiveBefore(log, j)) < MaxRepairAttempts
    /\ \A i \in LiveBefore(log, j) :
         log[j].at - log[i].at >= RequestCooldown * 2^Cardinality(LiveBefore(log, j))

LiveHasAssembly(log, table) ==
  \A j \in DOMAIN log : log[j].live => \E k \in DOMAIN table : Key(table[k]) = Key(log[j])

BackoffInv(log, table) ==
  /\ LiveHasAssembly(log, table)
  /\ \A k \in DOMAIN table : Counts(log, table[k])
  /\ Backoff(log)

LEMMA KeysFacts ==
  ASSUME NEW table
  PROVE  \A key : key \in Keys(table) <=> \E k \in DOMAIN table : Key(table[k]) = key
BY DEF Keys, Range, Key

LEMMA BackoffMoves ==
  ASSUME NEW log, NEW t, IsLog(log, t), NEW table, NEW old, NEW new, NEW open,
         BackoffInv(log, table), Selection(old, table), Moves(old, new),
         open = Keys(old) \cap Keys(new)
  PROVE  BackoffInv(Marked(log, open), new)
<1> DEFINE mid == Marked(log, open)
<1>1. /\ DOMAIN mid = DOMAIN log /\ DOMAIN log = 1..Len(log) /\ Len(log) \in Nat
      /\ \A j \in DOMAIN log :
           /\ mid[j].source = log[j].source /\ mid[j].index = log[j].index
           /\ mid[j].position = log[j].position /\ mid[j].at = log[j].at
           /\ mid[j].live <=> log[j].live /\ Key(log[j]) \in open
  BY MarkedFacts DEF Carries, SameRequest
<1> HIDE DEF mid
<1>2. \A j \in DOMAIN log : Key(mid[j]) = Key(log[j])
  BY <1>1 DEF Key
<1>3. ASSUME NEW key, NEW q
      PROVE  LiveFor(mid, key, q) = IF key \in open THEN LiveFor(log, key, q) ELSE {}
  BY <1>1, <1>2 DEF LiveFor
<1>4. LiveHasAssembly(mid, new)
  BY <1>1, <1>2, KeysFacts DEF LiveHasAssembly
<1>5. ASSUME NEW k \in DOMAIN new PROVE Counts(mid, new[k])
  <2> DEFINE b == new[k]
  <2>1. ASSUME NEW j \in DOMAIN old, Key(old[j]) = Key(b), SameRequests(old[j], b)
        PROVE  Counts(mid, b)
    <3>1. Key(b) \in open
      BY <2>1, KeysFacts
    <3>2. PICK i \in DOMAIN table : old[j] = table[i]
      BY DEF Selection
    <3>3. Counts(log, old[j])
      BY <3>2 DEF BackoffInv
    <3> HIDE DEF b
    <3>4. ASSUME NEW q \in Open(b)
          PROVE  /\ q \notin DOMAIN b.repairs => LiveFor(mid, Key(b), q) = {}
                 /\ q \in DOMAIN b.repairs =>
                      /\ Cardinality(LiveFor(mid, Key(b), q)) = b.repairs[q].attempts
                      /\ \A x \in LiveFor(mid, Key(b), q) : mid[x].at <= b.repairs[q].at
      <4>1. /\ q \in Open(old[j]) /\ (q \in DOMAIN b.repairs <=> q \in DOMAIN old[j].repairs)
            /\ q \in DOMAIN b.repairs => b.repairs[q] = old[j].repairs[q]
        BY <2>1 DEF SameRequests
      <4>2. LiveFor(mid, Key(b), q) = LiveFor(log, Key(old[j]), q)
        BY <1>3, <2>1, <3>1
      <4>3. \A x \in LiveFor(log, Key(old[j]), q) : mid[x].at = log[x].at
        BY <1>1 DEF LiveFor
      <4> QED BY <3>3, <4>1, <4>2, <4>3 DEF Counts
    <3> QED BY <3>4 DEF Counts
  <2>2. ASSUME \A j \in DOMAIN old : Key(old[j]) # Key(b), \A q \in Open(b) : q \notin DOMAIN b.repairs
        PROVE  Counts(mid, b)
    <3>1. Key(b) \notin open
      BY <2>2, KeysFacts
    <3> QED BY <1>3, <2>2, <3>1 DEF Counts
  <2> QED BY <2>1, <2>2 DEF Moves
<1>6. Backoff(mid)
  <2> SUFFICES ASSUME NEW j \in DOMAIN mid, mid[j].live
               PROVE  /\ Cardinality(LiveBefore(mid, j)) < MaxRepairAttempts
                      /\ \A i \in LiveBefore(mid, j) :
                           mid[j].at - mid[i].at >= RequestCooldown * 2^Cardinality(LiveBefore(mid, j))
    BY DEF Backoff
  <2>1. log[j].live /\ Key(log[j]) \in open /\ j \in DOMAIN log
    BY <1>1
  <2>2. \A i \in 1..j - 1 : i \in DOMAIN log
    BY <1>1
  <2>3. LiveBefore(mid, j) = LiveBefore(log, j)
    <3>1. ASSUME NEW i \in 1..j - 1
          PROVE  (/\ mid[i].live
                  /\ <<mid[i].source, mid[i].index, mid[i].position>>
                       = <<mid[j].source, mid[j].index, mid[j].position>>)
                 <=> (/\ log[i].live
                      /\ <<log[i].source, log[i].index, log[i].position>>
                           = <<log[j].source, log[j].index, log[j].position>>)
      BY <1>1, <2>1, <2>2 DEF Key
    <3> QED BY <3>1 DEF LiveBefore
  <2>4. \A i \in LiveBefore(log, j) : i \in DOMAIN log
    BY <2>2 DEF LiveBefore
  <2>5. /\ Cardinality(LiveBefore(log, j)) < MaxRepairAttempts
        /\ \A i \in LiveBefore(log, j) :
             log[j].at - log[i].at >= RequestCooldown * 2^Cardinality(LiveBefore(log, j))
    BY <2>1 DEF BackoffInv, Backoff
  <2> QED BY <1>1, <2>1, <2>3, <2>4, <2>5
<1> QED BY <1>4, <1>5, <1>6 DEF BackoffInv, mid

(* The log before and after an entry d is appended.                        *)
Extends(mid, more, L) ==
  /\ L \in Nat /\ DOMAIN mid = 1..L /\ DOMAIN more = 1..L + 1
  /\ \A j \in 1..L : more[j] = mid[j]

LEMMA LiveForGrows ==
  ASSUME NEW mid, NEW more, NEW L, Extends(mid, more, L), more[L + 1].live, NEW key, NEW q
  PROVE  LiveFor(more, key, q)
           = IF Key(more[L + 1]) = key /\ more[L + 1].position = q
             THEN LiveFor(mid, key, q) \cup {L + 1} ELSE LiveFor(mid, key, q)
<1>1. L \in Nat /\ DOMAIN mid = 1..L /\ DOMAIN more = 1..L + 1 /\ \A j \in 1..L : more[j] = mid[j]
  BY DEF Extends
<1>2. \A j : j \in 1..L + 1 <=> j \in 1..L \/ j = L + 1
  BY <1>1
<1> QED BY <1>1, <1>2 DEF LiveFor

LEMMA BackoffAppends ==
  ASSUME NEW t \in Int, NEW m, IsObject(m, t), NEW mid, IsLog(mid, t),
         BackoffInv(mid, m.assemblies),
         NEW i \in DOMAIN m.assemblies, NEW q, NEW r, Asks(m, i, q, r, t),
         NEW more, NEW L, Extends(mid, more, L),
         Key(more[L + 1]) = Key(m.assemblies[i]), more[L + 1].position = q,
         more[L + 1].at = t, more[L + 1].live
  PROVE  BackoffInv(more, r.state.assemblies)
<1> DEFINE a == m.assemblies[i]
           b == Asking(a, q, t)
           old == m.assemblies
           table == r.state.assemblies
           before == LiveFor(mid, Key(a), q)
<1>1. /\ L \in Nat /\ DOMAIN mid = 1..L /\ DOMAIN more = 1..L + 1
      /\ \A j \in 1..L : more[j] = mid[j]
  BY DEF Extends
<1>2. IsAssembly(a, t) /\ IsAsked(a, q, t) /\ q \in Missing(a)
  BY DEF IsObject, IsTable, Asks, IsAsked
<1>3. /\ DOMAIN table = DOMAIN old /\ table[i] = b
      /\ \A k \in DOMAIN table : /\ k # i => table[k] = old[k]
                                 /\ Key(table[k]) = Key(old[k])
  BY AsksFacts
<1>4. \A k \in DOMAIN old : k # i => Key(old[k]) # Key(a)
  BY DEF IsObject, IsTable, Distinct
<1>5. /\ b.source = a.source /\ b.index = a.index /\ q \in Nat
      /\ b.fragments = a.fragments /\ b.finalPosition = a.finalPosition
      /\ DOMAIN b.repairs = {q} \cup DOMAIN a.repairs
      /\ b.repairs[q].at = t
      /\ b.repairs[q].attempts = IF q \in DOMAIN a.repairs THEN a.repairs[q].attempts + 1 ELSE 1
      /\ \A x \in DOMAIN a.repairs : x # q => b.repairs[x] = a.repairs[x]
  BY <1>2, AskingFacts
<1>6. q \in Open(a)
  BY <1>2, <1>5, MissingIsOpen DEF Open
<1> HIDE DEF b, table, old
<1>7. Open(b) = Open(a) /\ Key(b) = Key(a)
  BY <1>5 DEF Open, Key
<1>8. Counts(mid, a) /\ LiveHasAssembly(mid, old) /\ Backoff(mid)
      /\ \A k \in DOMAIN old : Counts(mid, old[k])
  BY DEF BackoffInv, old
<1> HIDE DEF a
<1>9. ASSUME NEW key, NEW x
      PROVE  /\ LiveFor(more, key, x)
                  = IF key = Key(a) /\ x = q THEN LiveFor(mid, key, x) \cup {L + 1}
                    ELSE LiveFor(mid, key, x)
             /\ \A j \in LiveFor(mid, key, x) : j \in 1..L /\ more[j] = mid[j] /\ mid[j].at <= t
  <2>1. \A j \in DOMAIN mid : mid[j].at <= t
    BY DEF IsLog, IsRequest
  <2>2. \A j \in LiveFor(mid, key, x) : j \in 1..L /\ more[j] = mid[j] /\ mid[j].at <= t
    BY <1>1, <2>1 DEF LiveFor
  <2>3. key = Key(a) /\ x = q <=> Key(more[L + 1]) = key /\ more[L + 1].position = x
    BY DEF a
  <2> QED BY <2>2, <2>3, LiveForGrows
<1>10. IsFiniteSet(before) /\ Cardinality(before) \in Nat /\ L + 1 \notin before
       /\ Cardinality(before \cup {L + 1}) = Cardinality(before) + 1
  <2>1. before \in SUBSET (1..L)
    BY <1>1 DEF LiveFor
  <2>2. IsFiniteSet(1..L) /\ L + 1 \notin 1..L
    BY <1>1, FS_Interval
  <2>3. IsFiniteSet(before)
    BY <2>1, <2>2, FS_Subset
  <2> HIDE DEF before
  <2> QED BY <2>1, <2>2, <2>3, FS_AddElement, FS_CardinalityType
<1>11. /\ q \notin DOMAIN a.repairs => before = {}
       /\ q \in DOMAIN a.repairs => /\ Cardinality(before) = a.repairs[q].attempts
                                    /\ \A j \in before : mid[j].at <= a.repairs[q].at
  BY <1>6, <1>8 DEF Counts
<1>12. q \notin DOMAIN a.repairs => Cardinality(before) = 0
  BY <1>11, FS_EmptySet, Zenon
<1>13. LiveHasAssembly(more, table)
  <2> SUFFICES ASSUME NEW j \in DOMAIN more, more[j].live
               PROVE  \E k \in DOMAIN table : Key(table[k]) = Key(more[j])
    BY DEF LiveHasAssembly
  <2>1. CASE j = L + 1
    BY <1>3, <2>1 DEF a, old
  <2>2. CASE j # L + 1
    <3>1. j \in 1..L
      BY <1>1, <2>2
    <3> QED BY <1>1, <1>3, <1>8, <3>1 DEF LiveHasAssembly
  <2> QED BY <2>1, <2>2
<1>14. ASSUME NEW k \in DOMAIN table PROVE Counts(more, table[k])
  <2>1. CASE k # i
    <3>1. k \in DOMAIN old /\ table[k] = old[k] /\ Key(old[k]) # Key(a) /\ Counts(mid, old[k])
      BY <1>3, <1>4, <1>8, <2>1 DEF old
    <3>2. \A x : LiveFor(more, Key(old[k]), x) = LiveFor(mid, Key(old[k]), x)
      BY <1>9, <3>1
    <3>3. \A x : \A j \in LiveFor(mid, Key(old[k]), x) : more[j] = mid[j]
      BY <1>9
    <3> QED BY <3>1, <3>2, <3>3 DEF Counts
  <2>2. CASE k = i
    <3>1. table[k] = b
      BY <1>3, <2>2
    <3>2. ASSUME NEW x \in Open(a), x # q
          PROVE  /\ x \notin DOMAIN b.repairs => LiveFor(more, Key(b), x) = {}
                 /\ x \in DOMAIN b.repairs =>
                      /\ Cardinality(LiveFor(more, Key(b), x)) = b.repairs[x].attempts
                      /\ \A j \in LiveFor(more, Key(b), x) : more[j].at <= b.repairs[x].at
      <4>1. LiveFor(more, Key(b), x) = LiveFor(mid, Key(a), x)
        BY <1>7, <1>9, <3>2
      <4>2. \A j \in LiveFor(mid, Key(a), x) : more[j] = mid[j]
        BY <1>9
      <4>3. /\ x \notin DOMAIN a.repairs => LiveFor(mid, Key(a), x) = {}
            /\ x \in DOMAIN a.repairs =>
                 /\ Cardinality(LiveFor(mid, Key(a), x)) = a.repairs[x].attempts
                 /\ \A j \in LiveFor(mid, Key(a), x) : mid[j].at <= a.repairs[x].at
        BY <1>8 DEF Counts
      <4>4. x \in DOMAIN b.repairs <=> x \in DOMAIN a.repairs
        BY <1>5, <3>2
      <4>5. x \in DOMAIN a.repairs => b.repairs[x] = a.repairs[x]
        BY <1>5, <3>2
      <4> QED BY <4>1, <4>2, <4>3, <4>4, <4>5
    <3>3. /\ q \in DOMAIN b.repairs
          /\ Cardinality(LiveFor(more, Key(b), q)) = b.repairs[q].attempts
          /\ \A j \in LiveFor(more, Key(b), q) : more[j].at <= b.repairs[q].at
      <4>1. LiveFor(more, Key(b), q) = before \cup {L + 1}
        BY <1>7, <1>9
      <4>2. b.repairs[q].attempts = Cardinality(before) + 1
        <5>1. CASE q \in DOMAIN a.repairs
          BY <1>5, <1>11, <5>1
        <5>2. CASE q \notin DOMAIN a.repairs
          BY <1>5, <1>12, <5>2
        <5> QED BY <5>1, <5>2
      <4>3. \A j \in before : more[j].at <= t
        BY <1>9
      <4> QED BY <1>5, <1>10, <4>1, <4>2, <4>3
    <3> QED BY <1>7, <3>1, <3>2, <3>3 DEF Counts
  <2> QED BY <2>1, <2>2
<1>15. ASSUME NEW j \in 1..L PROVE LiveBefore(more, j) = LiveBefore(mid, j)
  <2>1. \A h \in 1..j - 1 : h \in 1..L
    BY <1>1
  <2>2. \A h \in 1..j - 1 : more[h] = mid[h]
    BY <1>1, <2>1
  <2>3. more[j] = mid[j]
    BY <1>1
  <2> QED BY <2>2, <2>3 DEF LiveBefore
<1>16. LiveBefore(more, L + 1) = before
  <2>1. (L + 1) - 1 = L
    BY <1>1
  <2>2. \A h \in 1..L :
          (/\ more[h].live
           /\ <<more[h].source, more[h].index, more[h].position>>
                = <<more[L + 1].source, more[L + 1].index, more[L + 1].position>>)
          <=> mid[h].live /\ Key(mid[h]) = Key(a) /\ mid[h].position = q
    BY <1>1 DEF Key, a
  <2> QED BY <1>1, <2>1, <2>2 DEF LiveBefore, LiveFor
<1>17. Backoff(more)
  <2> SUFFICES ASSUME NEW j \in DOMAIN more, more[j].live
               PROVE  /\ Cardinality(LiveBefore(more, j)) < MaxRepairAttempts
                      /\ \A h \in LiveBefore(more, j) :
                           more[j].at - more[h].at >= RequestCooldown * 2^Cardinality(LiveBefore(more, j))
    BY DEF Backoff
  <2>1. CASE j \in 1..L
    <3>1. more[j] = mid[j] /\ LiveBefore(more, j) = LiveBefore(mid, j) /\ j \in DOMAIN mid
      BY <1>1, <1>15, <2>1
    <3>2. \A h \in LiveBefore(mid, j) : more[h] = mid[h]
      BY <1>1, <2>1 DEF LiveBefore
    <3> QED BY <1>8, <3>1, <3>2 DEF Backoff
  <2>2. CASE j = L + 1
    <3>1. LiveBefore(more, j) = before /\ more[j].at = t
      BY <1>16, <2>2
    <3>2. CASE q \notin DOMAIN a.repairs
      <4>1. before = {} /\ Cardinality(before) = 0
        BY <1>11, <1>12, <3>2
      <4> HIDE DEF before
      <4> QED BY <3>1, <4>1, ProtocolAssumption
    <3>3. CASE q \in DOMAIN a.repairs
      <4> DEFINE n == a.repairs[q].attempts
                 wait == RequestCooldown * 2^n
      <4>1. n \in Nat /\ Cardinality(before) = n /\ a.repairs[q].at \in Int
        BY <1>2, <1>11, <3>3 DEF IsAssembly
      <4>2. n < MaxRepairAttempts /\ t - a.repairs[q].at >= wait
        BY <1>2, <3>3 DEF IsAsked
      <4>3. wait \in Int
        <5>1. 2^n \in Int
          BY <4>1
        <5> QED BY <5>1, ProtocolAssumption
      <4>4. ASSUME NEW h \in before PROVE t - more[h].at >= wait
        <5>1. mid[h].at <= a.repairs[q].at /\ more[h] = mid[h] /\ h \in DOMAIN mid
          BY <1>1, <1>9, <1>11, <3>3
        <5>2. mid[h].at \in Int
          BY <5>1 DEF IsLog, IsRequest
        <5> HIDE DEF wait, n
        <5> QED BY <4>1, <4>2, <4>3, <5>1, <5>2
      <4> HIDE DEF n, before
      <4> QED BY <3>1, <4>1, <4>2, <4>4
    <3> QED BY <3>2, <3>3
  <2> QED BY <1>1, <2>1, <2>2
<1> QED BY <1>13, <1>14, <1>17 DEF BackoffInv, table

LEMMA BackoffCall ==
  ASSUME NEW p, NEW log, NEW t \in Int, t = now, IsObject(p, t), IsLog(log, t),
         BackoffInv(log, p.assemblies), NEW r, IsCall(p, r, t)
  PROVE  BackoffInv(Logged(log, p, r), r.state.assemblies)
<1> DEFINE q == Cleanup(p, t)
           open == StillOpen(p, r, t)
           more == Logged(log, p, r)
<1>1. Selection(q.assemblies, p.assemblies)
  BY CleanupShape
<1>2. open = Keys(q.assemblies) \cap Keys(r.state.assemblies)
  BY DEF StillOpen
<1>3. CASE AsksNothing(p, r, t)
  <2>1. Requests(r.transmissions) = <<>> /\ Moves(q.assemblies, r.state.assemblies)
    BY <1>3 DEF AsksNothing
  <2>2. more = Marked(log, open)
    BY <2>1, LoggedNothing
  <2> HIDE DEF q, open, more
  <2> QED BY <1>1, <1>2, <2>1, <2>2, BackoffMoves DEF more
<1>4. ASSUME NEW m, NEW i, NEW x, AsksOnce(p, m, i, x, r, t)
      PROVE  BackoffInv(more, r.state.assemblies)
  <2> DEFINE a == m.assemblies[i]
             mid == Marked(log, open)
             L == Len(log)
  <2>1. IsObject(m, t) /\ i \in DOMAIN m.assemblies
        /\ Asks(m, i, x, r, t) /\ Moves(q.assemblies, m.assemblies)
    BY <1>4 DEF AsksOnce
  <2>2. r.transmissions = <<Transmission(a.source, RequestPayload(a.index, x))>>
    BY <2>1 DEF Asks
  <2>3. /\ L \in Nat /\ DOMAIN log = 1..L /\ DOMAIN more = 1..L + 1
        /\ more[L + 1].source = a.source /\ more[L + 1].index = a.index
        /\ more[L + 1].position = x /\ more[L + 1].at = t /\ more[L + 1].live
        /\ \A j \in DOMAIN log : more[j] = mid[j]
    <3> HIDE DEF a
    <3> QED BY <2>2, LoggedOnce
  <2>4. Keys(r.state.assemblies) = Keys(m.assemblies)
    <3>1. /\ DOMAIN r.state.assemblies = DOMAIN m.assemblies
          /\ \A k \in DOMAIN r.state.assemblies : Key(r.state.assemblies[k]) = Key(m.assemblies[k])
      BY <2>1, AsksFacts
    <3>2. \A key : key \in Keys(r.state.assemblies) <=> key \in Keys(m.assemblies)
      BY <3>1, KeysFacts
    <3> QED BY <3>2 DEF Keys
  <2> HIDE DEF q, open, more, L
  <2>5. open = Keys(q.assemblies) \cap Keys(m.assemblies)
    BY <1>2, <2>4
  <2>6. IsLog(mid, t) /\ DOMAIN mid = DOMAIN log
    BY MarkedFacts
  <2>7. BackoffInv(mid, m.assemblies)
    BY <1>1, <2>1, <2>5, BackoffMoves
  <2>8. Extends(mid, more, L) /\ Key(more[L + 1]) = Key(a)
    BY <2>3, <2>6 DEF Extends, Key
  <2> HIDE DEF mid
  <2> QED BY <2>1, <2>3, <2>6, <2>7, <2>8, BackoffAppends
<1> QED BY <1>3, <1>4 DEF IsCall
-----------------------------------------------------------------------------
(* Mixing: what an assembly holds is of one frame, or its index was used   *)
(* for two frames a short time apart.                                      *)

IsSent(s, t) == s.source \in Nodes /\ IsSeq(s.frame) /\ s.at \in Int /\ s.at <= t

Sends(S, t) == IsSeq(S) /\ \A i \in DOMAIN S : IsSent(S[i], t)

(* The payload is the fragment at its position of the frame of s.          *)
IsOf(payload, s) ==
  /\ payload.index = s.index
  /\ Abs(payload.position) \in DOMAIN s.frame
  /\ payload.body = s.frame[Abs(payload.position)]
  /\ payload.position < 0 <=> Abs(payload.position) = Len(s.frame)

(* It was sent under that source no earlier than a time.                   *)
ComesFrom(S, source, payload, since) ==
  \E i \in DOMAIN S : S[i].source = source /\ IsOf(payload, S[i]) /\ S[i].at >= since

Reused(S, key) ==
  \E i, j \in DOMAIN S :
    /\ i < j
    /\ Key(S[i]) = key /\ Key(S[j]) = key
    /\ S[j].at - S[i].at <= ReuseDistance

HoldsPartOf(a, s) ==
  /\ Key(s) = Key(a)
  /\ a.finalPosition = 0 \/ a.finalPosition = Len(s.frame)
  /\ \A q \in DOMAIN a.fragments : q \in DOMAIN s.frame /\ a.fragments[q] = s.frame[q]
  /\ a.updatedAt <= s.at + StateTtl + Latency

IsPure(S, a) == Reused(S, Key(a)) \/ \E i \in DOMAIN S : HoldsPartOf(a, S[i])

TableIsPure(S, table) == \A k \in DOMAIN table : IsPure(S, table[k])

FrameIsSent(S, key, frame) ==
  Reused(S, key) \/ \E i \in DOMAIN S : Key(S[i]) = key /\ S[i].frame = frame

CacheIsOf(S, n, cache) ==
  \A k \in DOMAIN cache : \A x \in DOMAIN cache[k].fragments :
    ComesFrom(S, n, cache[k].fragments[x], cache[k].createdAt)

(* Two frames of one key that are both recent are one, or the key was      *)
(* reused.                                                                 *)
LEMMA RecentIsReused ==
  ASSUME NEW t \in Int, NEW S, Sends(S, t), NEW i \in DOMAIN S, NEW j \in DOMAIN S,
         Key(S[i]) = Key(S[j]),
         S[i].at >= t - (2 * StateTtl + Latency), S[j].at >= t - (2 * StateTtl + Latency), i # j
  PROVE  Reused(S, Key(S[i]))
<1>1. \A x \in DOMAIN S : x \in Int /\ S[x].at \in Int /\ S[x].at <= t
  BY DEF Sends, IsSeq, IsSent
<1>2. ReuseDistance \in Int /\ ReuseDistance = 2 * StateTtl + Latency
  BY ProtocolAssumption, LinkAssumption DEF ReuseDistance
<1>3. CASE i < j
  <2>1. S[j].at - S[i].at <= ReuseDistance
    BY <1>1, <1>2
  <2> QED BY <1>3, <2>1 DEF Reused
<1>4. CASE j < i
  <2>1. S[i].at - S[j].at <= ReuseDistance
    BY <1>1, <1>2
  <2> QED BY <1>4, <2>1 DEF Reused
<1> QED BY <1>1, <1>3, <1>4

LEMMA AddFragmentIsPure ==
  ASSUME NEW t \in Int, NEW S, Sends(S, t), NEW a, IsAssembly(a, t), IsPure(S, a),
         a.updatedAt >= t - StateTtl,
         NEW payload, IsData(payload), payload.index = a.index,
         ComesFrom(S, a.source, payload, t - (StateTtl + Latency))
  PROVE  IsPure(S, AddFragment(a, payload, t))
<1> DEFINE b == AddFragment(a, payload, t)
           position == Abs(payload.position)
<1>1. /\ b.source = a.source /\ b.index = a.index /\ position \in Nat \ {0}
      /\ b.fragments = With(a.fragments, position, payload.body)
      /\ b.finalPosition = IF payload.position < 0 THEN position ELSE a.finalPosition
      /\ b.updatedAt \in {t, a.updatedAt}
  BY AddFragmentFacts
<1> HIDE DEF b, position
<1>2. Key(b) = Key(a)
  BY <1>1 DEF Key
<1>3. /\ DOMAIN b.fragments = {position} \cup DOMAIN a.fragments
      /\ b.fragments[position] = payload.body
      /\ \A q \in DOMAIN a.fragments : q # position => b.fragments[q] = a.fragments[q]
  BY <1>1 DEF With
<1>4. StateTtl \in Nat /\ Latency \in Nat
  BY ProtocolAssumption, LinkAssumption
<1>5. PICK j \in DOMAIN S : S[j].source = a.source /\ IsOf(payload, S[j])
                            /\ S[j].at >= t - (StateTtl + Latency)
  BY DEF ComesFrom
<1>6. Key(S[j]) = Key(a)
  BY <1>5 DEF Key, IsOf
<1>7. CASE Reused(S, Key(a))
  BY <1>2, <1>7 DEF IsPure, b
<1>8. ASSUME NEW i \in DOMAIN S, HoldsPartOf(a, S[i]) PROVE IsPure(S, b)
  <2>1. S[i].at \in Int /\ S[j].at \in Int /\ a.updatedAt \in Int /\ a.updatedAt <= t
    BY DEF Sends, IsSent, IsAssembly
  <2>2. Key(S[i]) = Key(a) /\ a.updatedAt <= S[i].at + StateTtl + Latency
    BY <1>8 DEF HoldsPartOf
  <2>3. /\ S[i].at >= t - (2 * StateTtl + Latency)
        /\ S[j].at >= t - (2 * StateTtl + Latency)
    BY <1>4, <1>5, <2>1, <2>2
  <2>4. CASE i # j
    <3>1. Reused(S, Key(S[i]))
      BY <1>6, <2>2, <2>3, <2>4, RecentIsReused
    <3> QED BY <1>2, <2>2, <3>1 DEF IsPure
  <2>5. CASE i = j
    <3>1. b.updatedAt <= S[i].at + StateTtl + Latency
      BY <1>1, <1>4, <1>5, <2>1, <2>2, <2>5
    <3>2. /\ position \in DOMAIN S[i].frame /\ payload.body = S[i].frame[position]
          /\ payload.position < 0 => position = Len(S[i].frame)
      BY <1>5, <2>5 DEF IsOf, position
    <3>3. \A q \in DOMAIN b.fragments : q \in DOMAIN S[i].frame /\ b.fragments[q] = S[i].frame[q]
      BY <1>3, <1>8, <3>2 DEF HoldsPartOf
    <3>4. b.finalPosition = 0 \/ b.finalPosition = Len(S[i].frame)
      BY <1>1, <1>8, <3>2 DEF HoldsPartOf
    <3>5. HoldsPartOf(b, S[i])
      BY <1>2, <2>2, <3>1, <3>3, <3>4 DEF HoldsPartOf
    <3> QED BY <3>5 DEF IsPure
  <2> QED BY <2>4, <2>5
<1> QED BY <1>7, <1>8 DEF IsPure, b

LEMMA NewAssemblyIsPure ==
  ASSUME NEW t \in Int, NEW S, Sends(S, t), NEW source, NEW payload,
         ComesFrom(S, source, payload, t - (StateTtl + Latency))
  PROVE  IsPure(S, NewAssembly(source, payload.index, t))
<1> DEFINE a == NewAssembly(source, payload.index, t)
<1>1. /\ a.source = source /\ a.index = payload.index
      /\ DOMAIN a.fragments = {} /\ a.finalPosition = 0 /\ a.updatedAt = t
  BY NewAssemblyFacts
<1> HIDE DEF a
<1>2. PICK j \in DOMAIN S : S[j].source = source /\ IsOf(payload, S[j])
                            /\ S[j].at >= t - (StateTtl + Latency)
  BY DEF ComesFrom
<1>3. S[j].at \in Int /\ StateTtl \in Nat /\ Latency \in Nat
  BY ProtocolAssumption, LinkAssumption DEF Sends, IsSent
<1>4. a.updatedAt <= S[j].at + StateTtl + Latency
  BY <1>1, <1>2, <1>3
<1>5. HoldsPartOf(a, S[j])
  BY <1>1, <1>2, <1>4 DEF HoldsPartOf, Key, IsOf
<1> QED BY <1>5 DEF IsPure, a

(* A complete assembly is the frame its fragments are of.                  *)
LEMMA AssembledIsSent ==
  ASSUME NEW t, NEW S, Sends(S, t), NEW a, IsAssembly(a, t), IsPure(S, a), Missing(a) = {}
  PROVE  FrameIsSent(S, Key(a), Assembled(a))
<1>1. a.finalPosition # 0 /\ 1..a.finalPosition \subseteq DOMAIN a.fragments
  BY DEF Missing
<1>2. ASSUME NEW i \in DOMAIN S, HoldsPartOf(a, S[i]) PROVE S[i].frame = Assembled(a)
  <2> DEFINE frame == S[i].frame
             L == Len(frame)
  <2>1. PICK T : frame \in Seq(T)
    BY DEF Sends, IsSent, IsSeq
  <2>2. a.finalPosition = L /\ \A q \in 1..L : a.fragments[q] = frame[q]
    BY <1>1, <1>2 DEF HoldsPartOf
  <2>3. frame = [q \in 1..L |-> frame[q]]
    <3> HIDE DEF frame
    <3> QED BY <2>1
  <2> HIDE DEF L, frame
  <2> QED BY <2>2, <2>3 DEF Assembled, frame
<1> QED BY <1>2 DEF IsPure, FrameIsSent, HoldsPartOf

(* What a call sends, to nodes, are fragments of frames of the node, none  *)
(* older than the lifetime of its cache, and requests.                     *)
Transmits(S, n, transmissions, t) ==
  \A x \in DOMAIN transmissions :
    /\ transmissions[x].destination \in Nodes \cup {Broadcast}
    /\ transmissions[x].payload.kind = "data" =>
         /\ IsData(transmissions[x].payload)
         /\ ComesFrom(S, n, transmissions[x].payload, t - StateTtl)

LEMMA SourceIsNode ==
  ASSUME NEW S, NEW t, Sends(S, t), NEW a, IsPure(S, a)
  PROVE  a.source \in Nodes
<1>1. \E i \in DOMAIN S : Key(S[i]) = Key(a)
  BY DEF IsPure, Reused, HoldsPartOf
<1> QED BY <1>1 DEF Sends, IsSent, Key

LEMMA SelectionIsPure ==
  ASSUME NEW S, NEW old, NEW new, TableIsPure(S, old), Selection(new, old)
  PROVE  TableIsPure(S, new)
BY DEF TableIsPure, Selection

LEMMA AsksIsPure ==
  ASSUME NEW t \in Int, NEW m, IsObject(m, t), NEW S, Sends(S, t), TableIsPure(S, m.assemblies),
         NEW i \in DOMAIN m.assemblies, NEW immediate, NEW n,
         NEW r, r = RequestRepair(m, i, immediate, t)
  PROVE  /\ TableIsPure(S, r.state.assemblies) /\ r.state.txCache = m.txCache
         /\ r.frames = <<>> /\ Transmits(S, n, r.transmissions, t)
<1>1. IsSilent(m, r) \/ \E q : Asks(m, i, q, r, t)
  BY RequestRepairShape
<1>2. CASE IsSilent(m, r)
  BY <1>2 DEF IsSilent, Transmits
<1>3. ASSUME NEW q, Asks(m, i, q, r, t)
      PROVE  /\ TableIsPure(S, r.state.assemblies) /\ r.state.txCache = m.txCache
             /\ r.frames = <<>> /\ Transmits(S, n, r.transmissions, t)
  <2> DEFINE a == m.assemblies[i]
             b == Asking(a, q, t)
             table == r.state.assemblies
  <2>1. /\ DOMAIN table = DOMAIN m.assemblies /\ table[i] = b
        /\ \A k \in DOMAIN table : k # i => table[k] = m.assemblies[k]
        /\ r.state.txCache = m.txCache
    BY <1>3, AsksFacts
  <2>2. IsAssembly(a, t) /\ q \in Missing(a)
    BY <1>3 DEF IsObject, IsTable, Asks, IsAsked
  <2>3. /\ b.source = a.source /\ b.index = a.index /\ b.updatedAt = a.updatedAt
        /\ b.fragments = a.fragments /\ b.finalPosition = a.finalPosition
    BY <2>2, AskingFacts
  <2>4. IsPure(S, a) /\ a.source \in Nodes
    BY SourceIsNode DEF TableIsPure
  <2> HIDE DEF a, b, table
  <2>5. Key(b) = Key(a)
    BY <2>3 DEF Key
  <2>6. \A s : HoldsPartOf(a, s) => HoldsPartOf(b, s)
    BY <2>3, <2>5 DEF HoldsPartOf
  <2>7. IsPure(S, b)
    BY <2>4, <2>5, <2>6 DEF IsPure
  <2>8. TableIsPure(S, table)
    BY <2>1, <2>7 DEF TableIsPure
  <2>9. r.transmissions = <<Transmission(a.source, RequestPayload(a.index, q))>> /\ r.frames = <<>>
    BY <1>3 DEF Asks, a
  <2>10. Transmits(S, n, r.transmissions, t)
    BY <2>4, <2>9 DEF Transmits, Transmission, RequestPayload
  <2> QED BY <2>1, <2>8, <2>9, <2>10 DEF table
<1> QED BY <1>1, <1>2, <1>3

LEMMA EntersIsPure ==
  ASSUME NEW t \in Int, NEW S, Sends(S, t), NEW p, IsObject(p, t), TableIsPure(S, p.assemblies),
         \A k \in DOMAIN p.assemblies : p.assemblies[k].updatedAt >= t - StateTtl,
         NEW source, NEW payload, IsData(payload),
         ComesFrom(S, source, payload, t - (StateTtl + Latency)),
         NEW i, NEW table, Enters(p, <<source, payload.index>>, payload, i, table, t)
  PROVE  TableIsPure(S, table)
<1>1. \A k \in DOMAIN table : k # i => k \in DOMAIN p.assemblies /\ table[k] = p.assemblies[k]
  BY DEF Enters
<1>2. IsPure(S, table[i])
  <2>1. CASE i \in DOMAIN p.assemblies /\ Key(p.assemblies[i]) = <<source, payload.index>>
    <3> DEFINE a == p.assemblies[i]
    <3>1. table[i] = AddFragment(a, payload, t)
      BY <2>1 DEF Enters
    <3>2. IsAssembly(a, t) /\ IsPure(S, a) /\ a.updatedAt >= t - StateTtl
          /\ a.source = source /\ a.index = payload.index
      BY <2>1 DEF IsObject, IsTable, TableIsPure, Key
    <3> HIDE DEF a
    <3> QED BY <3>1, <3>2, AddFragmentIsPure
  <2>2. CASE i \notin DOMAIN p.assemblies
    <3> DEFINE a == NewAssembly(source, payload.index, t)
    <3>1. table[i] = AddFragment(a, payload, t)
      BY <2>2 DEF Enters
    <3>2. IsAssembly(a, t) /\ a.source = source /\ a.index = payload.index /\ a.updatedAt = t
      BY NewAssemblyFacts
    <3>3. IsPure(S, a)
      BY NewAssemblyIsPure
    <3> HIDE DEF a
    <3>4. a.updatedAt >= t - StateTtl
      BY <3>2, ProtocolAssumption
    <3> QED BY <3>1, <3>2, <3>3, <3>4, AddFragmentIsPure
  <2> QED BY <2>1, <2>2 DEF Enters
<1> QED BY <1>1, <1>2 DEF TableIsPure

(* A call of node n with the frames it hands up under key.                 *)
IsPureCall(S, n, r, key, t) ==
  /\ TableIsPure(S, r.state.assemblies)
  /\ CacheIsOf(S, n, r.state.txCache)
  /\ \A x \in DOMAIN r.frames : FrameIsSent(S, key, r.frames[x])
  /\ Transmits(S, n, r.transmissions, t)

LEMMA CleanupIsPure ==
  ASSUME NEW t \in Int, NEW S, NEW n, NEW p, IsObject(p, t),
         TableIsPure(S, p.assemblies), CacheIsOf(S, n, p.txCache)
  PROVE  LET q == Cleanup(p, t) IN
         TableIsPure(S, q.assemblies) /\ CacheIsOf(S, n, q.txCache)
<1> DEFINE q == Cleanup(p, t)
<1>1. Selection(q.assemblies, p.assemblies) /\ Selection(q.txCache, p.txCache)
  BY CleanupShape
<1> HIDE DEF q
<1>2. TableIsPure(S, q.assemblies)
  BY <1>1, SelectionIsPure
<1>3. CacheIsOf(S, n, q.txCache)
  BY <1>1 DEF Selection, CacheIsOf
<1> QED BY <1>2, <1>3 DEF q

LEMMA SilentIsPure ==
  ASSUME NEW S, NEW n, NEW p, TableIsPure(S, p.assemblies), CacheIsOf(S, n, p.txCache),
         NEW r, IsSilent(p, r), NEW key, NEW t
  PROVE  IsPureCall(S, n, r, key, t)
BY DEF IsPureCall, IsSilent, Transmits

LEMMA RequestIsPure ==
  ASSUME NEW t \in Int, NEW S, Sends(S, t), NEW n, NEW p, IsObject(p, t),
         \A k \in DOMAIN p.txCache : p.txCache[k].createdAt >= t - StateTtl,
         TableIsPure(S, p.assemblies), CacheIsOf(S, n, p.txCache),
         NEW source \in Nodes, NEW payload, NEW key, NEW r, r = HandleRequest(p, source, payload)
  PROVE  IsPureCall(S, n, r, key, t)
<1>1. /\ r.state = p /\ r.frames = <<>>
      /\ \/ r.transmissions = <<>>
         \/ \E k \in DOMAIN p.txCache : \E i \in DOMAIN p.txCache[k].fragments :
              r.transmissions = <<Transmission(source, p.txCache[k].fragments[i])>>
  BY HandleRequestShape
<1>2. ASSUME NEW k \in DOMAIN p.txCache, NEW i \in DOMAIN p.txCache[k].fragments,
             r.transmissions = <<Transmission(source, p.txCache[k].fragments[i])>>
      PROVE  Transmits(S, n, r.transmissions, t)
  <2> DEFINE x == p.txCache[k].fragments[i]
             c == p.txCache[k].createdAt
  <2>1. IsData(x) /\ c \in Int /\ c >= t - StateTtl /\ ComesFrom(S, n, x, c)
    BY DEF IsObject, IsCache, IsEntry, CacheIsOf
  <2> HIDE DEF x, c
  <2>2. ComesFrom(S, n, x, t - StateTtl)
    <3>1. PICK j \in DOMAIN S : S[j].source = n /\ IsOf(x, S[j]) /\ S[j].at >= c
      BY <2>1 DEF ComesFrom
    <3>2. S[j].at \in Int
      BY DEF Sends, IsSent
    <3>3. S[j].at >= t - StateTtl
      BY <2>1, <3>1, <3>2, ProtocolAssumption
    <3> QED BY <3>1, <3>3 DEF ComesFrom
  <2>3. r.transmissions = <<Transmission(source, x)>>
    BY <1>2 DEF x
  <2> QED BY <2>1, <2>2, <2>3 DEF Transmits, Transmission
<1>3. Transmits(S, n, r.transmissions, t)
  BY <1>1, <1>2 DEF Transmits
<1> QED BY <1>1, <1>3 DEF IsPureCall

LEMMA PollIsPure ==
  ASSUME NEW t \in Int, NEW S, Sends(S, t), NEW n, NEW p, IsObject(p, t),
         TableIsPure(S, p.assemblies), CacheIsOf(S, n, p.txCache), NEW key,
         NEW allowControl, NEW r, r = PollRepairs(p, allowControl, t)
  PROVE  IsPureCall(S, n, r, key, t)
<1> DEFINE q == Cleanup(p, t)
<1>1. IsObject(q, t) /\ TableIsPure(S, q.assemblies) /\ CacheIsOf(S, n, q.txCache)
  BY CleanupShape, CleanupIsPure
<1>2. PollsOnce(q, r, t)
  BY PollShape
<1> HIDE DEF q
<1>3. CASE IsSilent(q, r)
  BY <1>1, <1>3, SilentIsPure
<1>4. ASSUME NEW i \in DOMAIN q.assemblies, NEW immediate, r = RequestRepair(q, i, immediate, t)
      PROVE  IsPureCall(S, n, r, key, t)
  <2>1. /\ TableIsPure(S, r.state.assemblies) /\ r.state.txCache = q.txCache
        /\ r.frames = <<>> /\ Transmits(S, n, r.transmissions, t)
    BY <1>1, <1>4, AsksIsPure
  <2> QED BY <1>1, <2>1 DEF IsPureCall
<1> QED BY <1>2, <1>3, <1>4 DEF PollsOnce, RepairOf

LEMMA ReceiveIsPure ==
  ASSUME NEW t \in Int, NEW S, Sends(S, t), NEW n, NEW p, IsObject(p, t),
         TableIsPure(S, p.assemblies), CacheIsOf(S, n, p.txCache),
         NEW source \in Nodes, NEW payload, NEW allowControl,
         payload.kind = "data" =>
           IsData(payload) /\ ComesFrom(S, source, payload, t - (StateTtl + Latency)),
         NEW r, r = Receive(p, source, payload, allowControl, t)
  PROVE  IsPureCall(S, n, r, <<source, payload.index>>, t)
<1> DEFINE q == Cleanup(p, t)
           key == <<source, payload.index>>
<1>1. /\ IsObject(q, t) /\ TableIsPure(S, q.assemblies) /\ CacheIsOf(S, n, q.txCache)
      /\ \A k \in DOMAIN q.assemblies : q.assemblies[k].updatedAt >= t - StateTtl
      /\ \A k \in DOMAIN q.txCache : q.txCache[k].createdAt >= t - StateTtl
  BY CleanupShape, CleanupIsPure
<1>2. r = IF payload.kind = "data" THEN HandleFragment(q, source, payload, allowControl, t)
          ELSE IF allowControl THEN HandleRequest(q, source, payload) ELSE Silent(q)
  BY DEF Receive
<1>3. IsSilent(q, Silent(q))
  BY SilentIsSilent
<1>4. key = <<key[1], key[2]>>
  OBVIOUS
<1> HIDE DEF q
<1>5. CASE IsSilent(q, r)
  BY <1>1, <1>5, SilentIsPure
<1>6. CASE r = HandleRequest(q, source, payload)
  BY <1>1, <1>6, RequestIsPure
<1>7. ASSUME payload.kind = "data", NEW i, NEW table,
             Enters(q, key, payload, i, table, t), Reassembles(q, key, payload, i, table, r, t)
      PROVE  IsPureCall(S, n, r, key, t)
  <2> DEFINE kept == [q EXCEPT !.assemblies = table]
             a == table[i]
  <2>1. IsData(payload) /\ ComesFrom(S, source, payload, t - (StateTtl + Latency))
    BY <1>7
  <2>2. TableIsPure(S, table)
    BY <1>1, <1>7, <2>1, EntersIsPure
  <2> HIDE DEF key
  <2>3. IsTable(table, t) /\ Key(a) = key /\ IsObject(kept, t)
    BY <1>1, <1>4, <1>7, <2>1, EntersFacts
  <2>4. kept.assemblies = table /\ kept.txCache = q.txCache /\ i \in DOMAIN table
    BY <1>1, <1>7 DEF IsObject, Enters
  <2> HIDE DEF kept
  <2>5. CASE IsSilent(kept, r)
    BY <1>1, <2>2, <2>4, <2>5, SilentIsPure
  <2>6. CASE r = RequestRepair(kept, i, TRUE, t)
    <3>0. IsObject(kept, t) /\ TableIsPure(S, kept.assemblies) /\ i \in DOMAIN kept.assemblies
      BY <2>2, <2>3, <2>4
    <3>1. /\ TableIsPure(S, r.state.assemblies) /\ r.state.txCache = kept.txCache
          /\ r.frames = <<>> /\ Transmits(S, n, r.transmissions, t)
      BY <2>6, <3>0, AsksIsPure
    <3> QED BY <1>1, <2>4, <3>1 DEF IsPureCall
  <2>7. CASE Missing(a) = {} /\ r = Complete(q, key, a, t)
    <3>1. /\ r.state.txCache = q.txCache /\ Selection(r.state.assemblies, q.assemblies)
          /\ r.transmissions = <<>>
          /\ r.frames = <<>> \/ r.frames = <<Assembled(a)>>
      BY <1>1, <2>7, CompleteShape
    <3>2. IsAssembly(a, t) /\ IsPure(S, a)
      BY <2>2, <2>3, <2>4 DEF IsTable, TableIsPure
    <3> HIDE DEF a
    <3>3. FrameIsSent(S, key, Assembled(a))
      BY <2>3, <2>7, <3>2, AssembledIsSent
    <3>4. \A x \in DOMAIN r.frames : FrameIsSent(S, key, r.frames[x])
      BY <3>1, <3>3
    <3>5. TableIsPure(S, r.state.assemblies) /\ Transmits(S, n, r.transmissions, t)
      BY <1>1, <3>1, SelectionIsPure DEF Transmits
    <3> QED BY <1>1, <3>1, <3>4, <3>5 DEF IsPureCall
  <2> QED BY <1>7, <2>5, <2>6, <2>7 DEF Reassembles, kept
<1>8. CASE payload.kind = "data"
  <2>1. r = HandleFragment(q, source, payload, allowControl, t)
    BY <1>2, <1>8
  <2>2. \/ IsSilent(q, r)
        \/ \E i, table : Enters(q, key, payload, i, table, t)
                         /\ Reassembles(q, key, payload, i, table, r, t)
    BY <1>1, <2>1, HandleFragmentShape
  <2> QED BY <1>5, <1>7, <1>8, <2>2
<1> QED BY <1>2, <1>3, <1>5, <1>6, <1>8

(* What was sent stays sent.                                               *)
Grows(S, more) == \A i \in DOMAIN S : i \in DOMAIN more /\ more[i] = S[i]

LEMMA PureGrows ==
  ASSUME NEW S, NEW more, Grows(S, more)
  PROVE  /\ \A source, payload, since :
              ComesFrom(S, source, payload, since) => ComesFrom(more, source, payload, since)
         /\ \A key : Reused(S, key) => Reused(more, key)
         /\ \A key, frame : FrameIsSent(S, key, frame) => FrameIsSent(more, key, frame)
         /\ \A table : TableIsPure(S, table) => TableIsPure(more, table)
         /\ \A n, cache : CacheIsOf(S, n, cache) => CacheIsOf(more, n, cache)
<1>1. \A source, payload, since :
        ComesFrom(S, source, payload, since) => ComesFrom(more, source, payload, since)
  BY DEF Grows, ComesFrom
<1>2. \A key : Reused(S, key) => Reused(more, key)
  BY DEF Grows, Reused
<1>3. \A key, frame : FrameIsSent(S, key, frame) => FrameIsSent(more, key, frame)
  BY <1>2 DEF Grows, FrameIsSent
<1>4. \A a : IsPure(S, a) => IsPure(more, a)
  BY <1>2 DEF Grows, IsPure
<1>5. \A table : TableIsPure(S, table) => TableIsPure(more, table)
  BY <1>4 DEF TableIsPure
<1>6. \A n, cache : CacheIsOf(S, n, cache) => CacheIsOf(more, n, cache)
  BY <1>1 DEF CacheIsOf
<1> QED BY <1>1, <1>2, <1>3, <1>5, <1>6

(* The encoded frame of n is sent at t as s.                               *)
IsEncoded(s, n, index, frame, t) ==
  s.source = n /\ s.index = index /\ s.frame = frame /\ s.at = t

LEMMA EncodeIsPure ==
  ASSUME NEW t \in Int, NEW S, Sends(S, t), NEW n \in Nodes, NEW p, IsObject(p, t),
         TableIsPure(S, p.assemblies), CacheIsOf(S, n, p.txCache),
         NEW T, NEW frame \in Seq(T), NEW destination \in Nodes \cup {Broadcast}, NEW key,
         NEW more, Grows(S, more), NEW j \in DOMAIN more,
         IsEncoded(more[j], n, p.nextIndex, frame, t),
         NEW r, r = Encode(p, frame, destination, t)
  PROVE  IsPureCall(more, n, r, key, t)
<1> DEFINE q == Cleanup(p, t)
           parts == Fragments(frame, p.nextIndex)
<1>1. /\ r.state.assemblies = q.assemblies /\ r.frames = <<>>
      /\ r.transmissions = Each(destination, parts)
      /\ \A k \in DOMAIN r.state.txCache :
           \/ \E i \in DOMAIN q.txCache : r.state.txCache[k] = q.txCache[i]
           \/ r.state.txCache[k] = NewEntry(p.nextIndex, destination, t, parts)
  BY EncodeShape
<1>2. /\ DOMAIN parts = DOMAIN frame
      /\ \A i \in DOMAIN parts :
           /\ IsData(parts[i]) /\ parts[i].index = p.nextIndex
           /\ Abs(parts[i].position) = i /\ parts[i].body = frame[i]
           /\ parts[i].position < 0 <=> i = Len(frame)
  BY FragmentsFacts
<1>3. TableIsPure(more, q.assemblies) /\ CacheIsOf(more, n, q.txCache)
  BY CleanupIsPure, PureGrows
<1> HIDE DEF q, parts
<1>4. \A i \in DOMAIN parts : ComesFrom(more, n, parts[i], t)
                             /\ ComesFrom(more, n, parts[i], t - StateTtl)
  <2> SUFFICES ASSUME NEW i \in DOMAIN parts
               PROVE  ComesFrom(more, n, parts[i], t) /\ ComesFrom(more, n, parts[i], t - StateTtl)
    OBVIOUS
  <2>1. IsOf(parts[i], more[j]) /\ more[j].source = n /\ more[j].at = t
    BY <1>2 DEF IsOf, IsEncoded
  <2>2. t >= t - StateTtl /\ t >= t
    BY ProtocolAssumption
  <2> QED BY <2>1, <2>2 DEF ComesFrom
<1>5. CacheIsOf(more, n, r.state.txCache)
  <2> SUFFICES ASSUME NEW k \in DOMAIN r.state.txCache
               PROVE  \A x \in DOMAIN r.state.txCache[k].fragments :
                        ComesFrom(more, n, r.state.txCache[k].fragments[x],
                                  r.state.txCache[k].createdAt)
    BY DEF CacheIsOf
  <2>1. CASE \E i \in DOMAIN q.txCache : r.state.txCache[k] = q.txCache[i]
    BY <1>3, <2>1 DEF CacheIsOf
  <2>2. CASE r.state.txCache[k] = NewEntry(p.nextIndex, destination, t, parts)
    BY <1>4, <2>2 DEF NewEntry
  <2> QED BY <1>1, <2>1, <2>2
<1>6. Transmits(more, n, r.transmissions, t)
  BY <1>1, <1>2, <1>4 DEF Transmits, Each, Transmission
<1> QED BY <1>1, <1>3, <1>5, <1>6 DEF IsPureCall

-----------------------------------------------------------------------------
(* The invariant of the system.                                            *)

AreSent(S, up) ==
  IsSeq(up) /\ \A j \in DOMAIN up : FrameIsSent(S, Key(up[j]), up[j].frame)

NodeInv(n, p, log, up, S, t) ==
  /\ IsObject(p, t) /\ IsLog(log, t)
  /\ BudgetInv(log, p.repairTimes, t)
  /\ BackoffInv(log, p.assemblies)
  /\ TableIsPure(S, p.assemblies) /\ CacheIsOf(S, n, p.txCache)
  /\ AreSent(S, up)

PacketInv(packet, S, t) ==
  /\ packet.src \in Nodes /\ packet.dst \in Nodes
  /\ packet.sentAt \in Int /\ packet.sentAt <= t /\ packet.sentAt >= t - Latency
  /\ packet.payload.kind = "data" =>
       /\ IsData(packet.payload)
       /\ ComesFrom(S, packet.src, packet.payload, packet.sentAt - StateTtl)

LinkInv ==
  /\ now \in Int
  /\ DOMAIN proto = Nodes /\ DOMAIN asked = Nodes /\ DOMAIN delivered = Nodes
  /\ Sends(sent, now)
  /\ \A n \in Nodes : NodeInv(n, proto[n], asked[n], delivered[n], sent, now)
  /\ \A packet \in radio : PacketInv(packet, sent, now)

LEMMA NewObject ==
  ASSUME NEW n, NEW S, NEW t
  PROVE  NodeInv(n, InitProtocol, <<>>, <<>>, S, t)
<1>1. /\ {"nextIndex", "assemblies", "txCache", "repairTimes"} \subseteq DOMAIN InitProtocol
      /\ InitProtocol.assemblies = <<>> /\ InitProtocol.txCache = <<>>
      /\ InitProtocol.repairTimes = <<>>
  BY DEF InitProtocol
<1>2. <<>> \in Seq(Int) /\ DOMAIN <<>> = {} /\ Len(<<>>) = 0 /\ \A T : <<>> \in Seq(T)
  OBVIOUS
<1>3. IsSeq(<<>>)
  BY <1>2 DEF IsSeq
<1>4. IsObject(InitProtocol, t) /\ IsLog(<<>>, t) /\ AreSent(S, <<>>)
  BY <1>1, <1>2, <1>3 DEF IsObject, IsTable, IsCache, Distinct, IsLog, AreSent
<1>5. BudgetInv(<<>>, <<>>, t)
  BY <1>2, ProtocolAssumption DEF BudgetInv, Counted, Spaced
<1>6. BackoffInv(<<>>, <<>>)
  BY <1>2 DEF BackoffInv, LiveHasAssembly, Backoff
<1>7. TableIsPure(S, <<>>) /\ CacheIsOf(S, n, <<>>)
  BY <1>2 DEF TableIsPure, CacheIsOf
<1> QED BY <1>1, <1>4, <1>5, <1>6, <1>7 DEF NodeInv

LEMMA LinkInitially == Init => LinkInv
<1> SUFFICES ASSUME Init PROVE LinkInv
  OBVIOUS
<1>1. /\ now = 0 /\ radio = {} /\ sent = <<>>
      /\ DOMAIN proto = Nodes /\ DOMAIN asked = Nodes /\ DOMAIN delivered = Nodes
      /\ \A n \in Nodes : proto[n] = InitProtocol /\ asked[n] = <<>> /\ delivered[n] = <<>>
  BY DEF Init
<1>2. Sends(sent, now)
  <2>1. <<>> \in Seq({}) /\ DOMAIN <<>> = {}
    OBVIOUS
  <2> QED BY <1>1, <2>1 DEF Sends, IsSeq
<1>3. \A n \in Nodes : NodeInv(n, proto[n], asked[n], delivered[n], sent, now)
  BY <1>1, NewObject
<1> QED BY <1>1, <1>2, <1>3 DEF LinkInv

LEMMA PacketGrows ==
  ASSUME NEW packet, NEW S, NEW more, Grows(S, more), NEW t, PacketInv(packet, S, t)
  PROVE  PacketInv(packet, more, t)
BY PureGrows DEF PacketInv

(* The packets of a call.                                                  *)
LEMMA PacketsAreOf ==
  ASSUME NEW n \in Nodes, NEW S, now \in Int, NEW transmissions,
         Transmits(S, n, transmissions, now), NEW packet \in Packets(n, transmissions)
  PROVE  PacketInv(packet, S, now)
<1>0. PICK i \in DOMAIN transmissions :
        packet \in {[src |-> n, dst |-> m, payload |-> transmissions[i].payload, sentAt |-> now] :
                      m \in Receivers(n, transmissions[i].destination)}
  BY DEF Packets
<1>1. PICK m \in Receivers(n, transmissions[i].destination) :
        packet = [src |-> n, dst |-> m, payload |-> transmissions[i].payload, sentAt |-> now]
  BY <1>0
<1>2. packet.src = n /\ packet.dst = m /\ packet.payload = transmissions[i].payload
      /\ packet.sentAt = now
  BY <1>1
<1>3. m \in Nodes
  BY <1>1, LinkAssumption DEF Receivers, Transmits
<1>4. Latency \in Nat
  BY LinkAssumption
<1> QED BY <1>2, <1>3, <1>4 DEF PacketInv, Transmits

(* One call of node n, whatever it hands up was sent.                      *)
LEMMA CallStep ==
  ASSUME LinkInv, NEW n \in Nodes, NEW r, NEW left \in SUBSET radio, Commit(n, r, left),
         now' = now, Sends(sent', now), Grows(sent, sent'),
         IsCall(proto[n], r, now), NEW key, IsPureCall(sent', n, r, key, now),
         DOMAIN delivered' = Nodes,
         \A m \in Nodes : m # n => delivered'[m] = delivered[m],
         AreSent(sent', delivered'[n])
  PROVE  LinkInv'
<1>1. /\ proto' = [proto EXCEPT ![n] = r.state]
      /\ radio' = left \cup Packets(n, r.transmissions)
      /\ asked' = [asked EXCEPT ![n] = Logged(asked[n], proto[n], r)]
  BY DEF Commit
<1>2. /\ now \in Int /\ NodeInv(n, proto[n], asked[n], delivered[n], sent, now)
      /\ DOMAIN proto = Nodes /\ DOMAIN asked = Nodes
  BY DEF LinkInv
<1>3. /\ IsObject(r.state, now) /\ IsLog(Logged(asked[n], proto[n], r), now)
      /\ BudgetInv(Logged(asked[n], proto[n], r), r.state.repairTimes, now)
      /\ BackoffInv(Logged(asked[n], proto[n], r), r.state.assemblies)
  BY <1>2, BudgetCall, BackoffCall DEF NodeInv
<1>4. /\ TableIsPure(sent', r.state.assemblies) /\ CacheIsOf(sent', n, r.state.txCache)
      /\ Transmits(sent', n, r.transmissions, now)
  BY DEF IsPureCall
<1>5. ASSUME NEW m \in Nodes
      PROVE  NodeInv(m, proto'[m], asked'[m], delivered'[m], sent', now)
  <2>1. CASE m = n
    BY <1>1, <1>2, <1>3, <1>4, <2>1 DEF NodeInv
  <2>2. CASE m # n
    <3>1. proto'[m] = proto[m] /\ asked'[m] = asked[m] /\ delivered'[m] = delivered[m]
      BY <1>1, <1>2, <2>2
    <3>2. NodeInv(m, proto[m], asked[m], delivered[m], sent, now)
      BY DEF LinkInv
    <3>3. /\ TableIsPure(sent', proto[m].assemblies) /\ CacheIsOf(sent', m, proto[m].txCache)
          /\ AreSent(sent', delivered[m])
      BY <3>2, PureGrows DEF NodeInv, AreSent
    <3> QED BY <3>1, <3>2, <3>3 DEF NodeInv
  <2> QED BY <2>1, <2>2
<1>6. ASSUME NEW packet \in radio' PROVE PacketInv(packet, sent', now)
  <2>1. CASE packet \in radio
    BY <2>1, PacketGrows DEF LinkInv
  <2>2. CASE packet \in Packets(n, r.transmissions)
    BY <1>2, <1>4, <2>2, PacketsAreOf
  <2> QED BY <1>1, <2>1, <2>2
<1>7. DOMAIN proto' = Nodes /\ DOMAIN asked' = Nodes
  BY <1>1, <1>2
<1> QED BY <1>2, <1>5, <1>6, <1>7 DEF LinkInv

LEMMA SentGrows ==
  ASSUME NEW S, NEW t, Sends(S, t), NEW s, IsSent(s, t)
  PROVE  /\ Sends(Append(S, s), t) /\ Grows(S, Append(S, s))
         /\ \E j \in DOMAIN Append(S, s) : Append(S, s)[j] = s
<1> DEFINE more == Append(S, s)
           L == Len(S)
<1>1. PICK T : S \in Seq(T)
  BY DEF Sends, IsSeq
<1>2. /\ L \in Nat /\ DOMAIN S = 1..L /\ more \in Seq(T \cup {s}) /\ DOMAIN more = 1..L + 1
      /\ more[L + 1] = s /\ \A i \in 1..L : more[i] = S[i]
  <2>1. S \in Seq(T \cup {s})
    BY <1>1
  <2> QED BY <1>1, <2>1
<1> HIDE DEF more, L
<1>3. \A i \in 1..L + 1 : i \in 1..L \/ i = L + 1
  BY <1>2
<1>4. Sends(more, t)
  BY <1>2, <1>3 DEF Sends, IsSeq
<1>5. L + 1 \in DOMAIN more /\ \A i \in 1..L : i \in DOMAIN more
  BY <1>2
<1> QED BY <1>2, <1>4, <1>5 DEF Grows, more

LEMMA LinkSends ==
  ASSUME LinkInv, NEW n, NEW destination, <<n, destination>> \in Senders,
         NEW frame \in Frames, Send(n, destination, frame)
  PROVE  LinkInv'
<1> DEFINE s == [source |-> n, destination |-> destination,
                 index |-> proto[n].nextIndex, frame |-> frame, at |-> now]
           r == Encode(proto[n], frame, destination, now)
<1>1. /\ Commit(n, r, radio) /\ sent' = Append(sent, s)
      /\ now' = now /\ delivered' = delivered
  BY DEF Send
<1>2. n \in Nodes /\ destination \in Nodes \cup {Broadcast} /\ frame \in Seq(Chunks)
  BY LinkAssumption
<1>3. s.source = n /\ s.index = proto[n].nextIndex /\ s.frame = frame /\ s.at = now
  OBVIOUS
<1> HIDE DEF s, r
<1>4. now \in Int /\ Sends(sent, now) /\ DOMAIN delivered = Nodes
      /\ NodeInv(n, proto[n], asked[n], delivered[n], sent, now)
  BY <1>2 DEF LinkInv
<1>5. IsSent(s, now)
  BY <1>2, <1>3, <1>4 DEF IsSent, IsSeq
<1>6. /\ Sends(sent', now) /\ Grows(sent, sent')
      /\ \E j \in DOMAIN sent' : sent'[j] = s
  BY <1>1, <1>4, <1>5, SentGrows
<1>7. PICK j \in DOMAIN sent' : sent'[j] = s
  BY <1>6
<1>8. IsEncoded(sent'[j], n, proto[n].nextIndex, frame, now)
  BY <1>3, <1>7 DEF IsEncoded
<1>9. /\ IsObject(proto[n], now) /\ TableIsPure(sent, proto[n].assemblies)
      /\ CacheIsOf(sent, n, proto[n].txCache) /\ AreSent(sent, delivered[n])
  BY <1>4 DEF NodeInv
<1>10. IsPureCall(sent', n, r, 0, now)
  BY <1>2, <1>4, <1>6, <1>8, <1>9, EncodeIsPure DEF r
<1>11. IsCall(proto[n], r, now)
  BY <1>2, <1>4, <1>9, EncodeIsCall DEF r
<1>12. AreSent(sent', delivered'[n])
  BY <1>1, <1>6, <1>9, PureGrows DEF AreSent
<1> QED BY <1>1, <1>2, <1>4, <1>6, <1>10, <1>11, <1>12, CallStep

LEMMA GrowsNot == \A S : Grows(S, S)
BY DEF Grows

LEMMA LinkPolls ==
  ASSUME LinkInv, NEW n \in Nodes, NEW allowControl, Poll(n, allowControl)
  PROVE  LinkInv'
<1> DEFINE r == PollRepairs(proto[n], allowControl, now)
<1>1. Commit(n, r, radio) /\ now' = now /\ sent' = sent /\ delivered' = delivered
  BY DEF Poll
<1> HIDE DEF r
<1>2. now \in Int /\ Sends(sent, now) /\ DOMAIN delivered = Nodes
      /\ NodeInv(n, proto[n], asked[n], delivered[n], sent, now)
  BY DEF LinkInv
<1>3. /\ IsObject(proto[n], now) /\ TableIsPure(sent, proto[n].assemblies)
      /\ CacheIsOf(sent, n, proto[n].txCache) /\ AreSent(sent, delivered[n])
  BY <1>2 DEF NodeInv
<1>4. IsPureCall(sent, n, r, 0, now)
  BY <1>2, <1>3, PollIsPure DEF r
<1>5. IsCall(proto[n], r, now)
  BY <1>2, <1>3, PollIsCall DEF r
<1> QED BY <1>1, <1>2, <1>3, <1>4, <1>5, CallStep, GrowsNot

(* What goes up is appended.                                               *)
HandedUp(source, index, frames, t) ==
  [j \in DOMAIN frames |->
     [source |-> source, index |-> index, frame |-> frames[j], at |-> t]]

LEMMA UpAppends ==
  ASSUME NEW S, NEW up, AreSent(S, up), NEW source, NEW index, NEW t, NEW frames,
         frames = <<>> \/ \E f : frames = <<f>>,
         \A x \in DOMAIN frames : FrameIsSent(S, <<source, index>>, frames[x])
  PROVE  AreSent(S, up \o HandedUp(source, index, frames, t))
<1> DEFINE new == HandedUp(source, index, frames, t)
<1>1. PICK T : up \in Seq(T)
  BY DEF AreSent, IsSeq
<1>2. CASE frames = <<>>
  <2>1. new = <<>>
    BY <1>2 DEF HandedUp
  <2> HIDE DEF new
  <2>2. up \o new = up
    BY <1>1, <2>1
  <2> QED BY <2>2 DEF new
<1>3. ASSUME NEW f, frames = <<f>> PROVE AreSent(S, up \o new)
  <2> DEFINE d == [source |-> source, index |-> index, frame |-> f, at |-> t]
  <2>1. new = <<d>>
    BY <1>3 DEF HandedUp
  <2>2. Key(d) = <<source, index>> /\ d.frame = f
    BY DEF Key
  <2>3. FrameIsSent(S, Key(d), d.frame)
    BY <1>3, <2>2
  <2> HIDE DEF d, new
  <2>4. /\ \E U : up \o <<d>> \in Seq(U)
        /\ DOMAIN (up \o <<d>>) = DOMAIN up \cup {Len(up) + 1}
        /\ (up \o <<d>>)[Len(up) + 1] = d
        /\ \A j \in DOMAIN up : (up \o <<d>>)[j] = up[j]
    BY <1>1, AppendTo
  <2> QED BY <2>1, <2>3, <2>4 DEF AreSent, IsSeq
<1> QED BY <1>2, <1>3

LEMMA LinkDelivers ==
  ASSUME LinkInv, IInv, NEW packet \in radio, NEW allowControl, NEW again,
         Deliver(packet, allowControl, again)
  PROVE  LinkInv'
<1> DEFINE n == packet.dst
           source == packet.src
           payload == packet.payload
           key == <<source, payload.index>>
           r == Receive(proto[n], source, payload, allowControl, now)
           left == IF again THEN radio ELSE radio \ {packet}
           new == HandedUp(source, payload.index, r.frames, now)
<1>1. /\ Commit(n, r, left)
      /\ delivered' = [delivered EXCEPT ![n] = delivered[n] \o new]
      /\ now' = now /\ sent' = sent
  BY DEF Deliver, HandedUp
<1>2. left \in SUBSET radio
  OBVIOUS
<1>3. PacketInv(packet, sent, now)
  BY DEF LinkInv
<1>4. n \in Nodes /\ source \in Nodes
  BY <1>3 DEF PacketInv
<1> HIDE DEF left, r, n
<1>5. now \in Int /\ Sends(sent, now) /\ DOMAIN delivered = Nodes
      /\ NodeInv(n, proto[n], asked[n], delivered[n], sent, now)
  BY <1>4 DEF LinkInv
<1>6. /\ IsObject(proto[n], now) /\ TableIsPure(sent, proto[n].assemblies)
      /\ CacheIsOf(sent, n, proto[n].txCache) /\ AreSent(sent, delivered[n])
  BY <1>5 DEF NodeInv
<1>7. payload.kind = "data" =>
        IsData(payload) /\ ComesFrom(sent, source, payload, now - (StateTtl + Latency))
  <2> SUFFICES ASSUME payload.kind = "data"
               PROVE  IsData(payload)
                      /\ ComesFrom(sent, source, payload, now - (StateTtl + Latency))
    OBVIOUS
  <2>1. /\ IsData(payload) /\ packet.sentAt \in Int /\ packet.sentAt >= now - Latency
        /\ ComesFrom(sent, source, payload, packet.sentAt - StateTtl)
    BY <1>3 DEF PacketInv
  <2>2. PICK j \in DOMAIN sent : /\ sent[j].source = source /\ IsOf(payload, sent[j])
                                 /\ sent[j].at >= packet.sentAt - StateTtl
    BY <2>1 DEF ComesFrom
  <2>3. sent[j].at \in Int
    BY <1>5 DEF Sends, IsSent
  <2>4. sent[j].at >= now - (StateTtl + Latency)
    BY <1>5, <2>1, <2>2, <2>3, ProtocolAssumption, LinkAssumption
  <2> QED BY <2>1, <2>2, <2>4 DEF ComesFrom
<1> HIDE DEF source, payload
<1>8. IsPureCall(sent, n, r, key, now)
  BY <1>4, <1>5, <1>6, <1>7, ReceiveIsPure DEF r, source, payload
<1>9. IsCall(proto[n], r, now)
  BY <1>5, <1>6, <1>7, ReceiveIsCall DEF r, source, payload
<1>10. r.frames = <<>> \/ \E f : r.frames = <<f>>
  <2>1. ObjectInv(proto[n], now)
    BY <1>4 DEF IInv, ObjectsInv
  <2>2. r.frames = <<>> \/ HandsUp(proto[n], r, key, now)
    BY <1>5, <2>1, ReceiveResult DEF r, source, payload
  <2> QED BY <2>2 DEF HandsUp
<1>11. AreSent(sent, delivered[n] \o new)
  <2>1. \A x \in DOMAIN r.frames : FrameIsSent(sent, key, r.frames[x])
    BY <1>8 DEF IsPureCall
  <2> HIDE DEF new
  <2> QED BY <1>6, <1>10, <2>1, UpAppends DEF new
<1> HIDE DEF new
<1>12. /\ DOMAIN delivered' = Nodes /\ delivered'[n] = delivered[n] \o new
       /\ \A m \in Nodes : m # n => delivered'[m] = delivered[m]
  BY <1>1, <1>4, <1>5
<1>13. Sends(sent', now) /\ Grows(sent, sent') /\ IsPureCall(sent', n, r, key, now)
       /\ AreSent(sent', delivered'[n])
  BY <1>1, <1>5, <1>8, <1>11, <1>12, GrowsNot
<1> HIDE DEF key
<1> QED BY <1>1, <1>2, <1>4, <1>9, <1>12, <1>13, CallStep

LEMMA LinkLoses ==
  ASSUME LinkInv, NEW packet, Lose(packet)
  PROVE  LinkInv'
BY DEF LinkInv, Lose

LEMMA LinkRestarts ==
  ASSUME LinkInv, NEW n, Restart(n)
  PROVE  LinkInv'
<1>1. /\ proto' = [proto EXCEPT ![n] = InitProtocol] /\ asked' = [asked EXCEPT ![n] = <<>>]
      /\ delivered' = [delivered EXCEPT ![n] = <<>>]
      /\ now' = now /\ radio' = radio /\ sent' = sent
  BY DEF Restart
<1>2. /\ now \in Int /\ Sends(sent, now)
      /\ DOMAIN proto = Nodes /\ DOMAIN asked = Nodes /\ DOMAIN delivered = Nodes
      /\ \A packet \in radio : PacketInv(packet, sent, now)
  BY DEF LinkInv
<1>3. ASSUME NEW m \in Nodes
      PROVE  NodeInv(m, proto'[m], asked'[m], delivered'[m], sent, now)
  <2>1. CASE m = n
    <3>1. proto'[m] = InitProtocol /\ asked'[m] = <<>> /\ delivered'[m] = <<>>
      BY <1>1, <1>2, <2>1
    <3> QED BY <3>1, NewObject
  <2>2. CASE m # n
    <3>1. proto'[m] = proto[m] /\ asked'[m] = asked[m] /\ delivered'[m] = delivered[m]
      BY <1>1, <1>2, <2>2
    <3> QED BY <3>1 DEF LinkInv
  <2> QED BY <2>1, <2>2
<1>4. DOMAIN proto' = Nodes /\ DOMAIN asked' = Nodes /\ DOMAIN delivered' = Nodes
  BY <1>1, <1>2
<1> QED BY <1>1, <1>2, <1>3, <1>4 DEF LinkInv

(* What is past stays past.                                                *)
LEMMA NodeAges ==
  ASSUME NEW n, NEW p, NEW log, NEW up, NEW S, NEW t \in Int, NodeInv(n, p, log, up, S, t)
  PROVE  NodeInv(n, p, log, up, S, t + 1)
<1>1. \A x \in Int : x <= t => x <= t + 1
  OBVIOUS
<1>2. IsTable(p.assemblies, t + 1)
  <2>1. \A k \in DOMAIN p.assemblies : IsAssembly(p.assemblies[k], t)
    BY DEF NodeInv, IsObject, IsTable
  <2>2. \A a : IsAssembly(a, t) => IsAssembly(a, t + 1)
    BY <1>1 DEF IsAssembly
  <2> QED BY <2>1, <2>2 DEF NodeInv, IsObject, IsTable
<1>3. IsCache(p.txCache, t + 1)
  BY <1>1 DEF NodeInv, IsObject, IsCache, IsEntry
<1>4. IsObject(p, t + 1)
  BY <1>2, <1>3 DEF NodeInv, IsObject
<1>5. IsLog(log, t + 1)
  BY <1>1 DEF NodeInv, IsLog, IsRequest
<1>6. BudgetInv(log, p.repairTimes, t + 1)
  <2> DEFINE past == Len(log) - Len(p.repairTimes)
  <2>1. BudgetInv(log, p.repairTimes, t) /\ IsLog(log, t) /\ p.repairTimes \in Seq(Int)
    BY DEF NodeInv, IsObject
  <2>2. past \in Int /\ past <= Len(log) /\ DOMAIN log = 1..Len(log) /\ Len(log) \in Nat
    BY <2>1 DEF BudgetInv, Counted, IsLog, IsSeq
  <2>3. \A i \in 1..past : log[i].at \in Int /\ log[i].at <= t - RepairWindow
    <3>1. \A i \in 1..past : i \in DOMAIN log
      BY <2>2
    <3> QED BY <2>1, <3>1 DEF BudgetInv, Counted, IsLog, IsRequest
  <2>4. \A i \in 1..past : log[i].at <= (t + 1) - RepairWindow
    BY <2>3, ProtocolAssumption
  <2> QED BY <2>1, <2>4 DEF BudgetInv, Counted
<1> QED BY <1>4, <1>5, <1>6 DEF NodeInv

LEMMA LinkTicks ==
  ASSUME LinkInv, Tick
  PROVE  LinkInv'
<1>1. /\ now' = now + 1 /\ proto' = proto /\ radio' = radio /\ sent' = sent
      /\ asked' = asked /\ delivered' = delivered
      /\ \A packet \in radio : now - packet.sentAt < Latency
  BY DEF Tick
<1>2. now \in Int /\ Latency \in Nat
  BY LinkAssumption DEF LinkInv
<1>3. Sends(sent, now + 1)
  BY <1>2 DEF LinkInv, Sends, IsSent
<1>4. \A n \in Nodes : NodeInv(n, proto[n], asked[n], delivered[n], sent, now + 1)
  BY <1>2, NodeAges DEF LinkInv
<1>5. ASSUME NEW packet \in radio PROVE PacketInv(packet, sent, now + 1)
  <2>1. PacketInv(packet, sent, now) /\ now - packet.sentAt < Latency
    BY <1>1 DEF LinkInv
  <2> QED BY <1>2, <2>1 DEF PacketInv
<1> QED BY <1>1, <1>2, <1>3, <1>4, <1>5 DEF LinkInv

LEMMA LinkInductive == IInv /\ LinkInv /\ [Next]_vars => LinkInv'
<1> SUFFICES ASSUME IInv, LinkInv, [Next]_vars PROVE LinkInv'
  OBVIOUS
<1>1. ASSUME NEW route \in Senders, NEW frame \in Frames, Send(route[1], route[2], frame)
      PROVE  LinkInv'
  <2>1. <<route[1], route[2]>> \in Senders
    BY LinkAssumption
  <2> QED BY <1>1, <2>1, LinkSends
<1>2. ASSUME NEW packet \in radio, NEW allowControl \in QueueRoom, NEW again \in BOOLEAN,
             Deliver(packet, allowControl, again)
      PROVE  LinkInv'
  BY <1>2, LinkDelivers
<1>3. ASSUME NEW packet \in radio, Lose(packet) PROVE LinkInv'
  BY <1>3, LinkLoses
<1>4. ASSUME NEW n \in Nodes, NEW allowControl \in QueueRoom, Poll(n, allowControl)
      PROVE  LinkInv'
  BY <1>4, LinkPolls
<1>5. ASSUME NEW n \in Restarting, Restart(n) PROVE LinkInv'
  BY <1>5, LinkRestarts
<1>6. CASE Tick
  BY <1>6, LinkTicks
<1>7. CASE UNCHANGED vars
  BY <1>7 DEF LinkInv, vars
<1> QED BY <1>1, <1>2, <1>3, <1>4, <1>5, <1>6, <1>7 DEF Next

-----------------------------------------------------------------------------
LEMMA LinkAlways == Spec => []LinkInv
<1>1. Init => IInv /\ LinkInv
  BY Initially, LinkInitially
<1>2. IInv /\ LinkInv /\ [Next]_vars => (IInv /\ LinkInv)'
  BY Inductive, LinkInductive
<1> QED BY <1>1, <1>2, PTL DEF Spec

(* Whatever fragments arrive and however often the worker polls, the       *)
(* requests a node issues stay within the rolling budget of                *)
(* _append_repair_requests_locked.                                         *)
THEOREM RequestsWithinBudget == Spec => []RepairBudgetRespected
<1>1. LinkInv => RepairBudgetRespected
  BY DEF LinkInv, NodeInv, BudgetInv, Spaced, RepairBudgetRespected
<1> QED BY <1>1, LinkAlways, PTL

(* However polls and fragments interleave, a position of a live assembly   *)
(* is asked for at most MaxRepairAttempts times, each attempt after twice  *)
(* the wait of the one before.                                             *)
THEOREM RequestsBackOff == Spec => []RepairBackoff
<1>1. LinkInv => RepairBackoff
  BY DEF LinkInv, NodeInv, BackoffInv, Backoff, RepairBackoff
<1> QED BY <1>1, LinkAlways, PTL

(* A reassembled frame is one that its source sent under that index,       *)
(* unless the source gave the index to two frames within ReuseDistance:    *)
(* the bound that two lifetimes (of the transmit cache and of the          *)
(* assembly) and the delay of the radio add up to.                         *)
THEOREM FramesAreNotMixed == Spec => []MixedOnlyByReuse
<1>1. LinkInv => MixedOnlyByReuse
  <2> SUFFICES ASSUME LinkInv, NEW n \in Nodes, NEW d \in Range(delivered[n])
               PROVE  WasSent(d) \/ IndexReused(d)
    BY DEF MixedOnlyByReuse
  <2>1. PICK j \in DOMAIN delivered[n] : d = delivered[n][j]
    BY DEF Range
  <2>2. FrameIsSent(sent, Key(d), d.frame)
    BY <2>1 DEF LinkInv, NodeInv, AreSent
  <2>3. CASE Reused(sent, Key(d))
    BY <2>3 DEF Reused, IndexReused, Key
  <2>4. ASSUME NEW i \in DOMAIN sent, Key(sent[i]) = Key(d), sent[i].frame = d.frame
        PROVE  WasSent(d)
    BY <2>4 DEF WasSent, Range, Key
  <2> QED BY <2>2, <2>3, <2>4 DEF FrameIsSent
<1> QED BY <1>1, LinkAlways, PTL
-----------------------------------------------------------------------------
(* Punctual repairs: what was due a tick ago and was not asked for.        *)

(* Position q of a was due at t, and a was neither expired nor given up.   *)
WasDue(a, q, t) ==
  /\ a.updatedAt >= t - StateTtl
  /\ t - a.updatedAt >= RequestCooldown
  /\ q \in DOMAIN a.repairs =>
       /\ a.repairs[q].attempts < MaxRepairAttempts
       /\ a.repairs[q].at <= t
       /\ t - a.repairs[q].at >= RequestCooldown * 2^(a.repairs[q].attempts)

IsLate(a, t) == \E q \in Missing(a) : WasDue(a, q, t)

HasLate(table, t) == \E k \in DOMAIN table : IsLate(table[k], t)

(* At t the requests of the window of t had used up the budget.            *)
WindowSpent(log, t) ==
  \E j \in DOMAIN log :
    j + RepairBudget - 1 \in DOMAIN log /\ log[j].at > t - RepairWindow

(* While the worker polls as long as there is something to ask for, a      *)
(* missing position that was due a tick ago and is not asked for waits for *)
(* the budget alone: poll_repairs overlooks no assembly and no position,   *)
(* and no fragment makes a due request due later unless it is progress.    *)
RepairsArePunctual ==
  PromptWorker => \A n \in Nodes :
    HasLate(proto[n].assemblies, now - 1) => WindowSpent(asked[n], now - 1)

LEMMA FreshIsNotLate ==
  ASSUME NEW t \in Int, NEW a, a.updatedAt = t
  PROVE  ~IsLate(a, t - 1)
<1>1. ~((t - 1) - t >= RequestCooldown)
  BY ProtocolAssumption
<1> QED BY <1>1 DEF IsLate, WasDue

LEMMA SelectionIsNotLate ==
  ASSUME NEW old, NEW new, Selection(new, old), NEW t, HasLate(new, t)
  PROVE  HasLate(old, t)
BY DEF Selection, HasLate

(* A fragment that is no progress leaves what is missing, and since when.  *)
LEMMA AddFragmentIsNotLate ==
  ASSUME NEW t \in Int, NEW a, IsAssembly(a, t), NEW payload, IsData(payload),
         IsLate(AddFragment(a, payload, t), t - 1)
  PROVE  IsLate(a, t - 1)
<1> DEFINE b == AddFragment(a, payload, t)
           position == Abs(payload.position)
           final == payload.position < 0
           progress == \/ position \notin DOMAIN a.fragments
                       \/ a.fragments[position] # payload.body
                       \/ final /\ a.finalPosition # position
<1>1. b.updatedAt = IF progress THEN t ELSE a.updatedAt
  BY DEF AddFragment, IsAssembly
<1>2. /\ IsAssembly(b, t) /\ SameRequests(a, b)
      /\ b.fragments = With(a.fragments, position, payload.body)
      /\ b.finalPosition = IF final THEN position ELSE a.finalPosition
  BY AddFragmentFacts
<1> HIDE DEF b
<1>3. ~progress
  <2> HIDE DEF progress
  <2>1. progress => b.updatedAt = t
    BY <1>1
  <2> QED BY <2>1, FreshIsNotLate DEF b
<1>4. b.updatedAt = a.updatedAt /\ b.finalPosition = a.finalPosition
  BY <1>1, <1>2, <1>3
<1>5. DOMAIN b.fragments = DOMAIN a.fragments
  BY <1>2, <1>3 DEF With
<1> HIDE DEF progress
<1>6. Missing(b) = Missing(a)
  BY <1>4, <1>5 DEF Missing
<1>7. PICK q \in Missing(b) : WasDue(b, q, t - 1)
  BY DEF IsLate, b
<1>8. q \in Open(b)
  BY <1>2, <1>7, MissingIsOpen DEF Open
<1>9. /\ q \in DOMAIN b.repairs <=> q \in DOMAIN a.repairs
      /\ q \in DOMAIN b.repairs => b.repairs[q] = a.repairs[q]
  BY <1>2, <1>8 DEF SameRequests
<1>10. WasDue(a, q, t - 1)
  BY <1>4, <1>7, <1>9 DEF WasDue
<1> QED BY <1>6, <1>7, <1>10 DEF IsLate

LEMMA EntersIsNotLate ==
  ASSUME NEW p, NEW t \in Int, IsObject(p, t), NEW key, NEW payload, IsData(payload),
         NEW i, NEW table, Enters(p, key, payload, i, table, t), HasLate(table, t - 1)
  PROVE  HasLate(p.assemblies, t - 1)
<1>1. PICK k \in DOMAIN table : IsLate(table[k], t - 1)
  BY DEF HasLate
<1>2. CASE k # i
  BY <1>1, <1>2 DEF Enters, HasLate
<1>3. CASE k = i /\ i \in DOMAIN p.assemblies
  <2>1. table[i] = AddFragment(p.assemblies[i], payload, t) /\ IsAssembly(p.assemblies[i], t)
    BY <1>3 DEF Enters, IsObject, IsTable
  <2>2. IsLate(p.assemblies[i], t - 1)
    BY <1>1, <1>3, <2>1, AddFragmentIsNotLate
  <2> QED BY <1>3, <2>2 DEF HasLate
<1>4. CASE k = i /\ i \notin DOMAIN p.assemblies
  <2> DEFINE a == NewAssembly(key[1], key[2], t)
  <2>1. table[i] = AddFragment(a, payload, t)
    BY <1>4 DEF Enters
  <2>2. IsAssembly(a, t) /\ a.updatedAt = t
    BY NewAssemblyFacts
  <2> HIDE DEF a
  <2>3. IsLate(a, t - 1)
    BY <1>1, <1>4, <2>1, <2>2, AddFragmentIsNotLate
  <2> QED BY <2>2, <2>3, FreshIsNotLate
<1> QED BY <1>2, <1>3, <1>4

LEMMA AsksIsNotLate ==
  ASSUME NEW p, NEW t \in Int, IsObject(p, t), NEW i \in DOMAIN p.assemblies,
         NEW x, NEW r, Asks(p, i, x, r, t), HasLate(r.state.assemblies, t - 1)
  PROVE  HasLate(p.assemblies, t - 1)
<1> DEFINE table == r.state.assemblies
           a == p.assemblies[i]
           b == Asking(a, x, t)
<1>1. /\ DOMAIN table = DOMAIN p.assemblies /\ table[i] = b
      /\ \A k \in DOMAIN table : k # i => table[k] = p.assemblies[k]
  BY AsksFacts
<1>2. x \in Missing(a) /\ IsAssembly(a, t)
  BY DEF Asks, IsAsked, IsObject, IsTable
<1>3. /\ b.updatedAt = a.updatedAt /\ b.fragments = a.fragments
      /\ b.finalPosition = a.finalPosition
      /\ DOMAIN b.repairs = {x} \cup DOMAIN a.repairs /\ b.repairs[x].at = t
      /\ \A q \in DOMAIN a.repairs : q # x => b.repairs[q] = a.repairs[q]
  BY <1>2, AskingFacts
<1>4. PICK k \in DOMAIN table : IsLate(table[k], t - 1)
  BY DEF HasLate
<1> HIDE DEF b, table
<1>5. CASE k # i
  BY <1>1, <1>4, <1>5 DEF HasLate
<1>6. CASE k = i
  <2>1. PICK q \in Missing(b) : WasDue(b, q, t - 1)
    BY <1>1, <1>4, <1>6 DEF IsLate
  <2>2. Missing(b) = Missing(a)
    BY <1>3 DEF Missing
  <2>3. q # x
    <3>1. ~(t <= t - 1)
      OBVIOUS
    <3> QED BY <1>3, <2>1, <3>1 DEF WasDue
  <2>4. WasDue(a, q, t - 1)
    <3>1. q \in DOMAIN b.repairs <=> q \in DOMAIN a.repairs
      BY <1>3, <2>3
    <3>2. q \in DOMAIN a.repairs => b.repairs[q] = a.repairs[q]
      BY <1>3, <2>3
    <3> HIDE DEF a
    <3> QED BY <1>3, <2>1, <3>1, <3>2 DEF WasDue
  <2>5. IsLate(a, t - 1)
    BY <2>1, <2>2, <2>4 DEF IsLate
  <2> QED BY <2>5 DEF HasLate
<1> QED BY <1>5, <1>6

(* What is late after a call was late before it.                           *)
KeepsPace(p, r, t) == HasLate(r.state.assemblies, t - 1) => HasLate(p.assemblies, t - 1)

LEMMA CleanupKeepsPace ==
  ASSUME NEW p, NEW t \in Int, IsObject(p, t), HasLate(Cleanup(p, t).assemblies, t - 1)
  PROVE  HasLate(p.assemblies, t - 1)
<1>1. Selection(Cleanup(p, t).assemblies, p.assemblies)
  BY CleanupShape
<1> QED BY <1>1, SelectionIsNotLate

LEMMA RequestKeepsPace ==
  ASSUME NEW p, NEW t \in Int, IsObject(p, t), NEW i \in DOMAIN p.assemblies, NEW immediate
  PROVE  KeepsPace(p, RequestRepair(p, i, immediate, t), t)
<1> DEFINE r == RequestRepair(p, i, immediate, t)
<1>1. IsSilent(p, r) \/ \E x : Asks(p, i, x, r, t)
  BY RequestRepairShape
<1> HIDE DEF r
<1>2. CASE IsSilent(p, r)
  BY <1>2 DEF IsSilent, KeepsPace, r
<1>3. ASSUME NEW x, Asks(p, i, x, r, t) PROVE KeepsPace(p, r, t)
  BY <1>3, AsksIsNotLate DEF KeepsPace
<1> QED BY <1>1, <1>2, <1>3 DEF r

LEMMA EncodeKeepsPace ==
  ASSUME NEW p, NEW t \in Int, IsObject(p, t), NEW T, NEW frame \in Seq(T), NEW destination
  PROVE  KeepsPace(p, Encode(p, frame, destination, t), t)
<1>1. Encode(p, frame, destination, t).state.assemblies = Cleanup(p, t).assemblies
  BY EncodeShape
<1> QED BY <1>1, CleanupKeepsPace DEF KeepsPace

LEMMA PollKeepsPace ==
  ASSUME NEW p, NEW t \in Int, IsObject(p, t), NEW allowControl
  PROVE  KeepsPace(p, PollRepairs(p, allowControl, t), t)
<1> SUFFICES ASSUME NEW q, q = Cleanup(p, t), NEW r, r = PollRepairs(p, allowControl, t)
             PROVE  KeepsPace(p, r, t)
  OBVIOUS
<1>1. IsObject(q, t) /\ PollsOnce(q, r, t)
  BY CleanupShape, PollShape
<1>2. KeepsPace(q, r, t)
  <2>1. CASE IsSilent(q, r)
    BY <2>1 DEF IsSilent, KeepsPace
  <2>2. ASSUME NEW i \in DOMAIN q.assemblies, NEW immediate, r = RequestRepair(q, i, immediate, t)
        PROVE  KeepsPace(q, r, t)
    BY <1>1, <2>2, RequestKeepsPace
  <2> QED BY <1>1, <2>1, <2>2 DEF PollsOnce, RepairOf
<1> QED BY <1>2, CleanupKeepsPace DEF KeepsPace

LEMMA ReceiveKeepsPace ==
  ASSUME NEW p, NEW t \in Int, IsObject(p, t), NEW source, NEW payload,
         payload.kind = "data" => IsData(payload), NEW allowControl
  PROVE  KeepsPace(p, Receive(p, source, payload, allowControl, t), t)
<1> SUFFICES ASSUME NEW q, q = Cleanup(p, t),
                    NEW r, r = Receive(p, source, payload, allowControl, t)
             PROVE  KeepsPace(q, r, t)
  BY CleanupKeepsPace DEF KeepsPace
<1> DEFINE key == <<source, payload.index>>
<1>1. IsObject(q, t)
  BY CleanupShape
<1>2. CASE r.state = q
  BY <1>2 DEF KeepsPace
<1>3. CASE payload.kind # "data"
  <2>1. r = HandleRequest(q, source, payload) \/ r = Silent(q)
    BY <1>3 DEF Receive
  <2>2. r.state = q
    BY <1>1, <2>1, HandleRequestShape, SilentIsSilent DEF IsSilent
  <2> QED BY <1>2, <2>2
<1>4. CASE payload.kind = "data"
  <2>1. r = HandleFragment(q, source, payload, allowControl, t)
    BY <1>4 DEF Receive
  <2>2. \/ IsSilent(q, r)
        \/ \E i, table : Enters(q, key, payload, i, table, t)
                         /\ Reassembles(q, key, payload, i, table, r, t)
    BY <1>1, <2>1, HandleFragmentShape
  <2>3. ASSUME NEW i, NEW table, Enters(q, key, payload, i, table, t),
               Reassembles(q, key, payload, i, table, r, t)
        PROVE  KeepsPace(q, r, t)
    <3> DEFINE kept == [q EXCEPT !.assemblies = table]
    <3>1. key = <<key[1], key[2]>> /\ IsData(payload)
      BY <1>4
    <3> HIDE DEF key
    <3>2. IsObject(kept, t) /\ (HasLate(table, t - 1) => HasLate(q.assemblies, t - 1))
      BY <1>1, <2>3, <3>1, EntersFacts, EntersIsNotLate
    <3>3. kept.assemblies = table /\ i \in DOMAIN table
      BY <1>1, <2>3 DEF IsObject, Enters
    <3> HIDE DEF kept
    <3>4. CASE r = RequestRepair(kept, i, TRUE, t)
      BY <3>2, <3>3, <3>4, RequestKeepsPace DEF KeepsPace
    <3>5. CASE IsSilent(kept, r)
      BY <3>2, <3>3, <3>5 DEF IsSilent, KeepsPace
    <3>6. CASE r = Complete(q, key, table[i], t)
      <4>1. Selection(r.state.assemblies, q.assemblies)
        BY <1>1, <3>6, CompleteShape
      <4> QED BY <4>1, SelectionIsNotLate DEF KeepsPace
    <3> QED BY <2>3, <3>4, <3>5, <3>6 DEF Reassembles, kept
  <2> QED BY <1>2, <2>2, <2>3 DEF IsSilent
<1> QED BY <1>3, <1>4

(* A log that grows stays spent.                                           *)
LEMMA CallKeepsSpent ==
  ASSUME NEW p, NEW log, NEW t \in Int, t = now, IsLog(log, t), NEW r, IsCall(p, r, t),
         NEW u, WindowSpent(log, u)
  PROVE  WindowSpent(Logged(log, p, r), u)
<1> DEFINE more == Logged(log, p, r)
           open == StillOpen(p, r, t)
<1>2. CASE Carries(log, more, open)
  <2> HIDE DEF more, open
  <2> QED BY <1>2 DEF WindowSpent, Carries, SameRequest, more
<1>3. ASSUME AsksNothing(p, r, t) PROVE Carries(log, more, open)
  BY <1>3, LoggedNothing DEF AsksNothing
<1>4. ASSUME NEW m, NEW i, NEW x, AsksOnce(p, m, i, x, r, t) PROVE Carries(log, more, open)
  <2> DEFINE a == m.assemblies[i]
  <2>1. r.transmissions = <<Transmission(a.source, RequestPayload(a.index, x))>>
    BY <1>4 DEF AsksOnce, Asks
  <2> HIDE DEF a
  <2> QED BY <2>1, LoggedOnce
<1> QED BY <1>2, <1>3, <1>4 DEF IsCall

(* The times kept of requests are those of the window.                     *)
LEMMA FreshIsInWindow ==
  ASSUME NEW times \in Seq(Int), NEW t \in Int, FreshRepairTimes(times, t) # <<>>
  PROVE  FreshRepairTimes(times, t)[1] > t - RepairWindow
<1> DEFINE cutoff == t - RepairWindow
           newer == {i \in DOMAIN times : times[i] > cutoff}
           L == Len(times)
           m == Min(newer)
<1>1. FreshRepairTimes(times, t) = IF newer = {} THEN <<>> ELSE SubSeq(times, m, L)
  BY DEF FreshRepairTimes, NewerThan
<1>2. newer # {} /\ newer \in SUBSET Nat /\ DOMAIN times = 1..L /\ L \in Nat
  <2>1. newer # {}
    <3> HIDE DEF newer, m
    <3> QED BY <1>1
  <2> QED BY <2>1
<1>3. m \in newer
  BY <1>2, MinOf
<1>4. m \in 1..L /\ times[m] > cutoff
  BY <1>2, <1>3
<1> HIDE DEF m, newer, cutoff
<1>5. SubSeq(times, m, L)[1] = times[m]
  BY <1>2, <1>4
<1> QED BY <1>1, <1>2, <1>4, <1>5 DEF cutoff

(* A budget that is used up was used up within the window.                 *)
LEMMA SpentInWindow ==
  ASSUME NEW log, NEW t \in Int, IsLog(log, t), NEW times \in Seq(Int),
         BudgetInv(log, times, t), Len(FreshRepairTimes(times, t)) >= RepairBudget
  PROVE  WindowSpent(log, t)
<1> DEFINE left == FreshRepairTimes(times, t)
           L == Len(log)
           N == Len(left)
<1>1. left \in Seq(Int) /\ BudgetInv(log, left, t)
  BY BudgetFresh
<1>2. RepairBudget \in Nat \ {0} /\ N \in Nat /\ L \in Nat /\ DOMAIN log = 1..L
  BY <1>1, ProtocolAssumption DEF IsLog, IsSeq
<1>3. N = RepairBudget /\ N <= L /\ \A k \in 1..N : left[k] = log[L - N + k].at
  BY <1>1, <1>2 DEF BudgetInv, Counted
<1>4. left[1] > t - RepairWindow
  <2>1. left # <<>>
    BY <1>2, <1>3
  <2> QED BY <2>1, FreshIsInWindow
<1> HIDE DEF left, L, N
<1>5. 1 \in 1..N /\ L - N + 1 \in 1..L /\ (L - N + 1) + RepairBudget - 1 \in 1..L
  BY <1>2, <1>3
<1>6. log[L - N + 1].at > t - RepairWindow
  BY <1>3, <1>4, <1>5
<1> QED BY <1>2, <1>5, <1>6 DEF WindowSpent

(* A poll that asks for nothing although something is late has no budget.  *)
LEMMA LateIsPolled ==
  ASSUME NEW p, NEW t \in Int, IsObject(p, t), HasLate(p.assemblies, t),
         PollRepairs(p, TRUE, t).transmissions = <<>>
  PROVE  Len(FreshRepairTimes(Cleanup(p, t).repairTimes, t)) >= RepairBudget
<1> SUFFICES ASSUME NEW q, q = Cleanup(p, t), NEW r, r = PollRepairs(p, TRUE, t)
             PROVE  Len(FreshRepairTimes(q.repairTimes, t)) >= RepairBudget
  OBVIOUS
<1> DEFINE stalled(a) == t - a.updatedAt >= RequestCooldown /\ Due(a, FALSE, t) # {}
           i == SelectInSeq(q.assemblies, LAMBDA a :
                  t - a.updatedAt >= RequestCooldown /\ Due(a, FALSE, t) # {})
           I == {k \in 1..Len(q.assemblies) : stalled(q.assemblies[k])}
<1>1. PICK k \in DOMAIN p.assemblies : IsLate(p.assemblies[k], t)
  BY DEF HasLate
<1> DEFINE a == p.assemblies[k]
<1>2. PICK x \in Missing(a) : WasDue(a, x, t)
  BY <1>1 DEF IsLate
<1>3. PICK j \in DOMAIN q.assemblies : q.assemblies[j] = a
  <2> DEFINE keep == {l \in DOMAIN p.assemblies : p.assemblies[l].updatedAt >= t - StateTtl}
  <2>1. k \in keep
    BY <1>2 DEF WasDue
  <2>2. q.assemblies = Kept(p.assemblies, keep)
    BY DEF Cleanup, Unexpired, IsObject
  <2>3. keep \in SUBSET DOMAIN p.assemblies /\ IsSeq(p.assemblies)
    BY DEF IsObject, IsTable
  <2> HIDE DEF keep
  <2> QED BY <2>1, <2>2, <2>3, KeptIsSelection
<1>4. stalled(a)
  <2> HIDE DEF a
  <2>1. x \in Due(a, FALSE, t)
    BY <1>2 DEF WasDue, Due
  <2> QED BY <1>2, <2>1 DEF WasDue
<1>5. IsObject(q, t)
  BY CleanupShape
<1>6. PICK T : q.assemblies \in Seq(T)
  BY <1>5 DEF IsObject, IsTable, IsSeq
<1> HIDE DEF stalled
<1>7. j \in I /\ I \in SUBSET Nat
  BY <1>3, <1>4, <1>6
<1>8. i = IF I # {} THEN Min(I) ELSE 0
  BY DEF SelectInSeq, stalled
<1>9. i \in I
  <2> HIDE DEF I, i
  <2> QED BY <1>7, <1>8, MinOf
<1>10. i # 0 /\ i \in DOMAIN q.assemblies /\ stalled(q.assemblies[i])
  <2> HIDE DEF i
  <2> QED BY <1>6, <1>9
<1>11. r = RequestRepair(q, i, FALSE, t)
  <2>1. r = IF TRUE /\ i # 0 THEN RequestRepair(q, i, FALSE, t) ELSE Silent(q)
    BY DEF PollRepairs
  <2> HIDE DEF i
  <2> QED BY <1>10, <2>1
<1> HIDE DEF i, I
<1>12. Due(q.assemblies[i], FALSE, t) # {}
  BY <1>10 DEF stalled
<1>13. ASSUME ~(Len(FreshRepairTimes(q.repairTimes, t)) >= RepairBudget)
       PROVE  r.transmissions # <<>>
  <2> DEFINE b == q.assemblies[i]
             due == Due(b, FALSE, t)
             times == FreshRepairTimes(q.repairTimes, t)
             y == Min(due)
             asking == [q EXCEPT !.repairTimes = Append(times, t),
                                 !.assemblies[i].repairs = With(@, y, NextRepair(b, y, t))]
             request == <<Transmission(b.source, RequestPayload(b.index, y))>>
  <2>1. RequestRepair(q, i, FALSE, t) =
          IF due = {} \/ Len(times) >= RepairBudget THEN Silent(q)
          ELSE Result(asking, request, <<>>)
    BY DEF RequestRepair
  <2>2. request # <<>>
    OBVIOUS
  <2>3. due # {} /\ ~(Len(times) >= RepairBudget)
    BY <1>12, <1>13
  <2> HIDE DEF asking, request, due, times
  <2>4. r = Result(asking, request, <<>>)
    BY <1>11, <2>1, <2>3
  <2>5. \A s, m, f : Result(s, m, f).transmissions = m
    BY DEF Result
  <2>6. r.transmissions = request
    BY ONLY <2>4, <2>5
  <2> QED BY <2>2, <2>6
<1> QED BY <1>13

Pace(p, log, t) == HasLate(p.assemblies, t - 1) => WindowSpent(log, t - 1)

PaceInv == PromptWorker => \A n \in Nodes : Pace(proto[n], asked[n], now)

(* One call of node n.                                                     *)
LEMMA CallPaces ==
  ASSUME LinkInv, PaceInv, NEW n \in Nodes, NEW r, NEW left, Commit(n, r, left), now' = now,
         IsCall(proto[n], r, now), KeepsPace(proto[n], r, now)
  PROVE  PaceInv'
<1> SUFFICES ASSUME PromptWorker, NEW m \in Nodes PROVE Pace(proto'[m], asked'[m], now)
  BY DEF PaceInv
<1>1. /\ proto' = [proto EXCEPT ![n] = r.state]
      /\ asked' = [asked EXCEPT ![n] = Logged(asked[n], proto[n], r)]
  BY DEF Commit
<1>2. DOMAIN proto = Nodes /\ DOMAIN asked = Nodes /\ now \in Int /\ IsLog(asked[n], now)
  BY DEF LinkInv, NodeInv
<1>3. Pace(proto[m], asked[m], now)
  BY DEF PaceInv
<1>4. CASE m # n
  BY <1>1, <1>2, <1>3, <1>4
<1>5. CASE m = n
  <2>1. proto'[n] = r.state /\ asked'[n] = Logged(asked[n], proto[n], r)
    BY <1>1, <1>2
  <2>2. WindowSpent(asked[n], now - 1) => WindowSpent(Logged(asked[n], proto[n], r), now - 1)
    BY <1>2, CallKeepsSpent
  <2> QED BY <1>3, <1>5, <2>1, <2>2 DEF Pace, KeepsPace
<1> QED BY <1>4, <1>5

LEMMA TickPaces ==
  ASSUME LinkInv, Tick
  PROVE  PaceInv'
<1> SUFFICES ASSUME PromptWorker, NEW n \in Nodes, HasLate(proto[n].assemblies, now)
             PROVE  WindowSpent(asked[n], now)
  <2>1. now' = now + 1 /\ proto' = proto /\ asked' = asked /\ now \in Int
    BY DEF Tick, LinkInv
  <2>2. (now + 1) - 1 = now
    BY <2>1
  <2> QED BY <2>1, <2>2 DEF PaceInv, Pace
<1>1. PollRepairs(proto[n], TRUE, now).transmissions = <<>>
  BY DEF Tick, RepairIsDue
<1>2. /\ now \in Int /\ IsObject(proto[n], now) /\ IsLog(asked[n], now)
      /\ BudgetInv(asked[n], proto[n].repairTimes, now)
  BY DEF LinkInv, NodeInv
<1> DEFINE times == FreshRepairTimes(proto[n].repairTimes, now)
<1>3. Cleanup(proto[n], now).repairTimes = times
  BY <1>2, CleanupShape
<1>4. Len(FreshRepairTimes(times, now)) >= RepairBudget
  BY <1>1, <1>2, <1>3, LateIsPolled
<1>5. times \in Seq(Int) /\ BudgetInv(asked[n], times, now)
  BY <1>2, BudgetFresh DEF IsObject
<1> HIDE DEF times
<1> QED BY <1>2, <1>4, <1>5, SpentInWindow

LEMMA NothingIsLate ==
  ~HasLate(InitProtocol.assemblies, now - 1)
BY DEF HasLate, InitProtocol

LEMMA PaceInitially == Init => PaceInv
BY NothingIsLate DEF Init, PaceInv, Pace

LEMMA PaceInductive == LinkInv /\ PaceInv /\ [Next]_vars => PaceInv'
<1> SUFFICES ASSUME LinkInv, PaceInv, [Next]_vars PROVE PaceInv'
  OBVIOUS
<1>0. now \in Int /\ \A n \in Nodes : IsObject(proto[n], now)
  BY DEF LinkInv, NodeInv
<1>1. ASSUME NEW route \in Senders, NEW frame \in Frames, Send(route[1], route[2], frame)
      PROVE  PaceInv'
  <2> DEFINE n == route[1]
             r == Encode(proto[n], frame, route[2], now)
  <2>1. n \in Nodes /\ frame \in Seq(Chunks)
    BY LinkAssumption
  <2>2. Commit(n, r, radio) /\ now' = now
    BY <1>1 DEF Send
  <2>3. IsCall(proto[n], r, now) /\ KeepsPace(proto[n], r, now)
    BY <1>0, <2>1, EncodeIsCall, EncodeKeepsPace
  <2> HIDE DEF n, r
  <2> QED BY <2>1, <2>2, <2>3, CallPaces
<1>2. ASSUME NEW packet \in radio, NEW allowControl \in QueueRoom, NEW again \in BOOLEAN,
             Deliver(packet, allowControl, again)
      PROVE  PaceInv'
  <2> DEFINE n == packet.dst
             r == Receive(proto[n], packet.src, packet.payload, allowControl, now)
             left == IF again THEN radio ELSE radio \ {packet}
  <2>1. n \in Nodes /\ (packet.payload.kind = "data" => IsData(packet.payload))
    BY DEF LinkInv, PacketInv
  <2>2. Commit(n, r, left) /\ now' = now
    BY <1>2 DEF Deliver
  <2>3. IsCall(proto[n], r, now) /\ KeepsPace(proto[n], r, now)
    BY <1>0, <2>1, ReceiveIsCall, ReceiveKeepsPace
  <2> HIDE DEF n, r, left
  <2> QED BY <2>1, <2>2, <2>3, CallPaces
<1>3. ASSUME NEW packet \in radio, Lose(packet) PROVE PaceInv'
  BY <1>3 DEF Lose, PaceInv
<1>4. ASSUME NEW n \in Nodes, NEW allowControl \in QueueRoom, Poll(n, allowControl)
      PROVE  PaceInv'
  <2> DEFINE r == PollRepairs(proto[n], allowControl, now)
  <2>1. Commit(n, r, radio) /\ now' = now
    BY <1>4 DEF Poll
  <2>2. IsCall(proto[n], r, now) /\ KeepsPace(proto[n], r, now)
    BY <1>0, PollIsCall, PollKeepsPace
  <2> HIDE DEF r
  <2> QED BY <2>1, <2>2, CallPaces
<1>5. ASSUME NEW n \in Restarting, Restart(n) PROVE PaceInv'
  <2>1. /\ proto' = [proto EXCEPT ![n] = InitProtocol] /\ asked' = [asked EXCEPT ![n] = <<>>]
        /\ now' = now /\ DOMAIN proto = Nodes /\ DOMAIN asked = Nodes
    BY <1>5 DEF Restart, LinkInv
  <2>2. ASSUME PromptWorker, NEW m \in Nodes PROVE Pace(proto'[m], asked'[m], now)
    <3>1. CASE m = n
      BY <2>1, <3>1, NothingIsLate DEF Pace
    <3>2. CASE m # n
      BY <2>1, <2>2, <3>2 DEF PaceInv
    <3> QED BY <3>1, <3>2
  <2> QED BY <2>1, <2>2 DEF PaceInv
<1>6. CASE Tick
  BY <1>6, TickPaces
<1>7. CASE UNCHANGED vars
  BY <1>7 DEF PaceInv, vars
<1> QED BY <1>1, <1>2, <1>3, <1>4, <1>5, <1>6, <1>7 DEF Next

(* While the worker polls as long as there is something to ask for, a      *)
(* position of a stored assembly that is missing, was due a tick ago and   *)
(* is not given up is unasked only because the requests of the window had  *)
(* used up the budget: the safety core of RepairedInTime.                  *)
THEOREM DueRepairsAreAsked == Spec => []RepairsArePunctual
<1>1. Init => IInv /\ LinkInv /\ PaceInv
  BY Initially, LinkInitially, PaceInitially
<1>2. IInv /\ LinkInv /\ PaceInv /\ [Next]_vars => (IInv /\ LinkInv /\ PaceInv)'
  BY Inductive, LinkInductive, PaceInductive
<1>3. PaceInv => RepairsArePunctual
  BY DEF PaceInv, Pace, RepairsArePunctual
<1> QED BY <1>1, <1>2, <1>3, PTL DEF Spec
=============================================================================
