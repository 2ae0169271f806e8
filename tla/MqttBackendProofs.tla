-------------------------- MODULE MqttBackendProofs --------------------------
(***************************************************************************)
(* Proofs about the duplicate window of the MQTT backend: the table of the *)
(* receiver is what was given to the interface within the window, and the  *)
(* broker holds one packet of a fragment whose sending never failed.       *)
(***************************************************************************)
EXTENDS MqttBackend, WellFoundedInduction, TLAPS

(* A set of natural numbers has a least element.                           *)
LEMMA LeastNat ==
  ASSUME NEW S \in SUBSET Nat, S # {}
  PROVE  Min(S) \in S /\ \A k \in S : Min(S) <= k
<1>1. PICK m \in S : \A k \in S : ~(<<k, m>> \in OpToRel(<, Nat))
  BY WFMin, NatLessThanWellFounded
<1>2. \A k \in S : ~(k < m)
  BY <1>1 DEF OpToRel
<1>3. \E x \in S : \A k \in S : x <= k
  BY <1>2
<1> QED BY <1>3 DEF Min
-----------------------------------------------------------------------------
LEMMA PacketType ==
  TypeOK => Packet \in Packets /\ NextId(sender.next) \in 1..LastId
BY BoundsAssumption DEF TypeOK, Packet, Packets, NextId

LEMMA CleanedType ==
  ASSUME NEW table \in Seq(Aged)
  PROVE  Cleaned(table) \in Seq(Aged)
<1> DEFINE fresh == {i \in DOMAIN table : Fresh(table[i])}
<1>1. CASE fresh = {}
  BY <1>1 DEF Cleaned
<1>2. CASE fresh # {}
  <2>1. Min(fresh) \in 1..Len(table)
    <3>1. fresh \in SUBSET Nat /\ DOMAIN table = 1..Len(table)
      OBVIOUS
    <3>2. Min(fresh) \in fresh
      BY <1>2, <3>1, LeastNat
    <3> QED BY <3>1, <3>2
  <2>2. SubSeq(table, Min(fresh), Len(table)) \in Seq(Aged)
    <3> HIDE DEF fresh
    <3> QED BY <2>1
  <2> QED BY <1>2, <2>2 DEF Cleaned
<1> QED BY <1>1, <1>2

LEMMA StartedType ==
  \A s \in Started :
    s \in [next : 1..LastId, connected : BOOLEAN, closed : BOOLEAN, linked : BOOLEAN]
BY DEF Started

LEMMA TypeInit == Init => TypeOK
<1> SUFFICES ASSUME Init PROVE TypeOK
  OBVIOUS
<1>1. 1 \in 1..LastId
  BY BoundsAssumption
<1>2. broker \subseteq Packets
  BY <1>1 DEF Init, Packets
<1>3. spent \in [sends : Nat, arrivals : Nat, starts : Nat]
  BY DEF Init
<1>4. work \in [pc : {"idle", "checked"}, payload : Payloads]
  BY DEF Init
<1>5. /\ sender \in [next : 1..LastId, connected : BOOLEAN, closed : BOOLEAN, linked : BOOLEAN]
      /\ todo \subseteq Payloads /\ waiting \in Seq(Packets) /\ seen \in Seq(Aged)
      /\ given \subseteq Aged /\ failed \subseteq Payloads /\ wrong \subseteq {"twice", "dropped"}
  BY StartedType DEF Init
<1> QED BY <1>2, <1>3, <1>4, <1>5 DEF TypeOK

LEMMA OlderType == \A e \in Aged : Older(e) \in Aged /\ Older(e).packet = e.packet
                                   /\ Older(e).age = IF e.age > Ttl THEN e.age ELSE e.age + 1
BY BoundsAssumption DEF Aged, Older

LEMMA TypeStep == TypeOK /\ [Next]_vars => TypeOK'
<1> SUFFICES ASSUME TypeOK, [Next]_vars PROVE TypeOK'
  OBVIOUS
<1> USE DEF TypeOK
<1>1. ASSUME NEW f \in Payloads, CheckConnected(f) PROVE TypeOK'
  BY <1>1 DEF CheckConnected, receiving
<1>2. CASE Publish
  <2>1. Packet \in Packets /\ NextId(sender.next) \in 1..LastId
    BY PacketType
  <2>2. Append(waiting, Packet) \in Seq(Packets)
    BY <2>1
  <2> QED BY <1>2, <2>1, <2>2 DEF Publish, receiving
<1>3. CASE Connect
  <2>1. ToSet(waiting) \subseteq Packets /\ <<>> \in Seq(Packets)
    BY DEF ToSet
  <2> QED BY <1>3, <2>1 DEF Connect, receiving
<1>4. CASE OnConnect \/ LoseConnection \/ OnDisconnect \/ Close
  BY <1>4 DEF OnConnect, LoseConnection, OnDisconnect, Close, receiving
<1>5. CASE StartAgain
  <2>1. <<>> \in Seq(Packets)
    OBVIOUS
  <2>2. sender' \in [next : 1..LastId, connected : BOOLEAN, closed : BOOLEAN, linked : BOOLEAN]
    BY <1>5, StartedType DEF StartAgain
  <2>3. spent' \in [sends : Nat, arrivals : Nat, starts : Nat]
    BY <1>5 DEF StartAgain
  <2> QED BY <1>5, <2>1, <2>2, <2>3 DEF StartAgain, receiving
<1>6. ASSUME NEW p \in broker, OnMessage(p) PROVE TypeOK'
  <2>1. Cleaned(seen) \in Seq(Aged)
    BY CleanedType
  <2>2. [packet |-> p, age |-> 0] \in Aged
    BY BoundsAssumption DEF Aged
  <2>3. Append(Cleaned(seen), [packet |-> p, age |-> 0]) \in Seq(Aged)
    BY <2>1, <2>2
  <2>4. seen' \in Seq(Aged) /\ given' \subseteq Aged
    BY <1>6, <2>1, <2>2, <2>3 DEF OnMessage
  <2>5. wrong' \subseteq {"twice", "dropped"}
    <3>1. CASE wrong' = wrong \cup (IF WithinWindow(p) THEN {} ELSE {"dropped"})
      BY <3>1
    <3>2. ASSUME NEW again \in BOOLEAN, wrong' = wrong \cup (IF again THEN {"twice"} ELSE {})
          PROVE  wrong' \subseteq {"twice", "dropped"}
      BY <3>2
    <3> QED BY <1>6, <3>1, <3>2 DEF OnMessage
  <2>6. spent' \in [sends : Nat, arrivals : Nat, starts : Nat]
    <3>1. spent' = [spent EXCEPT !.arrivals = spent.arrivals + 1]
      BY <1>6 DEF OnMessage
    <3> QED BY <3>1
  <2> QED BY <1>6, <2>4, <2>5, <2>6 DEF OnMessage
<1>7. CASE Tick
  <2>1. seen' \in Seq(Aged)
    <3>1. seen' = [i \in 1..Len(seen) |-> Older(seen[i])] /\ Len(seen) \in Nat
      BY <1>7 DEF Tick
    <3>2. \A i \in 1..Len(seen) : Older(seen[i]) \in Aged
      BY OlderType
    <3> QED BY <3>1, <3>2
  <2>2. given' \subseteq Aged
    BY <1>7, OlderType DEF Tick
  <2> QED BY <1>7, <2>1, <2>2 DEF Tick
<1>8. CASE UNCHANGED vars
  BY <1>8 DEF vars
<1> QED BY <1>1, <1>2, <1>3, <1>4, <1>5, <1>6, <1>7, <1>8 DEF Next

(* The table and the window.                                               *)

(* The older of two entries is in front.                                   *)
Ordered(table) == \A i, j \in DOMAIN table : i < j => table[i].age >= table[j].age

(* The window is what is fresh of the table.                               *)
Windowed(table, window) ==
  /\ \A e \in window : \E i \in DOMAIN table : table[i] = e
  /\ \A e \in window : Fresh(e)
  /\ \A i \in DOMAIN table : Fresh(table[i]) => table[i] \in window

LEMMA AgeType == \A e \in Aged : e.age \in Nat
BY BoundsAssumption DEF Aged

(* Taking old entries from the front takes all the old ones, and no other. *)
LEMMA CleanedFacts ==
  ASSUME NEW table \in Seq(Aged), Ordered(table), NEW window, Windowed(table, window)
  PROVE  LET kept == Cleaned(table) IN
         /\ kept \in Seq(Aged) /\ Ordered(kept) /\ Windowed(kept, window)
         /\ \A i \in DOMAIN kept : Fresh(kept[i])
<1> DEFINE fresh == {i \in DOMAIN table : Fresh(table[i])}
           L == Len(table)
<1>1. fresh \in SUBSET Nat /\ DOMAIN table = 1..L /\ L \in Nat
      /\ \A i \in 1..L : table[i].age \in Nat
  <2>1. DOMAIN table = 1..L /\ L \in Nat /\ \A i \in 1..L : table[i] \in Aged
    OBVIOUS
  <2> QED BY <2>1, AgeType
<1>2. CASE fresh = {}
  <2>1. window = {}
    BY <1>2 DEF Windowed
  <2> QED BY <1>2, <2>1 DEF Cleaned, Ordered, Windowed
<1>3. CASE fresh # {}
  <2> DEFINE m == Min(fresh)
             kept == SubSeq(table, m, L)
  <2>1. m \in fresh /\ \A k \in fresh : m <= k
    BY <1>1, <1>3, LeastNat
  <2>2. m \in 1..L /\ table[m].age <= Ttl
    BY <1>1, <2>1 DEF Fresh
  <2>3. Cleaned(table) = kept
    BY <1>3 DEF Cleaned
  <2>4. \A k \in 1..L : Fresh(table[k]) => m <= k
    BY <1>1, <2>1
  <2> HIDE DEF m, fresh
  <2>5. /\ kept \in Seq(Aged) /\ DOMAIN kept = 1..(L - m + 1)
        /\ \A k \in 1..(L - m + 1) : kept[k] = table[m + k - 1] /\ m + k - 1 \in m..L
    BY <1>1, <2>2
  <2> HIDE DEF kept
  <2>6. \A k \in m..L : k - m + 1 \in DOMAIN kept /\ kept[k - m + 1] = table[k]
    BY <1>1, <2>2, <2>5
  <2> HIDE DEF L
  <2>7. Ordered(kept)
    <3> SUFFICES ASSUME NEW i \in DOMAIN kept, NEW j \in DOMAIN kept, i < j
                 PROVE  kept[i].age >= kept[j].age
      BY DEF Ordered
    <3>1. m + i - 1 \in 1..L /\ m + j - 1 \in 1..L /\ m + i - 1 < m + j - 1
      BY <1>1, <2>2, <2>5
    <3> QED BY <1>1, <2>5, <3>1 DEF Ordered
  <2>8. \A i \in DOMAIN kept : Fresh(kept[i])
    <3> SUFFICES ASSUME NEW k \in m..L PROVE table[k].age <= Ttl
      BY <2>5 DEF Fresh
    <3>1. k \in 1..L /\ m \in 1..L /\ (m < k \/ m = k)
      BY <1>1, <2>2
    <3>2. table[m].age >= table[k].age
      BY <1>1, <3>1 DEF Ordered
    <3> QED BY <1>1, <2>2, <3>1, <3>2, BoundsAssumption
  <2>9. Windowed(kept, window)
    <3>1. ASSUME NEW e \in window PROVE \E i \in DOMAIN kept : kept[i] = e
      <4>1. PICK k \in 1..L : table[k] = e
        BY <1>1 DEF Windowed
      <4>2. k \in m..L
        BY <1>1, <2>2, <2>4, <4>1 DEF Windowed
      <4> QED BY <2>6, <4>1, <4>2
    <3>2. ASSUME NEW i \in DOMAIN kept PROVE Fresh(kept[i]) => kept[i] \in window
      <4>1. kept[i] = table[m + i - 1] /\ m + i - 1 \in 1..L
        BY <1>1, <2>2, <2>5
      <4> QED BY <1>1, <4>1 DEF Windowed
    <3> QED BY <3>1, <3>2 DEF Windowed
  <2> QED BY <2>3, <2>5, <2>7, <2>8, <2>9
<1> QED BY <1>2, <1>3

LEMMA AddedFacts ==
  ASSUME NEW table \in Seq(Aged), Ordered(table), NEW window, Windowed(table, window),
         NEW e \in Aged, e.age = 0
  PROVE  Ordered(Append(table, e)) /\ Windowed(Append(table, e), window \cup {e})
<1> DEFINE more == Append(table, e)
           L == Len(table)
<1>1. /\ L \in Nat /\ DOMAIN table = 1..L /\ DOMAIN more = 1..L + 1
      /\ more[L + 1] = e /\ \A i \in 1..L : more[i] = table[i]
      /\ \A i \in 1..L : table[i].age \in Nat
  <2>1. DOMAIN table = 1..L /\ L \in Nat /\ \A i \in 1..L : table[i] \in Aged
    OBVIOUS
  <2> HIDE DEF more
  <2>2. DOMAIN more = 1..L + 1 /\ more[L + 1] = e /\ \A i \in 1..L : more[i] = table[i]
    BY <2>1 DEF more
  <2> QED BY <2>1, <2>2, AgeType
<1>2. Fresh(e)
  BY BoundsAssumption DEF Fresh
<1> HIDE DEF more, L
<1>3. \A i \in 1..L + 1 : i \in 1..L \/ i = L + 1
  BY <1>1
<1>4. Ordered(more)
  <2> SUFFICES ASSUME NEW i \in 1..L + 1, NEW j \in 1..L + 1, i < j
               PROVE  more[i].age >= more[j].age
    BY <1>1 DEF Ordered
  <2>1. i \in 1..L
    BY <1>1
  <2>2. CASE j \in 1..L
    BY <1>1, <2>1, <2>2 DEF Ordered
  <2>3. CASE j = L + 1
    BY <1>1, <2>1, <2>3
  <2> QED BY <1>3, <2>2, <2>3
<1>5. Windowed(more, window \cup {e})
  <2>1. ASSUME NEW x \in window \cup {e} PROVE \E i \in DOMAIN more : more[i] = x
    <3>1. CASE x = e
      <4>1. L + 1 \in DOMAIN more
        BY <1>1
      <4> QED BY <1>1, <3>1, <4>1
    <3>2. CASE x \in window
      <4>1. PICK i \in 1..L : table[i] = x
        BY <1>1, <3>2 DEF Windowed
      <4>2. i \in DOMAIN more
        BY <1>1
      <4> QED BY <1>1, <4>1, <4>2
    <3> QED BY <3>1, <3>2
  <2>2. \A x \in window \cup {e} : Fresh(x)
    BY <1>2 DEF Windowed
  <2>3. \A i \in DOMAIN more : Fresh(more[i]) => more[i] \in window \cup {e}
    BY <1>1, <1>3 DEF Windowed
  <2> QED BY <2>1, <2>2, <2>3 DEF Windowed
<1> QED BY <1>4, <1>5 DEF more

LEMMA AgedFacts ==
  ASSUME NEW table \in Seq(Aged), Ordered(table), NEW window \in SUBSET Aged,
         Windowed(table, window), NEW later, NEW after,
         later = [i \in DOMAIN table |-> Older(table[i])],
         after = {Older(e) : e \in {e \in window : e.age < Ttl}}
  PROVE  Ordered(later) /\ Windowed(later, after)
<1>1. DOMAIN later = DOMAIN table /\ \A i \in DOMAIN table : later[i] = Older(table[i])
  OBVIOUS
<1>2. \A i \in DOMAIN table : table[i] \in Aged /\ table[i].age \in Nat
  BY AgeType
<1>3. \A x : x \in after <=> \E e \in window : e.age < Ttl /\ x = Older(e)
  OBVIOUS
<1>4. Ttl \in Nat
  BY BoundsAssumption
<1>5. Ordered(later)
  BY <1>1, <1>2, <1>4, OlderType DEF Ordered
<1>6. \A x \in after : \E i \in DOMAIN later : later[i] = x
  BY <1>1, <1>3 DEF Windowed
<1>7. \A x \in after : Fresh(x)
  <2> SUFFICES ASSUME NEW e \in window, e.age < Ttl PROVE Older(e).age <= Ttl
    BY <1>3 DEF Fresh
  <2>1. e \in Aged /\ e.age \in Nat
    BY BoundsAssumption DEF Aged
  <2> QED BY <1>4, <2>1, OlderType
<1>8. \A i \in DOMAIN later : Fresh(later[i]) => later[i] \in after
  <2> SUFFICES ASSUME NEW i \in DOMAIN table, Older(table[i]).age <= Ttl
               PROVE  Older(table[i]) \in after
    BY <1>1 DEF Fresh
  <2>1. table[i].age < Ttl
    BY <1>2, <1>4, OlderType
  <2>2. Fresh(table[i])
    BY <1>2, <1>4, <2>1 DEF Fresh
  <2> QED BY <1>3, <2>1, <2>2 DEF Windowed
<1> QED BY <1>5, <1>6, <1>7, <1>8 DEF Windowed

(* Types hold for every number of ids, fragments, starts and arrivals.     *)
THEOREM MqttTypes == Spec => []TypeOK
BY TypeInit, TypeStep, PTL DEF Spec
-----------------------------------------------------------------------------
(* What the broker and paho hold.                                          *)

Of(p, f) == p.source = Sender /\ p.payload = f

Held ==
  /\ \A e \in given : e.packet \in broker
  /\ \A i \in DOMAIN waiting : waiting[i].payload \in failed
  /\ work.pc = "checked" => work.payload \in todo

SentOnce ==
  \A f \in Payloads :
    f \notin failed =>
      /\ \A p, q \in broker : Of(p, f) /\ Of(q, f) => p = q
      /\ f \in todo => \A p \in broker : ~Of(p, f)

Window == Ordered(seen) /\ Windowed(seen, given)

MqttInv == TypeOK /\ Window /\ Held /\ SentOnce /\ wrong = {}

LEMMA MqttInitially == Init => MqttInv
<1> SUFFICES ASSUME Init PROVE MqttInv
  OBVIOUS
<1>1. seen = <<>> /\ given = {} /\ waiting = <<>> /\ wrong = {} /\ work.pc = "idle"
  BY DEF Init
<1>2. \A p \in broker : p.source = Other
  BY DEF Init
<1>3. SentOnce
  BY <1>2, NodesAssumption DEF SentOnce, Of
<1>4. Window /\ Held
  BY <1>1 DEF Window, Ordered, Windowed, Held
<1> QED BY <1>1, <1>3, <1>4, TypeInit DEF MqttInv

(* A packet sent, or kept by paho.                                         *)
LEMMA PublishKeeps ==
  ASSUME MqttInv, Publish
  PROVE  Held' /\ SentOnce'
<1> DEFINE f == work.payload
<1>1. /\ given' = given /\ work'.pc = "idle" /\ work.pc = "checked"
      /\ f \in todo /\ f \in Payloads
  BY DEF Publish, receiving, MqttInv, Held, TypeOK
<1>2. Packet.payload = f
  BY DEF Packet
<1>3. CASE UNCHANGED <<todo, waiting, broker, failed>>
  BY <1>1, <1>3 DEF MqttInv, Held, SentOnce
<1>4. CASE todo' = todo \ {f} /\ broker' = broker \cup {Packet} /\ UNCHANGED <<waiting, failed>>
  <2>1. Held'
    BY <1>1, <1>4 DEF MqttInv, Held
  <2>2. SentOnce'
    <3> SUFFICES ASSUME NEW g \in Payloads, g \notin failed
                 PROVE  /\ \A p, q \in broker' : Of(p, g) /\ Of(q, g) => p = q
                        /\ g \in todo' => \A p \in broker' : ~Of(p, g)
      BY <1>4 DEF SentOnce
    <3>1. /\ \A p, q \in broker : Of(p, g) /\ Of(q, g) => p = q
          /\ g \in todo => \A p \in broker : ~Of(p, g)
      BY DEF MqttInv, SentOnce
    <3>2. CASE g = f
      <4>1. \A p \in broker : ~Of(p, g)
        BY <1>1, <3>1, <3>2
      <4> QED BY <1>4, <3>2, <4>1
    <3>3. CASE g # f
      <4>1. ~Of(Packet, g)
        BY <1>2, <3>3 DEF Of
      <4> QED BY <1>4, <3>1, <4>1
    <3> QED BY <3>2, <3>3
  <2> QED BY <2>1, <2>2
<1>5. CASE waiting' = Append(waiting, Packet) /\ failed' = failed \cup {f}
           /\ UNCHANGED <<todo, broker>>
  <2>1. waiting \in Seq(Packets) /\ Packet \in Packets
    BY PacketType DEF MqttInv, TypeOK
  <2>2. \A i \in DOMAIN waiting' : (i \in DOMAIN waiting /\ waiting'[i] = waiting[i]) \/ waiting'[i] = Packet
    BY <1>5, <2>1
  <2>3. Held'
    BY <1>1, <1>2, <1>5, <2>2 DEF MqttInv, Held
  <2>4. SentOnce'
    BY <1>5 DEF MqttInv, SentOnce
  <2> QED BY <2>3, <2>4
<1> QED BY <1>3, <1>4, <1>5 DEF Publish

LEMMA ConnectKeeps ==
  ASSUME MqttInv, Connect
  PROVE  Held' /\ SentOnce'
<1>1. /\ broker' = broker \cup ToSet(waiting) /\ waiting' = <<>>
      /\ UNCHANGED <<work, todo, given, failed>>
  BY DEF Connect, receiving
<1>2. \A p \in ToSet(waiting) : p.payload \in failed
  BY DEF ToSet, MqttInv, Held
<1>3. Held'
  BY <1>1 DEF MqttInv, Held
<1>4. SentOnce'
  <2> SUFFICES ASSUME NEW g \in Payloads, g \notin failed
               PROVE  /\ \A p, q \in broker' : Of(p, g) /\ Of(q, g) => p = q
                      /\ g \in todo => \A p \in broker' : ~Of(p, g)
    BY <1>1 DEF SentOnce
  <2>1. \A p \in broker' : Of(p, g) => p \in broker
    BY <1>1, <1>2 DEF Of
  <2> QED BY <2>1 DEF MqttInv, SentOnce
<1> QED BY <1>3, <1>4

(* A message arrives.                                                      *)
LEMMA KnownIsWithin ==
  ASSUME MqttInv, NEW p \in Packets
  PROVE  Known(Cleaned(seen), p) <=> WithinWindow(p)
<1> DEFINE table == Cleaned(seen)
<1>1. /\ table \in Seq(Aged) /\ Windowed(table, given)
      /\ \A i \in DOMAIN table : Fresh(table[i])
  BY CleanedFacts DEF MqttInv, Window, TypeOK
<1> HIDE DEF table
<1>2. \A q \in Packets : SameKey(q, p) => q = p
  BY DEF SameKey, Packets
<1>3. \A i \in DOMAIN table : table[i].packet \in Packets
  <2>1. \A e \in Aged : e.packet \in Packets
    BY DEF Aged
  <2> QED BY <1>1, <2>1
<1>4. ASSUME NEW i \in DOMAIN table, SameKey(table[i].packet, p) PROVE WithinWindow(p)
  BY <1>1, <1>2, <1>3, <1>4 DEF Windowed, WithinWindow
<1>5. ASSUME NEW e \in given, e.packet = p PROVE \E i \in DOMAIN table : SameKey(table[i].packet, p)
  <2>1. PICK i \in DOMAIN table : table[i] = e
    BY <1>1 DEF Windowed
  <2> QED BY <1>5, <2>1 DEF SameKey
<1> QED BY <1>4, <1>5 DEF Known, WithinWindow, table

LEMMA OnMessageKeeps ==
  ASSUME MqttInv, NEW p \in broker, OnMessage(p)
  PROVE  Window' /\ Held' /\ SentOnce' /\ wrong' = {}
<1> DEFINE table == Cleaned(seen)
           e == [packet |-> p, age |-> 0]
<1>1. p \in Packets /\ UNCHANGED <<work, todo, waiting, broker, failed>> /\ wrong = {}
  BY DEF MqttInv, TypeOK, OnMessage
<1>2. table \in Seq(Aged) /\ Ordered(table) /\ Windowed(table, given)
  BY CleanedFacts DEF MqttInv, Window, TypeOK
<1>3. Known(table, p) <=> WithinWindow(p)
  BY <1>1, KnownIsWithin
<1>4. e \in Aged /\ e.age = 0 /\ e.packet = p
  BY <1>1, BoundsAssumption DEF Aged
<1> HIDE DEF e, table
<1>5. SentOnce'
  BY <1>1 DEF MqttInv, SentOnce
<1>6. CASE Known(table, p) /\ seen' = table /\ given' = given
           /\ wrong' = wrong \cup (IF WithinWindow(p) THEN {} ELSE {"dropped"})
  <2>1. Held'
    BY <1>1, <1>6 DEF MqttInv, Held
  <2> QED BY <1>1, <1>2, <1>3, <1>5, <1>6, <2>1 DEF Window
<1>7. CASE /\ ~Known(table, p) /\ seen' = Append(table, e) /\ given' = given \cup {e}
           /\ wrong' = wrong \cup
                (IF p.payload \notin failed /\ p.source = Sender
                    /\ \E x \in given : x.packet.source = Sender /\ x.packet.payload = p.payload
                 THEN {"twice"} ELSE {})
  <2>1. Held'
    BY <1>1, <1>4, <1>7 DEF MqttInv, Held
  <2>2. Window'
    BY <1>2, <1>4, <1>7, AddedFacts DEF Window
  <2>3. ASSUME p.payload \notin failed, p.source = Sender,
               NEW x \in given, x.packet.source = Sender, x.packet.payload = p.payload
        PROVE  FALSE
    <3>1. x.packet \in broker /\ p.payload \in Payloads
      BY <1>1 DEF MqttInv, Held, Packets
    <3>2. x.packet = p
      BY <2>3, <3>1 DEF MqttInv, SentOnce, Of
    <3>3. WithinWindow(p)
      BY <3>2 DEF WithinWindow
    <3> QED BY <1>3, <1>7, <3>3
  <2>4. wrong' = {}
    BY <1>1, <1>7, <2>3
  <2> QED BY <1>5, <2>1, <2>2, <2>4
<1> QED BY <1>6, <1>7 DEF OnMessage, table, e

LEMMA MqttStep == MqttInv /\ [Next]_vars => MqttInv'
<1> SUFFICES ASSUME MqttInv, [Next]_vars PROVE MqttInv'
  OBVIOUS
<1>1. TypeOK'
  BY TypeStep DEF MqttInv
<1>2. ASSUME UNCHANGED receiving PROVE Window' /\ wrong' = {}
  BY <1>2 DEF receiving, MqttInv, Window
<1>3. ASSUME NEW f \in Payloads, CheckConnected(f) PROVE MqttInv'
  BY <1>1, <1>2, <1>3 DEF CheckConnected, MqttInv, Held, SentOnce, receiving
<1>4. CASE Publish
  <2>1. UNCHANGED receiving
    BY <1>4 DEF Publish
  <2> QED BY <1>1, <1>2, <1>4, <2>1, PublishKeeps DEF MqttInv
<1>5. CASE Connect
  <2>1. UNCHANGED receiving
    BY <1>5 DEF Connect
  <2> QED BY <1>1, <1>2, <1>5, <2>1, ConnectKeeps DEF MqttInv
<1>6. CASE OnConnect \/ LoseConnection \/ OnDisconnect \/ Close
  <2>1. UNCHANGED <<work, todo, waiting, broker, receiving, failed>>
    BY <1>6 DEF OnConnect, LoseConnection, OnDisconnect, Close
  <2> QED BY <1>1, <1>2, <2>1 DEF MqttInv, Held, SentOnce, receiving
<1>7. CASE StartAgain
  <2>1. UNCHANGED <<work, todo, broker, receiving, failed>> /\ waiting' = <<>>
    BY <1>7 DEF StartAgain
  <2> QED BY <1>1, <1>2, <2>1 DEF MqttInv, Held, SentOnce, receiving
<1>8. ASSUME NEW p \in broker, OnMessage(p) PROVE MqttInv'
  BY <1>1, <1>8, OnMessageKeeps DEF MqttInv
<1>9. CASE Tick
  <2>1. /\ seen' = [i \in DOMAIN seen |-> Older(seen[i])]
        /\ given' = {Older(e) : e \in {e \in given : e.age < Ttl}}
        /\ UNCHANGED <<work, todo, waiting, broker, failed, wrong>>
    BY <1>9 DEF Tick
  <2>2. seen \in Seq(Aged) /\ given \in SUBSET Aged /\ Ordered(seen) /\ Windowed(seen, given)
    BY DEF MqttInv, TypeOK, Window
  <2>3. Window'
    BY <2>1, <2>2, AgedFacts DEF Window
  <2>4. \A e \in given' : e.packet \in broker
    <3> SUFFICES ASSUME NEW e \in given PROVE Older(e).packet \in broker
      BY <2>1
    <3>1. Older(e).packet = e.packet
      BY <2>2, OlderType
    <3> QED BY <3>1 DEF MqttInv, Held
  <2> QED BY <1>1, <2>1, <2>3, <2>4 DEF MqttInv, Held, SentOnce
<1>10. CASE UNCHANGED vars
  BY <1>1, <1>10 DEF vars, MqttInv, Window, Held, SentOnce
<1> QED BY <1>3, <1>4, <1>5, <1>6, <1>7, <1>8, <1>9, <1>10 DEF Next

(* However the broker repeats deliveries and other gateways copy them,     *)
(* however connections come and go and ids wrap, a fragment is given to    *)
(* the interface twice within the window only if its send was called       *)
(* failed after paho had it.                                               *)
THEOREM OnlyRetriesRepeat == Spec => []TwiceOnlyByRetry
<1>1. MqttInv => TwiceOnlyByRetry
  BY DEF MqttInv, TwiceOnlyByRetry
<1> QED BY <1>1, MqttInitially, MqttStep, PTL DEF Spec

(* What the duplicate test of _on_message drops was given to the interface *)
(* within the window, for every lifetime of the window.                    *)
THEOREM CopiesAreDropped == Spec => []OnlyCopiesDropped
<1>1. MqttInv => OnlyCopiesDropped
  BY DEF MqttInv, OnlyCopiesDropped
<1> QED BY <1>1, MqttInitially, MqttStep, PTL DEF Spec
=============================================================================
