------------------------- MODULE GatewayConsoleProofs -------------------------
(***************************************************************************)
(* Proofs about the console, lxmd and the journal they share: for every    *)
(* number of status requests, size of the windows, cooldown and clocks.    *)
(***************************************************************************)
EXTENDS GatewayConsole, FiniteSetTheorems, WellFoundedInduction, TLAPS

(* Induction on the natural numbers, for a set.                            *)
LEMMA Induct ==
  ASSUME NEW S, 0 \in S, \A n \in Nat : n \in S => n + 1 \in S
  PROVE  Nat \subseteq S
<1> SUFFICES ASSUME Nat \ S # {} PROVE FALSE
  OBVIOUS
<1>1. PICK m \in Nat \ S : \A k \in Nat \ S : ~(<<k, m>> \in OpToRel(<, Nat))
  BY WFMin, NatLessThanWellFounded
<1>2. \A k \in Nat \ S : ~(k < m)
  BY <1>1 DEF OpToRel
<1>3. m # 0 /\ m - 1 \in Nat /\ m - 1 \in S
  BY <1>2
<1> QED BY <1>3
-----------------------------------------------------------------------------
(* One more number at the end of an interval.                              *)
LEMMA IntervalGrows ==
  ASSUME NEW low \in Nat, NEW high \in Nat, low <= high
  PROVE  (low + 1)..(high + 1) = ((low + 1)..high) \cup {high + 1}
OBVIOUS

(* The journal after each of several events, and the keys after each of    *)
(* several announces: the recursive functions of the model exist.          *)
Journals(after, before, clocks) ==
  /\ after[0] = before
  /\ \A n \in 1..Len(clocks) : after[n] = Appended(after[n - 1], clocks[n])
  /\ AppendedAll(before, clocks) = after[Len(clocks)]

LEMMA AfterEvents ==
  ASSUME NEW before, NEW clocks, Len(clocks) \in Nat
  PROVE  \E after : Journals(after, before, clocks)
<1> DEFINE N == Len(clocks)
           Is(g, k) == g = [n \in 0..k |-> IF n = 0 THEN before
                                           ELSE Appended(g[n - 1], clocks[n])]
           S == {k \in Nat : \E g : Is(g, k)}
<1>1. 0 \in S
  <2>1. Is([n \in 0..0 |-> before], 0)
    OBVIOUS
  <2> QED BY <2>1
<1>2. \A k \in Nat : k \in S => k + 1 \in S
  <2> HIDE DEF Is
  <2> SUFFICES ASSUME NEW k \in Nat, NEW g, Is(g, k) PROVE \E h : Is(h, k + 1)
    OBVIOUS
  <2> USE DEF Is
  <2> DEFINE h == [n \in 0..(k + 1) |-> IF n <= k THEN g[n]
                                        ELSE Appended(g[k], clocks[k + 1])]
  <2>1. \A n \in 0..(k + 1) :
          h[n] = IF n = 0 THEN before ELSE Appended(h[n - 1], clocks[n])
    <3> SUFFICES ASSUME NEW n \in 0..(k + 1)
                 PROVE  h[n] = IF n = 0 THEN before ELSE Appended(h[n - 1], clocks[n])
      OBVIOUS
    <3>1. CASE n = 0
      BY <3>1
    <3>2. CASE n # 0 /\ n <= k
      <4>1. n - 1 \in 0..k /\ n \in 0..k /\ n - 1 \in 0..(k + 1)
        BY <3>2
      <4>2. h[n] = g[n] /\ h[n - 1] = g[n - 1]
        BY <4>1
      <4>3. g[n] = Appended(g[n - 1], clocks[n])
        BY <4>1, <3>2
      <4> QED BY <4>2, <4>3, <3>2
    <3>3. CASE n = k + 1
      <4>1. h[n] = Appended(g[k], clocks[n]) /\ h[k] = g[k] /\ n - 1 = k
        BY <3>3
      <4> QED BY <4>1, <3>3
    <3> QED BY <3>1, <3>2, <3>3
  <2>2. h = [n \in 0..(k + 1) |-> h[n]]
    OBVIOUS
  <2> HIDE DEF h
  <2>3. Is(h, k + 1)
    BY <2>1, <2>2
  <2> QED BY <2>3
<1>3. N \in S
  <2> HIDE DEF S
  <2> QED BY <1>1, <1>2, Induct
<1> DEFINE after == CHOOSE g : Is(g, N)
<1>4. Is(after, N)
  BY <1>3
<1>5. AppendedAll(before, clocks) = after[N]
  BY DEF AppendedAll
<1>6. after[0] = before /\ \A n \in 1..N : after[n] = Appended(after[n - 1], clocks[n])
  <2> HIDE DEF after
  <2> QED BY <1>4
<1>7. Journals(after, before, clocks)
  <2> HIDE DEF after
  <2> QED BY <1>5, <1>6 DEF Journals
<1> QED BY <1>7

LEMMA AfterAnnounces ==
  ASSUME NEW keys, NEW announces, Len(announces) \in Nat
  PROVE  \E after :
           /\ after[0].keys = keys /\ after[0].new = <<>>
           /\ \A n \in 1..Len(announces) : after[n] = Take(after[n - 1], announces[n])
           /\ Taken(keys, announces) = after[Len(announces)]
<1> DEFINE N == Len(announces)
           before == [keys |-> keys, new |-> <<>>]
           Is(g, k) == g = [n \in 0..k |-> IF n = 0 THEN before
                                           ELSE Take(g[n - 1], announces[n])]
           S == {k \in Nat : \E g : Is(g, k)}
<1> HIDE DEF before
<1>1. 0 \in S
  <2> DEFINE g == [n \in 0..0 |-> before]
  <2>1. \A n \in 0..0 : n = 0
    OBVIOUS
  <2>2. \A n \in 0..0 : before = IF n = 0 THEN before ELSE Take(g[n - 1], announces[n])
    BY <2>1
  <2>3. Is(g, 0)
    BY <2>2
  <2> QED BY <2>3
<1>2. \A k \in Nat : k \in S => k + 1 \in S
  <2> HIDE DEF Is
  <2> SUFFICES ASSUME NEW k \in Nat, NEW g, Is(g, k) PROVE \E h : Is(h, k + 1)
    OBVIOUS
  <2> USE DEF Is
  <2> DEFINE h == [n \in 0..(k + 1) |-> IF n <= k THEN g[n]
                                        ELSE Take(g[k], announces[k + 1])]
  <2>1. \A n \in 0..(k + 1) :
          h[n] = IF n = 0 THEN before ELSE Take(h[n - 1], announces[n])
    <3> SUFFICES ASSUME NEW n \in 0..(k + 1)
                 PROVE  h[n] = IF n = 0 THEN before ELSE Take(h[n - 1], announces[n])
      OBVIOUS
    <3>1. CASE n = 0
      BY <3>1
    <3>2. CASE n # 0 /\ n <= k
      <4>1. n - 1 \in 0..k /\ n \in 0..k /\ n - 1 \in 0..(k + 1)
        BY <3>2
      <4>2. h[n] = g[n] /\ h[n - 1] = g[n - 1]
        BY <4>1
      <4>3. g[n] = Take(g[n - 1], announces[n])
        BY <4>1, <3>2
      <4> QED BY <4>2, <4>3, <3>2
    <3>3. CASE n = k + 1
      <4>1. h[n] = Take(g[k], announces[n]) /\ h[k] = g[k] /\ n - 1 = k
        BY <3>3
      <4> QED BY <4>1, <3>3
    <3> QED BY <3>1, <3>2, <3>3
  <2>2. h = [n \in 0..(k + 1) |-> h[n]]
    OBVIOUS
  <2> HIDE DEF h
  <2>3. Is(h, k + 1)
    BY <2>1, <2>2
  <2> QED BY <2>3
<1>3. N \in S
  <2> HIDE DEF S
  <2> QED BY <1>1, <1>2, Induct
<1> DEFINE after == CHOOSE g : Is(g, N)
<1>4. Is(after, N)
  BY <1>3
<1>5. Taken(keys, announces) = after[N]
  BY DEF Taken, before
<1>6. after[0] = before /\ \A n \in 1..N : after[n] = Take(after[n - 1], announces[n])
  <2> HIDE DEF after
  <2> QED BY <1>4
<1>7. before.keys = keys /\ before.new = <<>>
  BY DEF before
<1> QED BY <1>5, <1>6, <1>7
-----------------------------------------------------------------------------
(* Types.                                                                  *)
Entries == [id : Nat, read : BOOLEAN]

LEMMA AppendedType ==
  ASSUME NEW j \in Seq(Entries), Len(j) <= MaxEvents, NEW clock \in Nat
  PROVE  Appended(j, clock) \in Seq(Entries) /\ Len(Appended(j, clock)) <= MaxEvents
<1> DEFINE e == [id |-> FreshId(j, clock), read |-> FALSE]
<1>1. FreshId(j, clock) \in Nat
  <2>1. CASE j = <<>>
    BY <2>1 DEF FreshId
  <2>2. CASE j # <<>>
    <3>1. j[Len(j)] \in Entries
      BY <2>2
    <3>2. Newest(j).id \in Nat
      BY <3>1 DEF Newest, Entries
    <3> QED BY <3>2 DEF FreshId
  <2> QED BY <2>1, <2>2
<1>2. e \in Entries
  BY <1>1 DEF Entries
<1>3. Appended(j, clock) = Bounded(Append(j, e))
  BY DEF Appended
<1> HIDE DEF e
<1>4. Append(j, e) \in Seq(Entries) /\ Len(Append(j, e)) = Len(j) + 1
  BY <1>2
<1>5. MaxEvents \in Nat \ {0}
  BY MaxEventsAssumption
<1>6. CASE Len(Append(j, e)) > MaxEvents
  <2>1. Append(j, e) # <<>>
    BY <1>4
  <2>2. /\ Tail(Append(j, e)) \in Seq(Entries)
        /\ Len(Tail(Append(j, e))) = Len(Append(j, e)) - 1
    BY <1>4, <2>1
  <2> QED BY <1>3, <1>4, <1>5, <1>6, <2>2 DEF Bounded
<1>7. CASE ~(Len(Append(j, e)) > MaxEvents)
  BY <1>3, <1>4, <1>5, <1>7 DEF Bounded
<1> QED BY <1>6, <1>7

-----------------------------------------------------------------------------
(* The journal and the cursor of the browser: identifiers increase, the    *)
(* cursor is not beyond the newest, and read is what it has passed.        *)
Sound(j, c) ==
  /\ \A i, k \in 1..Len(j) : i < k => j[i].id < j[k].id
  /\ IF j = <<>> THEN c = 0 ELSE c <= Newest(j).id
  /\ \A i \in 1..Len(j) : j[i].read <=> j[i].id <= c

LEMMA AppendedSound ==
  ASSUME NEW j \in Seq(Entries), Len(j) <= MaxEvents, NEW c \in Nat, Sound(j, c),
         NEW clock \in Nat, clock > 0
  PROVE  Sound(Appended(j, clock), c)
<1> DEFINE e == [id |-> FreshId(j, clock), read |-> FALSE]
           n == Len(j)
           all == Append(j, e)
<1>0. n \in Nat /\ \A i \in 1..n : j[i] \in Entries /\ j[i].id \in Nat
  <2>1. n \in Nat /\ \A i \in 1..n : j[i] \in Entries
    OBVIOUS
  <2> QED BY <2>1 DEF Entries
<1>1. FreshId(j, clock) \in Nat /\ FreshId(j, clock) > c
      /\ \A i \in 1..n : j[i].id < FreshId(j, clock)
  <2>1. CASE j = <<>>
    BY <2>1 DEF FreshId, Sound
  <2>2. CASE j # <<>>
    <3>1. n \in 1..n
      BY <2>2
    <3>2. Newest(j).id \in Nat /\ Newest(j).id = j[n].id
      BY <1>0, <3>1 DEF Newest
    <3>3. c <= Newest(j).id /\ \A i \in 1..n : j[i].id <= j[n].id
      BY <1>0, <2>2, <3>1 DEF Sound
    <3> QED BY <1>0, <2>2, <3>1, <3>2, <3>3 DEF FreshId
  <2> QED BY <2>1, <2>2
<1>2. e.id = FreshId(j, clock) /\ e.read = FALSE /\ e \in Entries
  BY <1>1 DEF Entries
<1>3. Appended(j, clock) = Bounded(all)
  BY DEF Appended
<1> HIDE DEF e
<1>4. /\ all \in Seq(Entries) /\ Len(all) = n + 1 /\ all[n + 1] = e
      /\ \A i \in 1..n : all[i] = j[i]
  BY <1>2
<1> HIDE DEF all
<1>5. \A i, k \in 1..(n + 1) : i < k => all[i].id < all[k].id
  <2> SUFFICES ASSUME NEW i \in 1..(n + 1), NEW k \in 1..(n + 1), i < k
               PROVE  all[i].id < all[k].id
    OBVIOUS
  <2>1. i \in 1..n
    BY <1>0
  <2>2. CASE k = n + 1
    BY <1>1, <1>2, <1>4, <2>1, <2>2
  <2>3. CASE k # n + 1
    <3>0. n \in Nat
      OBVIOUS
    <3>1. k \in 1..n
      <4> HIDE DEF n
      <4> QED BY <3>0, <2>3
    <3> QED BY <1>4, <2>1, <3>1 DEF Sound
  <2> QED BY <2>2, <2>3
<1>6. \A i \in 1..(n + 1) : all[i].read <=> all[i].id <= c
  <2> SUFFICES ASSUME NEW i \in 1..(n + 1) PROVE all[i].read <=> all[i].id <= c
    OBVIOUS
  <2>1. CASE i = n + 1
    BY <1>1, <1>2, <1>4, <2>1
  <2>2. CASE i # n + 1
    <3>0. n \in Nat
      OBVIOUS
    <3>1. i \in 1..n
      <4> HIDE DEF n
      <4> QED BY <3>0, <2>2
    <3> QED BY <1>4, <3>1 DEF Sound
  <2> QED BY <2>1, <2>2
<1>7. CASE Len(all) > MaxEvents
  <2>1. Bounded(all) = Tail(all) /\ n = MaxEvents /\ n > 0
    BY <1>0, <1>4, <1>7, MaxEventsAssumption DEF Bounded
  <2>2. /\ Tail(all) \in Seq(Entries) /\ Len(Tail(all)) = n
        /\ \A i \in 1..n : Tail(all)[i] = all[i + 1]
    <3>1. all # <<>>
      BY <1>0, <1>4
    <3> QED BY <1>0, <1>4, <3>1
  <2> DEFINE rest == Tail(all)
  <2> HIDE DEF rest
  <2>3. \A i, k \in 1..n : i < k => rest[i].id < rest[k].id
    <3> SUFFICES ASSUME NEW i \in 1..n, NEW k \in 1..n, i < k PROVE rest[i].id < rest[k].id
      OBVIOUS
    <3>1. i + 1 \in 1..(n + 1) /\ k + 1 \in 1..(n + 1) /\ i + 1 < k + 1
      BY <1>0
    <3> QED BY <1>5, <2>2, <3>1 DEF rest
  <2>4. rest # <<>> /\ Newest(rest).id > c
    <3>1. n \in 1..n
      BY <2>1, <1>0
    <3>2. Newest(rest) = e
      BY <1>4, <2>2, <3>1 DEF Newest, rest
    <3>3. rest # <<>>
      BY <2>1, <2>2 DEF rest
    <3> QED BY <1>1, <1>2, <3>2, <3>3
  <2>5. \A i \in 1..n : rest[i].read <=> rest[i].id <= c
    <3> SUFFICES ASSUME NEW i \in 1..n PROVE rest[i].read <=> rest[i].id <= c
      OBVIOUS
    <3>1. i + 1 \in 1..(n + 1)
      BY <1>0
    <3> QED BY <1>6, <2>2, <3>1 DEF rest
  <2>6. Newest(rest).id \in Nat
    BY <1>0, <1>4, <2>1, <2>2, <1>1, <1>2 DEF Newest, rest
  <2>7. Len(rest) = n
    BY <2>2 DEF rest
  <2>8. Sound(rest, c)
    BY <2>3, <2>4, <2>5, <2>6, <2>7 DEF Sound
  <2> QED BY <1>3, <2>1, <2>8 DEF rest
<1>8. CASE ~(Len(all) > MaxEvents)
  <2>1. Bounded(all) = all
    BY <1>8 DEF Bounded
  <2>2. all # <<>> /\ Newest(all) = e
    BY <1>0, <1>4 DEF Newest
  <2>3. Sound(all, c)
    BY <1>1, <1>2, <1>4, <1>5, <1>6, <2>2 DEF Sound
  <2> QED BY <1>3, <2>1, <2>3
<1> QED BY <1>7, <1>8

LEMMA LogFacts ==
  ASSUME journal \in Seq(Entries), Len(journal) <= MaxEvents, cursor \in Nat,
         Sound(journal, cursor), NEW count \in Nat, Log(count)
  PROVE  /\ journal' \in Seq(Entries) /\ Len(journal') <= MaxEvents
         /\ Sound(journal', cursor)
<1>1. PICK clocks \in [1..count -> Stamps] : journal' = AppendedAll(journal, clocks)
  BY DEF Log
<1>2. Len(clocks) = count /\ Len(clocks) \in Nat
  OBVIOUS
<1>a. PICK after : Journals(after, journal, clocks)
  BY <1>2, AfterEvents
<1>3. /\ after[0] = journal
      /\ \A n \in 1..count : after[n] = Appended(after[n - 1], clocks[n])
      /\ AppendedAll(journal, clocks) = after[count]
  BY <1>2, <1>a DEF Journals
<1>b. \A n \in 1..count : clocks[n] \in Nat /\ clocks[n] > 0
  <2>1. Stamps \subseteq Nat \ {0}
    BY BoundsAssumption
  <2>2. \A n \in 1..count : clocks[n] \in Stamps
    OBVIOUS
  <2>3. \A clock \in Stamps : clock \in Nat /\ clock > 0
    BY <2>1
  <2> QED BY <2>2, <2>3
<1> DEFINE Fits(n) == /\ after[n] \in Seq(Entries) /\ Len(after[n]) <= MaxEvents
                      /\ Sound(after[n], cursor)
           S == {n \in Nat : n <= count => Fits(n)}
<1>4. 0 \in S
  BY <1>3
<1>5. \A n \in Nat : n \in S => n + 1 \in S
  <2> SUFFICES ASSUME NEW n \in Nat, n + 1 <= count, Fits(n) PROVE Fits(n + 1)
    OBVIOUS
  <2>1. n + 1 \in 1..count /\ (n + 1) - 1 = n
    OBVIOUS
  <2>2. after[n + 1] = Appended(after[n], clocks[n + 1])
    BY <1>3, <2>1
  <2>3. clocks[n + 1] \in Nat /\ clocks[n + 1] > 0
    BY <1>b, <2>1
  <2> QED BY <2>2, <2>3, AppendedType, AppendedSound
<1>6. count \in S
  <2> HIDE DEF S
  <2> QED BY <1>4, <1>5, Induct
<1> QED BY <1>1, <1>3, <1>6

(* What a browser has read after a request.                                *)
Marked(j, c, limit) ==
  [i \in DOMAIN j |-> [j[i] EXCEPT !.read = @ \/ i \in Selected(j, c, limit)]]

LEMMA MarkedType ==
  ASSUME NEW j \in Seq(Entries), NEW c, NEW limit
  PROVE  /\ Marked(j, c, limit) \in Seq(Entries) /\ Len(Marked(j, c, limit)) = Len(j)
         /\ \A i \in 1..Len(j) :
              /\ Marked(j, c, limit)[i].id = j[i].id
              /\ Marked(j, c, limit)[i].read <=> (j[i].read \/ i \in Selected(j, c, limit))
<1> DEFINE chosen == Selected(j, c, limit)
<1> HIDE DEF chosen
<1>1. ASSUME NEW i \in 1..Len(j)
      PROVE  /\ [j[i] EXCEPT !.read = @ \/ i \in chosen] \in Entries
             /\ [j[i] EXCEPT !.read = @ \/ i \in chosen].id = j[i].id
             /\ [j[i] EXCEPT !.read = @ \/ i \in chosen].read <=> (j[i].read \/ i \in chosen)
  <2>1. j[i] \in Entries
    OBVIOUS
  <2>2. CASE i \in chosen
    <3>1. [j[i] EXCEPT !.read = @ \/ i \in chosen] = [j[i] EXCEPT !.read = TRUE]
      BY <2>2
    <3> QED BY <2>1, <2>2, <3>1 DEF Entries
  <2>3. CASE i \notin chosen
    <3>1. [j[i] EXCEPT !.read = @ \/ i \in chosen] = j[i]
      BY <2>1, <2>3 DEF Entries
    <3> QED BY <2>1, <2>3, <3>1
  <2> QED BY <2>2, <2>3
<1>2. Marked(j, c, limit) = [i \in 1..Len(j) |-> [j[i] EXCEPT !.read = @ \/ i \in chosen]]
  BY DEF Marked, chosen
<1>3. Marked(j, c, limit) \in [1..Len(j) -> Entries]
  BY <1>1, <1>2
<1>4. Marked(j, c, limit) \in Seq(Entries) /\ Len(Marked(j, c, limit)) = Len(j)
  BY <1>3
<1> QED BY <1>1, <1>2, <1>4 DEF chosen

LEMMA Greatest ==
  ASSUME NEW n \in Nat, NEW S \in SUBSET (1..n), S # {}
  PROVE  \E m \in S : \A k \in S : k <= m
<1> DEFINE T == {k \in Nat : k <= n /\ n - k \in S}
<1>1. PICK s \in S : TRUE
  OBVIOUS
<1>2. n - s \in T
  <2>1. s \in 1..n /\ n - (n - s) = s
    OBVIOUS
  <2> QED BY <2>1
<1>3. PICK k \in T : \A i \in T : ~(<<i, k>> \in OpToRel(<, Nat))
  <2>1. T \in SUBSET Nat /\ T # {}
    BY <1>2
  <2> HIDE DEF T
  <2> QED BY <2>1, WFMin, NatLessThanWellFounded
<1>4. \A i \in T : ~(i < k)
  BY <1>3 DEF OpToRel
<1>5. \A i \in S : i <= n - k
  <2> SUFFICES ASSUME NEW i \in S PROVE i <= n - k
    OBVIOUS
  <2>1. i \in 1..n /\ n - (n - i) = i /\ n - i \in Nat /\ n - i <= n
    OBVIOUS
  <2>2. n - i \in T
    BY <2>1
  <2>3. k \in Nat /\ ~(n - i < k)
    BY <1>3, <1>4, <2>2
  <2> QED BY <2>1, <2>3
<1> QED BY <1>3, <1>5

LEMMA CursorFacts ==
  ASSUME NEW j \in Seq(Entries), NEW c \in Nat, Sound(j, c), NEW limit \in Nat
  PROVE  /\ Cursor(j, c, limit) \in Nat
         /\ Sound(Marked(j, c, limit), Cursor(j, c, limit))
<1> DEFINE n == Len(j)
           chosen == Selected(j, c, limit)
           after == Cursor(j, c, limit)
           marked == Marked(j, c, limit)
<1>0. n \in Nat /\ \A i \in 1..n : j[i] \in Entries /\ j[i].id \in Nat
  <2>1. n \in Nat /\ \A i \in 1..n : j[i] \in Entries
    OBVIOUS
  <2> QED BY <2>1 DEF Entries
<1>1. chosen \in SUBSET (1..n) /\ \A i \in chosen : j[i].id > c
  BY DEF Selected
<1>2. \A i \in chosen : \A k \in 1..i : j[k].id > c => k \in chosen
  <2> SUFFICES ASSUME NEW i \in chosen, NEW k \in 1..i, j[k].id > c PROVE k \in chosen
    OBVIOUS
  <2> DEFINE A(m) == {l \in 1..m : j[l].id > c}
  <2>1. i \in 1..n /\ k \in 1..n
    BY <1>1
  <2>2. Cardinality(A(i)) <= limit
    BY DEF Selected
  <2>3. IsFiniteSet(A(i))
    <3>1. IsFiniteSet(1..i)
      BY <2>1, FS_Interval
    <3> QED BY <3>1, FS_Subset
  <2>4. A(k) \subseteq A(i)
    BY <2>1
  <2>5. Cardinality(A(k)) <= Cardinality(A(i)) /\ Cardinality(A(k)) \in Nat
        /\ Cardinality(A(i)) \in Nat
    <3> HIDE DEF A
    <3> QED BY <2>3, <2>4, FS_Subset, FS_CardinalityType
  <2>6. Cardinality(A(k)) <= limit
    <3> HIDE DEF A
    <3> QED BY <2>2, <2>5
  <2> QED BY <2>1, <2>6 DEF Selected
<1>m. /\ marked \in Seq(Entries) /\ Len(marked) = n
      /\ \A i \in 1..n : marked[i].id = j[i].id /\ (marked[i].read <=> (j[i].read \/ i \in chosen))
  BY MarkedType
<1>3. ASSUME NEW a \in Nat, c <= a,
             \A i \in 1..n : (j[i].id <= c \/ i \in chosen) <=> j[i].id <= a,
             j = <<>> => a = 0, j # <<>> => a <= j[n].id
      PROVE  Sound(marked, a)
  <2> HIDE DEF marked, chosen
  <2>1. \A i, k \in 1..n : i < k => marked[i].id < marked[k].id
    BY <1>m DEF Sound
  <2>2. \A i \in 1..n : marked[i].read <=> marked[i].id <= a
    BY <1>3, <1>m DEF Sound
  <2>3. marked = <<>> <=> j = <<>>
    BY <1>m
  <2>4. j # <<>> => Newest(marked).id = j[n].id
    <3> SUFFICES ASSUME j # <<>> PROVE Newest(marked).id = j[n].id
      OBVIOUS
    <3>1. n \in 1..n
      BY <1>0
    <3> QED BY <1>m, <3>1 DEF Newest
  <2> QED BY <1>3, <1>m, <2>1, <2>2, <2>3, <2>4 DEF Sound
<1>4. CASE chosen = {}
  <2>1. after = c
    BY <1>4 DEF Cursor
  <2> HIDE DEF chosen, marked, after
  <2>2. Newest(j).id = j[n].id
    BY DEF Newest
  <2>3. (j = <<>> => c = 0) /\ (j # <<>> => c <= j[n].id)
    BY <2>2 DEF Sound
  <2> QED BY <1>3, <1>4, <2>1, <2>3 DEF marked, after
<1>5. CASE chosen # {}
  <2>1. PICK m \in chosen : \A k \in chosen : k <= m
    <3> HIDE DEF chosen
    <3> QED BY <1>0, <1>1, <1>5, Greatest
  <2>2. m \in 1..n /\ \A k \in chosen : j[k].id <= j[m].id
    <3>1. m \in 1..n
      BY <1>1
    <3>2. ASSUME NEW k \in chosen PROVE j[k].id <= j[m].id
      <4>1. k \in 1..n /\ k <= m
        BY <1>1, <2>1
      <4> HIDE DEF chosen
      <4> QED BY <1>0, <3>1, <4>1 DEF Sound
    <3> QED BY <3>1, <3>2
  <2>3. after = j[m].id
    <3> DEFINE ids == {j[i].id : i \in chosen}
    <3>1. after = CHOOSE id \in ids : \A i \in chosen : j[i].id <= id
      BY <1>5 DEF Cursor
    <3> HIDE DEF chosen
    <3>2. j[m].id \in ids
      BY <2>1
    <3>3. \A id \in ids : (\A i \in chosen : j[i].id <= id) => id = j[m].id
      <4> SUFFICES ASSUME NEW i \in chosen, \A k \in chosen : j[k].id <= j[i].id
                   PROVE  j[i].id = j[m].id
        OBVIOUS
      <4>1. j[m].id <= j[i].id /\ j[i].id <= j[m].id
        BY <2>1, <2>2
      <4> QED BY <1>0, <1>1, <2>2, <4>1
    <3> HIDE DEF ids
    <3> QED BY <2>2, <3>1, <3>2, <3>3
  <2> HIDE DEF after, marked
  <2>4. j[m].id > c /\ j[m].id \in Nat
    BY <1>0, <1>1, <2>2
  <2>5. \A i \in 1..n : (j[i].id <= c \/ i \in chosen) <=> j[i].id <= j[m].id
    <3> SUFFICES ASSUME NEW i \in 1..n
                 PROVE  (j[i].id <= c \/ i \in chosen) <=> j[i].id <= j[m].id
      OBVIOUS
    <3> HIDE DEF chosen
    <3>1. j[i].id <= c => j[i].id <= j[m].id
      BY <1>0, <2>4
    <3>2. i \in chosen => j[i].id <= j[m].id
      BY <2>2
    <3>3. ASSUME j[i].id <= j[m].id, ~(j[i].id <= c) PROVE i \in chosen
      <4>1. i <= m
        BY <1>0, <2>2, <3>3 DEF Sound
      <4>2. i \in 1..m /\ j[i].id > c
        BY <1>0, <2>2, <3>3, <4>1
      <4> QED BY <1>2, <2>1, <4>2
    <3> QED BY <3>1, <3>2, <3>3
  <2>6. j # <<>> /\ j[m].id <= j[n].id
    <3>1. n \in 1..n /\ (m < n \/ m = n)
      BY <1>0, <2>2
    <3> QED BY <1>0, <2>2, <3>1 DEF Sound
  <2>7. Sound(marked, j[m].id)
    <3> HIDE DEF chosen
    <3> QED BY <1>3, <2>4, <2>5, <2>6
  <2> QED BY <2>3, <2>4, <2>7 DEF after, marked
<1> QED BY <1>4, <1>5

-----------------------------------------------------------------------------
(* What the console remembers and what it journals, as long as it remembers *)
(* keys of announces and no more than it may.                              *)
LEMMA RememberType ==
  ASSUME NEW keys \in Seq(Nat), Len(keys) <= Keys, NEW a \in Nat
  PROVE  Remember(keys, a) \in Seq(Nat) /\ Len(Remember(keys, a)) <= Keys
<1>0. Keys \in Nat /\ Keys > 0
  BY BoundsAssumption
<1>1. CASE Len(keys) < Keys
  BY <1>0, <1>1 DEF Remember
<1>2. CASE ~(Len(keys) < Keys)
  <2>1. keys # <<>>
    BY <1>0, <1>2
  <2>2. Tail(keys) \in Seq(Nat) /\ Len(Tail(keys)) = Len(keys) - 1
    BY <2>1
  <2> QED BY <1>0, <1>2, <2>2 DEF Remember
<1> QED BY <1>1, <1>2

LEMMA TakeType ==
  ASSUME NEW s, s.keys \in Seq(Nat), Len(s.keys) <= Keys, s.new \in Seq(Nat), NEW a \in Nat
  PROVE  /\ Take(s, a).keys \in Seq(Nat) /\ Len(Take(s, a).keys) <= Keys
         /\ Take(s, a).new \in Seq(Nat)
<1>1. Remember(s.keys, a) \in Seq(Nat) /\ Len(Remember(s.keys, a)) <= Keys
  BY RememberType
<1>2. Append(s.new, a) \in Seq(Nat)
  OBVIOUS
<1> QED BY <1>1, <1>2 DEF Take

LEMMA TakenType ==
  ASSUME NEW keys \in Seq(Nat), Len(keys) <= Keys, NEW announces \in Seq(Nat)
  PROVE  /\ Taken(keys, announces).keys \in Seq(Nat)
         /\ Len(Taken(keys, announces).keys) <= Keys
         /\ Taken(keys, announces).new \in Seq(Nat)
<1>0. Len(announces) \in Nat
  OBVIOUS
<1>1. PICK after :
        /\ after[0].keys = keys /\ after[0].new = <<>>
        /\ \A n \in 1..Len(announces) : after[n] = Take(after[n - 1], announces[n])
        /\ Taken(keys, announces) = after[Len(announces)]
  BY <1>0, AfterAnnounces
<1> DEFINE N == Len(announces)
           Typed(n) == /\ after[n].keys \in Seq(Nat) /\ Len(after[n].keys) <= Keys
                       /\ after[n].new \in Seq(Nat)
           S == {n \in Nat : n <= N => Typed(n)}
<1>2. 0 \in S
  <2>1. <<>> \in Seq(Nat)
    OBVIOUS
  <2>2. Typed(0)
    BY <1>1, <2>1
  <2> QED BY <2>2
<1>3. \A n \in Nat : n \in S => n + 1 \in S
  <2> SUFFICES ASSUME NEW n \in Nat, n + 1 <= N, Typed(n) PROVE Typed(n + 1)
    OBVIOUS
  <2>1. n + 1 \in 1..N /\ (n + 1) - 1 = n
    OBVIOUS
  <2>2. after[n + 1] = Take(after[n], announces[n + 1])
    BY <1>1, <2>1
  <2>3. announces[n + 1] \in Nat
    BY <2>1
  <2> QED BY <2>2, <2>3, TakeType
<1>4. N \in S
  <2> HIDE DEF S
  <2> QED BY <1>0, <1>2, <1>3, Induct
<1> QED BY <1>1, <1>4

LEMMA RecentType ==
  ASSUME NEW t \in Telemetry
  PROVE  RecentAnnounces(t) \in Seq(Nat)
<1>0. Recent \in Nat /\ t.announced \in Nat /\ t.before \in Nat
  BY BoundsAssumption DEF Telemetry
<1> DEFINE first == IF t.announced - t.before > Recent THEN t.announced - Recent ELSE t.before
           n == t.announced - first
<1>1. first \in Nat /\ n \in Int
  BY <1>0
<1>2. RecentAnnounces(t) = [i \in 1..n |-> first + i]
  BY DEF RecentAnnounces
<1> HIDE DEF first, n
<1>3. CASE n \in Nat
  BY <1>1, <1>2, <1>3
<1>4. CASE n \notin Nat
  <2>1. 1..n = 1..0
    BY <1>1, <1>4
  <2>2. RecentAnnounces(t) = [i \in 1..0 |-> first + i]
    BY <1>2, <2>1
  <2> QED BY <1>1, <2>2
<1> QED BY <1>3, <1>4

Histories ==
  [last : Telemetry, from : Int, counted : Nat, most : Nat, again : BOOLEAN,
   journaled : SUBSET Nat, twice : BOOLEAN, announces : Nat, overtaken : BOOLEAN]

LEMMA NoFileFacts ==
  /\ NoFile \in Telemetry
  /\ NoFile.at = 0 /\ NoFile.downs = 0 /\ NoFile.lost = 0
  /\ NoFile.before = 0 /\ NoFile.announced = 0
BY DEF NoFile, Telemetry

LEMMA TelemetryFacts ==
  ASSUME NEW t \in Telemetry
  PROVE  t.at \in Nat /\ t.downs \in Nat /\ t.lost \in Nat /\ t.before \in Nat
         /\ t.announced \in Nat
BY DEF Telemetry

LEMMA DisconnectsType ==
  ASSUME NEW t \in Telemetry, watch.downs \in Nat \cup {None}
  PROVE  /\ Disconnects(t) \in Nat
         /\ watch.downs = None => Disconnects(t) = 0
         /\ watch.downs # None =>
              watch.downs \in Nat
              /\ Disconnects(t) = IF t.downs <= watch.downs THEN 0 ELSE t.downs - watch.downs
<1>1. t.downs \in Nat
  BY TelemetryFacts
<1>2. CASE watch.downs = None
  BY <1>2 DEF Disconnects
<1>3. CASE watch.downs # None
  BY <1>1, <1>3 DEF Disconnects
<1> QED BY <1>2, <1>3

(* What a comparison does to the history.                                  *)
LEMMA ComparedFacts ==
  ASSUME NEW t \in Telemetry, history \in Histories, watch.downs \in Nat \cup {None},
         history' = Compared(t)
  PROVE  /\ history' \in Histories /\ history'.last = t
         /\ history'.from = IF Rewound(t) THEN Origin(t) ELSE history.from
         /\ history'.counted = IF Rewound(t) THEN Disconnects(t)
                               ELSE history.counted + Disconnects(t)
         /\ history'.journaled = history.journaled /\ history'.twice = history.twice
         /\ history'.announces = history.announces
         /\ history'.overtaken = history.overtaken
<1>1. PICK delta \in Nat : delta = Disconnects(t)
  BY DisconnectsType
<1>2. t.lost \in Nat /\ t.downs \in Nat /\ Origin(t) \in Int
  BY TelemetryFacts DEF Origin
<1>3. PICK from \in Int : from = IF Rewound(t) THEN Origin(t) ELSE history.from
  BY <1>2 DEF Histories
<1>4. PICK counted \in Nat : counted = IF Rewound(t) THEN delta ELSE history.counted + delta
  BY DEF Histories
<1>5. PICK most \in Nat : most = IF t.lost > history.most THEN t.lost ELSE history.most
  BY <1>2 DEF Histories
<1>6. PICK again \in BOOLEAN :
        again = (history.again \/ (delta > 0 /\ delta > t.lost - history.most))
  BY DEF Histories
<1>7. history' = [history EXCEPT !.last = t, !.from = from, !.counted = counted,
                                 !.most = most, !.again = again]
  BY <1>1, <1>3, <1>4, <1>5, <1>6 DEF Compared
<1> HIDE DEF Rewound, Origin, Disconnects
<1>8. /\ history' \in Histories /\ history'.last = t /\ history'.from = from
      /\ history'.counted = counted
      /\ history'.journaled = history.journaled /\ history'.twice = history.twice
      /\ history'.announces = history.announces /\ history'.overtaken = history.overtaken
  BY <1>7 DEF Histories
<1> QED BY <1>1, <1>3, <1>4, <1>8

(* What a comparison of announces does to it.                              *)
Listed(new, t) ==
  [history EXCEPT
     !.journaled = @ \cup new,
     !.twice = @ \/ new \cap history.journaled # {},
     !.announces = IF t.at > @ THEN t.at ELSE @,
     !.overtaken = @ \/ (t # NoFile /\ t.at < history.announces)]

LEMMA ListedFacts ==
  ASSUME NEW t \in Telemetry, NEW new \in SUBSET Nat, history \in Histories,
         history' = Listed(new, t)
  PROVE  /\ history' \in Histories
         /\ history'.last = history.last /\ history'.from = history.from
         /\ history'.counted = history.counted
         /\ history'.journaled = history.journaled \cup new
         /\ (history'.twice <=> (history.twice \/ new \cap history.journaled # {}))
         /\ history'.announces = IF t.at > history.announces THEN t.at ELSE history.announces
         /\ (history'.overtaken <=>
               (history.overtaken \/ (t # NoFile /\ t.at < history.announces)))
<1>1. PICK twice \in BOOLEAN :
        twice <=> (history.twice \/ new \cap history.journaled # {})
  OBVIOUS
<1>2. PICK announces \in Nat :
        announces = IF t.at > history.announces THEN t.at ELSE history.announces
  BY TelemetryFacts DEF Histories
<1>3. PICK overtaken \in BOOLEAN :
        overtaken <=> (history.overtaken \/ (t # NoFile /\ t.at < history.announces))
  OBVIOUS
<1>4. /\ twice = (history.twice \/ new \cap history.journaled # {})
      /\ overtaken = (history.overtaken \/ (t # NoFile /\ t.at < history.announces))
  <2>1. history.twice \in BOOLEAN /\ history.overtaken \in BOOLEAN
    BY DEF Histories
  <2> QED BY <1>1, <1>3, <2>1
<1>5. PICK journaled \in SUBSET Nat : journaled = history.journaled \cup new
  BY DEF Histories
<1>6. history' = [history EXCEPT !.journaled = journaled, !.twice = twice,
                                 !.announces = announces, !.overtaken = overtaken]
  BY <1>2, <1>4, <1>5 DEF Listed
<1>7. /\ history' \in Histories
      /\ history'.last = history.last /\ history'.from = history.from
      /\ history'.counted = history.counted /\ history'.journaled = journaled
      /\ history'.twice = twice /\ history'.announces = announces
      /\ history'.overtaken = overtaken
  BY <1>6 DEF Histories
<1> QED BY <1>1, <1>2, <1>3, <1>5, <1>7

(* A console that starts anew.                                             *)
Forgotten ==
  [history EXCEPT
     !.last = NoFile, !.from = 0, !.counted = 0, !.most = telemetry.lost,
     !.journaled = {}, !.announces = 0]

LEMMA ForgottenFacts ==
  ASSUME telemetry \in Telemetry, history \in Histories, history' = Forgotten
  PROVE  /\ history' \in Histories
         /\ history'.last = NoFile /\ history'.from = 0 /\ history'.counted = 0
         /\ history'.journaled = {} /\ history'.announces = 0
         /\ history'.twice = history.twice /\ history'.overtaken = history.overtaken
<1>1. telemetry.lost \in Nat /\ NoFile \in Telemetry
  BY TelemetryFacts, NoFileFacts
<1>2. PICK most \in Nat, nothing \in SUBSET Nat : most = telemetry.lost /\ nothing = {}
  BY <1>1
<1>z. PICK from \in Int, counted \in Nat, announces \in Nat, last \in Telemetry :
        from = 0 /\ counted = 0 /\ announces = 0 /\ last = NoFile
  BY <1>1
<1>3. PICK counts : counts = [history EXCEPT !.last = last, !.from = from, !.counted = counted]
  OBVIOUS
<1>4. /\ counts \in Histories
      /\ counts.last = last /\ counts.from = from /\ counts.counted = counted
      /\ counts.twice = history.twice /\ counts.overtaken = history.overtaken
  BY <1>3 DEF Histories
<1>5. history' = [counts EXCEPT !.most = most, !.journaled = nothing, !.announces = announces]
  BY <1>2, <1>3, <1>z DEF Forgotten
<1>6. /\ history' \in Histories
      /\ history'.last = counts.last /\ history'.from = counts.from
      /\ history'.counted = counts.counted
      /\ history'.journaled = nothing /\ history'.announces = announces
      /\ history'.twice = counts.twice /\ history'.overtaken = counts.overtaken
  BY <1>4, <1>5 DEF Histories
<1> QED BY <1>2, <1>4, <1>6, <1>z

LEMMA IdleFacts == Idle \in [pc : Places, seen : Telemetry] /\ Idle.seen = NoFile
BY NoFileFacts DEF Idle, Places

LEMMA TypeInit == Init => TypeOK
<1> SUFFICES ASSUME Init PROVE TypeOK
  OBVIOUS
<1>1. telemetry \in Telemetry
  BY NoFileFacts DEF Init
<1>2. polls \in [Polls -> [pc : Places, seen : Telemetry]]
  BY IdleFacts DEF Init
<1>3. watch \in [downs : Nat \cup {None}, keys : Seq(Nat)] /\ Len(watch.keys) <= Keys
  BY BoundsAssumption DEF Init
<1>4. journal \in Seq([id : Nat, read : BOOLEAN]) /\ Len(journal) <= MaxEvents /\ cursor \in Nat
  BY MaxEventsAssumption DEF Init
<1>5. lxmd \in [pc : {"idle", "announced", "saved"}, saved : Ages \cup {None},
                age : Ages \cup {None}, soon : BOOLEAN, died : BOOLEAN]
  BY DEF Init
<1>6. changes \in 0..MaxChanges
  BY BoundsAssumption DEF Init
<1>7. history \in Histories
  BY NoFileFacts DEF Init, Histories
<1> QED BY <1>1, <1>2, <1>3, <1>4, <1>5, <1>6, <1>7 DEF TypeOK, Histories

LEMMA ChangeType == TypeOK /\ Change => changes' \in 0..MaxChanges /\ changes' \in Nat
BY BoundsAssumption DEF TypeOK, Change

LEMMA TypeStep == TypeOK /\ Sound(journal, cursor) /\ [Next]_vars => TypeOK'
<1> SUFFICES ASSUME TypeOK, Sound(journal, cursor), [Next]_vars PROVE TypeOK'
  OBVIOUS
<1>0. /\ telemetry \in Telemetry
      /\ polls \in [Polls -> [pc : Places, seen : Telemetry]]
      /\ watch \in [downs : Nat \cup {None}, keys : Seq(Nat)] /\ Len(watch.keys) <= Keys
      /\ journal \in Seq(Entries) /\ Len(journal) <= MaxEvents
      /\ cursor \in Nat
      /\ lxmd \in [pc : {"idle", "announced", "saved"}, saved : Ages \cup {None},
                   age : Ages \cup {None}, soon : BOOLEAN, died : BOOLEAN]
      /\ changes \in 0..MaxChanges
      /\ history \in Histories
  BY DEF TypeOK, Entries, Histories
<1>w. ASSUME NEW t \in Telemetry, Write(t) PROVE TypeOK'
  <2>1. changes' \in 0..MaxChanges /\ changes' \in Nat
    BY <1>w, ChangeType DEF Write
  <2>2. telemetry' = [t EXCEPT !.at = changes']
    BY <1>w DEF Write
  <2>3. telemetry' \in Telemetry
    BY <2>1, <2>2 DEF Telemetry
  <2> QED BY <1>0, <1>w, <2>1, <2>3 DEF Write, TypeOK, Entries, Histories
<1>1. CASE BackendDown
  <2>1. [telemetry EXCEPT !.downs = @ + 1, !.lost = @ + 1] \in Telemetry
    <3>1. telemetry.downs + 1 \in Nat /\ telemetry.lost + 1 \in Nat
      BY <1>0 DEF Telemetry
    <3> QED BY <1>0, <3>1 DEF Telemetry
  <2> QED BY <1>1, <1>w, <2>1 DEF BackendDown
<1>2. CASE Announce
  <2>1. [telemetry EXCEPT !.announced = @ + 1] \in Telemetry
    <3>1. telemetry.announced + 1 \in Nat
      BY <1>0 DEF Telemetry
    <3> QED BY <1>0, <3>1 DEF Telemetry
  <2> QED BY <1>2, <1>w, <2>1 DEF Announce
<1>3. CASE Restart
  <2>1. [telemetry EXCEPT !.downs = 0, !.before = telemetry.announced] \in Telemetry
    BY <1>0 DEF Telemetry
  <2> QED BY <1>3, <1>w, <2>1 DEF Restart
<1>4. CASE ConsoleRestarts
  <2>1. /\ changes' \in 0..MaxChanges
        /\ polls' = [p \in Polls |-> Idle]
        /\ watch' = [downs |-> None, keys |-> <<>>]
        /\ history' = Forgotten
        /\ UNCHANGED <<telemetry, journal, cursor, lxmd>>
    BY <1>4, ChangeType DEF ConsoleRestarts, Forgotten
  <2>2. polls' \in [Polls -> [pc : Places, seen : Telemetry]]
    BY <2>1, IdleFacts
  <2>3. watch' \in [downs : Nat \cup {None}, keys : Seq(Nat)] /\ Len(watch'.keys) <= Keys
    <3>1. <<>> \in Seq(Nat) /\ Len(<<>>) <= Keys
      BY BoundsAssumption
    <3> QED BY <2>1, <3>1
  <2>4. history' \in Histories
    BY <1>0, <2>1, ForgottenFacts
  <2> QED BY <1>0, <2>1, <2>2, <2>3, <2>4 DEF TypeOK, Entries, Histories
<1>5. ASSUME NEW p \in Polls, NEW t \in Telemetry, Seen(p, t), changes' \in 0..MaxChanges
      PROVE  TypeOK'
  <2>1. polls' = [polls EXCEPT ![p] = [pc |-> "read", seen |-> t]]
    BY <1>5 DEF Seen
  <2>2. polls' \in [Polls -> [pc : Places, seen : Telemetry]]
    BY <1>0, <2>1 DEF Places
  <2> QED BY <1>0, <1>5, <2>2 DEF Seen, TypeOK, Entries, Histories
<1>r. ASSUME NEW p \in Polls, Read(p) \/ ReadFails(p) PROVE TypeOK'
  <2>1. CASE Read(p)
    BY <1>0, <1>5, <2>1 DEF Read
  <2>2. CASE ReadFails(p)
    BY <1>5, <2>2, NoFileFacts, ChangeType DEF ReadFails
  <2> QED BY <1>r, <2>1, <2>2
<1>6. ASSUME NEW p \in Polls, ObserveCounters(p) PROVE TypeOK'
  <2>1. PICK t \in Telemetry : t = polls[p].seen
    BY <1>0
  <2>2. PICK delta \in Nat : delta = Disconnects(t)
    BY <1>0, DisconnectsType
  <2>3. /\ polls' = [polls EXCEPT ![p].pc = "counted"]
        /\ watch' = [watch EXCEPT !.downs = t.downs]
        /\ Log(IF delta > 0 THEN 1 ELSE 0)
        /\ history' = Compared(t)
        /\ UNCHANGED <<telemetry, cursor, lxmd, changes>>
    BY <1>6, <2>1, <2>2 DEF ObserveCounters
  <2>4. journal' \in Seq(Entries) /\ Len(journal') <= MaxEvents
    <3>1. (IF delta > 0 THEN 1 ELSE 0) \in Nat
      OBVIOUS
    <3> QED BY <1>0, <2>3, <3>1, LogFacts
  <2>5. polls' \in [Polls -> [pc : Places, seen : Telemetry]]
    <3>1. [pc |-> "counted", seen |-> t] \in [pc : Places, seen : Telemetry]
      BY DEF Places
    <3>2. [polls[p] EXCEPT !.pc = "counted"] = [pc |-> "counted", seen |-> t]
      BY <1>0, <2>1
    <3> QED BY <1>0, <2>3, <3>1, <3>2
  <2>6. watch' \in [downs : Nat \cup {None}, keys : Seq(Nat)] /\ watch'.keys = watch.keys
    BY <1>0, <2>3, TelemetryFacts
  <2>7. history' \in Histories
    BY <1>0, <2>3, ComparedFacts
  <2> QED BY <1>0, <2>3, <2>4, <2>5, <2>6, <2>7 DEF TypeOK, Entries, Histories
<1>7. ASSUME NEW p \in Polls, ObserveAnnounces(p) PROVE TypeOK'
  <2>1. PICK t \in Telemetry : t = polls[p].seen
    BY <1>0
  <2>2. PICK taken : taken = Taken(watch.keys, RecentAnnounces(t))
    OBVIOUS
  <2>3. /\ taken.keys \in Seq(Nat) /\ Len(taken.keys) <= Keys
        /\ taken.new \in Seq(Nat)
    <3>1. RecentAnnounces(t) \in Seq(Nat)
      BY RecentType
    <3> QED BY <1>0, <2>2, <3>1, TakenType
  <2>4. /\ polls' = [polls EXCEPT ![p] = Idle]
        /\ watch' = [watch EXCEPT !.keys = taken.keys]
        /\ Log(Len(taken.new))
        /\ history' = Listed(ToSet(taken.new), t)
        /\ UNCHANGED <<telemetry, cursor, lxmd, changes>>
    BY <1>7, <2>1, <2>2 DEF ObserveAnnounces, Listed
  <2>5. journal' \in Seq(Entries) /\ Len(journal') <= MaxEvents
    <3>1. Len(taken.new) \in Nat
      BY <2>3
    <3> QED BY <1>0, <2>4, <3>1, LogFacts
  <2>6. polls' \in [Polls -> [pc : Places, seen : Telemetry]]
    BY <1>0, <2>4, IdleFacts
  <2>7. watch' \in [downs : Nat \cup {None}, keys : Seq(Nat)] /\ Len(watch'.keys) <= Keys
    BY <1>0, <2>3, <2>4
  <2>8. history' \in Histories
    <3>1. ToSet(taken.new) \in SUBSET Nat
      BY <2>3 DEF ToSet
    <3> QED BY <1>0, <2>4, <3>1, ListedFacts
  <2> QED BY <1>0, <2>4, <2>5, <2>6, <2>7, <2>8 DEF TypeOK, Entries, Histories
<1>a. 0 \in Ages /\ \A age \in Ages \cup {None} : Older(age) \in Ages \cup {None}
  BY BoundsAssumption, NoneAssumption DEF Ages, Older, Cooled
<1>8. ASSUME NEW readable \in BOOLEAN, ManualAnnounce(readable) PROVE TypeOK'
  <2>1. /\ lxmd' = [lxmd EXCEPT !.pc = "announced", !.age = 0,
                                !.soon = readable /\ ~Cooled(lxmd.age)]
        /\ Change
        /\ UNCHANGED <<telemetry, polls, watch, journal, cursor, history>>
    BY <1>8 DEF ManualAnnounce
  <2>2. PICK soon \in BOOLEAN : soon = (readable /\ ~Cooled(lxmd.age))
    OBVIOUS
  <2>3. lxmd' = [lxmd EXCEPT !.pc = "announced", !.age = 0, !.soon = soon]
    BY <2>1, <2>2
  <2>4. lxmd' \in [pc : {"idle", "announced", "saved"}, saved : Ages \cup {None},
                   age : Ages \cup {None}, soon : BOOLEAN, died : BOOLEAN]
    BY <1>0, <1>a, <2>3
  <2> QED BY <1>0, <2>1, <2>4, ChangeType DEF TypeOK, Entries, Histories
<1>9. CASE SaveManual
  BY <1>0, <1>9 DEF SaveManual, TypeOK, Entries, Histories
<1>10. CASE LogManual
  <2>1. journal' \in Seq(Entries) /\ Len(journal') <= MaxEvents
    BY <1>0, <1>10, LogFacts DEF LogManual
  <2>2. lxmd' = [lxmd EXCEPT !.pc = "idle"]
        /\ UNCHANGED <<telemetry, polls, watch, cursor, changes, history>>
    BY <1>10 DEF LogManual
  <2> QED BY <1>0, <2>1, <2>2 DEF TypeOK, Entries, Histories
<1>11. CASE LxmdDies
  BY <1>0, <1>11 DEF LxmdDies, TypeOK, Entries, Histories
<1>12. CASE Tick
  BY <1>0, <1>a, <1>12 DEF Tick, TypeOK, Entries, Histories
<1>13. ASSUME NEW limit \in 1..MaxEvents, Browse(limit) PROVE TypeOK'
  <2>1. /\ cursor' = Cursor(journal, cursor, limit)
        /\ journal' = Marked(journal, cursor, limit)
        /\ UNCHANGED <<telemetry, polls, watch, lxmd, changes, history>>
    BY <1>13 DEF Browse, Marked
  <2>2. cursor' \in Nat /\ journal' \in Seq(Entries) /\ Len(journal') <= MaxEvents
    <3>1. limit \in Nat
      BY MaxEventsAssumption
    <3>2. Cursor(journal, cursor, limit) \in Nat
      BY <1>0, <3>1, CursorFacts
    <3>3. /\ Marked(journal, cursor, limit) \in Seq(Entries)
          /\ Len(Marked(journal, cursor, limit)) = Len(journal)
      BY <1>0, MarkedType
    <3> QED BY <1>0, <2>1, <3>2, <3>3
  <2> QED BY <1>0, <2>1, <2>2 DEF TypeOK, Entries, Histories
<1>14. CASE UNCHANGED vars
  BY <1>0, <1>14 DEF vars, TypeOK, Entries, Histories
<1> QED BY <1>1, <1>2, <1>3, <1>4, <1>r, <1>6, <1>7, <1>8, <1>9, <1>10, <1>11, <1>12,
            <1>13, <1>14 DEF Next
-----------------------------------------------------------------------------
LEMMA SoundInit == Init => Sound(journal, cursor)
<1> SUFFICES ASSUME Init PROVE Sound(journal, cursor)
  OBVIOUS
<1>1. journal = <<>> /\ cursor = 0
  BY DEF Init
<1> QED BY <1>1 DEF Sound

LEMMA SoundStep == TypeOK /\ Sound(journal, cursor) /\ [Next]_vars => Sound(journal, cursor)'
<1> SUFFICES ASSUME TypeOK, Sound(journal, cursor), [Next]_vars PROVE Sound(journal', cursor')
  OBVIOUS
<1>0. /\ journal \in Seq(Entries) /\ Len(journal) <= MaxEvents /\ cursor \in Nat
      /\ watch.keys \in Seq(Nat) /\ Len(watch.keys) <= Keys
      /\ \A p \in Polls : polls[p].seen \in Telemetry
  BY DEF TypeOK, Entries
<1>1. CASE UNCHANGED <<journal, cursor>>
  BY <1>1
<1>2. ASSUME NEW count \in Nat, Log(count), UNCHANGED cursor PROVE Sound(journal', cursor')
  <2>1. Sound(journal', cursor)
    BY <1>0, <1>2, LogFacts
  <2> QED BY <1>2, <2>1
<1>3. ASSUME NEW p \in Polls, ObserveCounters(p) PROVE Sound(journal', cursor')
  <2>1. Log(IF Disconnects(polls[p].seen) > 0 THEN 1 ELSE 0) /\ UNCHANGED cursor
    BY <1>3 DEF ObserveCounters
  <2>2. (IF Disconnects(polls[p].seen) > 0 THEN 1 ELSE 0) \in Nat
    OBVIOUS
  <2> QED BY <1>2, <2>1, <2>2
<1>4. ASSUME NEW p \in Polls, ObserveAnnounces(p) PROVE Sound(journal', cursor')
  <2> DEFINE taken == Taken(watch.keys, RecentAnnounces(polls[p].seen))
  <2>1. Log(Len(taken.new)) /\ UNCHANGED cursor
    BY <1>4 DEF ObserveAnnounces
  <2>2. taken.new \in Seq(Nat)
    BY <1>0, RecentType, TakenType
  <2>3. Len(taken.new) \in Nat
    <3> HIDE DEF taken
    <3> QED BY <2>2
  <2> HIDE DEF taken
  <2> QED BY <1>2, <2>1, <2>3
<1>5. CASE LogManual
  BY <1>2, <1>5 DEF LogManual
<1>6. ASSUME NEW limit \in 1..MaxEvents, Browse(limit) PROVE Sound(journal', cursor')
  <2>1. limit \in Nat
    BY MaxEventsAssumption
  <2>2. cursor' = Cursor(journal, cursor, limit) /\ journal' = Marked(journal, cursor, limit)
    BY <1>6 DEF Browse, Marked
  <2> QED BY <1>0, <2>1, <2>2, CursorFacts
<1>7. CASE BackendDown \/ Announce \/ Restart \/ ConsoleRestarts
  BY <1>1, <1>7 DEF BackendDown, Announce, Restart, ConsoleRestarts, Write
<1>8. CASE (\E readable \in BOOLEAN : ManualAnnounce(readable))
             \/ SaveManual \/ LxmdDies \/ Tick
  BY <1>1, <1>8 DEF ManualAnnounce, SaveManual, LxmdDies, Tick
<1>9. ASSUME NEW p \in Polls, Read(p) \/ ReadFails(p) PROVE Sound(journal', cursor')
  BY <1>1, <1>9 DEF Read, ReadFails, Seen
<1>10. CASE UNCHANGED vars
  BY <1>1, <1>10 DEF vars
<1> QED BY <1>3, <1>4, <1>5, <1>6, <1>7, <1>8, <1>9, <1>10 DEF Next

LEMMA JournalStays == Spec => [](TypeOK /\ Sound(journal, cursor))
<1>1. TypeOK /\ Sound(journal, cursor) /\ [Next]_vars => (TypeOK /\ Sound(journal, cursor))'
  BY TypeStep, SoundStep
<1> QED BY <1>1, TypeInit, SoundInit, PTL DEF Spec

(* The types of the console, the journal and lxmd hold for every number of *)
(* status requests and every size of the windows; in particular neither    *)
(* the journal nor the keys remembered outgrow their bound.                *)
THEOREM ConsoleTypes == Spec => []TypeOK
BY JournalStays, PTL

(* A browser that goes on from its cursor misses no event that is still in *)
(* the file, whatever the clocks of the processes that append show.        *)
THEOREM BrowsersMissNothing == Spec => []ReaderMissesNothing
<1>1. TypeOK /\ Sound(journal, cursor) => ReaderMissesNothing
  BY DEF TypeOK, Sound, ReaderMissesNothing
<1> QED BY <1>1, JournalStays, PTL
-----------------------------------------------------------------------------
(* While lxmd never died between an announce and its saving, the file      *)
(* holds the time of the last announce whenever lxmd may announce.         *)
CooldownInv ==
  lxmd.died \/ (~lxmd.soon /\ (lxmd.pc # "announced" => lxmd.saved = lxmd.age))

LEMMA CooldownStep == TypeOK /\ CooldownInv /\ [Next]_vars => CooldownInv'
<1> SUFFICES ASSUME TypeOK, CooldownInv, [Next]_vars PROVE CooldownInv'
  OBVIOUS
<1>0. lxmd \in [pc : {"idle", "announced", "saved"}, saved : Ages \cup {None},
                age : Ages \cup {None}, soon : BOOLEAN, died : BOOLEAN]
  BY DEF TypeOK
<1>1. CASE UNCHANGED lxmd
  BY <1>1 DEF CooldownInv
<1>2. ASSUME NEW readable \in BOOLEAN, ManualAnnounce(readable) PROVE CooldownInv'
  <2>1. /\ lxmd' = [lxmd EXCEPT !.pc = "announced", !.age = 0,
                                !.soon = readable /\ ~Cooled(lxmd.age)]
        /\ lxmd.pc = "idle" /\ (readable => Cooled(lxmd.saved))
    BY <1>2 DEF ManualAnnounce, Allowed
  <2>2. CASE lxmd.died
    BY <1>0, <2>1, <2>2 DEF CooldownInv
  <2>3. CASE ~lxmd.died
    <3>1. readable => Cooled(lxmd.age)
      BY <2>1, <2>3 DEF CooldownInv
    <3>2. lxmd'.soon = FALSE /\ lxmd'.pc = "announced"
      BY <1>0, <2>1, <3>1
    <3> QED BY <3>2 DEF CooldownInv
  <2> QED BY <2>2, <2>3
<1>3. CASE SaveManual
  BY <1>0, <1>3 DEF SaveManual, CooldownInv
<1>4. CASE LogManual
  BY <1>0, <1>4 DEF LogManual, CooldownInv
<1>5. CASE LxmdDies
  <2>1. lxmd' = [lxmd EXCEPT !.pc = "idle", !.died = @ \/ lxmd.pc = "announced"]
    BY <1>5 DEF LxmdDies
  <2>2. CASE lxmd.pc = "announced"
    BY <1>0, <2>1, <2>2 DEF CooldownInv
  <2>3. CASE lxmd.pc # "announced"
    BY <1>0, <2>1, <2>3 DEF CooldownInv
  <2> QED BY <2>2, <2>3
<1>6. CASE Tick
  BY <1>0, <1>6 DEF Tick, CooldownInv
<1>7. CASE BackendDown \/ Announce \/ Restart \/ ConsoleRestarts
  BY <1>1, <1>7 DEF BackendDown, Announce, Restart, ConsoleRestarts, Write
<1>8. ASSUME NEW p \in Polls,
             Read(p) \/ ReadFails(p) \/ ObserveCounters(p) \/ ObserveAnnounces(p)
      PROVE  CooldownInv'
  BY <1>1, <1>8 DEF Read, ReadFails, Seen, ObserveCounters, ObserveAnnounces
<1>9. ASSUME NEW limit \in 1..MaxEvents, Browse(limit) PROVE CooldownInv'
  BY <1>1, <1>9 DEF Browse
<1>10. CASE UNCHANGED vars
  BY <1>1, <1>10 DEF vars
<1> QED BY <1>2, <1>3, <1>4, <1>5, <1>6, <1>7, <1>8, <1>9, <1>10 DEF Next

(* Manual announces keep the cooldown across every restart of lxmd, except *)
(* after a death between an announce and the saving of its time, and for   *)
(* an announce that could not read the saved time.                         *)
THEOREM AnnouncesKeepTheirDistance == Spec => []CooldownKept
<1>1. Init => CooldownInv
  BY DEF Init, CooldownInv
<1>2. CooldownInv => CooldownKept
  BY DEF CooldownInv, CooldownKept
<1> QED BY <1>1, <1>2, CooldownStep, ConsoleTypes, PTL DEF Spec
-----------------------------------------------------------------------------
(* Every state of the telemetry file that somebody may still look at or    *)
(* that is compared with.                                                  *)
Files == {NoFile, telemetry, history.last} \cup {polls[p].seen : p \in Polls}

Since(t) == IF t.announced - t.before > Recent THEN t.announced - Recent ELSE t.before

(* A counter says no more than there was, and rises by no more than there  *)
(* was between two files.                                                  *)
Proper(x) == x.before <= x.announced /\ x.downs <= x.lost
Follows(x, y) ==
  /\ x.before <= y.before /\ x.announced <= y.announced
  /\ x.lost <= y.lost /\ y.downs + x.lost <= x.downs + y.lost

FilesInv ==
  /\ telemetry.at <= changes /\ history.announces <= telemetry.at
  /\ \A x \in Files : x.at <= telemetry.at /\ Proper(x)
  /\ \A x, y \in Files : x.at <= y.at => Follows(x, y)

LEMMA FilesType ==
  ASSUME TypeOK
  PROVE  /\ telemetry \in Files /\ NoFile \in Files /\ history.last \in Files
         /\ \A p \in Polls : polls[p].seen \in Files
         /\ \A x \in Files : x \in Telemetry /\ x.at \in Nat
         /\ changes \in Nat /\ history.announces \in Nat
         /\ history \in Histories
         /\ watch \in [downs : Nat \cup {None}, keys : Seq(Nat)] /\ Len(watch.keys) <= Keys
<1>1. telemetry \in Files /\ NoFile \in Files /\ history.last \in Files
      /\ \A p \in Polls : polls[p].seen \in Files
  BY DEF Files
<1>2. \A x \in Files : x \in Telemetry
  BY NoFileFacts DEF TypeOK, Files
<1>3. changes \in Nat
  BY BoundsAssumption DEF TypeOK
<1>4. history.announces \in Nat /\ history \in Histories
      /\ watch \in [downs : Nat \cup {None}, keys : Seq(Nat)] /\ Len(watch.keys) <= Keys
  BY DEF TypeOK, Histories
<1> QED BY <1>1, <1>2, <1>3, <1>4, TelemetryFacts

LEMMA FollowsFacts ==
  /\ \A x \in Telemetry : Follows(x, x)
  /\ \A x, y, z \in Telemetry : Follows(x, y) /\ Follows(y, z) => Follows(x, z)
<1>1. ASSUME NEW x \in Telemetry PROVE Follows(x, x)
  BY TelemetryFacts DEF Follows
<1>2. ASSUME NEW x \in Telemetry, NEW y \in Telemetry, NEW z \in Telemetry,
             Follows(x, y), Follows(y, z)
      PROVE  Follows(x, z)
  <2>1. /\ x.downs \in Nat /\ x.lost \in Nat /\ x.before \in Nat /\ x.announced \in Nat
        /\ y.downs \in Nat /\ y.lost \in Nat /\ y.before \in Nat /\ y.announced \in Nat
        /\ z.downs \in Nat /\ z.lost \in Nat /\ z.before \in Nat /\ z.announced \in Nat
    BY TelemetryFacts
  <2> QED BY <1>2, <2>1 DEF Follows
<1> QED BY <1>1, <1>2

(* What a step does to the files: one is written or none, and a request    *)
(* only looks at one that was there.                                       *)
LEMMA WriteFacts ==
  ASSUME TypeOK, NEW t \in Telemetry, Write(t)
  PROVE  /\ telemetry'.at = changes + 1 /\ changes' = changes + 1
         /\ telemetry' \in Telemetry
         /\ telemetry'.downs = t.downs /\ telemetry'.lost = t.lost
         /\ telemetry'.before = t.before /\ telemetry'.announced = t.announced
         /\ Files' \subseteq Files \cup {telemetry'}
         /\ watch' = watch /\ history' = history
<1>1. /\ changes' = changes + 1 /\ telemetry' = [t EXCEPT !.at = changes']
      /\ polls' = polls /\ watch' = watch /\ history' = history
  BY DEF Write, Change
<1>2. changes \in Nat
  BY FilesType
<1>3. /\ telemetry'.at = changes + 1 /\ telemetry' \in Telemetry
      /\ telemetry'.downs = t.downs /\ telemetry'.lost = t.lost
      /\ telemetry'.before = t.before /\ telemetry'.announced = t.announced
  BY <1>1, <1>2 DEF Telemetry
<1>4. Files' \subseteq Files \cup {telemetry'}
  BY <1>1 DEF Files
<1> QED BY <1>1, <1>3, <1>4

(* Whatever rnsd writes follows what it wrote before.                      *)
LEMMA WritesFollow ==
  ASSUME TypeOK, FilesInv, BackendDown \/ Announce \/ Restart
  PROVE  \E t \in Telemetry : Write(t) /\ Follows(telemetry, t) /\ Proper(t)
<1>0. /\ telemetry \in Telemetry /\ Proper(telemetry)
      /\ telemetry.downs \in Nat /\ telemetry.lost \in Nat
      /\ telemetry.before \in Nat /\ telemetry.announced \in Nat
  BY FilesType, TelemetryFacts DEF FilesInv
<1>1. CASE BackendDown
  <2>1. PICK t : t = [telemetry EXCEPT !.downs = @ + 1, !.lost = @ + 1]
    OBVIOUS
  <2>2. /\ t \in Telemetry /\ t.downs = telemetry.downs + 1 /\ t.lost = telemetry.lost + 1
        /\ t.before = telemetry.before /\ t.announced = telemetry.announced
    <3>1. telemetry.downs + 1 \in Nat /\ telemetry.lost + 1 \in Nat
      BY <1>0
    <3> QED BY <1>0, <2>1, <3>1 DEF Telemetry
  <2>3. Follows(telemetry, t) /\ Proper(t)
    BY <1>0, <2>2 DEF Follows, Proper
  <2> QED BY <1>1, <2>1, <2>2, <2>3 DEF BackendDown
<1>2. CASE Announce
  <2>1. PICK t : t = [telemetry EXCEPT !.announced = @ + 1]
    OBVIOUS
  <2>2. /\ t \in Telemetry /\ t.downs = telemetry.downs /\ t.lost = telemetry.lost
        /\ t.before = telemetry.before /\ t.announced = telemetry.announced + 1
    <3>1. telemetry.announced + 1 \in Nat
      BY <1>0
    <3> QED BY <1>0, <2>1, <3>1 DEF Telemetry
  <2>3. Follows(telemetry, t) /\ Proper(t)
    BY <1>0, <2>2 DEF Follows, Proper
  <2> QED BY <1>2, <2>1, <2>2, <2>3 DEF Announce
<1>3. CASE Restart
  <2>1. PICK t : t = [telemetry EXCEPT !.downs = 0, !.before = telemetry.announced]
    OBVIOUS
  <2>2. /\ t \in Telemetry /\ t.downs = 0 /\ t.lost = telemetry.lost
        /\ t.before = telemetry.announced /\ t.announced = telemetry.announced
    BY <1>0, <2>1 DEF Telemetry
  <2>3. Follows(telemetry, t) /\ Proper(t)
    BY <1>0, <2>2 DEF Follows, Proper
  <2> QED BY <1>3, <2>1, <2>2, <2>3 DEF Restart
<1> QED BY <1>1, <1>2, <1>3

LEMMA SeenFacts ==
  ASSUME TypeOK, NEW p \in Polls, Read(p) \/ ReadFails(p)
  PROVE  /\ Files' \subseteq Files /\ changes' \in {changes, changes + 1}
         /\ UNCHANGED <<telemetry, watch, history, lxmd>>
<1>1. PICK t \in {telemetry, NoFile} : Seen(p, t)
  BY DEF Read, ReadFails
<1>2. /\ polls' = [polls EXCEPT ![p] = [pc |-> "read", seen |-> t]]
      /\ UNCHANGED <<telemetry, watch, history, lxmd>>
  BY <1>1 DEF Seen
<1>3. \A q \in Polls : polls'[q].seen \in {t, polls[q].seen}
  BY <1>2 DEF TypeOK
<1>4. changes' \in {changes, changes + 1}
  BY DEF Read, ReadFails, Change
<1> QED BY <1>2, <1>3, <1>4 DEF Files

LEMMA CountersFacts ==
  ASSUME TypeOK, NEW p \in Polls, ObserveCounters(p)
  PROVE  \E t \in Files :
           /\ Files' \subseteq Files /\ telemetry' = telemetry /\ changes' = changes
           /\ watch'.downs = t.downs /\ watch'.keys = watch.keys
           /\ history' = Compared(t) /\ history'.last = t
<1>1. PICK t \in Files : t = polls[p].seen /\ t \in Telemetry
  BY FilesType
<1>2. /\ polls' = [polls EXCEPT ![p].pc = "counted"]
      /\ watch' = [watch EXCEPT !.downs = t.downs]
      /\ history' = Compared(t) /\ telemetry' = telemetry /\ changes' = changes
  BY <1>1 DEF ObserveCounters
<1>3. history'.last = t
  BY <1>1, <1>2, FilesType, ComparedFacts
<1>4. \A q \in Polls : polls'[q].seen = polls[q].seen
  BY <1>2 DEF TypeOK
<1>5. Files' \subseteq Files
  BY <1>1, <1>2, <1>3, <1>4 DEF Files
<1>6. watch'.downs = t.downs /\ watch'.keys = watch.keys
  BY <1>2, FilesType
<1> QED BY <1>1, <1>2, <1>3, <1>5, <1>6

LEMMA AnnouncesFacts ==
  ASSUME TypeOK, NEW p \in Polls, ObserveAnnounces(p)
  PROVE  \E t \in Files, new \in SUBSET Nat :
           /\ Files' \subseteq Files /\ telemetry' = telemetry /\ changes' = changes
           /\ new = ToSet(Taken(watch.keys, RecentAnnounces(t)).new)
           /\ watch'.keys = Taken(watch.keys, RecentAnnounces(t)).keys
           /\ watch'.downs = watch.downs
           /\ history' = Listed(new, t) /\ history'.last = history.last
<1>1. PICK t \in Files : t = polls[p].seen /\ t \in Telemetry
  BY FilesType
<1>2. PICK taken : taken = Taken(watch.keys, RecentAnnounces(t))
  OBVIOUS
<1>3. ToSet(taken.new) \in SUBSET Nat
  <2>1. taken.new \in Seq(Nat)
    BY <1>1, <1>2, FilesType, RecentType, TakenType
  <2> QED BY <2>1 DEF ToSet
<1>4. /\ polls' = [polls EXCEPT ![p] = Idle]
      /\ watch' = [watch EXCEPT !.keys = taken.keys]
      /\ history' = Listed(ToSet(taken.new), t)
      /\ telemetry' = telemetry /\ changes' = changes
  BY <1>1, <1>2 DEF ObserveAnnounces, Listed
<1>5. history'.last = history.last
  BY <1>1, <1>3, <1>4, FilesType, ListedFacts
<1>6. \A q \in Polls : polls'[q].seen \in {polls[q].seen, NoFile}
  BY <1>4, IdleFacts DEF TypeOK
<1>7. Files' \subseteq Files
  BY <1>4, <1>5, <1>6 DEF Files
<1>8. watch'.keys = taken.keys /\ watch'.downs = watch.downs
  BY <1>4, FilesType
<1> QED BY <1>1, <1>2, <1>3, <1>4, <1>5, <1>7, <1>8

LEMMA RestartFacts ==
  ASSUME TypeOK, ConsoleRestarts
  PROVE  /\ Files' \subseteq {NoFile, telemetry} /\ Files' \subseteq Files
         /\ telemetry' = telemetry
         /\ watch' = [downs |-> None, keys |-> <<>>]
         /\ changes' = changes + 1
         /\ history' = Forgotten
<1>1. /\ polls' = [p \in Polls |-> Idle]
      /\ telemetry' = telemetry /\ changes' = changes + 1
      /\ watch' = [downs |-> None, keys |-> <<>>]
      /\ history' = Forgotten
  BY DEF ConsoleRestarts, Change, Forgotten
<1>2. \A p \in Polls : polls'[p].seen = NoFile
  BY <1>1, IdleFacts
<1>3. history'.last = NoFile
  BY <1>1, FilesType, ForgottenFacts
<1> QED BY <1>1, <1>2, <1>3 DEF Files

LEMMA WrittenKeepsFiles ==
  ASSUME TypeOK, FilesInv, NEW t \in Telemetry, Write(t), Follows(telemetry, t), Proper(t)
  PROVE  FilesInv'
<1>1. /\ telemetry'.at = changes + 1 /\ changes' = changes + 1 /\ telemetry' \in Telemetry
      /\ Files' \subseteq Files \cup {telemetry'} /\ history' = history
  BY WriteFacts
<1>2. /\ telemetry \in Files
      /\ \A x \in Files : x \in Telemetry /\ x.at \in Nat
      /\ changes \in Nat /\ history.announces \in Nat
  BY FilesType
<1>3. /\ telemetry.at <= changes /\ history.announces <= telemetry.at
      /\ \A x \in Files : x.at <= telemetry.at /\ Proper(x)
      /\ \A x, y \in Files : x.at <= y.at => Follows(x, y)
  BY DEF FilesInv
<1>p. PICK file \in Telemetry : file = telemetry'
  BY <1>1
<1>4. Proper(file) /\ \A x \in Telemetry : Follows(x, t) => Follows(x, file)
  BY <1>p, WriteFacts DEF Proper, Follows
<1>5. \A x \in Files : x.at <= changes /\ Follows(x, file)
  <2> SUFFICES ASSUME NEW x \in Files PROVE x.at <= changes /\ Follows(x, file)
    OBVIOUS
  <2>1. x.at <= telemetry.at /\ x \in Telemetry /\ telemetry \in Telemetry
        /\ x.at \in Nat /\ telemetry.at \in Nat
    BY <1>2, <1>3
  <2>2. Follows(x, telemetry)
    BY <1>2, <1>3, <2>1
  <2>3. Follows(x, t)
    BY <2>1, <2>2, FollowsFacts
  <2> QED BY <1>2, <1>3, <1>4, <2>1, <2>3
<1>6. \A x \in Files' : x.at <= file.at /\ Proper(x)
  <2> SUFFICES ASSUME NEW x \in Files' PROVE x.at <= file.at /\ Proper(x)
    OBVIOUS
  <2>1. CASE x \in Files
    BY <1>1, <1>2, <1>3, <1>5, <1>p, <2>1
  <2>2. CASE x = file
    BY <1>1, <1>2, <1>4, <1>p, <2>2
  <2> QED BY <1>1, <1>p, <2>1, <2>2
<1>7. \A x, y \in Files' : x.at <= y.at => Follows(x, y)
  <2> SUFFICES ASSUME NEW x \in Files', NEW y \in Files', x.at <= y.at
               PROVE  Follows(x, y)
    OBVIOUS
  <2>1. CASE x \in Files /\ y \in Files
    BY <1>3, <2>1
  <2>2. CASE x \in Files /\ y = file
    BY <1>5, <2>2
  <2>3. CASE x = file /\ y \in Files
    BY <1>1, <1>2, <1>5, <1>p, <2>3
  <2>4. CASE x = file /\ y = file
    BY <2>4, FollowsFacts
  <2> QED BY <1>1, <1>p, <2>1, <2>2, <2>3, <2>4
<1>8. telemetry'.at <= changes' /\ history'.announces <= telemetry'.at
  BY <1>1, <1>2, <1>3
<1> QED BY <1>6, <1>7, <1>8, <1>p DEF FilesInv, Proper, Follows

LEMMA FewerFilesKeep ==
  ASSUME TypeOK, FilesInv, Files' \subseteq Files, telemetry' = telemetry,
         changes' \in {changes, changes + 1}, history'.announces <= telemetry.at
  PROVE  FilesInv'
<1>1. /\ telemetry.at \in Nat /\ changes \in Nat /\ telemetry.at <= changes
      /\ \A x \in Files : x.at <= telemetry.at /\ Proper(x)
      /\ \A x, y \in Files : x.at <= y.at => Follows(x, y)
  BY FilesType DEF FilesInv
<1>2. telemetry'.at <= changes'
  BY <1>1
<1> QED BY <1>1, <1>2 DEF FilesInv, Proper, Follows

LEMMA SameFilesKeep ==
  ASSUME UNCHANGED <<telemetry, polls, history>>
  PROVE  Files' = Files
BY DEF Files

LEMMA FilesStep == TypeOK /\ FilesInv /\ [Next]_vars => FilesInv'
<1> SUFFICES ASSUME TypeOK, FilesInv, [Next]_vars PROVE FilesInv'
  OBVIOUS
<1>0. /\ telemetry \in Telemetry /\ history \in Histories /\ changes \in Nat
      /\ history.announces \in Nat /\ history.announces <= telemetry.at
      /\ telemetry.at \in Nat
      /\ \A x \in Files : x \in Telemetry /\ x.at \in Nat /\ x.at <= telemetry.at
  BY FilesType DEF FilesInv
<1>1. CASE BackendDown \/ Announce \/ Restart
  BY <1>1, WritesFollow, WrittenKeepsFiles
<1>2. CASE ConsoleRestarts
  <2>1. history'.announces = 0
    BY <1>0, <1>2, RestartFacts, ForgottenFacts
  <2>2. history'.announces <= telemetry.at
    BY <1>0, <2>1
  <2> QED BY <1>2, <2>2, RestartFacts, FewerFilesKeep
<1>3. ASSUME NEW p \in Polls, Read(p) \/ ReadFails(p) PROVE FilesInv'
  BY <1>0, <1>3, SeenFacts, FewerFilesKeep
<1>4. ASSUME NEW p \in Polls, ObserveCounters(p) PROVE FilesInv'
  <2>1. PICK t \in Files :
          /\ Files' \subseteq Files /\ telemetry' = telemetry /\ changes' = changes
          /\ history' = Compared(t)
    BY <1>4, CountersFacts
  <2>2. history'.announces = history.announces
    BY <1>0, <2>1, FilesType, ComparedFacts
  <2> QED BY <1>0, <2>1, <2>2, FewerFilesKeep
<1>5. ASSUME NEW p \in Polls, ObserveAnnounces(p) PROVE FilesInv'
  <2>1. PICK t \in Files, new \in SUBSET Nat :
          /\ Files' \subseteq Files /\ telemetry' = telemetry /\ changes' = changes
          /\ history' = Listed(new, t)
    BY <1>5, AnnouncesFacts
  <2>2. history'.announces = IF t.at > history.announces THEN t.at ELSE history.announces
    BY <1>0, <2>1, ListedFacts
  <2>3. history'.announces <= telemetry.at
    BY <1>0, <2>2
  <2> QED BY <2>1, <2>3, FewerFilesKeep
<1>6. CASE UNCHANGED <<telemetry, polls, history>> /\ changes' \in {changes, changes + 1}
  BY <1>0, <1>6, SameFilesKeep, FewerFilesKeep
<1>7. CASE (\E readable \in BOOLEAN : ManualAnnounce(readable))
             \/ SaveManual \/ LogManual \/ LxmdDies \/ Tick
  BY <1>6, <1>7 DEF ManualAnnounce, SaveManual, LogManual, LxmdDies, Tick, Change
<1>8. ASSUME NEW limit \in 1..MaxEvents, Browse(limit) PROVE FilesInv'
  BY <1>6, <1>8 DEF Browse
<1>9. CASE UNCHANGED vars
  BY <1>6, <1>9 DEF vars
<1> QED BY <1>1, <1>2, <1>3, <1>4, <1>5, <1>7, <1>8, <1>9 DEF Next
-----------------------------------------------------------------------------
(* The console remembers the counter of the file it compared last.         *)
CountInv ==
  /\ watch.downs \in {None, history.last.downs}
  /\ history.counted <= history.last.lost - history.from

(* A comparison reports no more than the counter of its file, and after an *)
(* older file no more than there was since.                                *)
LEMMA ComparisonCounts ==
  ASSUME TypeOK, FilesInv, CountInv, NEW t \in Files,
         history' = Compared(t), watch'.downs = t.downs
  PROVE  CountInv'
<1>0. /\ t \in Telemetry /\ history.last \in Telemetry /\ history.last \in Files
      /\ history \in Histories /\ watch.downs \in Nat \cup {None}
      /\ t.at \in Nat /\ history.last.at \in Nat
  BY FilesType
<1>1. PICK last \in Telemetry : last = history.last
  BY <1>0
<1>2. /\ t.downs \in Nat /\ t.lost \in Nat /\ t.downs <= t.lost
      /\ last.downs \in Nat /\ last.lost \in Nat
      /\ history.counted \in Nat /\ history.from \in Int
  BY <1>0, TelemetryFacts DEF FilesInv, Proper, Histories
<1>3. /\ history'.last = t
      /\ history'.from = IF Rewound(t) THEN Origin(t) ELSE history.from
      /\ history'.counted = IF Rewound(t) THEN Disconnects(t)
                            ELSE history.counted + Disconnects(t)
  BY <1>0, ComparedFacts
<1>4. PICK delta \in Nat : delta = Disconnects(t)
  BY <1>0, DisconnectsType
<1>5. CASE Rewound(t)
  <2>1. delta <= t.downs
    BY <1>0, <1>2, <1>4, DisconnectsType
  <2>2. delta <= t.lost - Origin(t)
    BY <1>2, <1>4, <2>1 DEF Origin
  <2>3. history'.counted = delta /\ history'.from = Origin(t)
    BY <1>3, <1>4, <1>5
  <2> QED BY <1>3, <2>2, <2>3 DEF CountInv
<1>6. CASE ~Rewound(t)
  <2>1. watch.downs # None /\ ~(t.at < last.at)
    BY <1>1, <1>6 DEF Rewound
  <2>2. last.at <= t.at
    BY <1>0, <1>1, <2>1
  <2>3. Follows(last, t)
    BY <1>0, <1>1, <2>2 DEF FilesInv
  <2>4. t.downs + last.lost <= last.downs + t.lost /\ last.lost <= t.lost
    BY <2>3 DEF Follows
  <2>5. watch.downs = last.downs /\ history.counted <= last.lost - history.from
    BY <1>1, <2>1 DEF CountInv
  <2>6. delta = IF t.downs <= last.downs THEN 0 ELSE t.downs - last.downs
    BY <1>0, <1>4, <2>1, <2>5, DisconnectsType
  <2>7. history'.counted = history.counted + delta /\ history'.from = history.from
    BY <1>3, <1>4, <1>6
  <2>8. history.counted + delta <= t.lost - history.from
    BY <1>2, <2>4, <2>5, <2>6
  <2> QED BY <1>3, <2>7, <2>8 DEF CountInv
<1> QED BY <1>5, <1>6

LEMMA CountStep == TypeOK /\ FilesInv /\ CountInv /\ [Next]_vars => CountInv'
<1> SUFFICES ASSUME TypeOK, FilesInv, CountInv, [Next]_vars PROVE CountInv'
  OBVIOUS
<1>0. history \in Histories /\ telemetry \in Telemetry
  BY FilesType
<1>1. CASE UNCHANGED <<watch, history>>
  BY <1>1 DEF CountInv
<1>2. CASE BackendDown \/ Announce \/ Restart
  BY <1>1, <1>2, WritesFollow, WriteFacts
<1>3. CASE ConsoleRestarts
  <2>1. watch'.downs = None /\ history' = Forgotten
    BY <1>3, RestartFacts
  <2>2. history'.last = NoFile /\ history'.from = 0 /\ history'.counted = 0
    BY <1>0, <2>1, ForgottenFacts
  <2> QED BY <2>1, <2>2, NoFileFacts DEF CountInv
<1>4. ASSUME NEW p \in Polls, Read(p) \/ ReadFails(p) PROVE CountInv'
  BY <1>1, <1>4, SeenFacts
<1>5. ASSUME NEW p \in Polls, ObserveCounters(p) PROVE CountInv'
  BY <1>5, CountersFacts, ComparisonCounts
<1>6. ASSUME NEW p \in Polls, ObserveAnnounces(p) PROVE CountInv'
  <2>1. PICK t \in Files, new \in SUBSET Nat :
          watch'.downs = watch.downs /\ history' = Listed(new, t)
    BY <1>6, AnnouncesFacts
  <2>2. /\ history'.last = history.last /\ history'.from = history.from
        /\ history'.counted = history.counted
    BY <1>0, <2>1, FilesType, ListedFacts
  <2> QED BY <2>1, <2>2 DEF CountInv
<1>7. CASE (\E readable \in BOOLEAN : ManualAnnounce(readable))
             \/ SaveManual \/ LogManual \/ LxmdDies \/ Tick
  BY <1>1, <1>7 DEF ManualAnnounce, SaveManual, LogManual, LxmdDies, Tick
<1>8. ASSUME NEW limit \in 1..MaxEvents, Browse(limit) PROVE CountInv'
  BY <1>1, <1>8 DEF Browse
<1>9. CASE UNCHANGED vars
  BY <1>1, <1>9 DEF vars
<1> QED BY <1>2, <1>3, <1>4, <1>5, <1>6, <1>7, <1>8, <1>9 DEF Next

LEMMA CountInit == Init => FilesInv /\ CountInv
<1> SUFFICES ASSUME Init PROVE FilesInv /\ CountInv
  OBVIOUS
<1>1. /\ telemetry = NoFile /\ polls = [p \in Polls |-> Idle]
      /\ watch.downs = None /\ changes = 0
      /\ history.last = NoFile /\ history.from = 0 /\ history.counted = 0
      /\ history.announces = 0
  BY DEF Init
<1>2. \A x \in Files : x = NoFile
  BY <1>1, IdleFacts DEF Files
<1>3. Follows(NoFile, NoFile) /\ Proper(NoFile)
  BY NoFileFacts DEF Follows, Proper
<1>4. FilesInv
  BY <1>1, <1>2, <1>3, NoFileFacts DEF FilesInv
<1>5. CountInv
  BY <1>1, NoFileFacts DEF CountInv
<1> QED BY <1>4, <1>5

LEMMA CountsStay == Spec => [](TypeOK /\ FilesInv /\ CountInv)
<1>1. TypeOK /\ FilesInv /\ CountInv /\ [Next]_vars => (FilesInv /\ CountInv)'
  BY FilesStep, CountStep
<1> QED BY <1>1, CountInit, ConsoleTypes, PTL DEF Spec

(* Whatever order status requests read and compare in, and whether or not  *)
(* they can read the file, what is reported between a file and the next    *)
(* older one that is compared happened in between.                         *)
THEOREM DisconnectsAreReal == Spec => []NoDisconnectInvented
<1>1. CountInv => NoDisconnectInvented
  BY DEF CountInv, NoDisconnectInvented
<1> QED BY <1>1, CountsStay, PTL
-----------------------------------------------------------------------------
(* The keys are the youngest of what was journaled, in their order; what   *)
(* is gone is older than as many as there may be.                          *)
Youngest(keys, journaled) ==
  /\ \A i, k \in 1..Len(keys) : i < k => keys[i] < keys[k]
  /\ \A i \in 1..Len(keys) : keys[i] \in journaled
  /\ \A a \in journaled :
       \/ \E i \in 1..Len(keys) : keys[i] = a
       \/ Len(keys) = Keys /\ \A i \in 1..Len(keys) : a < keys[i]

(* The last file compared listed the announces after `since` up to `last`. *)
Covers(journaled, since, last) ==
  /\ \A a \in journaled : a <= last
  /\ (since + 1)..last \subseteq journaled

Known(since, last) ==
  /\ Covers(history.journaled, since, last)
  /\ \A x \in Files :
       x.at >= history.announces => since <= Since(x) /\ last <= x.announced

AnnounceInv ==
  history.overtaken \/ (/\ ~history.twice
                        /\ Youngest(watch.keys, history.journaled)
                        /\ \E since, last \in Nat : Known(since, last))

(* An unreadable file lists nothing.                                       *)
LEMMA NothingTaken ==
  ASSUME NEW keys
  PROVE  /\ Taken(keys, RecentAnnounces(NoFile)).keys = keys
         /\ Taken(keys, RecentAnnounces(NoFile)).new = <<>>
<1>1. PICK announces : announces = RecentAnnounces(NoFile)
  OBVIOUS
<1>2. Len(announces) = 0
  <2>1. Recent \in Nat
    BY BoundsAssumption
  <2>2. announces = [i \in 1..0 |-> i]
    BY <1>1, <2>1, NoFileFacts DEF RecentAnnounces
  <2> QED BY <2>2
<1>3. PICK after : /\ after[0].keys = keys /\ after[0].new = <<>>
                   /\ Taken(keys, announces) = after[Len(announces)]
  BY <1>2, AfterAnnounces
<1> QED BY <1>1, <1>2, <1>3

LEMMA RecentFacts ==
  ASSUME NEW t \in Telemetry, t.before <= t.announced
  PROVE  /\ Since(t) \in Nat /\ Since(t) <= t.announced /\ t.announced - Recent <= Since(t)
         /\ RecentAnnounces(t) \in Seq(Nat)
         /\ Len(RecentAnnounces(t)) = t.announced - Since(t)
         /\ \A i \in 1..(t.announced - Since(t)) : RecentAnnounces(t)[i] = Since(t) + i
<1>0. Recent \in Nat /\ t.announced \in Nat /\ t.before \in Nat
  BY BoundsAssumption DEF Telemetry
<1>1. Since(t) \in Nat /\ Since(t) <= t.announced /\ t.announced - Recent <= Since(t)
  BY <1>0 DEF Since
<1>2. RecentAnnounces(t) = [i \in 1..(t.announced - Since(t)) |-> Since(t) + i]
  BY DEF RecentAnnounces, Since
<1>3. PICK n \in Nat : n = t.announced - Since(t)
  BY <1>0, <1>1
<1>4. RecentAnnounces(t) = [i \in 1..n |-> Since(t) + i]
  BY <1>2, <1>3
<1>5. RecentAnnounces(t) \in [1..n -> Nat]
  BY <1>1, <1>4
<1>6. RecentAnnounces(t) \in Seq(Nat) /\ Len(RecentAnnounces(t)) = n
  BY <1>5
<1> QED BY <1>1, <1>3, <1>4, <1>6

LEMMA SinceRises ==
  ASSUME NEW x \in Telemetry, NEW y \in Telemetry,
         x.before <= y.before, x.announced <= y.announced
  PROVE  Since(x) <= Since(y)
<1>0. /\ Recent \in Nat /\ x.announced \in Nat /\ x.before \in Nat
      /\ y.announced \in Nat /\ y.before \in Nat
  BY BoundsAssumption DEF Telemetry
<1> QED BY <1>0 DEF Since

(* Numbers that increase strictly above a need as much room as they are.   *)
LEMMA RoomAbove ==
  ASSUME NEW keys \in Seq(Nat), NEW a \in Nat, NEW last \in Nat, Len(keys) > 0,
         \A i, k \in 1..Len(keys) : i < k => keys[i] < keys[k],
         \A i \in 1..Len(keys) : a < keys[i] /\ keys[i] <= last
  PROVE  a + Len(keys) <= last
<1>0. Len(keys) \in Nat /\ \A i \in 1..Len(keys) : keys[i] \in Nat
  OBVIOUS
<1> DEFINE S == {n \in Nat : n \in 1..Len(keys) => a + n <= keys[n]}
<1>1. 0 \in S
  OBVIOUS
<1>2. \A n \in Nat : n \in S => n + 1 \in S
  <2> SUFFICES ASSUME NEW n \in Nat, n \in S, n + 1 \in 1..Len(keys)
               PROVE  a + (n + 1) <= keys[n + 1]
    OBVIOUS
  <2>1. CASE n = 0
    BY <1>0, <2>1
  <2>2. CASE n # 0
    <3>1. n \in 1..Len(keys)
      BY <1>0, <2>2
    <3>2. a + n <= keys[n] /\ keys[n] < keys[n + 1]
      BY <3>1
    <3>3. keys[n] \in Nat /\ keys[n + 1] \in Nat
      BY <1>0, <3>1
    <3> QED BY <3>2, <3>3
  <2> QED BY <2>1, <2>2
<1>3. Len(keys) \in S
  <2> HIDE DEF S
  <2> QED BY <1>0, <1>1, <1>2, Induct
<1>e. Len(keys) \in 1..Len(keys)
  OBVIOUS
<1>4. a + Len(keys) <= keys[Len(keys)]
  BY <1>3, <1>e
<1> QED BY <1>0, <1>e, <1>4

(* A key younger than all that were journaled becomes the last key; the    *)
(* first one goes when there are too many.                                 *)
LEMMA RememberFacts ==
  ASSUME NEW keys \in Seq(Nat), Len(keys) <= Keys, NEW journaled \in SUBSET Nat,
         Youngest(keys, journaled), NEW a \in Nat, \A b \in journaled : b < a
  PROVE  Youngest(Remember(keys, a), journaled \cup {a})
<1> DEFINE n == Len(keys)
<1>0. n \in Nat /\ \A i \in 1..n : keys[i] \in Nat
  OBVIOUS
<1>k. Keys \in Nat /\ Keys > 0
  BY BoundsAssumption
<1>y. /\ \A i, k \in 1..n : i < k => keys[i] < keys[k]
      /\ \A i \in 1..n : keys[i] \in journaled
      /\ \A b \in journaled :
           \/ \E i \in 1..n : keys[i] = b
           \/ n = Keys /\ \A i \in 1..n : b < keys[i]
  BY DEF Youngest
<1>1. CASE n < Keys
  <2> DEFINE more == Append(keys, a)
  <2>1. Remember(keys, a) = more
    BY <1>1 DEF Remember
  <2>2. more \in Seq(Nat) /\ Len(more) = n + 1 /\ more[n + 1] = a
        /\ \A i \in 1..n : more[i] = keys[i]
    OBVIOUS
  <2> HIDE DEF more
  <2>3. \A i, k \in 1..(n + 1) : i < k => more[i] < more[k]
    <3> SUFFICES ASSUME NEW i \in 1..(n + 1), NEW k \in 1..(n + 1), i < k
                 PROVE  more[i] < more[k]
      OBVIOUS
    <3> HIDE DEF n
    <3>1. i \in 1..n
      BY <1>0
    <3>2. CASE k = n + 1
      BY <1>y, <2>2, <3>1, <3>2
    <3>3. CASE k # n + 1
      <4>1. k \in 1..n
        BY <1>0, <3>3
      <4> QED BY <1>y, <2>2, <3>1, <4>1
    <3> QED BY <3>2, <3>3
  <2>4. \A i \in 1..(n + 1) : more[i] \in journaled \cup {a}
    <3> SUFFICES ASSUME NEW i \in 1..(n + 1) PROVE more[i] \in journaled \cup {a}
      OBVIOUS
    <3> HIDE DEF n
    <3>1. i = n + 1 \/ i \in 1..n
      BY <1>0
    <3> QED BY <1>y, <2>2, <3>1
  <2>5. \A b \in journaled \cup {a} : \E i \in 1..(n + 1) : more[i] = b
    <3> SUFFICES ASSUME NEW b \in journaled \cup {a} PROVE \E i \in 1..(n + 1) : more[i] = b
      OBVIOUS
    <3> HIDE DEF n
    <3>1. CASE b = a
      <4>1. n + 1 \in 1..(n + 1)
        BY <1>0
      <4> QED BY <2>2, <3>1, <4>1
    <3>2. CASE b \in journaled
      <4>1. PICK i \in 1..n : keys[i] = b
        BY <1>0, <1>1, <1>k, <1>y, <3>2
      <4>2. i \in 1..(n + 1) /\ more[i] = b
        BY <1>0, <2>2, <4>1
      <4> QED BY <4>2
    <3> QED BY <3>1, <3>2
  <2>6. Youngest(more, journaled \cup {a})
    BY <2>2, <2>3, <2>4, <2>5 DEF Youngest
  <2> QED BY <2>1, <2>6
<1>2. CASE ~(n < Keys)
  <2>0. n = Keys /\ n > 0
    BY <1>0, <1>2, <1>k
  <2> DEFINE more == Append(Tail(keys), a)
  <2>1. Remember(keys, a) = more
    BY <1>2 DEF Remember
  <2>2. more \in Seq(Nat) /\ Len(more) = n /\ more[n] = a
        /\ \A i \in 1..(n - 1) : more[i] = keys[i + 1]
    <3>1. keys # <<>>
      BY <2>0
    <3>2. Tail(keys) \in Seq(Nat) /\ Len(Tail(keys)) = n - 1
          /\ \A i \in 1..(n - 1) : Tail(keys)[i] = keys[i + 1]
      BY <3>1
    <3> QED BY <1>0, <3>2
  <2> HIDE DEF more
  <2>3. \A i, k \in 1..n : i < k => more[i] < more[k]
    <3> SUFFICES ASSUME NEW i \in 1..n, NEW k \in 1..n, i < k PROVE more[i] < more[k]
      OBVIOUS
    <3> HIDE DEF n
    <3>1. i \in 1..(n - 1) /\ i + 1 \in 1..n
      BY <1>0
    <3>2. CASE k = n
      BY <1>y, <2>2, <3>1, <3>2
    <3>3. CASE k # n
      <4>1. k \in 1..(n - 1) /\ k + 1 \in 1..n /\ i + 1 < k + 1
        BY <1>0, <3>3
      <4> QED BY <1>y, <2>2, <3>1, <4>1
    <3> QED BY <3>2, <3>3
  <2>4. \A i \in 1..n : more[i] \in journaled \cup {a}
    <3> SUFFICES ASSUME NEW i \in 1..n PROVE more[i] \in journaled \cup {a}
      OBVIOUS
    <3> HIDE DEF n
    <3>1. i = n \/ (i \in 1..(n - 1) /\ i + 1 \in 1..n)
      BY <1>0
    <3> QED BY <1>y, <2>2, <3>1
  <2>5. ASSUME NEW b \in journaled \cup {a}
        PROVE  (\E i \in 1..n : more[i] = b) \/ (\A i \in 1..n : b < more[i])
    <3> HIDE DEF n
    <3>0. n \in 1..n
      BY <1>0, <2>0
    <3>1. CASE b = a
      BY <2>2, <3>0, <3>1
    <3>a. ASSUME b \in journaled, \A i \in 1..(n - 1) : b < keys[i + 1]
          PROVE  \A i \in 1..n : b < more[i]
      <4> SUFFICES ASSUME NEW i \in 1..n PROVE b < more[i]
        OBVIOUS
      <4>1. i = n \/ i \in 1..(n - 1)
        BY <1>0
      <4>2. b < a
        BY <3>a
      <4> QED BY <2>2, <3>a, <4>1, <4>2
    <3>2. ASSUME b \in journaled, NEW i \in 1..n, keys[i] = b, i = 1
          PROVE  \A k \in 1..n : b < more[k]
      <4>1. \A k \in 1..(n - 1) : b < keys[k + 1]
        <5> SUFFICES ASSUME NEW k \in 1..(n - 1) PROVE b < keys[k + 1]
          OBVIOUS
        <5>1. k + 1 \in 1..n /\ 1 < k + 1 /\ 1 \in 1..n
          BY <1>0
        <5> QED BY <1>y, <3>2, <5>1
      <4> QED BY <3>2, <3>a, <4>1
    <3>3. ASSUME b \in journaled, NEW i \in 1..n, keys[i] = b, i # 1
          PROVE  \E k \in 1..n : more[k] = b
      <4>1. i - 1 \in 1..(n - 1) /\ i - 1 \in 1..n /\ (i - 1) + 1 = i
        BY <1>0, <3>3
      <4>2. more[i - 1] = b
        BY <2>2, <3>3, <4>1
      <4> QED BY <4>1, <4>2
    <3>4. ASSUME b \in journaled, \A i \in 1..n : b < keys[i]
          PROVE  \A k \in 1..n : b < more[k]
      <4>1. \A k \in 1..(n - 1) : b < keys[k + 1]
        <5> SUFFICES ASSUME NEW k \in 1..(n - 1) PROVE b < keys[k + 1]
          OBVIOUS
        <5>1. k + 1 \in 1..n
          BY <1>0
        <5> QED BY <3>4, <5>1
      <4> QED BY <3>4, <3>a, <4>1
    <3> QED BY <1>y, <3>1, <3>2, <3>3, <3>4
  <2>6. Youngest(more, journaled \cup {a})
    <3>1. \A b \in journaled \cup {a} :
            \/ \E i \in 1..n : more[i] = b
            \/ n = Keys /\ \A i \in 1..n : b < more[i]
      BY <2>0, <2>5
    <3> HIDE DEF n
    <3> QED BY <2>2, <2>3, <2>4, <3>1 DEF Youngest
  <2> QED BY <2>1, <2>6
<1> QED BY <1>1, <1>2

(* A file no older than the one compared last, and what its comparison     *)
(* makes of the keys: the announces listed by both files are among them,   *)
(* because no more than Recent <= Keys were journaled since; the others    *)
(* are new and younger.                                                    *)
NotOlder(keys, journaled, since, last, t) ==
  /\ keys \in Seq(Nat) /\ Len(keys) <= Keys /\ journaled \in SUBSET Nat
  /\ Youngest(keys, journaled)
  /\ since \in Nat /\ last \in Nat /\ Covers(journaled, since, last)
  /\ t \in Telemetry /\ t.before <= t.announced
  /\ since <= Since(t) /\ last <= t.announced

Merged(keys, journaled, t) ==
  LET taken == Taken(keys, RecentAnnounces(t))
      new == ToSet(taken.new) IN
  /\ \A a \in new : a \notin journaled
  /\ Youngest(taken.keys, journaled \cup new)
  /\ Covers(journaled \cup new, Since(t), t.announced)

LEMMA TakenFacts ==
  ASSUME NEW keys, NEW journaled, NEW since, NEW last, NEW t,
         NotOlder(keys, journaled, since, last, t)
  PROVE  Merged(keys, journaled, t)
<1>h. /\ keys \in Seq(Nat) /\ Len(keys) <= Keys /\ journaled \in SUBSET Nat
      /\ Youngest(keys, journaled)
      /\ since \in Nat /\ last \in Nat /\ Covers(journaled, since, last)
      /\ t \in Telemetry /\ t.before <= t.announced
      /\ since <= Since(t) /\ last <= t.announced
  BY DEF NotOlder
<1>x. PICK new : new = ToSet(Taken(keys, RecentAnnounces(t)).new)
  OBVIOUS
<1> USE <1>h
<1> DEFINE announces == RecentAnnounces(t)
           N == t.announced - Since(t)
<1>0. /\ Since(t) \in Nat /\ Since(t) <= t.announced /\ t.announced - Recent <= Since(t)
      /\ announces \in Seq(Nat) /\ Len(announces) = N
      /\ \A i \in 1..N : announces[i] = Since(t) + i
  BY RecentFacts
<1>c. /\ \A a \in journaled : a <= last
      /\ (since + 1)..last \subseteq journaled
  BY DEF Covers
<1>n. /\ N \in Nat /\ t.announced \in Nat
      /\ Recent \in Nat /\ Keys \in Nat /\ Recent <= Keys /\ Keys > 0
  BY <1>0, BoundsAssumption DEF Telemetry
<1>6. Since(t) + N = t.announced
  BY <1>0, <1>n
<1> HIDE DEF N
<1>a. PICK after :
        /\ after[0].keys = keys /\ after[0].new = <<>>
        /\ \A n \in 1..Len(announces) : after[n] = Take(after[n - 1], announces[n])
        /\ Taken(keys, announces) = after[Len(announces)]
  <2>1. PICK seq : seq = announces
    OBVIOUS
  <2>2. Len(seq) \in Nat
    BY <1>0, <1>n, <2>1
  <2>3. \E after :
          /\ after[0].keys = keys /\ after[0].new = <<>>
          /\ \A n \in 1..Len(seq) : after[n] = Take(after[n - 1], seq[n])
          /\ Taken(keys, seq) = after[Len(seq)]
    BY <2>2, AfterAnnounces
  <2> HIDE DEF announces
  <2> QED BY <2>1, <2>3
<1> HIDE DEF announces
<1> DEFINE J(n) == journaled \cup ToSet(after[n].new)
           Good(n) == /\ after[n].keys \in Seq(Nat) /\ Len(after[n].keys) <= Keys
                      /\ after[n].new \in Seq(Nat)
                      /\ Youngest(after[n].keys, J(n))
                      /\ \A a \in ToSet(after[n].new) : last < a /\ a <= Since(t) + n
                      /\ (Since(t) + 1)..(Since(t) + n) \subseteq J(n)
           S == {n \in Nat : n <= N => Good(n)}
<1>1. 0 \in S
  <2>1. after[0].keys = keys /\ after[0].new = <<>>
    BY <1>a
  <2>2. ToSet(after[0].new) = {} /\ <<>> \in Seq(Nat)
    BY <2>1 DEF ToSet
  <2>3. J(0) = journaled
    BY <2>2
  <2>4. (Since(t) + 1)..(Since(t) + 0) = {}
    BY <1>0
  <2>5. Good(0)
    BY <2>1, <2>2, <2>3, <2>4
  <2> QED BY <2>5
<1>2. \A n \in Nat : n \in S => n + 1 \in S
  <2> HIDE DEF Good
  <2> SUFFICES ASSUME NEW n \in Nat, n \in S, n + 1 <= N PROVE Good(n + 1)
    OBVIOUS
  <2>0. n <= N /\ Good(n)
    BY <1>n
  <2> DEFINE a == Since(t) + (n + 1)
             held == after[n].keys
             fresh == after[n].new
  <2>1. /\ n + 1 \in 1..N /\ (n + 1) - 1 = n
        /\ a \in Nat /\ a = (Since(t) + n) + 1 /\ a > Since(t) /\ a <= t.announced
        /\ Since(t) + n \in Nat
    <3>1. Since(t) \in Nat /\ N \in Nat /\ Since(t) + N = t.announced
      BY <1>0, <1>6, <1>n
    <3> QED BY <3>1
  <2>2. after[n + 1] = Take(after[n], a)
    BY <1>0, <1>a, <2>1
  <2>3. /\ held \in Seq(Nat) /\ Len(held) <= Keys /\ fresh \in Seq(Nat)
        /\ Youngest(held, J(n))
        /\ \A b \in ToSet(fresh) : last < b /\ b <= Since(t) + n
        /\ (Since(t) + 1)..(Since(t) + n) \subseteq J(n)
    BY <2>0 DEF Good
  <2>4. J(n) \in SUBSET Nat /\ \A b \in J(n) : b <= last \/ b <= Since(t) + n
    <3>1. ToSet(fresh) \subseteq Nat
      BY <2>3 DEF ToSet
    <3> QED BY <1>c, <2>3, <3>1
  <2>5. (Since(t) + 1)..a = ((Since(t) + 1)..(Since(t) + n)) \cup {a}
    <3>1. PICK low \in Nat, high \in Nat :
            low = Since(t) /\ high = Since(t) + n /\ low <= high /\ a = high + 1
      <4> HIDE DEF a
      <4> QED BY <1>0, <2>1
    <3>2. (low + 1)..(high + 1) = ((low + 1)..high) \cup {high + 1}
      BY ONLY <3>1, IntervalGrows
    <3> HIDE DEF a
    <3> QED BY ONLY <3>1, <3>2
  <2> HIDE DEF a, held, fresh
  <2>6. CASE a <= last
    <3>1. a \in journaled /\ a \in J(n)
      <4>1. a \in (since + 1)..last
        BY <1>0, <2>1, <2>6
      <4> QED BY <1>c, <4>1
    <3>2. \E i \in 1..Len(held) : held[i] = a
      <4> SUFFICES ASSUME ~\E i \in 1..Len(held) : held[i] = a PROVE FALSE
        OBVIOUS
      <4>1. Len(held) = Keys /\ \A i \in 1..Len(held) : a < held[i]
        BY <2>3, <3>1 DEF Youngest
      <4>2. \A i \in 1..Len(held) : held[i] <= last
        <5> SUFFICES ASSUME NEW i \in 1..Len(held) PROVE held[i] <= last
          OBVIOUS
        <5>1. held[i] \in J(n) /\ held[i] \in Nat
          BY <2>3 DEF Youngest
        <5>2. held[i] <= last \/ held[i] <= Since(t) + n
          BY <2>4, <5>1
        <5>3. a < held[i]
          BY <4>1
        <5> QED BY <2>1, <5>1, <5>2, <5>3
      <4>3. a + Len(held) <= last
        <5>1. \A i, k \in 1..Len(held) : i < k => held[i] < held[k]
          BY <2>3 DEF Youngest
        <5>2. Len(held) > 0
          BY <1>n, <4>1
        <5> QED BY <2>1, <2>3, <4>1, <4>2, <5>1, <5>2, RoomAbove
      <4>4. /\ a + Keys <= last /\ a > Since(t) /\ t.announced - Recent <= Since(t)
            /\ Since(t) \in Nat /\ Recent <= Keys /\ Recent \in Nat /\ Keys \in Nat
            /\ t.announced \in Nat /\ a \in Nat
        BY <1>0, <1>n, <2>1, <4>1, <4>3
      <4> QED BY <4>4
    <3>3. after[n + 1] = after[n]
      BY <2>2, <3>2 DEF Take, Contains, held
    <3>4. J(n + 1) = J(n)
      BY <3>3
    <3>5. (Since(t) + 1)..(Since(t) + (n + 1)) \subseteq J(n + 1)
      BY <2>3, <2>5, <3>1, <3>4 DEF a
    <3>6. \A b \in ToSet(after[n + 1].new) : last < b /\ b <= Since(t) + (n + 1)
      <4>1. \A b \in ToSet(fresh) : b \in Nat
        BY <2>4 DEF fresh
      <4> QED BY <2>1, <2>3, <3>3, <4>1 DEF a, fresh
    <3> QED BY <2>3, <3>3, <3>4, <3>5, <3>6 DEF Good, held, fresh
  <2>7. CASE ~(a <= last)
    <3>1. \A b \in J(n) : b < a
      BY <2>1, <2>4, <2>7
    <3>2. ~\E i \in 1..Len(held) : held[i] = a
      <4> SUFFICES ASSUME NEW i \in 1..Len(held), held[i] = a PROVE FALSE
        OBVIOUS
      <4>1. a \in J(n)
        BY <2>3 DEF Youngest
      <4> QED BY <2>1, <3>1, <4>1
    <3>3. after[n + 1].keys = Remember(held, a) /\ after[n + 1].new = Append(fresh, a)
      BY <2>2, <3>2 DEF Take, Contains, held, fresh
    <3>4. /\ Remember(held, a) \in Seq(Nat) /\ Len(Remember(held, a)) <= Keys
          /\ Append(fresh, a) \in Seq(Nat)
      BY <2>1, <2>3, RememberType
    <3>5. ToSet(Append(fresh, a)) = ToSet(fresh) \cup {a}
      <4> DEFINE more == Append(fresh, a)
      <4>1. /\ Len(fresh) \in Nat /\ Len(more) = Len(fresh) + 1 /\ more[Len(fresh) + 1] = a
            /\ more \in Seq(Nat) /\ \A i \in 1..Len(fresh) : more[i] = fresh[i]
        BY <2>1, <2>3
      <4> HIDE DEF more
      <4>2. 1..(Len(fresh) + 1) = (1..Len(fresh)) \cup {Len(fresh) + 1}
        BY <4>1
      <4>3. DOMAIN more = 1..(Len(fresh) + 1) /\ DOMAIN fresh = 1..Len(fresh)
        BY <2>3, <4>1
      <4> QED BY <4>1, <4>2, <4>3 DEF ToSet, more
    <3>6. J(n + 1) = J(n) \cup {a}
      BY <3>3, <3>5 DEF fresh
    <3>7. Youngest(Remember(held, a), J(n + 1))
      <4> HIDE DEF J
      <4>1. /\ held \in Seq(Nat) /\ Len(held) <= Keys /\ a \in Nat
            /\ J(n) \in SUBSET Nat /\ Youngest(held, J(n)) /\ \A b \in J(n) : b < a
        BY <2>1, <2>3, <2>4, <3>1
      <4>2. Youngest(Remember(held, a), J(n) \cup {a})
        BY <4>1, RememberFacts
      <4> QED BY <3>6, <4>2
    <3>8. \A b \in ToSet(after[n + 1].new) : last < b /\ b <= Since(t) + (n + 1)
      <4>1. \A b \in ToSet(fresh) : b \in Nat
        BY <2>4 DEF fresh
      <4>2. \A b \in ToSet(fresh) \cup {a} : last < b /\ b <= a
        BY <2>1, <2>3, <2>7, <4>1
      <4> QED BY <3>3, <3>5, <4>2 DEF a
    <3>9. (Since(t) + 1)..(Since(t) + (n + 1)) \subseteq J(n + 1)
      BY <2>3, <2>5, <3>6 DEF a
    <3> QED BY <3>3, <3>4, <3>7, <3>8, <3>9 DEF Good
  <2> QED BY <2>6, <2>7
<1>3. N \in S
  <2> HIDE DEF S
  <2> QED BY <1>n, <1>1, <1>2, Induct
<1>4. Good(N)
  <2> HIDE DEF Good
  <2> QED BY <1>3, <1>n
<1>5. Taken(keys, RecentAnnounces(t)) = after[N]
  BY <1>0, <1>a DEF announces
<1>7. new = ToSet(after[N].new) /\ J(N) = journaled \cup new
  BY <1>5, <1>x
<1>8. (\A a \in new : a \notin journaled) /\ \A a \in journaled \cup new : a <= t.announced
  <2>1. \A a \in new : last < a /\ a <= t.announced
    BY <1>4, <1>6, <1>7
  <2>2. \A a \in journaled : a <= last /\ a \in Nat
    BY <1>c
  <2>3. new \subseteq Nat
    <3>1. after[N].new \in Seq(Nat)
      BY <1>4
    <3>2. \A seq \in Seq(Nat) : ToSet(seq) \subseteq Nat
      BY DEF ToSet
    <3>3. new = ToSet(after[N].new)
      BY <1>7
    <3> QED BY <3>1, <3>2, <3>3
  <2> QED BY <1>n, <2>1, <2>2, <2>3
<1>9. Covers(journaled \cup new, Since(t), t.announced)
  BY <1>4, <1>6, <1>7, <1>8 DEF Covers
<1> QED BY <1>4, <1>5, <1>7, <1>8, <1>9, <1>x DEF Merged

(* Neither the keys nor the journal change; a file may be written.         *)
LEMMA AnnounceStays ==
  ASSUME TypeOK, FilesInv, AnnounceInv, Files' \subseteq Files \cup {telemetry'},
         telemetry' \in Telemetry,
         telemetry'.before >= telemetry.before, telemetry'.announced >= telemetry.announced,
         watch'.keys = watch.keys, history'.journaled = history.journaled,
         history'.twice = history.twice, history'.announces = history.announces,
         history.overtaken => history'.overtaken
  PROVE  AnnounceInv'
<1> SUFFICES ASSUME ~history'.overtaken PROVE AnnounceInv'
  BY DEF AnnounceInv
<1>1. PICK since \in Nat, last \in Nat : Known(since, last)
  BY DEF AnnounceInv
<1>2. ~history.twice /\ Youngest(watch.keys, history.journaled)
  BY DEF AnnounceInv
<1>3. telemetry \in Files /\ telemetry \in Telemetry /\ history.announces <= telemetry.at
      /\ telemetry.at \in Nat /\ history.announces \in Nat
  BY FilesType DEF FilesInv
<1>4. since <= Since(telemetry) /\ last <= telemetry.announced
  BY <1>1, <1>3 DEF Known
<1>5. since <= Since(telemetry') /\ last <= telemetry'.announced
  <2>1. /\ telemetry.before \in Nat /\ telemetry.announced \in Nat
        /\ telemetry'.before \in Nat /\ telemetry'.announced \in Nat
        /\ Recent \in Nat
    BY <1>3, BoundsAssumption DEF Telemetry
  <2>2. PICK x \in Telemetry : x = telemetry'
    OBVIOUS
  <2>3. Since(telemetry) <= Since(x) /\ Since(x) \in Nat /\ Since(telemetry) \in Nat
    BY <1>3, <2>1, <2>2 DEF Since
  <2>4. Since(telemetry') = Since(x)
    BY <2>2
  <2> QED BY <1>4, <2>1, <2>3, <2>4
<1>6. \A x \in Files' :
        x.at >= history.announces => since <= Since(x) /\ last <= x.announced
  BY <1>1, <1>5 DEF Known
<1>7. Known(since, last)'
  BY <1>1, <1>6 DEF Known
<1> QED BY <1>2, <1>7 DEF AnnounceInv

LEMMA AnnounceStep == TypeOK /\ FilesInv /\ AnnounceInv /\ [Next]_vars => AnnounceInv'
<1> SUFFICES ASSUME TypeOK, FilesInv, AnnounceInv, [Next]_vars PROVE AnnounceInv'
  OBVIOUS
<1>0. /\ telemetry \in Telemetry /\ telemetry \in Files
      /\ telemetry.before \in Nat /\ telemetry.announced \in Nat
      /\ history \in Histories /\ history.announces \in Nat
      /\ watch \in [downs : Nat \cup {None}, keys : Seq(Nat)] /\ Len(watch.keys) <= Keys
      /\ \A x \in Files : x \in Telemetry /\ x.at \in Nat
  BY FilesType, TelemetryFacts
<1>1. CASE BackendDown \/ Announce \/ Restart
  <2>1. PICK t \in Telemetry : Write(t) /\ Follows(telemetry, t)
    BY <1>1, WritesFollow
  <2>2. /\ telemetry' \in Telemetry
        /\ telemetry'.before = t.before /\ telemetry'.announced = t.announced
        /\ Files' \subseteq Files \cup {telemetry'} /\ watch' = watch /\ history' = history
    BY <2>1, WriteFacts
  <2>3. t.before \in Nat /\ t.announced \in Nat
    BY TelemetryFacts
  <2>4. telemetry'.before >= telemetry.before /\ telemetry'.announced >= telemetry.announced
    BY <1>0, <2>1, <2>2, <2>3 DEF Follows
  <2> QED BY <2>2, <2>4, AnnounceStays
<1>2. CASE ConsoleRestarts
  <2>1. /\ Files' \subseteq Files /\ watch'.keys = <<>> /\ history' = Forgotten
    BY <1>2, RestartFacts
  <2>2. /\ history'.journaled = {} /\ history'.twice = history.twice
        /\ history'.overtaken = history.overtaken /\ history'.announces = 0
    BY <1>0, <2>1, ForgottenFacts
  <2>3. Youngest(watch'.keys, history'.journaled)
    BY <2>1, <2>2 DEF Youngest
  <2>4. \A x \in Files : Since(x) \in Nat /\ x.announced \in Nat
    <3> SUFFICES ASSUME NEW x \in Files PROVE Since(x) \in Nat /\ x.announced \in Nat
      OBVIOUS
    <3>1. x \in Telemetry /\ x.before <= x.announced
      BY <1>0 DEF FilesInv, Proper
    <3> QED BY <3>1, RecentFacts, TelemetryFacts
  <2>5. Known(0, 0)'
    <3>1. \A x \in Files' : 0 <= Since(x) /\ 0 <= x.announced
      BY <2>1, <2>4
    <3>2. Covers(history'.journaled, 0, 0)
      BY <2>2 DEF Covers
    <3> QED BY <2>2, <3>1, <3>2 DEF Known
  <2>6. \E since, last \in Nat : Known(since, last)'
    BY <2>5
  <2> QED BY <2>2, <2>3, <2>6 DEF AnnounceInv
<1>s. ASSUME Files' \subseteq Files, telemetry' = telemetry, watch'.keys = watch.keys,
             history'.journaled = history.journaled, history'.twice = history.twice,
             history'.announces = history.announces, history.overtaken => history'.overtaken
      PROVE  AnnounceInv'
  <2>1. telemetry'.before >= telemetry.before /\ telemetry'.announced >= telemetry.announced
        /\ telemetry' \in Telemetry
    BY <1>0, <1>s
  <2> QED BY <1>s, <2>1, AnnounceStays
<1>3. ASSUME NEW p \in Polls, Read(p) \/ ReadFails(p) PROVE AnnounceInv'
  BY <1>3, <1>s, SeenFacts
<1>4. ASSUME NEW p \in Polls, ObserveCounters(p) PROVE AnnounceInv'
  <2>1. PICK t \in Files :
          /\ Files' \subseteq Files /\ telemetry' = telemetry /\ watch'.keys = watch.keys
          /\ history' = Compared(t)
    BY <1>4, CountersFacts
  <2>2. /\ history'.journaled = history.journaled
        /\ history'.twice = history.twice /\ history'.announces = history.announces
        /\ history'.overtaken = history.overtaken
    BY <1>0, <2>1, ComparedFacts
  <2> QED BY <1>s, <2>1, <2>2
<1>5. ASSUME NEW p \in Polls, ObserveAnnounces(p), ~history'.overtaken PROVE AnnounceInv'
  <2>1. PICK t \in Files, new \in SUBSET Nat :
          /\ Files' \subseteq Files /\ telemetry' = telemetry
          /\ new = ToSet(Taken(watch.keys, RecentAnnounces(t)).new)
          /\ watch'.keys = Taken(watch.keys, RecentAnnounces(t)).keys
          /\ history' = Listed(new, t)
    BY <1>5, AnnouncesFacts
  <2>2. /\ t \in Telemetry /\ t.at \in Nat /\ t.announced \in Nat /\ t.before <= t.announced
    BY <1>0, TelemetryFacts DEF FilesInv, Proper
  <2>3. /\ history'.journaled = history.journaled \cup new
        /\ (history'.twice <=> (history.twice \/ new \cap history.journaled # {}))
        /\ history'.announces = IF t.at > history.announces THEN t.at ELSE history.announces
        /\ (history'.overtaken <=>
              (history.overtaken \/ (t # NoFile /\ t.at < history.announces)))
    BY <1>0, <2>1, <2>2, ListedFacts
  <2>4. CASE t = NoFile
    <3>1. watch'.keys = watch.keys /\ new = {}
      <4>1. ToSet(<<>>) = {}
        BY DEF ToSet
      <4> QED BY <2>1, <2>4, <4>1, NothingTaken
    <3>2. history'.announces = history.announces
      BY <1>0, <2>3, <2>4, NoFileFacts
    <3>3. history'.twice = history.twice
      <4>1. history'.twice \in BOOLEAN /\ history.twice \in BOOLEAN
        BY <1>0, <2>1, <2>2, ListedFacts DEF Histories
      <4> QED BY <2>3, <3>1, <4>1
    <3>4. history'.journaled = history.journaled
      BY <2>3, <3>1
    <3> QED BY <1>s, <2>1, <2>3, <3>1, <3>2, <3>3, <3>4
  <2>5. CASE t # NoFile
    <3>1. ~history.overtaken /\ t.at >= history.announces
      BY <1>0, <1>5, <2>2, <2>3, <2>5
    <3>2. history'.announces = t.at
      BY <1>0, <2>2, <2>3, <3>1
    <3>3. PICK since \in Nat, last \in Nat : Known(since, last)
      BY <3>1 DEF AnnounceInv
    <3>4. ~history.twice /\ Youngest(watch.keys, history.journaled)
      BY <3>1 DEF AnnounceInv
    <3>5. /\ Covers(history.journaled, since, last)
          /\ since <= Since(t) /\ last <= t.announced
      BY <3>1, <3>3 DEF Known
    <3>6. /\ watch.keys \in Seq(Nat) /\ Len(watch.keys) <= Keys
          /\ history.journaled \in SUBSET Nat
      BY <1>0 DEF Histories
    <3>7. NotOlder(watch.keys, history.journaled, since, last, t)
      BY <2>2, <3>4, <3>5, <3>6 DEF NotOlder
    <3>8. /\ \A a \in new : a \notin history.journaled
          /\ Youngest(watch'.keys, history.journaled \cup new)
          /\ Covers(history.journaled \cup new, Since(t), t.announced)
      <4>1. Merged(watch.keys, history.journaled, t)
        BY <3>7, TakenFacts
      <4> QED BY <2>1, <4>1 DEF Merged
    <3>9. ASSUME NEW x \in Files', x.at >= t.at
          PROVE  Since(t) <= Since(x) /\ t.announced <= x.announced
      <4>1. x \in Files /\ x \in Telemetry /\ x.at \in Nat
        BY <1>0, <2>1
      <4>2. t.before <= x.before /\ t.announced <= x.announced
        BY <2>2, <3>9, <4>1 DEF FilesInv, Follows
      <4> QED BY <2>2, <4>1, <4>2, SinceRises
    <3>10. PICK s \in Nat, l \in Nat : s = Since(t) /\ l = t.announced
      BY <2>2, RecentFacts
    <3>11. Known(s, l)'
      <4>1. Covers(history'.journaled, s, l)
        BY <2>3, <3>8, <3>10
      <4>2. \A x \in Files' : x.at >= history'.announces => s <= Since(x) /\ l <= x.announced
        BY <3>2, <3>9, <3>10
      <4> QED BY <4>1, <4>2 DEF Known
    <3>12. ~history'.twice /\ Youngest(watch'.keys, history'.journaled)
      BY <2>3, <3>4, <3>8
    <3> QED BY <3>11, <3>12 DEF AnnounceInv
  <2> QED BY <2>4, <2>5
<1>o. CASE history'.overtaken
  BY <1>o DEF AnnounceInv
<1>6. CASE UNCHANGED <<telemetry, polls, watch, history>>
  BY <1>6, <1>s, SameFilesKeep
<1>7. CASE (\E readable \in BOOLEAN : ManualAnnounce(readable))
             \/ SaveManual \/ LogManual \/ LxmdDies \/ Tick
  BY <1>6, <1>7 DEF ManualAnnounce, SaveManual, LogManual, LxmdDies, Tick
<1>8. ASSUME NEW limit \in 1..MaxEvents, Browse(limit) PROVE AnnounceInv'
  BY <1>6, <1>8 DEF Browse
<1>9. CASE UNCHANGED vars
  BY <1>6, <1>9 DEF vars
<1> QED BY <1>1, <1>2, <1>3, <1>4, <1>5, <1>o, <1>7, <1>8, <1>9 DEF Next

LEMMA AnnounceInit == Init => AnnounceInv
<1> SUFFICES ASSUME Init PROVE AnnounceInv
  OBVIOUS
<1>1. /\ telemetry = NoFile /\ polls = [p \in Polls |-> Idle] /\ history.last = NoFile
      /\ watch.keys = <<>> /\ history.journaled = {} /\ history.twice = FALSE
  BY DEF Init
<1>2. \A x \in Files : x = NoFile
  BY <1>1, IdleFacts DEF Files
<1>3. NoFile.announced = 0 /\ Since(NoFile) = 0
  BY NoFileFacts, BoundsAssumption DEF Since
<1>4. Known(0, 0)
  BY <1>1, <1>2, <1>3 DEF Known, Covers
<1>5. Youngest(watch.keys, history.journaled)
  BY <1>1 DEF Youngest
<1> QED BY <1>1, <1>4, <1>5 DEF AnnounceInv

(* A running console journals an announce once, however many are listed    *)
(* and remembered and however many requests are under way, unless one      *)
(* compared an older file after a newer one.                               *)
THEOREM AnnouncesAreJournaledOnce == Spec => []AnnouncedOnce
<1>1. AnnounceInv => AnnouncedOnce
  BY DEF AnnounceInv, AnnouncedOnce
<1> QED BY <1>1, AnnounceInit, AnnounceStep, CountsStay, PTL DEF Spec
=============================================================================
