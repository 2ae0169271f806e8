----------------------------- MODULE EventJournal -----------------------------
(***************************************************************************)
(* The journal of gateway events (event_journal.py): a bounded file that   *)
(* the console, lxmd and the apply agent append to under one lock, and     *)
(* that browsers read with a cursor.  The operators take the journal and   *)
(* return it.  An event is its identifier and whether the browser has read *)
(* it, which only the properties look at.                                  *)
(***************************************************************************)
EXTENDS Integers, Sequences, FiniteSets

CONSTANTS
  MaxEvents      \* events the file keeps (MAX_EVENTS)

ASSUME MaxEventsAssumption == MaxEvents \in Nat \ {0}

Newest(journal) == journal[Len(journal)]

(* The clock in milliseconds, read before the lock was taken; an event of  *)
(* the same millisecond, or a clock that stepped back, moves it on.        *)
FreshIdByClock(journal, clock) == clock          \* mutant: the clock is trusted
FreshId(journal, clock) ==
  IF journal # <<>> /\ clock <= Newest(journal).id THEN Newest(journal).id + 1 ELSE clock

Bounded(journal) ==
  IF Len(journal) > MaxEvents THEN Tail(journal) ELSE journal

Appended(journal, clock) ==
  Bounded(Append(journal, [id |-> FreshId(journal, clock), read |-> FALSE]))

(* Several events, stamped with these clocks.                              *)
AppendedAll(journal, clocks) ==
  LET after[n \in 0..Len(clocks)] ==
        IF n = 0 THEN journal ELSE Appended(after[n - 1], clocks[n])
  IN after[Len(clocks)]

(* A reader gets at most `limit` events after its cursor, and goes on with *)
(* the identifier of the last.                                             *)
Selected(journal, cursor, limit) ==
  {i \in DOMAIN journal :
     journal[i].id > cursor /\ Cardinality({j \in 1..i : journal[j].id > cursor}) <= limit}

Cursor(journal, cursor, limit) ==
  IF Selected(journal, cursor, limit) = {} THEN cursor
  ELSE CHOOSE id \in {journal[i].id : i \in Selected(journal, cursor, limit)} :
         \A i \in Selected(journal, cursor, limit) : journal[i].id <= id
=============================================================================
