-------------------------- MODULE FragmentProtocol --------------------------
(***************************************************************************)
(* The port 76 fragmentation object of src/rns_meshtastic/framing.py: it   *)
(* splits frames, reassembles fragments per (source, index), asks for the  *)
(* missing ones (REQ) and answers such requests from a transmit cache.     *)
(*                                                                         *)
(* One object is a record p.  Every public method runs under one lock, so  *)
(* it is an operator from p, its arguments and the clock to a result       *)
(*    [state, transmissions, frames].                                      *)
(* A handler reads the clock more than once; the model reads it once.      *)
(* Chunks of frames are opaque values, and the 8-byte digest of a frame is *)
(* the frame itself.  Telemetry counters are left out.                     *)
(***************************************************************************)
EXTENDS Integers, Sequences, FiniteSets, SequencesExt

CONSTANTS
  Broadcast,          \* the destination "^all"
  IndexSpace,         \* 256: the frame index is one byte
  MaxPosition,        \* 127: the largest fragment position
  StateTtl,           \* state_ttl, 180 s
  RequestCooldown,    \* request_cooldown, 5 s
  MaxRepairAttempts,  \* max_repair_attempts, 3
  RepairBudget,       \* max_repair_requests_per_window, 12
  RepairWindow,       \* repair_window, 60 s
  TxCacheLimit        \* 512 cached transmissions

ASSUME ProtocolAssumption ==
  /\ IndexSpace \in Nat \ {0}        /\ MaxPosition \in Nat \ {0}
  /\ StateTtl \in Nat \ {0}          /\ RequestCooldown \in Nat \ {0}
  /\ MaxRepairAttempts \in Nat \ {0} /\ RepairBudget \in Nat \ {0}
  /\ RepairWindow \in Nat \ {0}      /\ TxCacheLimit \in Nat \ {0}
-----------------------------------------------------------------------------
(* Payloads: HEADER is (index, signed position), negative for the final    *)
(* fragment; REQ payloads name the wanted position, 0 for "the final one". *)

DataPayload(index, position, body) ==
  [kind |-> "data", index |-> index, position |-> position, body |-> body]

RequestPayload(index, position) ==
  [kind |-> "req", index |-> index, position |-> position]

Transmission(destination, payload) ==
  [destination |-> destination, payload |-> payload]

EmptyMap == [x \in {} |-> 0]

(* The entries of s at the positions keep, in their order; keep's k-th     *)
(* position is Nth(keep, k).                                               *)
Nth(keep, k) == CHOOSE i \in keep : Cardinality({j \in keep : j <= i}) = k

Kept(s, keep) == [k \in 1..Cardinality(keep) |-> s[Nth(keep, k)]]

(* table[key] = value of a dictionary.                                     *)
With(table, key, value) ==
  [k \in {key} \cup DOMAIN table |-> IF k = key THEN value ELSE table[k]]

InitProtocol ==
  [nextIndex |-> 0, assemblies |-> <<>>, txCache |-> <<>>,
   completed |-> EmptyMap, completedIndices |-> EmptyMap, repairTimes |-> <<>>]

Result(state, transmissions, frames) ==
  [state |-> state, transmissions |-> transmissions, frames |-> frames]

Silent(state) == Result(state, <<>>, <<>>)

Abs(n) == IF n < 0 THEN -n ELSE n
-----------------------------------------------------------------------------
(* Expiry.  The deque of request times is popped from its front.  The      *)
(* ordered dictionaries of completed frames hold their entries in the      *)
(* order of a monotonic clock, so popping expired entries from the front   *)
(* is the same as keeping the unexpired ones.                              *)

NewerThan(times, cutoff) ==
  LET newer == {i \in DOMAIN times : times[i] > cutoff} IN
  IF newer = {} THEN <<>> ELSE SubSeq(times, Min(newer), Len(times))

FreshRepairTimesEarly(times, now) ==            \* mutant: window one tick short
  NewerThan(times, now - RepairWindow + 1)

FreshRepairTimes(times, now) == NewerThan(times, now - RepairWindow)

UnexpiredNever(assemblies, cutoff) == assemblies          \* mutant: no expiry

Unexpired(assemblies, cutoff) ==
  Kept(assemblies, {i \in DOMAIN assemblies : assemblies[i].updatedAt >= cutoff})

UnexpiredTx(cache, cutoff) ==
  Kept(cache, {i \in DOMAIN cache : cache[i].createdAt >= cutoff})

RetainedNow(times, cutoff) ==                    \* mutant: the cutoff is now
  [k \in {x \in DOMAIN times : times[x] >= cutoff + StateTtl} |-> times[k]]

Retained(times, cutoff) ==
  [k \in {x \in DOMAIN times : times[x] >= cutoff} |-> times[k]]

Cleanup(p, now) ==
  LET cutoff == now - StateTtl IN
  [p EXCEPT
     !.repairTimes = FreshRepairTimes(@, now),
     !.assemblies = Unexpired(@, cutoff),
     !.txCache = UnexpiredTx(@, cutoff),
     !.completed = Retained(@, cutoff),
     !.completedIndices = Retained(@, cutoff)]
-----------------------------------------------------------------------------
(* Sending.                                                                *)

NextIndex(index) == (index + 1) % IndexSpace

Fragments(frame, index) ==
  [i \in DOMAIN frame |->
     DataPayload(index, IF i = Len(frame) THEN -i ELSE i, frame[i])]

(* encode: a frame of no chunk or of more than MaxPosition raises.         *)
CanEncode(frame) == Len(frame) \in 1..MaxPosition

(* The cache without an entry for this index and destination.             *)
Others(cache, index, destination) ==
  Kept(cache, {i \in DOMAIN cache :
                 cache[i].index # index \/ cache[i].destination # destination})

Encode(p, frame, destination, now) ==
  LET q     == Cleanup(p, now)
      index == q.nextIndex
      parts == Fragments(frame, index)
      cache == Append(Others(q.txCache, index, destination),
                      [index |-> index, destination |-> destination,
                       createdAt |-> now, fragments |-> parts])
  IN Result([q EXCEPT
               !.nextIndex = NextIndex(@),
               !.txCache = IF Len(cache) > TxCacheLimit THEN Tail(cache) ELSE cache],
            [i \in DOMAIN parts |-> Transmission(destination, parts[i])],
            <<>>)

(* A request is answered from the requester's own entry, else from the     *)
(* broadcast entry of that index.                                          *)
HandleRequest(p, source, payload) ==
  LET entry(destination) ==
        SelectInSeq(p.txCache, LAMBDA c :
          c.index = payload.index /\ c.destination = destination)
      hit == IF entry(source) # 0 THEN entry(source) ELSE entry(Broadcast)
      parts == p.txCache[hit].fragments
      requested == IF payload.position = 0 THEN Len(parts) ELSE Abs(payload.position)
  IN IF hit # 0 /\ requested \in DOMAIN parts
     THEN Result(p, <<Transmission(source, parts[requested])>>, <<>>)
     ELSE Silent(p)
-----------------------------------------------------------------------------
(* Repair requests.  repairs[q] is the pair requested_at, request_attempts *)
(* of position q.                                                          *)

Missing(a) ==
  IF a.finalPosition = 0 THEN {0} ELSE (1..a.finalPosition) \ DOMAIN a.fragments

(* Attempt k + 1 waits RequestCooldown * 2^k after attempt k.              *)
DueSlow(a, immediate, now) ==                    \* mutant: backoff doubled once more
  {q \in Missing(a) :
     IF q \notin DOMAIN a.repairs
     THEN immediate \/ now - a.updatedAt >= RequestCooldown
     ELSE /\ a.repairs[q].attempts < MaxRepairAttempts
          /\ now - a.repairs[q].at >= RequestCooldown * 2^(a.repairs[q].attempts + 1)}

Due(a, immediate, now) ==
  {q \in Missing(a) :
     IF q \notin DOMAIN a.repairs
     THEN immediate \/ now - a.updatedAt >= RequestCooldown
     ELSE /\ a.repairs[q].attempts < MaxRepairAttempts
          /\ now - a.repairs[q].at >= RequestCooldown * 2^(a.repairs[q].attempts)}

NextRepairForgets(a, q, now) == [at |-> now, attempts |-> 1]   \* mutant: no count

NextRepair(a, q, now) ==
  [at |-> now,
   attempts |-> IF q \in DOMAIN a.repairs THEN a.repairs[q].attempts + 1 ELSE 1]

(* _append_repair_requests_locked with a budget of one request, the only   *)
(* budget the callers pass: the lowest due position, unless the rolling    *)
(* budget of the object is spent.                                          *)
RequestRepair(p, i, immediate, now) ==
  LET a     == p.assemblies[i]
      due   == Due(a, immediate, now)
      times == FreshRepairTimes(p.repairTimes, now)
      q     == Min(due)
  IN IF due = {} \/ Len(times) >= RepairBudget
     THEN Silent(p)
     ELSE Result([p EXCEPT
                    !.repairTimes = Append(times, now),
                    !.assemblies[i].repairs = With(@, q, NextRepair(a, q, now))],
                 <<Transmission(a.source, RequestPayload(a.index, q))>>, <<>>)

(* poll_repairs(max_requests=1): the oldest stalled assembly that has a    *)
(* due position.                                                           *)
PollRepairs(p, allowControl, now) ==
  LET q == Cleanup(p, now)
      i == SelectInSeq(q.assemblies, LAMBDA a :
             now - a.updatedAt >= RequestCooldown /\ Due(a, FALSE, now) # {})
  IN IF allowControl /\ i # 0 THEN RequestRepair(q, i, FALSE, now) ELSE Silent(q)
-----------------------------------------------------------------------------
(* Reassembly.                                                             *)

NewAssembly(source, index, now) ==
  [source |-> source, index |-> index, updatedAt |-> now,
   fragments |-> EmptyMap, finalPosition |-> 0, repairs |-> EmptyMap]

AddFragment(a, payload, now) ==
  LET position == Abs(payload.position)
      final    == payload.position < 0
      progress == \/ position \notin DOMAIN a.fragments
                  \/ a.fragments[position] # payload.body
                  \/ final /\ a.finalPosition # position
      answered == (IF progress THEN {position} ELSE {}) \cup (IF final THEN {0} ELSE {})
  IN [a EXCEPT
        !.updatedAt = IF progress THEN now ELSE @,
        !.fragments = With(@, position, payload.body),
        !.finalPosition = IF final THEN position ELSE @,
        !.repairs = Restrict(@, DOMAIN @ \ answered)]

MarkFrameOnly(p, done, now) == [p EXCEPT !.completed = With(@, done, now)]
                                                 \* mutant: the index is not marked
MarkCompleted(p, done, now) ==
  [p EXCEPT !.completed = With(@, done, now),
            !.completedIndices = With(@, <<done[1], done[2]>>, now)]

Without(assemblies, key) ==
  Kept(assemblies, {i \in DOMAIN assemblies :
                      <<assemblies[i].source, assemblies[i].index>> # key})

(* A complete assembly leaves the table; its frame goes up unless the same *)
(* frame was completed before.                                             *)
Complete(p, key, a, now) ==
  LET frame == [q \in 1..a.finalPosition |-> a.fragments[q]]
      done  == <<key[1], key[2], frame>>
      rest  == [p EXCEPT !.assemblies = Without(@, key)]
  IN IF done \in DOMAIN p.completed
     THEN Silent(rest)
     ELSE Result(MarkCompleted(rest, done, now), <<>>, <<frame>>)

(* Position 0 raises; so does an empty body, which no payload here has.    *)
HandleFragment(p, source, payload, allowControl, now) ==
  LET key   == <<source, payload.index>>
      at    == SelectInSeq(p.assemblies, LAMBDA b : <<b.source, b.index>> = key)
      i     == IF at = 0 THEN Len(p.assemblies) + 1 ELSE at
      old   == IF at = 0 THEN NewAssembly(source, payload.index, now) ELSE p.assemblies[at]
      a     == AddFragment(old, payload, now)
      kept  == [p EXCEPT !.assemblies = IF at = 0 THEN Append(@, a) ELSE ReplaceAt(@, at, a)]
  IN IF payload.position = 0 \/ key \in DOMAIN p.completedIndices
     THEN Silent(p)
     ELSE IF Missing(a) = {} THEN Complete(p, key, a, now)
     ELSE IF allowControl /\ a.finalPosition # 0 THEN RequestRepair(kept, i, TRUE, now)
     ELSE Silent(kept)

Receive(p, source, payload, allowControl, now) ==
  LET q == Cleanup(p, now) IN
  IF payload.kind = "data" THEN HandleFragment(q, source, payload, allowControl, now)
  ELSE IF allowControl THEN HandleRequest(q, source, payload)
  ELSE Silent(q)
=============================================================================
