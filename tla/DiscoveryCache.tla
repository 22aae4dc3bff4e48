--------------------------- MODULE DiscoveryCache ---------------------------
(***************************************************************************)
(* The discovery cache (internal/adapters/discoverycache): callers look a  *)
(* query up, share one detached provider call per query (a flight), and    *)
(* keep healthy answers for a fresh and then a stale period.  Everything   *)
(* under s.mu is one action; the clock readings, context checks, provider  *)
(* calls and the cancellation that happen outside the lock are actions of  *)
(* their own, so that anything can run in between.                         *)
(***************************************************************************)
EXTENDS Integers, Sequences, FiniteSets, SequencesExt

CONSTANTS
  Keys, Callers,
  Flights,          \* identities for fills, reused once nobody refers to one
  None,             \* no flight
  FreshTTL, StaleTTL, MaxEntries, MaxBytes, MaxEntryBytes, MaxInflight,
  Sizes,            \* sizes a healthy answer may have
  MaxTime           \* bound on the clock

ASSUME CacheLimitsAssumption ==
  /\ {FreshTTL, StaleTTL, MaxEntries, MaxBytes, MaxEntryBytes, MaxInflight}
       \subseteq Nat \ {0}
  /\ MaxEntryBytes <= MaxBytes
  /\ Sizes \subseteq Nat \ {0} /\ MaxTime \in Nat
ASSUME FlightsAssumption ==
  Keys # {} /\ IsFiniteSet(Callers) /\ None \notin Flights

VARIABLES
  entries,          \* per key: lifetime and size, size 0 when absent
  recency,          \* the keys stored, least recently used first (sequence)
  bytes,            \* the running total
  inflight,         \* the map from key to the flight that may be joined
  flight,           \* every flight, registered or not
  call,             \* what each caller is doing
  now

vars == <<entries, recency, bytes, inflight, flight, call, now>>

Entry == [freshUntil : Nat, staleUntil : Nat, size : Nat]
NoEntry == [freshUntil |-> 0, staleUntil |-> 0, size |-> 0]
Present(k) == entries[k].size > 0

(* A flight is calling the provider, has its answer, has been through the  *)
(* cache, or is published (done is closed).  size 0 marks an answer that   *)
(* may not be cached; failed covers errors, deadline and cancellation.     *)
Flight == [phase : {"unused", "calling", "answered", "stored", "done"},
           key : Keys, waiters : Nat, keepAlive : BOOLEAN,
           cancelled : BOOLEAN, size : Nat, at : Nat]
Running(f) == flight[f].phase \in {"calling", "answered", "stored"}

Call == [phase : {"idle", "looking", "waiting", "leaving", "cancelling",
                  "direct"},
         key : Keys, at : Nat, work : Flights \cup {None}]
Attached(c, f) == call[c].work = f /\ call[c].phase \in {"waiting", "leaving"}

AnyKey == CHOOSE k \in Keys : TRUE
Unused == [phase |-> "unused", key |-> AnyKey, waiters |-> 0,
           keepAlive |-> FALSE, cancelled |-> FALSE, size |-> 0, at |-> 0]
Idle == [phase |-> "idle", key |-> AnyKey, at |-> 0, work |-> None]

Init ==
  /\ entries = [k \in Keys |-> NoEntry] /\ recency = <<>> /\ bytes = 0
  /\ inflight = [k \in Keys |-> None]
  /\ flight = [f \in Flights |-> Unused]
  /\ call = [c \in Callers |-> Idle]
  /\ now = 0

-----------------------------------------------------------------------------
(* A call begins: the context is alive, the clock is read.                 *)
SearchBatch(c, k) ==
  /\ call[c] = Idle
  /\ call' = [call EXCEPT ![c] = [Idle EXCEPT !.phase = "looking", !.key = k,
                                              !.at = now]]
  /\ UNCHANGED <<entries, recency, bytes, inflight, flight, now>>

PlaceOf(k) == CHOOSE i \in DOMAIN recency : recency[i] = k
Without(k) == IF Present(k) THEN RemoveAt(recency, PlaceOf(k)) ELSE recency

(* deleteEntryLocked of an expired entry, or the touch of a hit            *)
Deleted(k) ==
  /\ entries' = [entries EXCEPT ![k] = NoEntry]
  /\ recency' = Without(k)
  /\ bytes' = bytes - entries[k].size
Touched(k) ==
  /\ recency' = Append(Without(k), k)
  /\ UNCHANGED <<entries, bytes>>

Registered == {k \in Keys : inflight[k] # None}
Reusable == {f \in Flights : /\ ~Running(f)
                             /\ \A c \in Callers : call[c].work # f}

JoinUncounted(f, refresh) ==   \* slip: only the first waiter is counted
  flight' = [flight EXCEPT ![f].keepAlive = @ \/ refresh]

JoinFlight(f, refresh) ==
  flight' = [flight EXCEPT ![f].keepAlive = @ \/ refresh,
                           ![f].waiters = IF refresh THEN @ ELSE @ + 1]

(* startFlightLocked for caller c: join the flight of its key, or register *)
(* a new one if a slot is free, or do without.                             *)
StartFlight(c, refresh) ==
  LET k == call[c].key
      wait(f) == IF refresh THEN Idle
                 ELSE [call[c] EXCEPT !.phase = "waiting", !.at = 0,
                                      !.work = f]
  IN  IF inflight[k] # None
      THEN /\ JoinFlight(inflight[k], refresh)
           /\ call' = [call EXCEPT ![c] = wait(inflight[k])]
           /\ UNCHANGED inflight
      ELSE IF Cardinality(Registered) >= MaxInflight
      THEN /\ call' = [call EXCEPT ![c] = IF refresh THEN Idle
                         ELSE [Idle EXCEPT !.phase = "direct"]]
           /\ UNCHANGED <<inflight, flight>>
      ELSE \E f \in Reusable :
           /\ flight' = [flight EXCEPT ![f] =
                [Unused EXCEPT !.phase = "calling", !.key = k,
                               !.keepAlive = refresh,
                               !.waiters = IF refresh THEN 0 ELSE 1]]
           /\ inflight' = [inflight EXCEPT ![k] = f]
           /\ call' = [call EXCEPT ![c] = wait(f)]

(* acquire.  A hit answers the caller; a stale hit sees to it that a       *)
(* refresh runs.                                                           *)
FreshHit(c) ==
  LET k == call[c].key
  IN  /\ call[c].phase = "looking"
      /\ Present(k) /\ call[c].at < entries[k].freshUntil
      /\ Touched(k)
      /\ call' = [call EXCEPT ![c] = Idle]
      /\ UNCHANGED <<inflight, flight, now>>
StaleHit(c) ==
  LET k == call[c].key
  IN  /\ call[c].phase = "looking"
      /\ Present(k) /\ call[c].at >= entries[k].freshUntil
      /\ call[c].at < entries[k].staleUntil
      /\ Touched(k)
      /\ StartFlight(c, TRUE)
      /\ UNCHANGED now
Miss(c) ==
  LET k == call[c].key
  IN  /\ call[c].phase = "looking"
      /\ ~Present(k) \/ call[c].at >= entries[k].staleUntil
      /\ IF Present(k) THEN Deleted(k)
                       ELSE UNCHANGED <<entries, recency, bytes>>
      /\ StartFlight(c, FALSE)
      /\ UNCHANGED now

(* The overload path calls the provider under the caller's own context.    *)
DirectReturns(c) ==
  /\ call[c].phase = "direct"
  /\ call' = [call EXCEPT ![c] = Idle]
  /\ UNCHANGED <<entries, recency, bytes, inflight, flight, now>>

(* The wait ends with the flight or with the caller's own context; either  *)
(* way the deferred releaseWaiter runs next.  A context that ends outside  *)
(* the wait only changes what the caller is told.                          *)
WaitEnds(c, gone) ==
  /\ call[c].phase = "waiting"
  /\ gone \/ flight[call[c].work].phase = "done"
  /\ call' = [call EXCEPT ![c].phase = "leaving"]
  /\ UNCHANGED <<entries, recency, bytes, inflight, flight, now>>

LeavesAsSomeone(f) ==   \* slip: any waiter's departure ends the flight
  ~flight[f].keepAlive /\ inflight[flight[f].key] = f

LeavesLast(f) ==
  /\ flight[f].waiters = 1 /\ ~flight[f].keepAlive
  /\ inflight[flight[f].key] = f

(* releaseWaiter: the last one out unregisters a cold fill under the lock  *)
(* and cancels it after the lock is released.                              *)
ReleaseWaiter(c) ==
  LET f == call[c].work
  IN  /\ call[c].phase = "leaving"
      /\ flight' = [flight EXCEPT ![f].waiters = @ - 1]
      /\ IF LeavesLast(f)
         THEN /\ inflight' = [inflight EXCEPT ![flight[f].key] = None]
              /\ call' = [call EXCEPT ![c].phase = "cancelling"]
         ELSE /\ call' = [call EXCEPT ![c] = Idle]
              /\ UNCHANGED inflight
      /\ UNCHANGED <<entries, recency, bytes, now>>
Cancel(c) ==
  /\ call[c].phase = "cancelling"
  /\ flight' = [flight EXCEPT ![call[c].work].cancelled = Running(call[c].work)]
  /\ call' = [call EXCEPT ![c] = Idle]
  /\ UNCHANGED <<entries, recency, bytes, inflight, now>>

-----------------------------------------------------------------------------

(* runFlight.  The provider answers or fails; a context that has ended by  *)
(* then turns any answer into a failure.  size 0 is every uncacheable      *)
(* outcome: empty, partial, oversized, failed.                             *)
ProviderReturns(f, size) ==
  /\ flight[f].phase = "calling"
  /\ flight[f].cancelled => size = 0
  /\ flight' = [flight EXCEPT ![f].phase = IF size > 0 THEN "answered"
                                                       ELSE "stored",
                              ![f].size = size,
                              ![f].at = IF size > 0 THEN now ELSE 0]
  /\ UNCHANGED <<entries, recency, bytes, inflight, call, now>>

LeastEvictedByCount(order, total, sizeOf) ==   \* slip: bytes never evict
  CHOOSE n \in 0..Len(order) :
    /\ Len(order) - n <= MaxEntries
    /\ \A m \in 0..(n - 1) : Len(order) - m > MaxEntries

(* What keys weigh together: the bytes of their answers, counted one by    *)
(* one.                                                                    *)
Volume(keys, sizeOf) ==
  Cardinality({b \in keys \X (1..MaxEntryBytes) : b[2] <= sizeOf[b[1]]})
LeastRecent(order, n) == {order[i] : i \in 1..n}

(* How many of the least recently used keys the eviction loop drops.       *)
LeastEvicted(order, total, sizeOf) ==
  LET fits(n) == /\ Len(order) - n <= MaxEntries
                 /\ total - Volume(LeastRecent(order, n), sizeOf) <= MaxBytes
  IN  CHOOSE n \in 0..Len(order) : fits(n) /\ \A m \in 0..(n - 1) : ~fits(m)

(* store: replaces the entry whatever it held, as of a clock reading taken *)
(* some time after the answer, then evicts.                                *)
Store(f, t) ==
  LET k == flight[f].key
      order == Append(Without(k), k)
      stored == [entries EXCEPT ![k] =
                   [freshUntil |-> t + FreshTTL,
                    staleUntil |-> t + FreshTTL + StaleTTL,
                    size |-> flight[f].size]]
      sizeOf == [x \in Keys |-> stored[x].size]
      total == bytes - entries[k].size + flight[f].size
      n == LeastEvicted(order, total, sizeOf)
  IN  /\ flight[f].phase = "answered"
      /\ t \in flight[f].at..now
      /\ entries' = [x \in Keys |-> IF x \in LeastRecent(order, n) THEN NoEntry
                                                             ELSE stored[x]]
      /\ recency' = SubSeq(order, n + 1, Len(order))
      /\ bytes' = total - Volume(LeastRecent(order, n), sizeOf)
      /\ flight' = [flight EXCEPT ![f].phase = "stored", ![f].size = 0,
                                  ![f].at = 0]
      /\ UNCHANGED <<inflight, call, now>>

UnregisterKey(f) ==   \* slip: whoever is registered is removed
  inflight' = [inflight EXCEPT ![flight[f].key] = None]
UnregisterNever(f) == UNCHANGED inflight   \* slip: the slot is kept

Unregister(f) ==
  inflight' = [k \in Keys |-> IF k = flight[f].key /\ inflight[k] = f
                              THEN None ELSE inflight[k]]

(* Publishing the outcome and leaving the map are one critical section.    *)
Publish(f) ==
  /\ flight[f].phase = "stored"
  /\ flight' = [flight EXCEPT ![f].phase = "done", ![f].keepAlive = FALSE,
                              ![f].cancelled = FALSE]
  /\ Unregister(f)
  /\ UNCHANGED <<entries, recency, bytes, call, now>>

Tick ==
  /\ now < MaxTime
  /\ now' = now + 1
  /\ UNCHANGED <<entries, recency, bytes, inflight, flight, call>>

Cacheable == {s \in Sizes : s <= MaxEntryBytes}

CallerStep(c) == FreshHit(c) \/ StaleHit(c) \/ Miss(c) \/ WaitEnds(c, FALSE)
                 \/ ReleaseWaiter(c) \/ Cancel(c)
FlightStep(f) ==
  \/ \E size \in Cacheable \cup {0} : ProviderReturns(f, size)
  \/ \E t \in 0..MaxTime : Store(f, t)
  \/ Publish(f)

Next ==
  \/ \E c \in Callers :
       \/ \E k \in Keys : SearchBatch(c, k)
       \/ CallerStep(c) \/ WaitEnds(c, TRUE) \/ DirectReturns(c)
  \/ \E f \in Flights : FlightStep(f)
  \/ Tick

Spec == Init /\ [][Next]_vars

(* Goroutines run; a flight's provider call ends because its context has a *)
(* deadline (RefreshTimeout).  Nothing is assumed of callers' contexts, of *)
(* direct calls, or of new calls arriving.                                 *)
Fairness == /\ \A c \in Callers : WF_vars(CallerStep(c))
            /\ \A f \in Flights : WF_vars(FlightStep(f))
FairSpec == Spec /\ Fairness

-----------------------------------------------------------------------------
TypeOK ==
  /\ entries \in [Keys -> Entry] /\ bytes \in Nat
  /\ recency \in Seq(Keys)
  /\ inflight \in [Keys -> Flights \cup {None}]
  /\ flight \in [Flights -> Flight]
  /\ call \in [Callers -> Call]
  /\ now \in Nat

(* The running total is the sum over what is stored, the recency order     *)
(* lists exactly what is stored, and both limits hold after every          *)
(* replacement, expiry and eviction.                                       *)
CacheAccounted ==
  LET stored == {k \in Keys : Present(k)}
  IN  /\ bytes = Volume(stored, [k \in Keys |-> entries[k].size])
      /\ bytes <= MaxBytes /\ Cardinality(stored) <= MaxEntries
      /\ Len(recency) = Cardinality(stored)
      /\ {recency[i] : i \in 1..Len(recency)} = stored

(* Cancelling one caller never costs another its answer: a flight somebody *)
(* still waits for, or that refreshes a stale entry, has not been          *)
(* cancelled and is not about to be.                                       *)
OthersUndisturbed ==
  \A f \in Flights :
    Running(f) /\ (flight[f].keepAlive
                   \/ \E c \in Callers : Attached(c, f))
      => /\ ~flight[f].cancelled
         /\ \A c \in Callers : ~(call[c].phase = "cancelling"
                                 /\ call[c].work = f)

(* Identical queries coalesce and slots are not lost: a flight is in the   *)
(* map exactly while it runs and somebody wants its outcome, so a second   *)
(* caller joins it and an abandoned or finished one holds no slot.         *)
RegisteredWhileWanted ==
  \A f \in Flights :
    inflight[flight[f].key] = f
      <=> Running(f) /\ (flight[f].keepAlive
                         \/ \E c \in Callers : Attached(c, f))

(* A provider failure or a cancelled refresh leaves a cached entry alone:  *)
(* an entry disappears only when a caller finds it expired or an answer is *)
(* being stored, and its deadlines change only when an answer is stored.   *)
EntriesSurviveFailures ==
  [][\A k \in Keys :
       Present(k) /\ entries'[k] # entries[k] =>
         \/ \E f \in Flights : /\ flight[f].phase = "answered"
                               /\ flight'[f].phase = "stored"
                               /\ Present(k)' => flight[f].key = k
         \/ /\ ~Present(k)'
            /\ \E c \in Callers : /\ call[c].phase = "looking"
                                  /\ call[c].key = k
                                  /\ call[c].at >= entries[k].staleUntil]_vars

(* Every caller that waits for a shared fill is eventually answered, and   *)
(* every slot is eventually given back.                                    *)
WaitersReturn == \A c \in Callers :
  (call[c].phase \in {"waiting", "leaving", "cancelling"})
    ~> (call[c].phase = "idle")
SlotsComeBack == \A k \in Keys, f \in Flights :
  (inflight[k] = f) ~> (inflight[k] # f)

(* Nobody is kept for ever: neither who waits for a fill (or has given it  *)
(* up), nor who needs the slot of one.                                     *)
EveryoneServed == WaitersReturn /\ SlotsComeBack
=============================================================================
