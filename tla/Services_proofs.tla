------------------------ MODULE Services_proofs ------------------------
(* What the components of one search server promise each other, for any    *)
(* number of keys, callers, requests, workers, nodes and instances: sharing *)
(* a fill is safe for the callers that share it and the cache keeps to its  *)
(* limits (DiscoveryCache), page fetches charge what they keep and own the  *)
(* locks they hold (ArtifactFetch), and searches over the SearXNG instances *)
(* are told what the instances said (SearxPool).                            *)
EXTENDS DiscoveryCache, ArtifactFetch, SearxPool,
        FiniteSetTheorems, SequenceTheorems, WellFoundedInduction, TLAPS

CallsTyped ==
  /\ inflight \in [Keys -> Flights \cup {None}]
  /\ flight \in [Flights -> Flight]
  /\ call \in [Callers -> Call]
  /\ now \in Nat

(* A caller refers to a flight exactly while it waits, leaves or cancels.  *)
Referring == {"waiting", "leaving", "cancelling"}
CallsPlaced ==
  \A c \in Callers : IF call[c].phase \in Referring THEN call[c].work \in Flights
                                                    ELSE call[c].work = None

WaitersOf(f) == {c \in Callers : Attached(c, f)}
Wanted(f) == flight[f].keepAlive \/ \E c \in Callers : Attached(c, f)
Cancelling(c, f) == call[c].phase = "cancelling" /\ call[c].work = f

(* The counter is the number of callers attached, also after publication.  *)
WaitersCounted ==
  \A f \in Flights : flight[f].waiters = Cardinality(WaitersOf(f))

KeysMatch ==
  \A k \in Keys, f \in Flights : inflight[k] = f => flight[f].key = k

Registration ==
  \A f \in Flights : inflight[flight[f].key] = f <=> Running(f) /\ Wanted(f)
Undisturbed ==
  \A f \in Flights : Running(f) /\ Wanted(f) =>
    ~flight[f].cancelled /\ \A c \in Callers : ~Cancelling(c, f)

Sharing == /\ CallsTyped /\ CallsPlaced /\ WaitersCounted /\ KeysMatch
           /\ Registration /\ Undisturbed

LEMMA SharingGivesProperties ==
  Sharing => RegisteredWhileWanted /\ OthersUndisturbed
  BY DEF Sharing, Registration, Undisturbed, RegisteredWhileWanted,
         OthersUndisturbed, Wanted, Cancelling

LEMMA WaitersFinite ==
  ASSUME NEW f
  PROVE  IsFiniteSet(WaitersOf(f)) /\ Cardinality(WaitersOf(f)) \in Nat
<1>1. WaitersOf(f) \subseteq Callers
  BY DEF WaitersOf
<1> QED
  BY <1>1, FlightsAssumption, FS_Subset, FS_CardinalityType

LEMMA SharingInit == Init => Sharing
<1> SUFFICES ASSUME Init PROVE Sharing
  OBVIOUS
<1>1. /\ \A c \in Callers : call[c].phase = "idle" /\ call[c].work = None
      /\ \A f \in Flights : flight[f] = Unused
      /\ \A k \in Keys : inflight[k] = None
  BY DEF Init, Idle
<1>2. AnyKey \in Keys
  BY FlightsAssumption DEF AnyKey
<1>3. CallsTyped
  BY <1>2 DEF Init, CallsTyped, Unused, Idle, Flight, Call
<1>4. \A f \in Flights : /\ WaitersOf(f) = {} /\ ~Running(f)
                         /\ flight[f].waiters = 0
  BY <1>1 DEF WaitersOf, Attached, Running, Unused
<1>5. Cardinality({}) = 0
  BY FS_EmptySet
<1>6. CallsPlaced /\ WaitersCounted /\ Undisturbed
  BY <1>1, <1>4, <1>5
  DEF CallsPlaced, Referring, WaitersCounted, Undisturbed
<1>7. KeysMatch /\ Registration
  BY <1>1, <1>3, <1>4, FlightsAssumption
  DEF KeysMatch, Registration, CallsTyped, Flight
<1> QED
  BY <1>3, <1>6, <1>7 DEF Sharing

-----------------------------------------------------------------------------
(* Most steps leave the sharing as it is.                                  *)
Neutral ==
  /\ inflight' = inflight
  /\ \A f \in Flights :
       /\ flight'[f].key = flight[f].key
       /\ flight'[f].waiters = flight[f].waiters
       /\ flight'[f].keepAlive = flight[f].keepAlive
       /\ flight'[f].cancelled = flight[f].cancelled
       /\ Running(f)' <=> Running(f)
  /\ \A c \in Callers, f \in Flights :
       /\ Attached(c, f)' <=> Attached(c, f)
       /\ Cancelling(c, f)' <=> Cancelling(c, f)

LEMMA NeutralShares ==
  ASSUME Sharing, CallsTyped', CallsPlaced', Neutral
  PROVE  Sharing'
<1>1. \A f \in Flights : WaitersOf(f)' = WaitersOf(f) /\ (Wanted(f)' <=> Wanted(f))
  BY DEF Neutral, WaitersOf, Wanted
<1>2. WaitersCounted'
  BY <1>1 DEF Sharing, WaitersCounted, Neutral
<1>3. KeysMatch' /\ Registration'
  BY <1>1 DEF Sharing, KeysMatch, Registration, Neutral, CallsTyped
<1>4. Undisturbed'
  BY <1>1 DEF Sharing, Undisturbed, Neutral
<1> QED
  BY <1>2, <1>3, <1>4 DEF Sharing

LEMMA CallerNeutral ==
  ASSUME Sharing, NEW c \in Callers,
         \/ \E k \in Keys : SearchBatch(c, k)
         \/ FreshHit(c) \/ DirectReturns(c)
         \/ WaitEnds(c, TRUE) \/ WaitEnds(c, FALSE)
  PROVE  Sharing'
<1> USE DEF Referring
<1>1. AnyKey \in Keys
  BY FlightsAssumption DEF AnyKey
<1>2. PICK new : /\ call' = [call EXCEPT ![c] = new]
                 /\ UNCHANGED <<inflight, flight, now>>
                 /\ \/ /\ call[c].phase \notin Referring
                       /\ new \in Call /\ new.work = None
                       /\ new.phase \notin Referring
                    \/ /\ call[c].phase = "waiting"
                       /\ new = [call[c] EXCEPT !.phase = "leaving"]
  <2>1. CASE \E k \in Keys : SearchBatch(c, k)
    <3>1. PICK k \in Keys : SearchBatch(c, k)
      BY <2>1
    <3> DEFINE new == [Idle EXCEPT !.phase = "looking", !.key = k, !.at = now]
    <3>2. /\ call[c] = Idle /\ call' = [call EXCEPT ![c] = new]
          /\ UNCHANGED <<inflight, flight, now>>
      BY <3>1 DEF SearchBatch
    <3>4. call[c].phase = "idle"
      BY <3>2 DEF Idle
    <3>3. new \in Call /\ new.work = None /\ new.phase = "looking"
      BY <1>1 DEF Idle, Call, Sharing, CallsTyped
    <3> HIDE DEF new
    <3> QED
      BY <3>2, <3>3, <3>4
  <2>2. CASE FreshHit(c) \/ DirectReturns(c)
    <3>1. Idle \in Call /\ Idle.work = None /\ Idle.phase = "idle"
      BY <1>1 DEF Idle, Call
    <3>2. call[c].phase \in {"looking", "direct"}
      BY <2>2 DEF FreshHit, DirectReturns
    <3>3. /\ call' = [call EXCEPT ![c] = Idle]
          /\ UNCHANGED <<inflight, flight, now>>
      BY <2>2 DEF FreshHit, DirectReturns
    <3> QED
      BY <3>1, <3>2, <3>3
  <2>3. CASE WaitEnds(c, TRUE) \/ WaitEnds(c, FALSE)
    BY <2>3 DEF WaitEnds, Sharing, CallsTyped, Call
  <2> QED
    BY <2>1, <2>2, <2>3
<1>3. CallsTyped' /\ CallsPlaced'
  BY <1>2 DEF Sharing, CallsTyped, CallsPlaced, Call
<1>4. \A d \in Callers, f \in Flights :
        /\ Attached(d, f)' <=> Attached(d, f)
        /\ Cancelling(d, f)' <=> Cancelling(d, f)
  BY <1>2 DEF Sharing, CallsTyped, Call, Attached, Cancelling
<1>5. Neutral
  BY <1>2, <1>4 DEF Neutral, Running
<1> QED
  BY <1>3, <1>5, NeutralShares

LEMMA FlightNeutral ==
  ASSUME Sharing, NEW f \in Flights, NEW size \in Nat, NEW t \in Nat,
         ProviderReturns(f, size) \/ Store(f, t)
  PROVE  Sharing'
<1>1. PICK new \in Flight :
        /\ flight' = [flight EXCEPT ![f] = new]
        /\ UNCHANGED <<inflight, call, now>>
        /\ new.key = flight[f].key /\ new.waiters = flight[f].waiters
        /\ new.keepAlive = flight[f].keepAlive
        /\ new.cancelled = flight[f].cancelled
        /\ {flight[f].phase, new.phase} \subseteq {"calling", "answered", "stored"}
  <2>1. flight[f] \in Flight /\ now \in Nat
    BY DEF Sharing, CallsTyped
  <2>2. CASE ProviderReturns(f, size)
    <3> DEFINE ph == IF size > 0 THEN "answered" ELSE "stored"
               at == IF size > 0 THEN now ELSE 0
               new == [flight[f] EXCEPT !.phase = ph, !.size = size, !.at = at]
    <3>1. /\ flight' = [flight EXCEPT ![f] = new]
          /\ flight[f].phase = "calling"
          /\ UNCHANGED <<inflight, call, now>>
      BY <2>1, <2>2 DEF ProviderReturns, Sharing, CallsTyped
    <3>2. ph \in {"answered", "stored"} /\ at \in Nat
      BY <2>1
    <3>3. new \in Flight /\ new.phase = ph /\ new.key = flight[f].key
          /\ new.waiters = flight[f].waiters
          /\ new.keepAlive = flight[f].keepAlive
          /\ new.cancelled = flight[f].cancelled
      <4> HIDE DEF ph, at
      <4> QED BY <2>1, <3>2 DEF Flight
    <3> HIDE DEF new
    <3> QED
      BY <3>1, <3>2, <3>3
  <2>3. CASE Store(f, t)
    <3> DEFINE new == [flight[f] EXCEPT !.phase = "stored", !.size = 0, !.at = 0]
    <3>1. /\ flight' = [flight EXCEPT ![f] = new]
          /\ flight[f].phase = "answered"
          /\ UNCHANGED <<inflight, call, now>>
      BY <2>1, <2>3 DEF Store, Sharing, CallsTyped
    <3>2. new \in Flight /\ new.phase = "stored" /\ new.key = flight[f].key
          /\ new.waiters = flight[f].waiters
          /\ new.keepAlive = flight[f].keepAlive
          /\ new.cancelled = flight[f].cancelled
      BY <2>1 DEF Flight
    <3> HIDE DEF new
    <3> QED
      BY <3>1, <3>2
  <2> QED
    BY <2>2, <2>3
<1>2. CallsTyped' /\ CallsPlaced'
  BY <1>1 DEF Sharing, CallsTyped, CallsPlaced
<1>3. \A g \in Flights :
        /\ flight'[g].key = flight[g].key
        /\ flight'[g].waiters = flight[g].waiters
        /\ flight'[g].keepAlive = flight[g].keepAlive
        /\ flight'[g].cancelled = flight[g].cancelled
        /\ Running(g)' <=> Running(g)
  BY <1>1 DEF Sharing, CallsTyped, Running
<1>4. Neutral
  BY <1>1, <1>3 DEF Neutral, Attached, Cancelling
<1> QED
  BY <1>2, <1>4, NeutralShares

LEMMA PublishShares ==
  ASSUME Sharing, NEW f \in Flights, Publish(f)
  PROVE  Sharing'
<1> DEFINE new == [flight[f] EXCEPT !.phase = "done", !.keepAlive = FALSE,
                                    !.cancelled = FALSE]
<1>1. /\ flight[f] \in Flight /\ flight' = [flight EXCEPT ![f] = new]
      /\ UNCHANGED <<call, now>> /\ Running(f)
      /\ inflight' = [k \in Keys |-> IF k = flight[f].key /\ inflight[k] = f
                                     THEN None ELSE inflight[k]]
  BY DEF Publish, Unregister, Sharing, CallsTyped, Running
<1>2. /\ new \in Flight /\ new.phase = "done" /\ new.key = flight[f].key
      /\ new.waiters = flight[f].waiters /\ flight[f].key \in Keys
  BY <1>1 DEF Flight
<1> HIDE DEF new
<1>3. CallsTyped' /\ CallsPlaced'
  BY <1>1, <1>2 DEF Sharing, CallsTyped, CallsPlaced
<1>4. \A c \in Callers, g \in Flights :
        /\ Attached(c, g)' <=> Attached(c, g)
        /\ Cancelling(c, g)' <=> Cancelling(c, g)
  BY <1>1 DEF Attached, Cancelling
<1>5. \A g \in Flights :
        /\ flight'[g].key = flight[g].key
        /\ flight'[g].waiters = flight[g].waiters
        /\ g # f => flight'[g] = flight[g]
        /\ WaitersOf(g)' = WaitersOf(g)
  BY <1>1, <1>2, <1>4 DEF Sharing, CallsTyped, WaitersOf
<1>6. ~Running(f)' /\ \A g \in Flights \ {f} :
        (Running(g)' <=> Running(g)) /\ (Wanted(g)' <=> Wanted(g))
  BY <1>1, <1>2, <1>4, <1>5 DEF Running, Wanted, Sharing, CallsTyped
<1>7. WaitersCounted'
  BY <1>5 DEF Sharing, WaitersCounted
<1>8. KeysMatch'
  BY <1>1, <1>5, FlightsAssumption DEF Sharing, KeysMatch
<1>9. Registration'
  <2>1. ASSUME NEW g \in Flights
        PROVE  flight[g].key \in Keys
    BY DEF Sharing, CallsTyped, Flight
  <2>2. inflight'[flight'[f].key] # f
    BY <1>1, <1>2, <1>5, FlightsAssumption
  <2>3. ASSUME NEW g \in Flights \ {f}
        PROVE  inflight'[flight'[g].key] = g <=> inflight[flight[g].key] = g
    BY <1>1, <1>5, <2>1, FlightsAssumption
  <2> QED
    BY <1>6, <2>2, <2>3 DEF Sharing, Registration
<1>10. Undisturbed'
  BY <1>4, <1>5, <1>6 DEF Sharing, Undisturbed
<1> QED
  BY <1>3, <1>7, <1>8, <1>9, <1>10 DEF Sharing

LEMMA CancelShares ==
  ASSUME Sharing, NEW c \in Callers, Cancel(c)
  PROVE  Sharing'
<1> DEFINE f == call[c].work
<1> USE DEF Referring
<1>1. /\ call[c].phase = "cancelling" /\ f \in Flights
      /\ call' = [call EXCEPT ![c] = Idle]
      /\ flight' = [flight EXCEPT ![f] =
                      [flight[f] EXCEPT !.cancelled = Running(f)]]
      /\ UNCHANGED <<inflight, now>> /\ flight[f] \in Flight
  BY DEF Cancel, Sharing, CallsPlaced, CallsTyped
<1>2. Idle \in Call /\ Idle.work = None /\ Idle.phase = "idle"
  BY FlightsAssumption DEF Idle, Call, AnyKey
<1>3. Running(f) \in BOOLEAN
  BY DEF Running
<1>4. \A g \in Flights :
        /\ flight'[g] \in Flight
        /\ flight'[g].key = flight[g].key
        /\ flight'[g].waiters = flight[g].waiters
        /\ flight'[g].keepAlive = flight[g].keepAlive
        /\ flight'[g].phase = flight[g].phase
        /\ g # f => flight'[g].cancelled = flight[g].cancelled
  <2>1. [flight[f] EXCEPT !.cancelled = Running(f)] \in Flight
    <3> HIDE DEF f
    <3> QED BY <1>1, <1>3 DEF Flight
  <2> QED
    BY <1>1, <2>1 DEF Sharing, CallsTyped, Flight
<1>5. CallsTyped' /\ CallsPlaced'
  <2>1. flight' \in [Flights -> Flight]
    BY <1>1, <1>4 DEF Sharing, CallsTyped
  <2> QED
    BY <1>1, <1>2, <2>1 DEF Sharing, CallsTyped, CallsPlaced
<1>6. \A d \in Callers, g \in Flights :
        /\ Attached(d, g)' <=> Attached(d, g)
        /\ Cancelling(d, g)' <=> Cancelling(d, g) /\ d # c
  BY <1>1, <1>2 DEF Attached, Cancelling, Sharing, CallsTyped
<1>7. \A g \in Flights : /\ WaitersOf(g)' = WaitersOf(g)
                         /\ Wanted(g)' <=> Wanted(g)
                         /\ Running(g)' <=> Running(g)
  BY <1>4, <1>6 DEF WaitersOf, Wanted, Running
<1>8. WaitersCounted' /\ KeysMatch' /\ Registration'
  BY <1>1, <1>4, <1>7 DEF Sharing, WaitersCounted, KeysMatch, Registration
<1>9. ~(Running(f) /\ Wanted(f))
  BY <1>1 DEF Sharing, Undisturbed, Cancelling
<1>10. Undisturbed'
  BY <1>4, <1>6, <1>7, <1>9 DEF Sharing, Undisturbed
<1> QED
  BY <1>5, <1>8, <1>10 DEF Sharing

(* A caller that has only looked refers to no flight yet.                  *)
LEMMA LookingRefersToNone ==
  ASSUME Sharing, NEW c \in Callers, call[c].phase = "looking", NEW f \in Flights
  PROVE  call[c].work = None /\ ~Attached(c, f) /\ ~Cancelling(c, f)
  BY FlightsAssumption
  DEF Sharing, CallsPlaced, Referring, Attached, Cancelling

(* A registered flight is running, wanted and undisturbed, so joining it   *)
(* only adds a caller that counts.                                         *)
LEMMA JoinShares ==
  ASSUME Sharing, NEW c \in Callers, call[c].phase = "looking",
         NEW refresh \in BOOLEAN, inflight[call[c].key] # None,
         StartFlight(c, refresh), now' = now
  PROVE  Sharing'
<1>0. PICK f \in Flights : f = inflight[call[c].key]
  BY DEF Sharing, CallsTyped, Call
<1> DEFINE k == call[c].key
           n == IF refresh THEN flight[f].waiters ELSE flight[f].waiters + 1
           new == [flight[f] EXCEPT !.keepAlive = @ \/ refresh, !.waiters = n]
           w == IF refresh THEN Idle
                ELSE [call[c] EXCEPT !.phase = "waiting", !.at = 0, !.work = f]
<1>1. /\ k \in Keys /\ inflight[k] = f /\ flight[f] \in Flight /\ call[c] \in Call
      /\ flight[f].key = k
  BY <1>0 DEF Sharing, CallsTyped, Call, KeysMatch
<1>2. /\ flight' = [flight EXCEPT ![f] = new] /\ inflight' = inflight
      /\ call' = [call EXCEPT ![c] = w]
  BY <1>0 DEF StartFlight, JoinFlight
<1>3. n \in Nat /\ (refresh => n = flight[f].waiters)
      /\ (~refresh => n = flight[f].waiters + 1)
  BY <1>1 DEF Flight
<1>4. /\ new \in Flight /\ new.key = flight[f].key /\ new.phase = flight[f].phase
      /\ new.waiters = n /\ new.cancelled = flight[f].cancelled
      /\ flight[f].keepAlive => new.keepAlive
  <2> HIDE DEF n
  <2> QED
    BY <1>1, <1>3 DEF Flight
<1>5. /\ w \in Call
      /\ refresh => w.phase = "idle" /\ w.work = None
      /\ ~refresh => w.phase = "waiting" /\ w.work = f
  <2>1. AnyKey \in Keys
    BY FlightsAssumption DEF AnyKey
  <2> QED
    BY <1>1, <2>1 DEF Idle, Call
<1>6. Running(f) /\ Wanted(f) /\ ~flight[f].cancelled
      /\ \A d \in Callers : ~Cancelling(d, f)
  BY <1>1 DEF Sharing, Registration, Undisturbed
<1> HIDE DEF k, n, new, w
<1>7. CallsTyped' /\ CallsPlaced'
  BY <1>1, <1>2, <1>4, <1>5, FlightsAssumption
  DEF Sharing, CallsTyped, CallsPlaced, Referring
<1>8. \A d \in Callers, g \in Flights :
        /\ Attached(d, g)' <=> Attached(d, g) \/ (d = c /\ g = f /\ ~refresh)
        /\ Cancelling(d, g)' <=> Cancelling(d, g)
  BY <1>1, <1>2, <1>5, LookingRefersToNone, FlightsAssumption
  DEF Attached, Cancelling, Sharing, CallsTyped
<1>9. /\ \A g \in Flights : g # f \/ refresh => WaitersOf(g)' = WaitersOf(g)
      /\ ~refresh => WaitersOf(f)' = WaitersOf(f) \cup {c}
      /\ c \notin WaitersOf(f)
  BY <1>1, <1>8, LookingRefersToNone DEF WaitersOf
<1>10. \A g \in Flights :
         /\ flight'[g].key = flight[g].key
         /\ flight'[g].cancelled = flight[g].cancelled
         /\ flight'[g].phase = flight[g].phase
         /\ g # f => flight'[g] = flight[g]
         /\ flight[g].keepAlive => flight'[g].keepAlive
  BY <1>1, <1>2, <1>4 DEF Sharing, CallsTyped
<1>11. \A g \in Flights : /\ Running(g)' <=> Running(g)
                          /\ Wanted(g)' <=> Wanted(g)
  <2>1. Wanted(f)'
    BY <1>1, <1>6, <1>8, <1>10 DEF Wanted
  <2>2. \A g \in Flights \ {f} : Wanted(g)' <=> Wanted(g)
    BY <1>8, <1>10 DEF Wanted
  <2> QED
    BY <1>6, <1>10, <2>1, <2>2 DEF Running
<1>12. WaitersCounted'
  <2> SUFFICES ASSUME NEW g \in Flights
               PROVE  flight'[g].waiters = Cardinality(WaitersOf(g)')
    BY DEF WaitersCounted
  <2>1. flight[g].waiters = Cardinality(WaitersOf(g))
    BY DEF Sharing, WaitersCounted
  <2>2. CASE g # f
    BY <1>9, <1>10, <2>1, <2>2
  <2>3. CASE g = f
    <3>1. flight'[f].waiters = n
      BY <1>1, <1>2, <1>4 DEF Sharing, CallsTyped
    <3>2. Cardinality(WaitersOf(f) \cup {c}) = Cardinality(WaitersOf(f)) + 1
      BY <1>9, WaitersFinite, FS_AddElement
    <3> QED
      BY <1>3, <1>9, <2>1, <2>3, <3>1, <3>2
  <2> QED
    BY <2>2, <2>3
<1>13. KeysMatch' /\ Registration'
  BY <1>2, <1>10, <1>11 DEF Sharing, KeysMatch, Registration
<1>14. Undisturbed'
  BY <1>8, <1>10, <1>11 DEF Sharing, Undisturbed
<1> QED
  BY <1>7, <1>12, <1>13, <1>14 DEF Sharing

(* A new flight takes an identity nobody refers to.                        *)
LEMMA RegisterShares ==
  ASSUME Sharing, NEW c \in Callers, call[c].phase = "looking",
         NEW refresh \in BOOLEAN, inflight[call[c].key] = None,
         NEW f \in Reusable,
         flight' = [flight EXCEPT ![f] =
           [Unused EXCEPT !.phase = "calling", !.key = call[c].key,
                          !.keepAlive = refresh,
                          !.waiters = IF refresh THEN 0 ELSE 1]],
         inflight' = [inflight EXCEPT ![call[c].key] = f],
         call' = [call EXCEPT ![c] = IF refresh THEN Idle
                    ELSE [call[c] EXCEPT !.phase = "waiting", !.at = 0,
                                         !.work = f]],
         now' = now
  PROVE  Sharing'
<1> DEFINE k == call[c].key
           n == IF refresh THEN 0 ELSE 1
           new == [Unused EXCEPT !.phase = "calling", !.key = k,
                                 !.keepAlive = refresh, !.waiters = n]
           w == IF refresh THEN Idle
                ELSE [call[c] EXCEPT !.phase = "waiting", !.at = 0, !.work = f]
<1>0. AnyKey \in Keys
  BY FlightsAssumption DEF AnyKey
<1>1. /\ k \in Keys /\ f \in Flights /\ call[c] \in Call /\ ~Running(f)
      /\ inflight[k] = None /\ \A d \in Callers : call[d].work # f
  BY DEF Sharing, CallsTyped, Call, Reusable
<1>2. /\ flight' = [flight EXCEPT ![f] = new]
      /\ inflight' = [inflight EXCEPT ![k] = f]
      /\ call' = [call EXCEPT ![c] = w]
  OBVIOUS
<1>3. /\ new \in Flight /\ new.key = k /\ new.phase = "calling"
      /\ new.waiters = n /\ ~new.cancelled /\ new.keepAlive = refresh
  <2>1. n \in Nat
    OBVIOUS
  <2> HIDE DEF n, k
  <2> QED
    BY <1>0, <1>1, <2>1 DEF Flight, Unused
<1>4. /\ w \in Call
      /\ refresh => w.phase = "idle" /\ w.work = None
      /\ ~refresh => w.phase = "waiting" /\ w.work = f
  BY <1>0, <1>1 DEF Idle, Call
<1>5. /\ refresh => n = 0
      /\ ~refresh => n = 1
  OBVIOUS
<1>6. \A g \in Flights : inflight[flight[g].key] = g => g # f
  BY <1>1 DEF Sharing, Registration
<1> HIDE DEF k, n, new, w
<1>7. CallsTyped' /\ CallsPlaced'
  BY <1>1, <1>2, <1>3, <1>4, FlightsAssumption
  DEF Sharing, CallsTyped, CallsPlaced, Referring
<1>8. \A d \in Callers, g \in Flights :
        /\ Attached(d, g)' <=> Attached(d, g) \/ (d = c /\ g = f /\ ~refresh)
        /\ Cancelling(d, g)' <=> Cancelling(d, g)
  BY <1>1, <1>2, <1>4, LookingRefersToNone, FlightsAssumption
  DEF Attached, Cancelling, Sharing, CallsTyped
<1>9. \A d \in Callers : ~Attached(d, f) /\ ~Cancelling(d, f)
  BY <1>1 DEF Attached, Cancelling
<1>10. /\ \A g \in Flights \ {f} : WaitersOf(g)' = WaitersOf(g)
       /\ refresh => WaitersOf(f)' = {}
       /\ ~refresh => WaitersOf(f)' = {c}
  BY <1>1, <1>8, <1>9 DEF WaitersOf
<1>11. /\ flight'[f] = new
       /\ \A g \in Flights \ {f} : flight'[g] = flight[g]
  BY <1>1, <1>2 DEF Sharing, CallsTyped
<1>12. /\ Running(f)' /\ Wanted(f)'
       /\ \A g \in Flights \ {f} : (Running(g)' <=> Running(g))
                                   /\ (Wanted(g)' <=> Wanted(g))
  BY <1>1, <1>3, <1>8, <1>11 DEF Running, Wanted
<1>13. WaitersCounted'
  <2>1. Cardinality({}) = 0 /\ Cardinality({c}) = 1
    BY FS_EmptySet, FS_Singleton
  <2> QED
    BY <1>3, <1>5, <1>10, <1>11, <2>1 DEF Sharing, WaitersCounted
<1>14. KeysMatch'
  <2> SUFFICES ASSUME NEW j \in Keys, NEW g \in Flights, inflight'[j] = g
               PROVE  flight'[g].key = j
    BY DEF KeysMatch
  <2>1. CASE j = k
    BY <1>1, <1>2, <1>3, <1>11, <2>1 DEF Sharing, CallsTyped
  <2>2. CASE j # k
    <3>1. inflight[j] = g /\ flight[g].key = j
      BY <1>2, <2>2 DEF Sharing, CallsTyped, KeysMatch
    <3> QED
      BY <1>6, <1>11, <3>1
  <2> QED
    BY <2>1, <2>2
<1>15. Registration'
  <2>1. inflight'[flight'[f].key] = f
    BY <1>1, <1>2, <1>3, <1>11 DEF Sharing, CallsTyped
  <2>2. ASSUME NEW g \in Flights \ {f}
        PROVE  inflight'[flight'[g].key] = g <=> inflight[flight[g].key] = g
    <3>1. flight[g].key \in Keys
      BY DEF Sharing, CallsTyped, Flight
    <3> QED
      BY <1>1, <1>2, <1>11, <3>1, FlightsAssumption DEF Sharing, CallsTyped
  <2> QED
    BY <1>12, <2>1, <2>2 DEF Sharing, Registration
<1>16. Undisturbed'
  BY <1>3, <1>8, <1>9, <1>11, <1>12 DEF Sharing, Undisturbed
<1> QED
  BY <1>7, <1>13, <1>14, <1>15, <1>16 DEF Sharing

(* With every slot taken the caller does without a flight.                 *)
LEMMA OverloadShares ==
  ASSUME Sharing, NEW c \in Callers, call[c].phase = "looking",
         NEW new \in Call, new.work = None, new.phase \in {"idle", "direct"},
         call' = [call EXCEPT ![c] = new],
         UNCHANGED <<inflight, flight, now>>
  PROVE  Sharing'
<1>1. CallsTyped' /\ CallsPlaced'
  BY DEF Sharing, CallsTyped, CallsPlaced, Referring
<1>2. \A d \in Callers, g \in Flights :
        /\ Attached(d, g)' <=> Attached(d, g)
        /\ Cancelling(d, g)' <=> Cancelling(d, g)
  BY LookingRefersToNone, FlightsAssumption
  DEF Attached, Cancelling, Sharing, CallsTyped
<1> QED
  BY <1>1, <1>2, NeutralShares DEF Neutral, Running

LEMMA StartShares ==
  ASSUME Sharing, NEW c \in Callers, call[c].phase = "looking",
         NEW refresh \in BOOLEAN, StartFlight(c, refresh), now' = now
  PROVE  Sharing'
<1>1. CASE inflight[call[c].key] # None
  BY <1>1, JoinShares
<1>2. CASE /\ inflight[call[c].key] = None
           /\ Cardinality(Registered) >= MaxInflight
  <2> DEFINE new == IF refresh THEN Idle ELSE [Idle EXCEPT !.phase = "direct"]
  <2>1. AnyKey \in Keys
    BY FlightsAssumption DEF AnyKey
  <2>2. new \in Call /\ new.work = None /\ new.phase \in {"idle", "direct"}
    BY <2>1 DEF Idle, Call
  <2>3. call' = [call EXCEPT ![c] = new] /\ UNCHANGED <<inflight, flight, now>>
    BY <1>2 DEF StartFlight
  <2> HIDE DEF new
  <2> QED
    BY <2>2, <2>3, OverloadShares
<1>3. CASE /\ inflight[call[c].key] = None
           /\ ~(Cardinality(Registered) >= MaxInflight)
  <2>1. PICK f \in Reusable :
          /\ flight' = [flight EXCEPT ![f] =
               [Unused EXCEPT !.phase = "calling", !.key = call[c].key,
                              !.keepAlive = refresh,
                              !.waiters = IF refresh THEN 0 ELSE 1]]
          /\ inflight' = [inflight EXCEPT ![call[c].key] = f]
          /\ call' = [call EXCEPT ![c] = IF refresh THEN Idle
                        ELSE [call[c] EXCEPT !.phase = "waiting", !.at = 0,
                                             !.work = f]]
    BY <1>3 DEF StartFlight
  <2> QED
    BY <1>3, <2>1, RegisterShares
<1> QED
  BY <1>1, <1>2, <1>3

(* The caller that leaves a wanted flight either was not the last or takes *)
(* the flight out of the map in the same step.                             *)
LEMMA ReleaseShares ==
  ASSUME Sharing, NEW c \in Callers, ReleaseWaiter(c)
  PROVE  Sharing'
<1>0. PICK f \in Flights : f = call[c].work
  BY DEF ReleaseWaiter, Sharing, CallsPlaced, Referring
<1> DEFINE new == [flight[f] EXCEPT !.waiters = @ - 1]
           w == IF LeavesLast(f) THEN [call[c] EXCEPT !.phase = "cancelling"]
                                 ELSE Idle
<1>1. /\ call[c].phase = "leaving" /\ call[c].work = f /\ flight[f] \in Flight
      /\ call[c] \in Call /\ flight[f].key \in Keys /\ Attached(c, f)
  BY <1>0 DEF ReleaseWaiter, Sharing, CallsTyped, Flight, Attached
<1>2. /\ flight' = [flight EXCEPT ![f] = new] /\ now' = now
      /\ call' = [call EXCEPT ![c] = w]
      /\ LeavesLast(f) => inflight' = [inflight EXCEPT ![flight[f].key] = None]
      /\ ~LeavesLast(f) => inflight' = inflight
  BY <1>0 DEF ReleaseWaiter
<1>3. /\ IsFiniteSet(WaitersOf(f)) /\ c \in WaitersOf(f)
      /\ flight[f].waiters = Cardinality(WaitersOf(f))
      /\ Cardinality(WaitersOf(f) \ {c}) = flight[f].waiters - 1
      /\ Cardinality(WaitersOf(f) \ {c}) \in Nat
  <2>1. IsFiniteSet(WaitersOf(f)) /\ c \in WaitersOf(f)
        /\ flight[f].waiters = Cardinality(WaitersOf(f))
    BY <1>1, WaitersFinite DEF Sharing, WaitersCounted, WaitersOf
  <2> QED
    BY <2>1, FS_RemoveElement, FS_CardinalityType
<1>4. /\ new \in Flight /\ new.key = flight[f].key /\ new.phase = flight[f].phase
      /\ new.waiters = flight[f].waiters - 1
      /\ new.keepAlive = flight[f].keepAlive
      /\ new.cancelled = flight[f].cancelled
  <2>1. flight[f].waiters - 1 \in Nat
    BY <1>3
  <2> QED
    BY <1>1, <2>1 DEF Flight
<1>5. /\ w \in Call
      /\ LeavesLast(f) => w.phase = "cancelling" /\ w.work = f
      /\ ~LeavesLast(f) => w.phase = "idle" /\ w.work = None
  <2>1. AnyKey \in Keys
    BY FlightsAssumption DEF AnyKey
  <2> QED
    BY <1>1, <2>1 DEF Idle, Call
<1> HIDE DEF new, w
<1>6. CallsTyped' /\ CallsPlaced'
  BY <1>1, <1>2, <1>4, <1>5, FlightsAssumption
  DEF Sharing, CallsTyped, CallsPlaced, Referring
<1>7. \A d \in Callers, g \in Flights :
        /\ Attached(d, g)' <=> Attached(d, g) /\ d # c
        /\ Cancelling(d, g)' <=>
             Cancelling(d, g) \/ (d = c /\ g = f /\ LeavesLast(f))
  BY <1>1, <1>2, <1>5, FlightsAssumption
  DEF Attached, Cancelling, Sharing, CallsTyped
<1>8. \A g \in Flights : Attached(c, g) => g = f
  BY <1>1 DEF Attached
<1>9. /\ WaitersOf(f)' = WaitersOf(f) \ {c}
      /\ \A g \in Flights \ {f} : WaitersOf(g)' = WaitersOf(g)
  BY <1>1, <1>7, <1>8 DEF WaitersOf
<1>10. \A g \in Flights :
         /\ flight'[g].key = flight[g].key
         /\ flight'[g].keepAlive = flight[g].keepAlive
         /\ flight'[g].cancelled = flight[g].cancelled
         /\ Running(g)' <=> Running(g)
         /\ g # f => flight'[g] = flight[g]
  BY <1>1, <1>2, <1>4 DEF Sharing, CallsTyped, Running
<1>11. \A g \in Flights : /\ Wanted(g)' => Wanted(g)
                          /\ g # f => (Wanted(g)' <=> Wanted(g))
  BY <1>7, <1>8, <1>10 DEF Wanted
<1>12. LeavesLast(f) => ~Wanted(f)'
  <2> SUFFICES ASSUME LeavesLast(f) PROVE ~Wanted(f)'
    OBVIOUS
  <2>1. Cardinality(WaitersOf(f) \ {c}) = 0
    BY <1>3 DEF LeavesLast
  <2>2. WaitersOf(f)' = {}
    BY <1>3, <1>9, <2>1, FS_RemoveElement, FS_EmptySet
  <2> QED
    BY <1>1, <1>10, <2>2 DEF LeavesLast, Wanted, WaitersOf
<1>13. ~LeavesLast(f) /\ Running(f) => Wanted(f)'
  <2> SUFFICES ASSUME ~LeavesLast(f), Running(f), ~flight[f].keepAlive
               PROVE  \E d \in Callers : Attached(d, f)'
    BY <1>1, <1>10 DEF Wanted
  <2>1. inflight[flight[f].key] = f
    BY <1>1 DEF Sharing, Registration, Wanted
  <2>2. Cardinality(WaitersOf(f) \ {c}) # 0
    BY <1>1, <1>3, <2>1 DEF LeavesLast, Flight
  <2>3. WaitersOf(f) \ {c} # {}
    BY <2>2, FS_EmptySet
  <2> QED
    BY <1>1, <1>7, <2>3 DEF WaitersOf
<1>14. WaitersCounted'
  <2>1. flight'[f].waiters = Cardinality(WaitersOf(f)')
    BY <1>1, <1>2, <1>3, <1>4, <1>9 DEF Sharing, CallsTyped
  <2> QED
    BY <1>9, <1>10, <2>1 DEF Sharing, WaitersCounted
<1>15. KeysMatch'
  BY <1>1, <1>2, <1>10, FlightsAssumption DEF Sharing, KeysMatch, CallsTyped
<1>16. Registration'
  <2>1. ASSUME NEW g \in Flights \ {f}
        PROVE  inflight'[flight'[g].key] = g <=> inflight[flight[g].key] = g
    <3>1. flight[g].key \in Keys
      BY DEF Sharing, CallsTyped, Flight
    <3>2. LeavesLast(f) => inflight[flight[f].key] = f
      BY DEF LeavesLast
    <3> QED
      BY <1>1, <1>2, <1>10, <3>1, <3>2, FlightsAssumption
      DEF Sharing, CallsTyped
  <2>2. LeavesLast(f) => inflight'[flight'[f].key] # f
    BY <1>1, <1>2, <1>10, FlightsAssumption DEF Sharing, CallsTyped
  <2>3. inflight[flight[f].key] = f <=> Running(f) /\ Wanted(f)
    BY <1>1 DEF Sharing, Registration
  <2>4. Wanted(f)
    BY <1>1 DEF Wanted
  <2>5. inflight'[flight'[f].key] = f <=> Running(f)' /\ Wanted(f)'
    BY <1>1, <1>2, <1>10, <1>12, <1>13, <2>2, <2>3, <2>4
  <2> QED
    BY <1>10, <1>11, <2>1, <2>5 DEF Sharing, Registration
<1>17. Undisturbed'
  BY <1>7, <1>10, <1>11, <1>12 DEF Sharing, Undisturbed
<1> QED
  BY <1>6, <1>14, <1>15, <1>16, <1>17 DEF Sharing

-----------------------------------------------------------------------------
LEMMA SharingStep ==
  ASSUME Sharing, [Next]_vars
  PROVE  Sharing'
<1>1. CASE UNCHANGED vars
  BY <1>1, NeutralShares
  DEF vars, Sharing, CallsTyped, CallsPlaced, Neutral, Running, Attached,
      Cancelling
<1>2. CASE Tick
  <2>1. UNCHANGED <<inflight, flight, call>> /\ now' \in Nat
    BY <1>2 DEF Tick, Sharing, CallsTyped
  <2>2. CallsTyped' /\ CallsPlaced'
    BY <2>1 DEF Sharing, CallsTyped, CallsPlaced
  <2> QED
    BY <2>1, <2>2, NeutralShares DEF Neutral, Running, Attached, Cancelling
<1>3. ASSUME NEW f \in Flights, FlightStep(f)
      PROVE  Sharing'
  <2>1. /\ \A s \in Cacheable \cup {0} : s \in Nat
        /\ \A t \in 0..MaxTime : t \in Nat
    BY CacheLimitsAssumption DEF Cacheable
  <2>2. ASSUME NEW size \in Cacheable \cup {0}, ProviderReturns(f, size)
        PROVE  Sharing'
    BY <2>1, <2>2, FlightNeutral
  <2>3. ASSUME NEW t \in 0..MaxTime, Store(f, t)
        PROVE  Sharing'
    BY <2>1, <2>3, FlightNeutral
  <2> QED
    BY <1>3, <2>2, <2>3, PublishShares DEF FlightStep
<1>4. ASSUME NEW c \in Callers,
             \/ \E k \in Keys : SearchBatch(c, k)
             \/ CallerStep(c) \/ WaitEnds(c, TRUE) \/ DirectReturns(c)
      PROVE  Sharing'
  <2>1. CASE StaleHit(c)
    BY <2>1, StartShares DEF StaleHit
  <2>2. CASE Miss(c)
    BY <2>2, StartShares DEF Miss
  <2> QED
    BY <1>4, <2>1, <2>2, CallerNeutral, ReleaseShares, CancelShares
    DEF CallerStep
<1> QED
  BY <1>1, <1>2, <1>3, <1>4 DEF Next

LEMMA SharingAlways == Spec => []Sharing
  BY SharingInit, SharingStep, PTL DEF Spec

(* Cancelling one caller never costs another its answer: releaseWaiter     *)
(* cancels a flight only after the last caller has left it, and nobody can *)
(* join it after that, for any number of callers, keys and limits.         *)
THEOREM SharersAreUndisturbed == Spec => []OthersUndisturbed
<1>1. Sharing => OthersUndisturbed
  BY SharingGivesProperties
<1> QED
  BY <1>1, SharingAlways, PTL

(* The map lists exactly the flights that are running and wanted, so a     *)
(* cold fill that nobody waits for gives its slot back at once and a       *)
(* published one cannot be joined.                                         *)
THEOREM MapHoldsWantedFlights == Spec => []RegisteredWhileWanted
<1>1. Sharing => RegisteredWhileWanted
  BY SharingGivesProperties
<1> QED
  BY <1>1, SharingAlways, PTL
-----------------------------------------------------------------------------
(* What is stored.  The recency order lists every stored key once; the     *)
(* running total is what the listed entries weigh.                         *)
Kept == {k \in Keys : Present(k)}
SizeOf == [k \in Keys |-> entries[k].size]
Lists(order, keys) ==
  /\ order \in Seq(Keys)
  /\ \A i \in 1..Len(order), j \in 1..Len(order) : order[i] = order[j] => i = j
  /\ {order[i] : i \in 1..Len(order)} = keys
Accounted ==
  /\ entries \in [Keys -> Entry]
  /\ \A k \in Keys : entries[k].size \in 0..MaxEntryBytes
  /\ Lists(recency, Kept)
  /\ bytes = Volume(Kept, SizeOf)
  /\ bytes <= MaxBytes /\ Len(recency) <= MaxEntries

(* Only answers that fit are kept for the cache.                           *)
AnswersFit ==
  \A f \in Flights : /\ flight[f].size \in 0..MaxEntryBytes
                     /\ flight[f].phase = "answered" => flight[f].size > 0

LEMMA CacheLimits ==
  /\ MaxEntries \in Nat /\ MaxBytes \in Nat /\ MaxEntryBytes \in Nat
  /\ FreshTTL \in Nat /\ StaleTTL \in Nat
  /\ MaxEntries > 0 /\ MaxEntryBytes > 0
  BY CacheLimitsAssumption

LEMMA ListedFinite ==
  ASSUME NEW order, NEW keys, Lists(order, keys)
  PROVE  /\ IsFiniteSet(keys) /\ Cardinality(keys) = Len(order) /\ Len(order) \in Nat
         /\ keys \subseteq Keys
<1>1. /\ Len(order) \in Nat /\ order \in [1..Len(order) -> Keys]
      /\ keys = {order[i] : i \in 1..Len(order)}
  BY DEF Lists
<1>2. order \in [1..Len(order) -> keys]
  BY <1>1
<1>3. order \in Bijection(1..Len(order), keys)
  BY <1>1, <1>2 DEF Lists, Bijection, Injection, Surjection, IsInjective
<1>4. ExistsBijection(1..Len(order), keys)
  BY <1>3 DEF ExistsBijection
<1>5. IsFiniteSet(1..Len(order)) /\ Cardinality(1..Len(order)) = Len(order)
  BY <1>1, FS_Interval
<1>. QED
  BY <1>1, <1>4, <1>5, FS_Bijection

LEMMA ListedRemoval ==
  ASSUME NEW order, NEW keys, Lists(order, keys), NEW p \in 1..Len(order)
  PROVE  /\ Lists(RemoveAt(order, p), keys \ {order[p]})
         /\ Len(RemoveAt(order, p)) = Len(order) - 1
<1>1. /\ Len(order) \in Nat /\ order \in Seq(Keys) /\ \A i \in 1..Len(order) : order[i] \in Keys
      /\ keys = {order[i] : i \in 1..Len(order)}
  BY DEF Lists
<1>2. PICK front : front = SubSeq(order, 1, p - 1)
  OBVIOUS
<1>3. PICK back : back = SubSeq(order, p + 1, Len(order))
  OBVIOUS
<1>4. /\ front \in Seq(Keys) /\ Len(front) = p - 1
      /\ \A i \in 1..(p - 1) : front[i] = order[i]
  BY <1>1, <1>2, SubSeqProperties
<1>5. /\ back \in Seq(Keys) /\ Len(back) = Len(order) - p
      /\ \A i \in 1..(Len(order) - p) : back[i] = order[p + i]
  <2>1. \A i \in p + 1 .. Len(order) : order[i] \in Keys
    BY <1>1
  <2>2. /\ SubSeq(order, p + 1, Len(order)) \in Seq(Keys)
        /\ Len(SubSeq(order, p + 1, Len(order))) =
             IF p + 1 <= Len(order) THEN Len(order) - (p + 1) + 1 ELSE 0
        /\ \A i \in 1..(Len(order) - (p + 1) + 1) :
             SubSeq(order, p + 1, Len(order))[i] = order[p + 1 + i - 1]
    BY <1>1, <2>1, SubSeqProperties
  <2>. QED
    BY <1>1, <1>3, <2>2
<1>6. PICK rest : rest = RemoveAt(order, p)
  OBVIOUS
<1>7. /\ rest \in Seq(Keys) /\ Len(rest) = Len(order) - 1
      /\ \A i \in 1..(Len(order) - 1) : rest[i] = IF i < p THEN order[i] ELSE order[i + 1]
  <2>1. rest = front \o back
    BY <1>2, <1>3, <1>6 DEF RemoveAt
  <2>2. /\ rest \in Seq(Keys) /\ Len(rest) = Len(front) + Len(back)
        /\ \A i \in 1..(Len(front) + Len(back)) :
             rest[i] = IF i <= Len(front) THEN front[i] ELSE back[i - Len(front)]
    BY <1>4, <1>5, <2>1, ConcatProperties
  <2>3. Len(rest) = Len(order) - 1
    BY <1>1, <1>4, <1>5, <2>2
  <2>4. ASSUME NEW i \in 1..(Len(order) - 1)
        PROVE  rest[i] = IF i < p THEN order[i] ELSE order[i + 1]
    <3>1. rest[i] = IF i <= p - 1 THEN front[i] ELSE back[i - (p - 1)]
      BY <1>1, <1>4, <2>2, <2>3
    <3>2. CASE i < p
      BY <1>1, <1>4, <3>1, <3>2
    <3>3. CASE i >= p
      <4>1. i - (p - 1) \in 1..(Len(order) - p) /\ p + (i - (p - 1)) = i + 1
        BY <1>1, <3>3
      <4>. QED
        BY <1>5, <3>1, <3>3, <4>1
    <3>. QED
      BY <1>1, <3>2, <3>3
  <2>. QED
    BY <2>2, <2>3, <2>4
<1>8. \A i \in 1..Len(rest), j \in 1..Len(rest) : rest[i] = rest[j] => i = j
  BY <1>1, <1>7 DEF Lists
<1>9. {rest[i] : i \in 1..Len(rest)} = keys \ {order[p]}
  <2>1. ASSUME NEW i \in 1..Len(rest) PROVE rest[i] \in keys \ {order[p]}
    BY <1>1, <1>7 DEF Lists
  <2>2. ASSUME NEW k \in keys \ {order[p]} PROVE \E i \in 1..Len(rest) : rest[i] = k
    <3>1. PICK i \in 1..Len(order) : order[i] = k /\ i # p
      BY <1>1
    <3>2. IF i < p THEN i \in 1..Len(rest) /\ rest[i] = k
                   ELSE i - 1 \in 1..Len(rest) /\ rest[i - 1] = k
      BY <1>1, <1>7, <3>1
    <3>. QED
      BY <3>2
  <2>. QED
    BY <2>1, <2>2
<1>10. Lists(rest, keys \ {order[p]})
  BY <1>7, <1>8, <1>9 DEF Lists
<1>. QED
  BY <1>6, <1>7, <1>10

LEMMA ListedAppend ==
  ASSUME NEW order, NEW keys, Lists(order, keys), NEW k \in Keys, k \notin keys
  PROVE  Lists(Append(order, k), keys \cup {k}) /\ Len(Append(order, k)) = Len(order) + 1
<1>1. /\ Len(order) \in Nat /\ order \in Seq(Keys)
      /\ keys = {order[i] : i \in 1..Len(order)}
  BY DEF Lists
<1>2. PICK more : more = Append(order, k)
  OBVIOUS
<1>3. /\ more \in Seq(Keys) /\ Len(more) = Len(order) + 1
      /\ \A i \in 1..Len(order) : more[i] = order[i]
      /\ more[Len(order) + 1] = k
  BY <1>1, <1>2, AppendProperties
<1>4. \A i \in 1..Len(more), j \in 1..Len(more) : more[i] = more[j] => i = j
  <2>. SUFFICES ASSUME NEW i \in 1..Len(more), NEW j \in 1..Len(more), more[i] = more[j]
                PROVE  i = j
    OBVIOUS
  <2>1. CASE i = Len(order) + 1 /\ j # Len(order) + 1
    BY <1>1, <1>3, <2>1
  <2>2. CASE i # Len(order) + 1 /\ j = Len(order) + 1
    BY <1>1, <1>3, <2>2
  <2>3. CASE i # Len(order) + 1 /\ j # Len(order) + 1
    BY <1>1, <1>3, <2>3 DEF Lists
  <2>. QED
    BY <2>1, <2>2, <2>3
<1>5. {more[i] : i \in 1..Len(more)} = keys \cup {k}
  <2>1. ASSUME NEW i \in 1..Len(more) PROVE more[i] \in keys \cup {k}
    BY <1>1, <1>3
  <2>2. ASSUME NEW x \in keys \cup {k} PROVE \E i \in 1..Len(more) : more[i] = x
    <3>1. CASE x = k
      BY <1>1, <1>3, <3>1
    <3>2. CASE x \in keys
      <4>1. PICK i \in 1..Len(order) : order[i] = x
        BY <1>1, <3>2
      <4>. QED
        BY <1>1, <1>3, <4>1
    <3>. QED
      BY <3>1, <3>2
  <2>. QED
    BY <2>1, <2>2
<1>. QED
  BY <1>2, <1>3, <1>4, <1>5 DEF Lists

LEMMA ListedRest ==
  ASSUME NEW order, NEW keys, Lists(order, keys), NEW n \in 0..Len(order)
  PROVE  /\ Lists(SubSeq(order, n + 1, Len(order)), keys \ LeastRecent(order, n))
         /\ Len(SubSeq(order, n + 1, Len(order))) = Len(order) - n
         /\ LeastRecent(order, n) \subseteq keys
<1>1. /\ Len(order) \in Nat /\ order \in Seq(Keys) /\ \A i \in 1..Len(order) : order[i] \in Keys
      /\ keys = {order[i] : i \in 1..Len(order)}
  BY DEF Lists
<1>2. PICK rest : rest = SubSeq(order, n + 1, Len(order))
  OBVIOUS
<1>3. /\ rest \in Seq(Keys) /\ Len(rest) = Len(order) - n
      /\ \A i \in 1..(Len(order) - n) : rest[i] = order[n + i]
  <2>1. \A i \in n + 1 .. Len(order) : order[i] \in Keys
    BY <1>1
  <2>2. /\ SubSeq(order, n + 1, Len(order)) \in Seq(Keys)
        /\ Len(SubSeq(order, n + 1, Len(order))) =
             IF n + 1 <= Len(order) THEN Len(order) - (n + 1) + 1 ELSE 0
        /\ \A i \in 1..(Len(order) - (n + 1) + 1) :
             SubSeq(order, n + 1, Len(order))[i] = order[n + 1 + i - 1]
    BY <1>1, <2>1, SubSeqProperties
  <2>. QED
    BY <1>1, <1>2, <2>2
<1>4. \A i \in 1..Len(rest), j \in 1..Len(rest) : rest[i] = rest[j] => i = j
  BY <1>1, <1>3 DEF Lists
<1>5. {rest[i] : i \in 1..Len(rest)} = keys \ LeastRecent(order, n)
  <2>1. ASSUME NEW i \in 1..Len(rest) PROVE rest[i] \in keys \ LeastRecent(order, n)
    <3>1. n + i \in 1..Len(order) /\ rest[i] = order[n + i]
      BY <1>1, <1>3
    <3>2. \A j \in 1..n : order[j] # order[n + i]
      BY <1>1, <1>3, <3>1 DEF Lists
    <3>. QED
      BY <1>1, <3>1, <3>2 DEF LeastRecent
  <2>2. ASSUME NEW k \in keys \ LeastRecent(order, n) PROVE \E i \in 1..Len(rest) : rest[i] = k
    <3>1. PICK i \in 1..Len(order) : order[i] = k /\ i \notin 1..n
      BY <1>1 DEF LeastRecent
    <3>2. i - n \in 1..Len(rest) /\ rest[i - n] = k
      BY <1>1, <1>3, <3>1
    <3>. QED
      BY <3>2
  <2>. QED
    BY <2>1, <2>2
<1>6. LeastRecent(order, n) \subseteq keys
  BY <1>1 DEF LeastRecent
<1>7. Lists(rest, keys \ LeastRecent(order, n))
  BY <1>3, <1>4, <1>5 DEF Lists
<1>. QED
  BY <1>2, <1>3, <1>6, <1>7

-----------------------------------------------------------------------------
LEMMA VolumeFinite ==
  ASSUME NEW keys, IsFiniteSet(keys), NEW size
  PROVE  /\ IsFiniteSet({b \in keys \X (1..MaxEntryBytes) : b[2] <= size[b[1]]})
         /\ Volume(keys, size) \in Nat
<1>1. IsFiniteSet(1..MaxEntryBytes)
  BY CacheLimits, FS_Interval
<1>2. IsFiniteSet(keys \X (1..MaxEntryBytes))
  BY <1>1, FS_Product
<1>3. IsFiniteSet({b \in keys \X (1..MaxEntryBytes) : b[2] <= size[b[1]]})
  BY <1>2, FS_Subset
<1>. QED
  BY <1>3, FS_CardinalityType DEF Volume

LEMMA VolumeSplit ==
  ASSUME NEW S, NEW T, IsFiniteSet(S), IsFiniteSet(T), S \cap T = {}, NEW size
  PROVE  Volume(S \cup T, size) = Volume(S, size) + Volume(T, size)
<1>. DEFINE units(keys) == {b \in keys \X (1..MaxEntryBytes) : b[2] <= size[b[1]]}
<1>1. units(S \cup T) = units(S) \cup units(T) /\ units(S) \cap units(T) = {}
  OBVIOUS
<1>2. IsFiniteSet(units(S)) /\ IsFiniteSet(units(T))
  BY VolumeFinite
<1>3. Volume(S, size) \in Nat /\ Volume(T, size) \in Nat
  BY VolumeFinite
<1>4. /\ Volume(S, size) = Cardinality(units(S)) /\ Volume(T, size) = Cardinality(units(T))
      /\ Volume(S \cup T, size) = Cardinality(units(S \cup T))
  BY DEF Volume
<1>. HIDE DEF units
<1>5. Cardinality(units(S) \cup units(T)) =
        Cardinality(units(S)) + Cardinality(units(T)) - Cardinality(units(S) \cap units(T))
  BY <1>2, FS_Union
<1>6. Cardinality(units(S) \cap units(T)) = 0
  BY <1>1, FS_EmptySet
<1>7. PICK a, b : a = Volume(S, size) /\ b = Volume(T, size)
  OBVIOUS
<1>8. Volume(S \cup T, size) = a + b - 0
  BY <1>1, <1>4, <1>5, <1>6, <1>7
<1>. QED
  BY <1>3, <1>7, <1>8

LEMMA VolumeOfOne ==
  ASSUME NEW k, NEW size, size[k] \in 0..MaxEntryBytes
  PROVE  Volume({k}, size) = size[k]
<1>0. PICK m \in 0..MaxEntryBytes : m = size[k]
  OBVIOUS
<1>1. {b \in {k} \X (1..MaxEntryBytes) : b[2] <= size[b[1]]} = {k} \X (1..m)
  BY <1>0, CacheLimits
<1>2. IsFiniteSet({k}) /\ Cardinality({k}) = 1
  BY FS_Singleton
<1>3. IsFiniteSet(1..m) /\ Cardinality(1..m) = m
  <2>1. 0 <= m /\ m \in Int /\ m - 1 + 1 = m
    BY CacheLimits
  <2>. QED
    BY <2>1, FS_Interval
<1>4. Cardinality({k} \X (1..m)) = 1 * m
  BY <1>2, <1>3, FS_Product
<1>. QED
  <2>1. 1 * m = m
    BY CacheLimits
  <2>. QED
    BY <1>0, <1>1, <1>4, <2>1 DEF Volume

LEMMA VolumeSame ==
  ASSUME NEW keys, NEW y, NEW z, \A k \in keys : y[k] = z[k]
  PROVE  Volume(keys, y) = Volume(keys, z)
<1>1. {b \in keys \X (1..MaxEntryBytes) : b[2] <= y[b[1]]}
        = {b \in keys \X (1..MaxEntryBytes) : b[2] <= z[b[1]]}
  OBVIOUS
<1>. QED
  BY <1>1 DEF Volume

LEMMA LeastNatural ==
  ASSUME NEW S \in SUBSET Nat, S # {}
  PROVE  \E n \in S : \A m \in S : n <= m
<1>1. PICK n \in S : \A m \in S : <<m, n>> \notin OpToRel(<, Nat)
  BY WFMin, NatLessThanWellFounded, Zenon
<1>2. \A m \in S : ~(m < n)
  BY <1>1, Zenon DEF OpToRel
<1>. QED
  BY <1>2

-----------------------------------------------------------------------------
LEMMA WithoutLists ==
  ASSUME Accounted, NEW k \in Keys
  PROVE  /\ Lists(Without(k), Kept \ {k})
         /\ Len(Without(k)) \in Nat /\ Len(Without(k)) <= Len(recency)
         /\ Present(k) => Len(Without(k)) = Len(recency) - 1
<1>0. Lists(recency, Kept) /\ Len(recency) \in Nat
  BY ListedFinite DEF Accounted
<1>1. CASE Present(k)
  <2>1. \E i \in DOMAIN recency : recency[i] = k
    BY <1>0, <1>1 DEF Lists, Kept
  <2>2. PlaceOf(k) \in 1..Len(recency) /\ recency[PlaceOf(k)] = k
    BY <1>0, <2>1 DEF PlaceOf, Lists
  <2>3. PICK p \in 1..Len(recency) : p = PlaceOf(k)
    BY <2>2
  <2>4. /\ Lists(RemoveAt(recency, p), Kept \ {k})
        /\ Len(RemoveAt(recency, p)) = Len(recency) - 1
    BY <1>0, <2>2, <2>3, ListedRemoval
  <2>. QED
    BY <1>0, <1>1, <2>3, <2>4 DEF Without
<1>2. CASE ~Present(k)
  BY <1>0, <1>2 DEF Without, Kept
<1>. QED
  BY <1>1, <1>2

(* What is left when k goes weighs k's answer less.                        *)
LEMMA VolumeWithout ==
  ASSUME Accounted, NEW k \in Keys
  PROVE  /\ IsFiniteSet(Kept) /\ IsFiniteSet(Kept \ {k})
         /\ Volume(Kept \ {k}, SizeOf) = bytes - entries[k].size
         /\ bytes \in Nat /\ entries[k].size \in Nat
         /\ Volume(Kept \ {k}, SizeOf) \in Nat
<1>1. IsFiniteSet(Kept)
  BY ListedFinite DEF Accounted
<1>2. IsFiniteSet(Kept \ {k})
  BY <1>1, FS_Subset
<1>3. /\ bytes = Volume(Kept, SizeOf) /\ Volume(Kept, SizeOf) \in Nat
      /\ Volume(Kept \ {k}, SizeOf) \in Nat
  BY <1>1, <1>2, VolumeFinite DEF Accounted
<1>4. SizeOf[k] = entries[k].size /\ entries[k].size \in 0..MaxEntryBytes
  BY DEF SizeOf, Accounted
<1>5. CASE Present(k)
  <2>1. Kept = (Kept \ {k}) \cup {k} /\ (Kept \ {k}) \cap {k} = {}
    BY <1>5 DEF Kept
  <2>2. IsFiniteSet({k})
    BY FS_Singleton
  <2>3. Volume((Kept \ {k}) \cup {k}, SizeOf) =
          Volume(Kept \ {k}, SizeOf) + Volume({k}, SizeOf)
    BY <1>2, <2>1, <2>2, VolumeSplit
  <2>4. Volume({k}, SizeOf) = entries[k].size
    BY <1>4, VolumeOfOne
  <2>5. Volume(Kept, SizeOf) = Volume(Kept \ {k}, SizeOf) + entries[k].size
    BY <2>1, <2>3, <2>4
  <2>. QED
    BY <1>1, <1>2, <1>3, <1>4, <2>5, CacheLimits
<1>6. CASE ~Present(k)
  <2>1. Kept \ {k} = Kept /\ entries[k].size = 0
    BY <1>4, <1>6, CacheLimits DEF Kept, Present
  <2>. QED
    BY <1>1, <1>3, <2>1
<1>. QED
  BY <1>5, <1>6

LEMMA DeletionKeeps ==
  ASSUME Accounted, NEW k \in Keys, Present(k), Deleted(k)
  PROVE  Accounted'
<1>1. /\ entries' = [entries EXCEPT ![k] = NoEntry] /\ recency' = Without(k)
      /\ bytes' = bytes - entries[k].size
  BY DEF Deleted
<1>2. /\ entries' \in [Keys -> Entry]
      /\ \A x \in Keys : entries'[x].size \in 0..MaxEntryBytes
  BY <1>1, CacheLimits DEF Accounted, NoEntry, Entry
<1>3. Kept' = Kept \ {k}
  BY <1>1 DEF Kept, Present, NoEntry, Accounted
<1>4. Lists(recency', Kept') /\ Len(recency') <= MaxEntries
  <2>1. /\ Lists(Without(k), Kept \ {k}) /\ Len(Without(k)) = Len(recency) - 1
        /\ Len(recency) \in Nat /\ Len(recency) <= MaxEntries
    BY WithoutLists, ListedFinite DEF Accounted
  <2>. QED
    BY <1>1, <1>3, <2>1, CacheLimits
<1>5. \A x \in Kept' : SizeOf'[x] = SizeOf[x]
  BY <1>1, <1>3 DEF SizeOf, Kept, Accounted
<1>6. Volume(Kept', SizeOf') = bytes'
  BY <1>1, <1>3, <1>5, VolumeWithout, VolumeSame
<1>7. bytes' <= MaxBytes
  <2>1. bytes \in Nat /\ bytes <= MaxBytes /\ entries[k].size \in Nat
    BY VolumeWithout DEF Accounted
  <2>. QED
    BY <1>1, <2>1, CacheLimits
<1>8. Lists(recency, Kept)'
  BY <1>4 DEF Lists
<1>. QED
  BY <1>2, <1>4, <1>6, <1>7, <1>8 DEF Accounted, Volume

LEMMA TouchKeeps ==
  ASSUME Accounted, NEW k \in Keys, Present(k), Touched(k)
  PROVE  Accounted'
<1>1. UNCHANGED <<entries, bytes>> /\ recency' = Append(Without(k), k)
  BY DEF Touched
<1>2. k \notin Kept \ {k} /\ (Kept \ {k}) \cup {k} = Kept
  BY DEF Kept
<1>3. Lists(recency', Kept) /\ Len(recency') = Len(recency)
  <2>1. /\ Lists(Without(k), Kept \ {k}) /\ Len(Without(k)) = Len(recency) - 1
        /\ Len(recency) \in Nat
    BY WithoutLists, ListedFinite DEF Accounted
  <2>. QED
    BY <1>1, <1>2, <2>1, ListedAppend
<1>. QED
  BY <1>1, <1>3 DEF Accounted, Kept, Present, SizeOf, Lists, Volume

(* The eviction loop always ends within both limits: an empty cache does.  *)
LEMMA EvictionFits ==
  ASSUME NEW order, NEW keys, Lists(order, keys), NEW size,
         NEW total, total = Volume(keys, size)
  PROVE  LET n == LeastEvicted(order, total, size)
         IN  /\ n \in 0..Len(order) /\ Len(order) - n <= MaxEntries
             /\ total - Volume(LeastRecent(order, n), size) <= MaxBytes
<1>. DEFINE fits(n) == /\ Len(order) - n <= MaxEntries
                       /\ total - Volume(LeastRecent(order, n), size) <= MaxBytes
            Fitting == {n \in 0..Len(order) : fits(n)}
<1>1. Len(order) \in Nat /\ IsFiniteSet(keys)
  BY ListedFinite
<1>2. Len(order) \in Fitting
  <2>1. LeastRecent(order, Len(order)) = keys
    BY DEF Lists, LeastRecent
  <2>2. total \in Nat
    BY <1>1, VolumeFinite
  <2>. QED
    BY <1>1, <2>1, <2>2, CacheLimits
<1>3. PICK least \in Fitting : \A m \in Fitting : least <= m
  <2>1. Fitting \in SUBSET Nat /\ Fitting # {}
    BY <1>1, <1>2
  <2>. HIDE DEF Fitting
  <2>. QED
    BY <2>1, LeastNatural
<1>4. \E n \in 0..Len(order) : fits(n) /\ \A m \in 0..(n - 1) : ~fits(m)
  <2>1. least \in 0..Len(order) /\ fits(least)
    BY <1>3
  <2>2. ASSUME NEW m \in 0..(least - 1) PROVE ~fits(m)
    BY <1>1, <1>3, <2>1
  <2>. HIDE DEF fits
  <2>. QED
    BY <2>1, <2>2
<1>5. LeastEvicted(order, total, size) =
        CHOOSE n \in 0..Len(order) : fits(n) /\ \A m \in 0..(n - 1) : ~fits(m)
  BY DEF LeastEvicted
<1>. HIDE DEF fits
<1>6. LET n == LeastEvicted(order, total, size) IN n \in 0..Len(order) /\ fits(n)
  BY <1>4, <1>5
<1>. QED
  BY <1>6 DEF fits

LEMMA StoreKeeps ==
  ASSUME Accounted, CallsTyped, AnswersFit, NEW f \in Flights, NEW t \in Nat, Store(f, t)
  PROVE  Accounted'
<1>. DEFINE k == flight[f].key
            x == flight[f].size
            order == Append(Without(k), k)
            stored == [entries EXCEPT ![k] =
                         [freshUntil |-> t + FreshTTL, staleUntil |-> t + FreshTTL + StaleTTL,
                          size |-> x]]
            size == [y \in Keys |-> stored[y].size]
            total == bytes - entries[k].size + x
            n == LeastEvicted(order, total, size)
<1>1. k \in Keys
  BY DEF CallsTyped, Flight
<1>2. x \in 1..MaxEntryBytes
  BY CacheLimits DEF AnswersFit, Store
<1>3. order = Append(Without(k), k)
  OBVIOUS
<1>4. stored = [entries EXCEPT ![k] =
                  [freshUntil |-> t + FreshTTL, staleUntil |-> t + FreshTTL + StaleTTL,
                   size |-> x]]
  OBVIOUS
<1>5. size = [y \in Keys |-> stored[y].size]
  OBVIOUS
<1>6. total = bytes - entries[k].size + x
  OBVIOUS
<1>7. n = LeastEvicted(order, total, size)
  OBVIOUS
<1>8. /\ entries' = [y \in Keys |-> IF y \in LeastRecent(order, n) THEN NoEntry ELSE stored[y]]
      /\ recency' = SubSeq(order, n + 1, Len(order))
      /\ bytes' = total - Volume(LeastRecent(order, n), size)
  BY DEF Store
<1>. HIDE DEF k, x, order, stored, size, total, n
<1>9. /\ stored \in [Keys -> Entry]
      /\ \A y \in Keys : stored[y].size \in 0..MaxEntryBytes
      /\ \A y \in Keys : size[y] = stored[y].size
      /\ size[k] = x
      /\ \A y \in Keys \ {k} : size[y] = entries[y].size
  BY <1>1, <1>2, <1>4, <1>5, CacheLimits DEF Accounted, Entry
<1>10. PICK keys : keys = (Kept \ {k}) \cup {k}
  OBVIOUS
<1>11. Lists(order, keys)
  <2>1. Lists(Without(k), Kept \ {k}) /\ k \notin Kept \ {k}
    BY <1>1, WithoutLists
  <2>. QED
    BY <1>1, <1>3, <1>10, <2>1, ListedAppend
<1>12. total = Volume(keys, size)
  <2>1. \A y \in Kept \ {k} : size[y] = SizeOf[y]
    BY <1>9 DEF SizeOf, Kept
  <2>2. Volume(Kept \ {k}, size) = bytes - entries[k].size
    BY <1>1, <2>1, VolumeSame, VolumeWithout
  <2>3. Volume({k}, size) = x
    <3>1. size[k] = x /\ size[k] \in 0..MaxEntryBytes
      BY <1>2, <1>9, CacheLimits
    <3>. QED
      BY <3>1, VolumeOfOne
  <2>4. /\ IsFiniteSet(Kept \ {k}) /\ IsFiniteSet({k}) /\ (Kept \ {k}) \cap {k} = {}
    BY <1>1, VolumeWithout, FS_Singleton
  <2>5. Volume(keys, size) = Volume(Kept \ {k}, size) + Volume({k}, size)
    BY <1>10, <2>4, VolumeSplit
  <2>. QED
    BY <1>6, <2>2, <2>3, <2>5
<1>13. /\ n \in 0..Len(order) /\ Len(order) - n <= MaxEntries
       /\ total - Volume(LeastRecent(order, n), size) <= MaxBytes
  BY <1>7, <1>11, <1>12, EvictionFits
<1>14. PICK kept : kept = keys \ LeastRecent(order, n)
  OBVIOUS
<1>15. /\ Lists(recency', kept) /\ Len(recency') = Len(order) - n
       /\ LeastRecent(order, n) \subseteq keys
  BY <1>8, <1>11, <1>13, <1>14, ListedRest
<1>16. Kept' = kept
  <2>1. keys \subseteq Keys
    BY <1>11, ListedFinite
  <2>2. \A y \in Keys : y \in keys <=> stored[y].size > 0
    BY <1>2, <1>4, <1>9, <1>10, CacheLimits DEF Kept, Present, Accounted
  <2>3. \A y \in Keys : entries'[y].size > 0 <=> y \notin LeastRecent(order, n) /\ stored[y].size > 0
    BY <1>8 DEF NoEntry
  <2>. QED
    BY <1>14, <2>1, <2>2, <2>3 DEF Kept, Present
<1>17. \A y \in kept : SizeOf'[y] = size[y]
  <2>1. kept \subseteq Keys
    BY <1>11, <1>14, ListedFinite
  <2>. QED
    BY <1>8, <1>9, <1>14, <2>1 DEF SizeOf
<1>18. Volume(kept, SizeOf') = bytes'
  <2>1. Volume(kept, SizeOf') = Volume(kept, size)
    BY <1>17, VolumeSame
  <2>2. IsFiniteSet(keys)
    BY <1>11, ListedFinite
  <2>3. IsFiniteSet(kept) /\ IsFiniteSet(LeastRecent(order, n))
    BY <1>14, <1>15, <2>2, FS_Subset
  <2>4. keys = kept \cup LeastRecent(order, n) /\ kept \cap LeastRecent(order, n) = {}
    BY <1>14, <1>15
  <2>5. Volume(keys, size) = Volume(kept, size) + Volume(LeastRecent(order, n), size)
    BY <2>3, <2>4, VolumeSplit
  <2>6. Volume(kept, size) \in Nat /\ Volume(LeastRecent(order, n), size) \in Nat
    BY <2>3, VolumeFinite
  <2>. QED
    BY <1>8, <1>12, <2>1, <2>5, <2>6
<1>19. /\ entries' \in [Keys -> Entry]
       /\ \A y \in Keys : entries'[y].size \in 0..MaxEntryBytes
  BY <1>8, <1>9, CacheLimits DEF NoEntry, Entry
<1>20. bytes' <= MaxBytes /\ Len(recency') <= MaxEntries
  BY <1>8, <1>13, <1>15
<1>21. Lists(recency, Kept)'
  BY <1>15, <1>16 DEF Lists
<1>22. (bytes = Volume(Kept, SizeOf))'
  BY <1>16, <1>18 DEF Volume
<1>. QED
  BY <1>19, <1>20, <1>21, <1>22 DEF Accounted
(* Joining, leaving, cancelling and publishing a flight do not touch what  *)
(* it has brought.                                                         *)
LEMMA StartFits ==
  ASSUME AnswersFit, CallsTyped, NEW c \in Callers, NEW refresh, StartFlight(c, refresh)
  PROVE  AnswersFit'
<1>. DEFINE k == call[c].key
<1>1. k \in Keys /\ inflight[k] \in Flights \cup {None}
  BY DEF CallsTyped, Call
<1>2. CASE inflight[k] # None
  <2>1. inflight[k] \in Flights /\ JoinFlight(inflight[k], refresh)
    BY <1>1, <1>2 DEF StartFlight
  <2>2. \A g \in Flights : flight'[g].size = flight[g].size /\ flight'[g].phase = flight[g].phase
    BY <2>1 DEF JoinFlight, CallsTyped, Flight
  <2>. QED
    BY <2>2 DEF AnswersFit
<1>3. CASE inflight[k] = None /\ Cardinality(Registered) >= MaxInflight
  BY <1>3 DEF StartFlight, AnswersFit
<1>4. CASE inflight[k] = None /\ ~(Cardinality(Registered) >= MaxInflight)
  <2>1. PICK f \in Reusable : flight' = [flight EXCEPT ![f] =
                [Unused EXCEPT !.phase = "calling", !.key = k, !.keepAlive = refresh,
                               !.waiters = IF refresh THEN 0 ELSE 1]]
    BY <1>4 DEF StartFlight
  <2>2. \A g \in Flights : \/ flight'[g] = flight[g]
                           \/ flight'[g].size = 0 /\ flight'[g].phase = "calling"
    BY <2>1 DEF CallsTyped, Unused
  <2>. QED
    BY <2>2, CacheLimits DEF AnswersFit
<1>. QED
  BY <1>2, <1>3, <1>4

LEMMA FlightFits ==
  ASSUME AnswersFit, CallsTyped, NEW f \in Flights, FlightStep(f)
  PROVE  AnswersFit'
<1>1. ASSUME NEW size \in Cacheable \cup {0}, ProviderReturns(f, size)
      PROVE  AnswersFit'
  <2>1. size \in 0..MaxEntryBytes
    BY CacheLimitsAssumption, CacheLimits DEF Cacheable
  <2>2. \A g \in Flights : \/ flight'[g] = flight[g]
                           \/ /\ flight'[g].size = size
                              /\ flight'[g].phase = IF size > 0 THEN "answered" ELSE "stored"
    BY <1>1 DEF ProviderReturns, CallsTyped, Flight
  <2>. QED
    BY <2>1, <2>2 DEF AnswersFit
<1>2. ASSUME NEW t \in 0..MaxTime, Store(f, t)
      PROVE  AnswersFit'
  <2>1. flight' = [flight EXCEPT ![f].phase = "stored", ![f].size = 0, ![f].at = 0]
    BY <1>2 DEF Store
  <2>2. \A g \in Flights : \/ flight'[g] = flight[g]
                           \/ flight'[g].size = 0 /\ flight'[g].phase = "stored"
    BY <2>1 DEF CallsTyped, Flight
  <2>. QED
    BY <2>2, CacheLimits DEF AnswersFit
<1>3. CASE Publish(f)
  <2>1. \A g \in Flights : /\ flight'[g].size = flight[g].size
                           /\ flight'[g].phase = flight[g].phase \/ flight'[g].phase = "done"
    BY <1>3 DEF Publish, CallsTyped, Flight
  <2>. QED
    BY <2>1 DEF AnswersFit
<1>. QED
  BY <1>1, <1>2, <1>3 DEF FlightStep

LEMMA AnswersFitStep ==
  ASSUME AnswersFit, CallsTyped, CallsPlaced, Next
  PROVE  AnswersFit'
<1>1. CASE Tick
  BY <1>1 DEF Tick, AnswersFit
<1>2. ASSUME NEW f \in Flights, FlightStep(f) PROVE AnswersFit'
  BY <1>2, FlightFits
<1>3. ASSUME NEW c \in Callers, StaleHit(c) \/ Miss(c) PROVE AnswersFit'
  BY <1>3, StartFits DEF StaleHit, Miss
<1>4. ASSUME NEW c \in Callers, ReleaseWaiter(c) \/ Cancel(c) PROVE AnswersFit'
  <2>1. \A g \in Flights : flight'[g].size = flight[g].size /\ flight'[g].phase = flight[g].phase
    BY <1>4 DEF ReleaseWaiter, Cancel, CallsTyped, CallsPlaced, Referring, Flight
  <2>. QED
    BY <2>1 DEF AnswersFit
<1>5. ASSUME NEW c \in Callers,
             \/ \E k \in Keys : SearchBatch(c, k)
             \/ FreshHit(c) \/ DirectReturns(c) \/ WaitEnds(c, TRUE) \/ WaitEnds(c, FALSE)
      PROVE  AnswersFit'
  BY <1>5 DEF SearchBatch, FreshHit, DirectReturns, WaitEnds, AnswersFit
<1>. QED
  BY <1>1, <1>2, <1>3, <1>4, <1>5 DEF Next, CallerStep

LEMMA AccountedRests ==
  Accounted /\ UNCHANGED <<entries, recency, bytes>> => Accounted'
  BY DEF Accounted, Kept, Present, SizeOf, Lists, Volume

LEMMA AccountedStep ==
  ASSUME Accounted, AnswersFit, CallsTyped, Next
  PROVE  Accounted'
<1>1. CASE Tick
  BY <1>1, AccountedRests DEF Tick
<1>2. ASSUME NEW f \in Flights, FlightStep(f) PROVE Accounted'
  <2>1. ASSUME NEW t \in 0..MaxTime, Store(f, t) PROVE Accounted'
    <3>1. t \in Nat
      BY CacheLimitsAssumption
    <3>. QED
      BY <2>1, <3>1, StoreKeeps
  <2>2. ASSUME NEW size \in Cacheable \cup {0}, ProviderReturns(f, size) PROVE Accounted'
    BY <2>2, AccountedRests DEF ProviderReturns
  <2>3. CASE Publish(f)
    BY <2>3, AccountedRests DEF Publish
  <2>. QED
    BY <1>2, <2>1, <2>2, <2>3 DEF FlightStep
<1>3. ASSUME NEW c \in Callers, FreshHit(c) \/ StaleHit(c) \/ Miss(c) PROVE Accounted'
  <2>1. call[c].key \in Keys
    BY DEF CallsTyped, Call
  <2>2. CASE FreshHit(c)
    BY <2>1, <2>2, TouchKeeps DEF FreshHit
  <2>3. CASE StaleHit(c)
    BY <2>1, <2>3, TouchKeeps DEF StaleHit
  <2>4. CASE Miss(c)
    BY <2>1, <2>4, DeletionKeeps, AccountedRests DEF Miss
  <2>. QED
    BY <1>3, <2>2, <2>3, <2>4
<1>4. ASSUME NEW c \in Callers,
             \/ \E k \in Keys : SearchBatch(c, k)
             \/ DirectReturns(c) \/ WaitEnds(c, TRUE) \/ WaitEnds(c, FALSE)
             \/ ReleaseWaiter(c) \/ Cancel(c)
      PROVE  Accounted'
  <2>1. UNCHANGED <<entries, recency, bytes>>
    BY <1>4 DEF SearchBatch, DirectReturns, WaitEnds, ReleaseWaiter, Cancel
  <2>. QED
    BY <2>1, AccountedRests
<1>. QED
  BY <1>1, <1>2, <1>3, <1>4 DEF Next, CallerStep

LEMMA AccountsInit == Init => Accounted /\ AnswersFit
<1>. SUFFICES ASSUME Init PROVE Accounted /\ AnswersFit
  OBVIOUS
<1>1. /\ \A k \in Keys : entries[k] = NoEntry
      /\ entries \in [Keys -> Entry] /\ recency = <<>> /\ bytes = 0
  BY DEF Init, NoEntry, Entry
<1>2. Kept = {}
  BY <1>1 DEF Kept, Present, NoEntry
<1>3. Lists(recency, Kept) /\ Len(recency) = 0
  BY <1>1, <1>2 DEF Lists
<1>4. Volume(Kept, SizeOf) = 0
  <2>1. {b \in Kept \X (1..MaxEntryBytes) : b[2] <= SizeOf[b[1]]} = {}
    BY <1>2
  <2>. QED
    BY <2>1, FS_EmptySet DEF Volume
<1>5. Accounted
  BY <1>1, <1>3, <1>4, CacheLimits DEF Accounted, NoEntry
<1>6. \A f \in Flights : flight[f].size = 0 /\ flight[f].phase = "unused"
  BY DEF Init, Unused
<1>. QED
  BY <1>5, <1>6, CacheLimits DEF AnswersFit

LEMMA AccountedAlways == Spec => [](Accounted /\ AnswersFit)
<1>1. Sharing /\ Accounted /\ AnswersFit /\ [Next]_vars => (Accounted /\ AnswersFit)'
  <2>1. CASE UNCHANGED vars
    BY <2>1, AccountedRests DEF vars, AnswersFit
  <2>2. CASE Next
    BY <2>2, AccountedStep, AnswersFitStep DEF Sharing
  <2>. QED
    BY <2>1, <2>2
<1>. QED
  BY <1>1, AccountsInit, SharingAlways, PTL DEF Spec

(* The cache never exceeds its limits and its running total is exact,      *)
(* whatever the answers weigh and however long it runs: after every        *)
(* replacement, expiry and eviction the total is what the stored entries   *)
(* weigh, and the order of use lists them and nothing else (store,         *)
(* deleteEntryLocked).                                                     *)
THEOREM CacheIsAccounted == Spec => []CacheAccounted
<1>1. Accounted => CacheAccounted
  <2>. SUFFICES ASSUME Accounted PROVE CacheAccounted
    OBVIOUS
  <2>1. /\ IsFiniteSet(Kept) /\ Cardinality(Kept) = Len(recency) /\ Len(recency) \in Nat
        /\ {recency[i] : i \in 1..Len(recency)} = Kept
    BY ListedFinite DEF Accounted, Lists
  <2>. QED
    BY <2>1 DEF Accounted, CacheAccounted, Kept, SizeOf
<1>. QED
  BY <1>1, AccountedAlways, PTL

(* A provider failure or a cancelled refresh leaves a cached entry alone:  *)
(* an entry goes only when a caller finds it expired or an answer is       *)
(* stored, and its deadlines change only when its own answer is stored     *)
(* (runFlight, acquire).                                                   *)
THEOREM EntriesSurvive == Spec => EntriesSurviveFailures
<1>. DEFINE Surviving ==
       \A k \in Keys :
         Present(k) /\ entries'[k] # entries[k] =>
           \/ \E f \in Flights : /\ flight[f].phase = "answered"
                                 /\ flight'[f].phase = "stored"
                                 /\ Present(k)' => flight[f].key = k
           \/ /\ ~Present(k)'
              /\ \E c \in Callers : /\ call[c].phase = "looking"
                                    /\ call[c].key = k
                                    /\ call[c].at >= entries[k].staleUntil
<1>1. Sharing /\ Accounted /\ AnswersFit /\ Next => Surviving
  <2>. SUFFICES ASSUME Sharing, Accounted, Next, NEW k \in Keys,
                       Present(k), entries'[k] # entries[k]
                PROVE  \/ \E f \in Flights : /\ flight[f].phase = "answered"
                                             /\ flight'[f].phase = "stored"
                                             /\ Present(k)' => flight[f].key = k
                       \/ /\ ~Present(k)'
                          /\ \E c \in Callers : /\ call[c].phase = "looking"
                                                /\ call[c].key = k
                                                /\ call[c].at >= entries[k].staleUntil
    OBVIOUS
  <2>1. ASSUME NEW f \in Flights, NEW t \in 0..MaxTime, Store(f, t)
        PROVE  /\ flight[f].phase = "answered" /\ flight'[f].phase = "stored"
               /\ Present(k)' => flight[f].key = k
    <3>1. flight[f].phase = "answered" /\ flight'[f].phase = "stored"
      BY <2>1 DEF Store, Sharing, CallsTyped, Flight
    <3>2. ASSUME flight[f].key # k PROVE ~Present(k)'
      <4>1. entries'[k] = NoEntry \/ entries'[k] = entries[k]
        BY <2>1, <3>2 DEF Store, Accounted
      <4>. QED
        BY <4>1 DEF Present, NoEntry
    <3>. QED
      BY <3>1, <3>2
  <2>2. ASSUME NEW c \in Callers, Miss(c)
        PROVE  /\ ~Present(k)'
               /\ call[c].phase = "looking" /\ call[c].key = k
               /\ call[c].at >= entries[k].staleUntil
    <3>1. /\ call[c].phase = "looking" /\ Present(call[c].key) /\ Deleted(call[c].key)
          /\ call[c].at >= entries[call[c].key].staleUntil
      BY <2>2 DEF Miss
    <3>2. entries' = [entries EXCEPT ![call[c].key] = NoEntry]
      BY <3>1 DEF Deleted
    <3>3. call[c].key = k /\ entries'[k] = NoEntry
      BY <3>2 DEF Accounted
    <3>. QED
      BY <3>1, <3>3 DEF Present, NoEntry
  <2>3. ASSUME NEW f \in Flights, FlightStep(f) PROVE \E t \in 0..MaxTime : Store(f, t)
    BY <2>3 DEF FlightStep, ProviderReturns, Publish
  <2>4. ASSUME NEW c \in Callers,
               \/ \E x \in Keys : SearchBatch(c, x)
               \/ CallerStep(c) \/ WaitEnds(c, TRUE) \/ DirectReturns(c)
        PROVE  Miss(c)
    BY <2>4 DEF SearchBatch, CallerStep, FreshHit, StaleHit, Touched, WaitEnds,
                ReleaseWaiter, Cancel, DirectReturns
  <2>5. ~Tick
    BY DEF Tick
  <2>. QED
    BY <2>1, <2>2, <2>3, <2>4, <2>5 DEF Next
<1>2. Sharing /\ Accounted /\ AnswersFit /\ [Next]_vars => [Surviving]_vars
  BY <1>1
<1>. QED
  BY <1>2, SharingAlways, AccountedAlways, PTL DEF Spec, EntriesSurviveFailures

------------------------------------------------------------------------
(* Fetching.  What a worker claims is a set of units, so that the sum of   *)
(* the claims is a cardinality.                                            *)
WorkerRecord ==
  [at : Working \cup {"start", "lookup", "slot", "done", "gone"},
   claim : 0..SourceLimit, took : SUBSET ArtifactKeys,
   content : Artifact \cup {NoArtifact},
   reason : {"none", "js", "robots", "failed", "budget"}]
Claiming == {"fetch", "render", "rerender"}
FetchTyped ==
  /\ worker \in [Fetches -> WorkerRecord]
  /\ \A w \in Fetches : worker[w].claim # 0 => worker[w].at \in Claiming
  /\ source \in [FetchedRequests -> 0..MaxSource]
  /\ consumed \in [FetchedRequests -> Nat]
  /\ pages \in [Nodes \cup {"redis"} -> [ArtifactKeys -> Artifact \cup {NoArtifact}]]
  /\ fillLock \in [ArtifactKeys -> Fetches \cup {Unlocked}]
  /\ slotsTaken \in [Nodes -> Nat]
SlotHolders(n) == {w \in Fetches : w.node = n /\ worker[w].at \in Working}
SlotsCounted == \A n \in Nodes : slotsTaken[n] = Cardinality(SlotHolders(n))
LocksOwned ==
  \A w \in Fetches, key \in ArtifactKeys :
    key \in worker[w].took /\ <<w, key>> \notin outlived => fillLock[key] = w
FetchInv == FetchTyped /\ ChargesExact /\ SlotsCounted /\ LocksOwned

LEMMA FetchStarts == FetchInit => FetchInv
<1>. SUFFICES ASSUME FetchInit PROVE FetchInv
  OBVIOUS
<1>. USE FetchConstants DEF FetchInit, AtStart
<1>1. \A w \in Fetches : worker[w] = [at |-> "start", claim |-> 0, took |-> {},
                                      content |-> NoArtifact, reason |-> "none"]
  OBVIOUS
<1>2. FetchTyped
  BY <1>1 DEF FetchTyped, WorkerRecord, Artifact, NoArtifact
<1>3. \A r : ClaimedUnits(r) = {}
  BY <1>1 DEF ClaimedUnits
<1>4. ChargesExact
  <2>1. \A r : Cardinality(ClaimedUnits(r)) = 0
    BY <1>3, FS_EmptySet
  <2>2. \A r \in FetchedRequests : source[r] = 0 /\ consumed[r] = 0
    OBVIOUS
  <2>. QED
    BY <2>1, <2>2 DEF ChargesExact
<1>5. \A n \in Nodes : SlotHolders(n) = {}
  BY <1>1 DEF SlotHolders, Working
<1>6. SlotsCounted
  BY <1>5, FS_EmptySet DEF SlotsCounted
<1>7. LocksOwned
  BY <1>1 DEF LocksOwned
<1>. QED
  BY <1>2, <1>4, <1>6, <1>7 DEF FetchInv

-----------------------------------------------------------------------------
(* A worker goes on, and the counts follow.                                *)
LEMMA UnitsOfOne ==
  ASSUME NEW w \in Fetches, NEW k \in 0..SourceLimit
  PROVE  LET units == {u \in {w} \X (1..SourceLimit) : u[2] <= k}
         IN  IsFiniteSet(units) /\ Cardinality(units) = k
<1>. DEFINE units == {u \in {w} \X (1..SourceLimit) : u[2] <= k}
<1>1. units = {w} \X (1..k)
  BY FetchConstants
<1>2. IsFiniteSet({w}) /\ Cardinality({w}) = 1
  BY FS_Singleton
<1>3. IsFiniteSet(1..k) /\ Cardinality(1..k) = k
  BY FS_Interval
<1>4. IsFiniteSet({w} \X (1..k)) /\ Cardinality({w} \X (1..k)) = 1 * k
  BY <1>2, <1>3, FS_Product
<1>. QED
  BY <1>1, <1>4, FetchConstants

LEMMA ClaimMoves ==
  ASSUME FetchTyped, NEW w \in Fetches, NEW new \in WorkerRecord,
         worker' = [worker EXCEPT ![w] = new], NEW r \in FetchedRequests
  PROVE  /\ Cardinality(ClaimedUnits(r)) \in Nat
         /\ Cardinality(ClaimedUnits(r))' =
              IF r = w.request
              THEN Cardinality(ClaimedUnits(r)) - worker[w].claim + new.claim
              ELSE Cardinality(ClaimedUnits(r))
<1>. DEFINE others == {u \in Fetches \X (1..SourceLimit) :
                         u[1] # w /\ u[1].request = r /\ u[2] <= worker[u[1]].claim}
            units(k) == {u \in {w} \X (1..SourceLimit) : u[2] <= k}
<1>1. IsFiniteSet(Fetches \X (1..SourceLimit))
  <2>1. IsFiniteSet(1..SourceLimit)
    BY FetchConstants, FS_Interval
  <2>. QED
    BY <2>1, FetchConstants, FS_Product
<1>2. IsFiniteSet(others) /\ IsFiniteSet(ClaimedUnits(r))
  BY <1>1, FS_Subset DEF ClaimedUnits
<1>3. ClaimedUnits(r) = others \cup (IF w.request = r THEN units(worker[w].claim) ELSE {})
  BY DEF ClaimedUnits
<1>4. ClaimedUnits(r)' = others \cup (IF w.request = r THEN units(new.claim) ELSE {})
  BY DEF ClaimedUnits, FetchTyped
<1>5. \A k \in 0..SourceLimit :
        /\ IsFiniteSet(units(k)) /\ Cardinality(units(k)) = k
        /\ others \cap units(k) = {}
  BY UnitsOfOne
<1>6. worker[w].claim \in 0..SourceLimit /\ new.claim \in 0..SourceLimit
  BY DEF FetchTyped, WorkerRecord
<1>7. Cardinality(others) \in Nat /\ Cardinality(ClaimedUnits(r)) \in Nat
  BY <1>2, FS_CardinalityType
<1>8. CASE w.request = r
  <2>. HIDE DEF others, units
  <2>1. \A k \in 0..SourceLimit : Cardinality(others \cup units(k)) = Cardinality(others) + k
    <3>. SUFFICES ASSUME NEW k \in 0..SourceLimit
                  PROVE  Cardinality(others \cup units(k)) = Cardinality(others) + k
      OBVIOUS
    <3>1. IsFiniteSet(units(k)) /\ Cardinality(units(k)) = k /\ others \cap units(k) = {}
      BY <1>5
    <3>2. Cardinality(others \cup units(k)) =
            Cardinality(others) + Cardinality(units(k)) - Cardinality(others \cap units(k))
      BY <1>2, <3>1, FS_Union
    <3>3. Cardinality(others \cap units(k)) = 0
      BY <3>1, FS_EmptySet
    <3>. QED
      BY <1>7, <3>1, <3>2, <3>3, FetchConstants
  <2>2. Cardinality(ClaimedUnits(r)) = Cardinality(others) + worker[w].claim
    BY <1>3, <1>6, <1>8, <2>1
  <2>3. Cardinality(ClaimedUnits(r)') = Cardinality(others) + new.claim
    BY <1>4, <1>6, <1>8, <2>1
  <2>. QED
    BY <1>6, <1>7, <1>8, <2>2, <2>3
<1>9. CASE w.request # r
  BY <1>3, <1>4, <1>7, <1>9
<1>. QED
  BY <1>8, <1>9

LEMMA HoldersMove ==
  ASSUME FetchTyped, NEW w \in Fetches, NEW new \in WorkerRecord,
         worker' = [worker EXCEPT ![w] = new], NEW n \in Nodes
  PROVE  /\ IsFiniteSet(SlotHolders(n))
         /\ (w.node # n \/ (worker[w].at \in Working <=> new.at \in Working)) =>
              SlotHolders(n)' = SlotHolders(n)
         /\ (w.node = n /\ worker[w].at \notin Working /\ new.at \in Working) =>
              Cardinality(SlotHolders(n))' = Cardinality(SlotHolders(n)) + 1
         /\ (w.node = n /\ worker[w].at \in Working /\ new.at \notin Working) =>
              Cardinality(SlotHolders(n))' = Cardinality(SlotHolders(n)) - 1
<1>1. IsFiniteSet(SlotHolders(n))
  BY FetchConstants, FS_Subset DEF SlotHolders
<1>2. SlotHolders(n)' = {v \in Fetches : v.node = n
                          /\ (IF v = w THEN new.at ELSE worker[v].at) \in Working}
  BY DEF SlotHolders, FetchTyped
<1>3. ASSUME w.node # n \/ (worker[w].at \in Working <=> new.at \in Working)
      PROVE  SlotHolders(n)' = SlotHolders(n)
  BY <1>2, <1>3 DEF SlotHolders
<1>4. ASSUME w.node = n, worker[w].at \notin Working, new.at \in Working
      PROVE  Cardinality(SlotHolders(n))' = Cardinality(SlotHolders(n)) + 1
  <2>1. SlotHolders(n)' = SlotHolders(n) \cup {w} /\ w \notin SlotHolders(n)
    BY <1>2, <1>4 DEF SlotHolders
  <2>. QED
    BY <1>1, <2>1, FS_AddElement
<1>5. ASSUME w.node = n, worker[w].at \in Working, new.at \notin Working
      PROVE  Cardinality(SlotHolders(n))' = Cardinality(SlotHolders(n)) - 1
  <2>1. SlotHolders(n)' = SlotHolders(n) \ {w} /\ w \in SlotHolders(n)
    BY <1>2, <1>5 DEF SlotHolders
  <2>. QED
    BY <1>1, <2>1, FS_RemoveElement
<1>. QED
  BY <1>1, <1>3, <1>4, <1>5

-----------------------------------------------------------------------------
(* The steps of a worker, by what they do to its claim, its slot and its   *)
(* locks.                                                                  *)
LEMMA ClaimsKeep ==
  ASSUME FetchInv, NEW w \in Fetches, NEW new \in WorkerRecord, NEW n \in Nat,
         worker' = [worker EXCEPT ![w] = new], new.claim # 0 => new.at \in Claiming,
         consumed' = [consumed EXCEPT ![w.request] = @ + n],
         source' = [source EXCEPT ![w.request] = @ + n + new.claim - worker[w].claim],
         source'[w.request] <= MaxSource,
         pages' \in [Nodes \cup {"redis"} -> [ArtifactKeys -> Artifact \cup {NoArtifact}]],
         fillLock' \in [ArtifactKeys -> Fetches \cup {Unlocked}],
         slotsTaken' \in [Nodes -> Nat]
  PROVE  FetchTyped' /\ ChargesExact'
<1>. USE FetchConstants
<1>1. w.request \in FetchedRequests
  BY DEF FetchedRequests
<1>2. /\ worker[w].claim \in Nat /\ new.claim \in Nat
      /\ \A r \in FetchedRequests : source[r] \in Nat /\ consumed[r] \in Nat /\ source[r] <= MaxSource
  BY DEF FetchInv, FetchTyped, WorkerRecord
<1>3. \A r \in FetchedRequests :
        /\ Cardinality(ClaimedUnits(r)) \in Nat
        /\ Cardinality(ClaimedUnits(r))' =
             IF r = w.request
             THEN Cardinality(ClaimedUnits(r)) - worker[w].claim + new.claim
             ELSE Cardinality(ClaimedUnits(r))
        /\ Cardinality(ClaimedUnits(r))' \in Nat
  <2>1. FetchTyped
    BY DEF FetchInv
  <2>2. worker' \in [Fetches -> WorkerRecord]
    BY <2>1 DEF FetchTyped
  <2>3. \A r \in FetchedRequests : Cardinality(ClaimedUnits(r))' \in Nat
    <3>. SUFFICES ASSUME NEW r \in FetchedRequests PROVE Cardinality(ClaimedUnits(r))' \in Nat
      OBVIOUS
    <3>1. IsFiniteSet(1..SourceLimit)
      BY FS_Interval
    <3>2. IsFiniteSet(Fetches \X (1..SourceLimit))
      BY <3>1, FS_Product
    <3>. QED
      BY <3>2, FS_Subset, FS_CardinalityType DEF ClaimedUnits
  <2>. QED
    BY <2>1, <2>3, ClaimMoves
<1>4. \A r \in FetchedRequests :
        /\ source'[r] = consumed'[r] + Cardinality(ClaimedUnits(r))'
        /\ consumed'[r] \in Nat /\ source'[r] <= MaxSource
  <2>. SUFFICES ASSUME NEW r \in FetchedRequests
                PROVE  /\ source'[r] = consumed'[r] + Cardinality(ClaimedUnits(r))'
                       /\ consumed'[r] \in Nat /\ source'[r] <= MaxSource
    OBVIOUS
  <2>1. source[r] = consumed[r] + Cardinality(ClaimedUnits(r))
    BY DEF FetchInv, ChargesExact
  <2>2. CASE r = w.request
    <3>1. /\ source'[r] = source[r] + n + new.claim - worker[w].claim
          /\ consumed'[r] = consumed[r] + n
      BY <1>1, <2>2 DEF FetchInv, FetchTyped
    <3>2. Cardinality(ClaimedUnits(r))' = Cardinality(ClaimedUnits(r)) - worker[w].claim + new.claim
      BY <1>3, <2>2
    <3>. QED
      BY <1>2, <1>3, <2>1, <2>2, <3>1, <3>2
  <2>3. CASE r # w.request
    <3>1. source'[r] = source[r] /\ consumed'[r] = consumed[r]
      BY <2>3 DEF FetchInv, FetchTyped
    <3>2. Cardinality(ClaimedUnits(r))' = Cardinality(ClaimedUnits(r))
      BY <1>3, <2>3
    <3>. QED
      BY <1>2, <2>1, <3>1, <3>2
  <2>. QED
    BY <2>2, <2>3
<1>5. source' \in [FetchedRequests -> 0..MaxSource] /\ consumed' \in [FetchedRequests -> Nat]
  <2>1. \A r \in FetchedRequests : source'[r] \in 0..MaxSource /\ consumed'[r] \in Nat
    BY <1>3, <1>4
  <2>2. /\ source' = [r \in FetchedRequests |-> source'[r]]
        /\ consumed' = [r \in FetchedRequests |-> consumed'[r]]
    BY DEF FetchInv, FetchTyped
  <2>. QED
    BY <2>1, <2>2
<1>6. FetchTyped'
  BY <1>5 DEF FetchTyped, FetchInv
<1>7. ChargesExact'
  BY <1>4 DEF ChargesExact
<1>. QED
  BY <1>6, <1>7

(* Most steps touch no claim.                                              *)
LEMMA ClaimsRest ==
  ASSUME FetchInv, NEW w \in Fetches, NEW new \in WorkerRecord,
         worker' = [worker EXCEPT ![w] = new], new.claim = worker[w].claim,
         new.claim # 0 => new.at \in Claiming,
         UNCHANGED <<source, consumed, pages>>,
         fillLock' \in [ArtifactKeys -> Fetches \cup {Unlocked}],
         slotsTaken' \in [Nodes -> Nat]
  PROVE  FetchTyped' /\ ChargesExact'
<1>. USE FetchConstants
<1>1. w.request \in FetchedRequests
  BY DEF FetchedRequests
<1>2. worker[w].claim \in Nat /\ source[w.request] \in 0..MaxSource /\ consumed[w.request] \in Nat
  BY <1>1 DEF FetchInv, FetchTyped, WorkerRecord
<1>3. /\ consumed' = [consumed EXCEPT ![w.request] = @ + 0]
      /\ source' = [source EXCEPT ![w.request] = @ + 0 + new.claim - worker[w].claim]
  BY <1>1, <1>2 DEF FetchInv, FetchTyped
<1>4. source'[w.request] <= MaxSource
  BY <1>2
<1>5. pages' \in [Nodes \cup {"redis"} -> [ArtifactKeys -> Artifact \cup {NoArtifact}]]
  BY DEF FetchInv, FetchTyped
<1>. QED
  BY <1>3, <1>4, <1>5, ClaimsKeep, 0 \in Nat

LEMMA SlotsRest ==
  ASSUME FetchInv, NEW w \in Fetches, NEW new \in WorkerRecord,
         worker' = [worker EXCEPT ![w] = new], UNCHANGED slotsTaken,
         worker[w].at \in Working <=> new.at \in Working
  PROVE  SlotsCounted'
<1>1. \A n \in Nodes : SlotHolders(n)' = SlotHolders(n)
  BY HoldersMove DEF FetchInv
<1>. QED
  BY <1>1 DEF FetchInv, SlotsCounted

LEMMA LocksRest ==
  ASSUME FetchInv, NEW w \in Fetches, NEW new \in WorkerRecord,
         worker' = [worker EXCEPT ![w] = new], UNCHANGED <<fillLock, outlived>>,
         new.took = worker[w].took
  PROVE  LocksOwned'
<1>1. \A v \in Fetches : worker'[v].took = worker[v].took
  BY DEF FetchInv, FetchTyped
<1>. QED
  BY <1>1 DEF FetchInv, LocksOwned

(* A lock that nobody has is granted; one that is given back, or stays in  *)
(* Redis without a holder, is nobody else's.                               *)
LEMMA LocksShift ==
  ASSUME FetchInv, NEW w \in Fetches, NEW new \in WorkerRecord, NEW key \in ArtifactKeys,
         worker' = [worker EXCEPT ![w] = new],
         \/ /\ fillLock[key] = Unlocked /\ fillLock' = [fillLock EXCEPT ![key] = w]
            /\ outlived' = outlived /\ new.took \subseteq worker[w].took \cup {key}
         \/ /\ ReleaseTried(w, key) /\ new.took \subseteq worker[w].took \ {key}
            /\ \A v \in Fetches, k \in ArtifactKeys :
                 <<v, k>> \in outlived \ outlived' => v = w /\ k \notin new.took
  PROVE  LocksOwned' /\ fillLock' \in [ArtifactKeys -> Fetches \cup {Unlocked}]
<1>. USE FetchConstants
<1>1. \A v \in Fetches : worker'[v] = IF v = w THEN new ELSE worker[v]
  BY DEF FetchInv, FetchTyped
<1>2. fillLock \in [ArtifactKeys -> Fetches \cup {Unlocked}]
  BY DEF FetchInv, FetchTyped
<1>3. \A v \in Fetches, k \in ArtifactKeys :
        k \in worker[v].took /\ <<v, k>> \notin outlived => fillLock[k] = v
  BY DEF FetchInv, LocksOwned
<1>4. CASE /\ fillLock[key] = Unlocked /\ fillLock' = [fillLock EXCEPT ![key] = w]
           /\ outlived' = outlived /\ new.took \subseteq worker[w].took \cup {key}
  <2>1. fillLock' \in [ArtifactKeys -> Fetches \cup {Unlocked}]
    BY <1>2, <1>4
  <2>2. ASSUME NEW v \in Fetches, NEW k \in ArtifactKeys,
               k \in worker'[v].took, <<v, k>> \notin outlived'
        PROVE  fillLock'[k] = v
    <3>1. fillLock'[k] = IF k = key THEN w ELSE fillLock[k]
      BY <1>2, <1>4
    <3>2. CASE v = w
      <4>1. k \in worker[w].took \cup {key}
        BY <1>1, <1>4, <2>2, <3>2
      <4>. QED
        BY <1>3, <1>4, <2>2, <3>1, <3>2, <4>1
    <3>3. CASE v # w
      <4>1. fillLock[k] = v
        BY <1>1, <1>3, <1>4, <2>2, <3>3
      <4>. QED
        BY <1>4, <3>1, <4>1
    <3>. QED
      BY <3>2, <3>3
  <2>. QED
    BY <2>1, <2>2 DEF LocksOwned
<1>5. CASE /\ ReleaseTried(w, key) /\ new.took \subseteq worker[w].took \ {key}
           /\ \A v \in Fetches, k \in ArtifactKeys :
                <<v, k>> \in outlived \ outlived' => v = w /\ k \notin new.took
  <2>1. fillLock' \in [ArtifactKeys -> Fetches \cup {Unlocked}]
    BY <1>2, <1>5 DEF ReleaseTried, Released
  <2>2. ASSUME NEW v \in Fetches, NEW k \in ArtifactKeys,
               k \in worker'[v].took, <<v, k>> \notin outlived'
        PROVE  fillLock'[k] = v
    <3>1. fillLock'[k] = fillLock[k] \/ (k = key /\ fillLock[k] = w)
      BY <1>2, <1>5 DEF ReleaseTried, Released
    <3>2. k \in worker[v].took /\ (v = w => k \in new.took /\ k # key)
      BY <1>1, <1>5, <2>2
    <3>3. <<v, k>> \notin outlived
      BY <1>5, <2>2, <3>2
    <3>4. fillLock[k] = v
      BY <1>3, <3>2, <3>3
    <3>. QED
      BY <3>1, <3>2, <3>4
  <2>. QED
    BY <2>1, <2>2 DEF LocksOwned
<1>. QED
  BY <1>4, <1>5

LEMMA SlotsShift ==
  ASSUME FetchInv, NEW w \in Fetches, NEW new \in WorkerRecord,
         worker' = [worker EXCEPT ![w] = new],
         \/ SlotTakenBy(w) /\ worker[w].at \notin Working /\ new.at \in Working
         \/ SlotBack(w) /\ worker[w].at \in Working /\ new.at \notin Working
  PROVE  SlotsCounted' /\ slotsTaken' \in [Nodes -> Nat]
<1>. USE FetchConstants
<1>1. w.node \in Nodes /\ slotsTaken \in [Nodes -> Nat] /\ FetchTyped
  BY DEF FetchInv, FetchTyped
<1>2. \A n \in Nodes : /\ slotsTaken[n] = Cardinality(SlotHolders(n))
                       /\ IsFiniteSet(SlotHolders(n)) /\ IsFiniteSet(SlotHolders(n))'
  BY FS_Subset DEF FetchInv, SlotsCounted, SlotHolders
<1>3. \A n \in Nodes : Cardinality(SlotHolders(n))' \in Nat
  BY <1>2, FS_CardinalityType
<1>4. \A n \in Nodes : n # w.node =>
        slotsTaken'[n] = slotsTaken[n] /\ SlotHolders(n)' = SlotHolders(n)
  BY <1>1, HoldersMove DEF SlotTakenBy, SlotBack
<1>5. slotsTaken'[w.node] = Cardinality(SlotHolders(w.node))'
  BY <1>1, <1>2, HoldersMove DEF SlotTakenBy, SlotBack
<1>6. \A n \in Nodes : slotsTaken'[n] = Cardinality(SlotHolders(n))'
  BY <1>2, <1>4, <1>5
<1>7. slotsTaken' = [n \in Nodes |-> slotsTaken'[n]]
  BY <1>1 DEF SlotTakenBy, SlotBack
<1>. QED
  BY <1>3, <1>6, <1>7 DEF SlotsCounted

LEMMA GoesOn ==
  ASSUME FetchInv, NEW w \in Fetches, NEW new \in WorkerRecord,
         worker' = [worker EXCEPT ![w] = new],
         new.claim = worker[w].claim, new.claim # 0 => new.at \in Claiming,
         new.took = worker[w].took,
         worker[w].at \in Working <=> new.at \in Working,
         UNCHANGED <<options, source, consumed, pages, fillLock, outlived, slotsTaken>>
  PROVE  FetchInv'
<1>1. /\ fillLock' \in [ArtifactKeys -> Fetches \cup {Unlocked}]
      /\ slotsTaken' \in [Nodes -> Nat]
  BY DEF FetchInv, FetchTyped
<1>2. FetchTyped' /\ ChargesExact'
  BY <1>1, ClaimsRest
<1>3. SlotsCounted' /\ LocksOwned'
  BY SlotsRest, LocksRest
<1>. QED
  BY <1>2, <1>3 DEF FetchInv

(* What becomes of the worker's record.                                    *)
LEMMA RecordsOf ==
  ASSUME FetchTyped, NEW w \in Fetches,
         NEW place \in Working \cup {"start", "lookup", "slot", "done"}
  PROVE  /\ \E new \in WorkerRecord :
              /\ Moved(w, place) = [worker EXCEPT ![w] = new]
              /\ new.at = place /\ new.claim = worker[w].claim /\ new.took = worker[w].took
         /\ \A reason \in {"robots", "failed", "budget"} : \E new \in WorkerRecord :
              /\ FailedAt(w, place, reason) = [worker EXCEPT ![w] = new]
              /\ new.at = place /\ new.claim = 0 /\ new.took = worker[w].took
         /\ \A content \in Artifact \cup {NoArtifact} : \E new \in WorkerRecord :
              /\ AppliedContent(w, place, content) = [worker EXCEPT ![w] = new]
              /\ new.at = place /\ new.claim = 0 /\ new.took = worker[w].took
         /\ \A content \in Artifact \cup {NoArtifact} : \E new \in WorkerRecord :
              /\ AppliedRendered(w, place, content) = [worker EXCEPT ![w] = new]
              /\ new.at = place /\ new.claim = worker[w].claim /\ new.took = worker[w].took
<1>. USE FetchConstants
<1>0. worker \in [Fetches -> WorkerRecord] /\ worker[w] \in WorkerRecord
  BY DEF FetchTyped
<1>1. \E new \in WorkerRecord :
        /\ Moved(w, place) = [worker EXCEPT ![w] = new]
        /\ new.at = place /\ new.claim = worker[w].claim /\ new.took = worker[w].took
  <2>. DEFINE new == [worker[w] EXCEPT !.at = place]
  <2>1. new \in WorkerRecord /\ new.at = place /\ new.claim = worker[w].claim
        /\ new.took = worker[w].took
    BY <1>0 DEF WorkerRecord
  <2>2. Moved(w, place) = [worker EXCEPT ![w] = new]
    BY <1>0 DEF Moved
  <2>. QED
    BY <2>1, <2>2
<1>2. ASSUME NEW reason \in {"robots", "failed", "budget"}
      PROVE  \E new \in WorkerRecord :
               /\ FailedAt(w, place, reason) = [worker EXCEPT ![w] = new]
               /\ new.at = place /\ new.claim = 0 /\ new.took = worker[w].took
  <2>. DEFINE moved == [worker[w] EXCEPT !.at = place]
              cleared == [moved EXCEPT !.claim = 0]
              new == [cleared EXCEPT !.reason = reason]
  <2>1. moved \in WorkerRecord /\ moved.at = place /\ moved.took = worker[w].took
    BY <1>0 DEF WorkerRecord
  <2>. HIDE DEF moved
  <2>2. cleared \in WorkerRecord /\ cleared.at = place /\ cleared.took = worker[w].took
        /\ cleared.claim = 0
    BY <2>1 DEF WorkerRecord
  <2>. HIDE DEF cleared
  <2>3. new \in WorkerRecord /\ new.at = place /\ new.claim = 0 /\ new.took = worker[w].took
    BY <2>2 DEF WorkerRecord
  <2>. USE DEF cleared, moved
  <2>4. FailedAt(w, place, reason) = [worker EXCEPT ![w] = new]
    BY <1>0 DEF FailedAt
  <2>. QED
    BY <2>3, <2>4
<1>3. ASSUME NEW content \in Artifact \cup {NoArtifact}
      PROVE  \E new \in WorkerRecord :
               /\ AppliedContent(w, place, content) = [worker EXCEPT ![w] = new]
               /\ new.at = place /\ new.claim = 0 /\ new.took = worker[w].took
  <2>. DEFINE told == IF content = "js" /\ worker[w].reason = "none" THEN "js"
                      ELSE worker[w].reason
              moved == [worker[w] EXCEPT !.at = place]
              cleared == [moved EXCEPT !.claim = 0]
              filled == [cleared EXCEPT !.content = content]
              new == [filled EXCEPT !.reason = told]
  <2>0. told \in {"none", "js", "robots", "failed", "budget"}
    BY <1>0 DEF WorkerRecord
  <2>1. moved \in WorkerRecord /\ moved.at = place /\ moved.took = worker[w].took
    BY <1>0 DEF WorkerRecord
  <2>. HIDE DEF moved, told
  <2>2. cleared \in WorkerRecord /\ cleared.at = place /\ cleared.took = worker[w].took
        /\ cleared.claim = 0
    BY <2>1 DEF WorkerRecord
  <2>. HIDE DEF cleared
  <2>3. filled \in WorkerRecord /\ filled.at = place /\ filled.took = worker[w].took
        /\ filled.claim = 0
    BY <2>2 DEF WorkerRecord
  <2>. HIDE DEF filled
  <2>4. new \in WorkerRecord /\ new.at = place /\ new.claim = 0 /\ new.took = worker[w].took
    BY <2>0, <2>3 DEF WorkerRecord
  <2>. USE DEF filled, cleared, moved, told
  <2>5. AppliedContent(w, place, content) = [worker EXCEPT ![w] = new]
    BY <1>0 DEF AppliedContent, WorkerRecord
  <2>. QED
    BY <2>4, <2>5
<1>4. ASSUME NEW content \in Artifact \cup {NoArtifact}
      PROVE  \E new \in WorkerRecord :
               /\ AppliedRendered(w, place, content) = [worker EXCEPT ![w] = new]
               /\ new.at = place /\ new.claim = worker[w].claim /\ new.took = worker[w].took
  <2>. DEFINE new == [worker[w] EXCEPT !.at = place, !.content = content, !.reason = "none"]
  <2>1. new \in WorkerRecord /\ new.at = place /\ new.claim = worker[w].claim
        /\ new.took = worker[w].took
    BY <1>0 DEF WorkerRecord
  <2>2. AppliedRendered(w, place, content) = [worker EXCEPT ![w] = new]
    BY <1>0 DEF AppliedRendered
  <2>. QED
    BY <2>1, <2>2
<1>. QED
  BY <1>1, <1>2, <1>3, <1>4

LEMMA KeysOf ==
  ASSUME FetchTyped, NEW w \in Fetches
  PROVE  /\ Plain(w) \in ArtifactKeys /\ Rendered(w) \in ArtifactKeys
         /\ Plain(w) # Rendered(w) /\ MainKey(w) \in {Plain(w), Rendered(w)}
         /\ \A key \in ArtifactKeys : Cached(w, key) \in Artifact \cup {NoArtifact}
<1>1. Home(w) \in Nodes \cup {"redis"}
  BY FetchConstants DEF Home
<1>. QED
  BY <1>1 DEF Plain, Rendered, MainKey, ArtifactKeys, Cached, FetchTyped

-----------------------------------------------------------------------------
Quiet == UNCHANGED <<options, source, consumed, pages, fillLock, outlived>>

LEMMA FromPlace ==
  ASSUME FetchInv, NEW w \in Fetches
  PROVE  worker[w] \in WorkerRecord
         /\ FetchTyped /\ (worker[w].at \notin Claiming => worker[w].claim = 0)
BY DEF FetchInv, FetchTyped

(* A worker takes or gives back a slot and nothing else.                   *)
LEMMA SlotStep ==
  ASSUME FetchInv, NEW w \in Fetches, NEW new \in WorkerRecord,
         worker' = [worker EXCEPT ![w] = new], Quiet,
         \/ SlotTakenBy(w) /\ worker[w].at \notin Working /\ new.at \in Working
         \/ SlotBack(w) /\ worker[w].at \in Working /\ new.at \notin Working,
         worker[w].claim = 0, new.claim = 0, new.took = worker[w].took
  PROVE  FetchInv'
<1>1. SlotsCounted' /\ slotsTaken' \in [Nodes -> Nat]
  BY SlotsShift
<1>2. fillLock' \in [ArtifactKeys -> Fetches \cup {Unlocked}]
  BY DEF FetchInv, FetchTyped, Quiet
<1>3. FetchTyped' /\ ChargesExact'
  BY <1>1, <1>2, ClaimsRest DEF Quiet
<1>4. LocksOwned'
  BY LocksRest DEF Quiet
<1>. QED
  BY <1>1, <1>3, <1>4 DEF FetchInv

LEMMA BeforeTheSlot ==
  ASSUME FetchInv, NEW w \in Fetches,
         TakeDocument(w) \/ AskRobots(w) \/ RobotsAnswer(w) \/ LookUp(w) \/ TakeSlot(w)
  PROVE  FetchInv'
<1>0. /\ FetchTyped
      /\ worker[w].at \notin Claiming => worker[w].claim = 0
  BY FromPlace
<1>1. CASE AskRobots(w)
  <2>1. worker[w].at = "start" /\ worker[w].claim = 0 /\ Quiet
    BY <1>0, <1>1 DEF AskRobots, At, Claiming, Quiet
  <2>2. CASE SlotTakenBy(w) /\ worker' = Moved(w, "robots")
    <3>1. PICK new \in WorkerRecord :
            /\ Moved(w, "robots") = [worker EXCEPT ![w] = new]
            /\ new.at = "robots" /\ new.claim = worker[w].claim /\ new.took = worker[w].took
      BY <1>0, RecordsOf DEF Working
    <3>. QED
      BY <2>1, <2>2, <3>1, SlotStep DEF Working
  <2>3. CASE UNCHANGED slotsTaken /\ worker' = Moved(w, "lookup")
    <3>1. PICK new \in WorkerRecord :
            /\ Moved(w, "lookup") = [worker EXCEPT ![w] = new]
            /\ new.at = "lookup" /\ new.claim = worker[w].claim /\ new.took = worker[w].took
      BY <1>0, RecordsOf
    <3>. QED
      BY <2>1, <2>3, <3>1, GoesOn DEF Working, Quiet
  <2>4. CASE UNCHANGED slotsTaken /\ worker' = FailedAt(w, "done", "failed")
    <3>1. PICK new \in WorkerRecord :
            /\ FailedAt(w, "done", "failed") = [worker EXCEPT ![w] = new]
            /\ new.at = "done" /\ new.claim = 0 /\ new.took = worker[w].took
      BY <1>0, RecordsOf
    <3>. QED
      BY <2>1, <2>4, <3>1, GoesOn DEF Working, Quiet
  <2>. QED
    BY <1>1, <2>2, <2>3, <2>4 DEF AskRobots
<1>2. CASE RobotsAnswer(w)
  <2>1. worker[w].at = "robots" /\ worker[w].claim = 0 /\ Quiet /\ SlotBack(w)
    BY <1>0, <1>2 DEF RobotsAnswer, At, Claiming, Quiet
  <2>2. CASE worker' = Moved(w, "lookup")
    <3>1. PICK new \in WorkerRecord :
            /\ Moved(w, "lookup") = [worker EXCEPT ![w] = new]
            /\ new.at = "lookup" /\ new.claim = worker[w].claim /\ new.took = worker[w].took
      BY <1>0, RecordsOf
    <3>. QED
      BY <2>1, <2>2, <3>1, SlotStep DEF Working
  <2>3. CASE worker' = FailedAt(w, "done", "robots")
    <3>1. PICK new \in WorkerRecord :
            /\ FailedAt(w, "done", "robots") = [worker EXCEPT ![w] = new]
            /\ new.at = "done" /\ new.claim = 0 /\ new.took = worker[w].took
      BY <1>0, RecordsOf
    <3>. QED
      BY <2>1, <2>3, <3>1, SlotStep DEF Working
  <2>. QED
    BY <1>2, <2>2, <2>3 DEF RobotsAnswer
<1>3. CASE LookUp(w)
  <2>1. /\ worker[w].at = "lookup" /\ worker[w].claim = 0
        /\ UNCHANGED <<options, source, consumed, pages, fillLock, outlived, slotsTaken>>
    BY <1>0, <1>3 DEF LookUp, At, Claiming
  <2>2. Cached(w, MainKey(w)) \in Artifact \cup {NoArtifact}
    BY <1>0, KeysOf
  <2>3. PICK new \in WorkerRecord :
          /\ worker' = [worker EXCEPT ![w] = new] /\ new.at \in {"done", "slot"}
          /\ new.claim = 0 /\ new.took = worker[w].took
    <3>1. \E new \in WorkerRecord :
            /\ AppliedContent(w, "done", Cached(w, MainKey(w))) = [worker EXCEPT ![w] = new]
            /\ new.at = "done" /\ new.claim = 0 /\ new.took = worker[w].took
      <4>1. "done" \in Working \cup {"start", "lookup", "slot", "done"}
        OBVIOUS
      <4>2. \A content \in Artifact \cup {NoArtifact} : \E new \in WorkerRecord :
              /\ AppliedContent(w, "done", content) = [worker EXCEPT ![w] = new]
              /\ new.at = "done" /\ new.claim = 0 /\ new.took = worker[w].took
        BY <1>0, <4>1, RecordsOf
      <4>. QED
        BY <2>2, <4>2
    <3>2. \E new \in WorkerRecord :
            /\ Moved(w, "slot") = [worker EXCEPT ![w] = new]
            /\ new.at = "slot" /\ new.claim = worker[w].claim /\ new.took = worker[w].took
      BY <1>0, RecordsOf
    <3>. QED
      BY <1>3, <2>1, <3>1, <3>2 DEF LookUp
  <2>. QED
    BY <2>1, <2>3, GoesOn DEF Working
<1>4. CASE TakeSlot(w)
  <2>1. worker[w].at = "slot" /\ worker[w].claim = 0 /\ Quiet
    BY <1>0, <1>4 DEF TakeSlot, At, Claiming, Quiet
  <2>2. CASE SlotTakenBy(w) /\ worker' = Moved(w, IF Locking(w) THEN "lock" ELSE "inside")
    <3>0. PICK place \in {"lock", "inside"} : place = IF Locking(w) THEN "lock" ELSE "inside"
      OBVIOUS
    <3>1. PICK new \in WorkerRecord :
            /\ Moved(w, place) = [worker EXCEPT ![w] = new]
            /\ new.at = place /\ new.claim = worker[w].claim
            /\ new.took = worker[w].took
      <4>1. place \in Working \cup {"start", "lookup", "slot", "done"}
        BY DEF Working
      <4>. QED
        BY <1>0, <4>1, RecordsOf
    <3>. QED
      BY <2>1, <2>2, <3>0, <3>1, SlotStep DEF Working
  <2>3. CASE UNCHANGED slotsTaken /\ worker' = Moved(w, "done")
    <3>1. PICK new \in WorkerRecord :
            /\ Moved(w, "done") = [worker EXCEPT ![w] = new]
            /\ new.at = "done" /\ new.claim = worker[w].claim /\ new.took = worker[w].took
      BY <1>0, RecordsOf
    <3>. QED
      BY <2>1, <2>3, <3>1, GoesOn DEF Working, Quiet
  <2>. QED
    BY <1>4, <2>2, <2>3 DEF TakeSlot
<1>5. CASE TakeDocument(w)
  <2>1. worker[w].at = "start" /\ worker[w].claim = 0 /\ Quiet
    BY <1>0, <1>5 DEF TakeDocument, At, Claiming, Quiet
  <2>2. CASE SlotTakenBy(w) /\ worker' = Moved(w, "document")
    <3>1. PICK new \in WorkerRecord :
            /\ Moved(w, "document") = [worker EXCEPT ![w] = new]
            /\ new.at = "document" /\ new.claim = worker[w].claim /\ new.took = worker[w].took
      BY <1>0, RecordsOf DEF Working
    <3>. QED
      BY <2>1, <2>2, <3>1, SlotStep DEF Working
  <2>3. CASE UNCHANGED slotsTaken /\ worker' = FailedAt(w, "done", "failed")
    <3>1. PICK new \in WorkerRecord :
            /\ FailedAt(w, "done", "failed") = [worker EXCEPT ![w] = new]
            /\ new.at = "done" /\ new.claim = 0 /\ new.took = worker[w].took
      BY <1>0, RecordsOf
    <3>. QED
      BY <2>1, <2>3, <3>1, GoesOn DEF Working, Quiet
  <2>. QED
    BY <1>5, <2>2, <2>3 DEF TakeDocument
<1>. QED
  BY <1>1, <1>2, <1>3, <1>4, <1>5

(* A worker takes a lock, or gives one back.                               *)
LEMMA LockStep ==
  ASSUME FetchInv, NEW w \in Fetches, NEW new \in WorkerRecord, NEW key \in ArtifactKeys,
         worker' = [worker EXCEPT ![w] = new],
         UNCHANGED <<options, source, consumed, pages, slotsTaken>>,
         worker[w].at \in Working, new.at \in Working,
         worker[w].claim = 0, new.claim = 0,
         \/ /\ fillLock[key] = Unlocked /\ fillLock' = [fillLock EXCEPT ![key] = w]
            /\ outlived' = outlived /\ new.took \subseteq worker[w].took \cup {key}
         \/ /\ ReleaseTried(w, key) /\ new.took \subseteq worker[w].took \ {key}
            /\ \A v \in Fetches, k \in ArtifactKeys :
                 <<v, k>> \in outlived \ outlived' => v = w /\ k \notin new.took
  PROVE  FetchInv'
<1>1. LocksOwned' /\ fillLock' \in [ArtifactKeys -> Fetches \cup {Unlocked}]
  BY LocksShift
<1>2. slotsTaken' \in [Nodes -> Nat]
  BY DEF FetchInv, FetchTyped
<1>3. FetchTyped' /\ ChargesExact'
  BY <1>1, <1>2, ClaimsRest
<1>4. SlotsCounted'
  BY SlotsRest
<1>. QED
  BY <1>1, <1>3, <1>4 DEF FetchInv

LEMMA TookRecord ==
  ASSUME NEW x \in WorkerRecord, NEW keys \in SUBSET ArtifactKeys
  PROVE  LET new == [x EXCEPT !.took = keys]
         IN  /\ new \in WorkerRecord /\ new.at = x.at /\ new.claim = x.claim
             /\ new.took = keys
BY DEF WorkerRecord

LEMMA TakesLock ==
  ASSUME FetchInv, NEW w \in Fetches, TakeFillLock(w)
  PROVE  FetchInv'
<1>0. /\ FetchTyped
      /\ worker[w].at \notin Claiming => worker[w].claim = 0
  BY FromPlace
<1>. DEFINE key == LockKey(w)
            place == IF At(w, "lock") THEN "inside" ELSE "rinside"
<1>1. /\ worker[w].at \in {"lock", "rlock"} /\ worker[w].claim = 0
      /\ UNCHANGED <<options, source, consumed, pages, outlived, slotsTaken>>
  BY <1>0 DEF TakeFillLock, At, Claiming
<1>2. key \in ArtifactKeys /\ place \in Working
  BY <1>0, KeysOf DEF LockKey, Working
<1>. HIDE DEF place
<1>3. PICK gone \in WorkerRecord :
        /\ Moved(w, place) = [worker EXCEPT ![w] = gone]
        /\ gone.at = place /\ gone.claim = worker[w].claim /\ gone.took = worker[w].took
  BY <1>0, <1>2, RecordsOf
<1>5. CASE fillLock[key] = Unlocked /\ fillLock' = [fillLock EXCEPT ![key] = w]
           /\ worker' = [Moved(w, place) EXCEPT ![w].took = @ \cup {key}]
  <2>. DEFINE new == [gone EXCEPT !.took = worker[w].took \cup {key}]
  <2>1. worker[w].took \cup {key} \in SUBSET ArtifactKeys
    BY <1>0, <1>2 DEF FetchTyped, WorkerRecord
  <2>2. /\ new \in WorkerRecord /\ new.at = place /\ new.claim = 0
        /\ new.took = worker[w].took \cup {key}
    BY <1>1, <1>3, <2>1, TookRecord
  <2>3. worker' = [worker EXCEPT ![w] = new]
    BY <1>0, <1>3, <1>5 DEF FetchTyped
  <2>. HIDE DEF new, place, key
  <2>. QED
    BY <1>1, <1>2, <1>5, <2>2, <2>3, LockStep DEF Working
<1>6. CASE fillLock[key] = Unlocked /\ fillLock' = [fillLock EXCEPT ![key] = w]
           /\ worker' = Moved(w, place)
  <2>. HIDE DEF place, key
  <2>. QED
    BY <1>1, <1>2, <1>3, <1>6, LockStep DEF Working
<1>7. CASE UNCHANGED fillLock /\ worker' = Moved(w, place)
  <2>. HIDE DEF place, key
  <2>. QED
    BY <1>1, <1>2, <1>3, <1>7, GoesOn DEF Working
<1>. QED
  BY <1>5, <1>6, <1>7 DEF TakeFillLock, place

(* A claim is made, or there is nothing to claim for or with.              *)
LEMMA LeastOfTwo ==
  ASSUME NEW a \in Int, NEW b \in Int
  PROVE  Min({a, b}) = IF a <= b THEN a ELSE b
<1>1. \E x \in {a, b} : \A y \in {a, b} : x <= y
  BY a <= b \/ b <= a
<1>2. Min({a, b}) \in {a, b} /\ \A y \in {a, b} : Min({a, b}) <= y
  BY <1>1 DEF Min
<1>. QED
  BY <1>2

LEMMA ClaimStep ==
  ASSUME FetchInv, NEW w \in Fetches, NEW key \in ArtifactKeys, NEW next \in Claiming,
         worker[w].at \in {"inside", "rinside", "auto"}, Claim(w, key, next),
         UNCHANGED <<options, consumed, pages, fillLock, outlived, slotsTaken>>
  PROVE  FetchInv'
<1>. USE FetchConstants
<1>0. FetchTyped /\ worker[w].claim = 0 /\ worker[w].at \in Working
      /\ LastPlace(w) \in Working \ Claiming /\ next \in Working /\ worker[w].at \notin Claiming
  BY FromPlace DEF Claiming, Working, LastPlace
<1>1. Cached(w, key) \in Artifact \cup {NoArtifact}
  BY <1>0, KeysOf
<1>2. w.request \in FetchedRequests
  BY DEF FetchedRequests
<1>. DEFINE claim == Claimable(w.request)
<1>3. CASE \/ worker' = AppliedContent(w, LastPlace(w), Cached(w, key)) /\ UNCHANGED source
           \/ worker' = AppliedRendered(w, LastPlace(w), Cached(w, key)) /\ UNCHANGED source
           \/ worker' = FailedAt(w, LastPlace(w), "budget") /\ UNCHANGED source
  <2>1. PICK new \in WorkerRecord :
          /\ worker' = [worker EXCEPT ![w] = new] /\ new.at = LastPlace(w)
          /\ new.claim = 0 /\ new.took = worker[w].took
    <3>1. \E new \in WorkerRecord :
            /\ AppliedContent(w, LastPlace(w), Cached(w, key)) = [worker EXCEPT ![w] = new]
            /\ new.at = LastPlace(w) /\ new.claim = 0 /\ new.took = worker[w].took
      BY <1>0, <1>1, RecordsOf
    <3>2. \E new \in WorkerRecord :
            /\ AppliedRendered(w, LastPlace(w), Cached(w, key)) = [worker EXCEPT ![w] = new]
            /\ new.at = LastPlace(w) /\ new.claim = worker[w].claim /\ new.took = worker[w].took
      BY <1>0, <1>1, RecordsOf
    <3>3. \E new \in WorkerRecord :
            /\ FailedAt(w, LastPlace(w), "budget") = [worker EXCEPT ![w] = new]
            /\ new.at = LastPlace(w) /\ new.claim = 0 /\ new.took = worker[w].took
      BY <1>0, RecordsOf
    <3>. QED
      BY <1>0, <1>3, <3>1, <3>2, <3>3
  <2>3. UNCHANGED <<options, source, consumed, pages, fillLock, outlived, slotsTaken>>
    BY <1>3
  <2>. QED
    BY <1>0, <2>1, <2>3, GoesOn
<1>4. CASE /\ claim > 0
           /\ worker' = [worker EXCEPT ![w].at = next, ![w].claim = claim]
           /\ source' = [source EXCEPT ![w.request] = @ + claim]
  <2>1. source[w.request] \in 0..MaxSource /\ worker[w] \in WorkerRecord
    BY <1>0, <1>2 DEF FetchTyped
  <2>2. claim \in 1..SourceLimit /\ source[w.request] + claim <= MaxSource
    <3>1. MaxSource - source[w.request] \in Int /\ SourceLimit \in Int
      BY <2>1
    <3>2. claim = IF SourceLimit <= MaxSource - source[w.request] THEN SourceLimit
                  ELSE MaxSource - source[w.request]
      BY <3>1, LeastOfTwo DEF Claimable
    <3>. QED
      BY <1>4, <2>1, <3>1, <3>2
  <2>. HIDE DEF claim
  <2>. DEFINE moved == [worker[w] EXCEPT !.at = next]
              new == [moved EXCEPT !.claim = claim]
  <2>3. moved \in WorkerRecord /\ moved.at = next /\ moved.took = worker[w].took
    BY <1>0, <2>1 DEF WorkerRecord
  <2>4. worker' = [worker EXCEPT ![w] = new]
    BY <1>0, <1>4 DEF FetchTyped
  <2>. HIDE DEF moved
  <2>5. /\ new \in WorkerRecord /\ new.at = next /\ new.claim = claim
        /\ new.took = worker[w].took
    BY <2>2, <2>3 DEF WorkerRecord
  <2>. HIDE DEF new
  <2>6. /\ consumed' = [consumed EXCEPT ![w.request] = @ + 0]
        /\ source' = [source EXCEPT ![w.request] = @ + 0 + new.claim - worker[w].claim]
    <3>1. consumed[w.request] \in Nat /\ consumed \in [FetchedRequests -> Nat]
      BY <1>0, <1>2 DEF FetchTyped
    <3>2. consumed[w.request] + 0 = consumed[w.request]
          /\ source[w.request] + claim = source[w.request] + 0 + new.claim - worker[w].claim
      BY <1>0, <2>1, <2>2, <2>5, <3>1
    <3>. QED
      BY <1>4, <3>1, <3>2
  <2>7. source'[w.request] <= MaxSource
    BY <1>0, <1>2, <1>4, <2>2 DEF FetchTyped
  <2>8. /\ pages' \in [Nodes \cup {"redis"} -> [ArtifactKeys -> Artifact \cup {NoArtifact}]]
        /\ fillLock' \in [ArtifactKeys -> Fetches \cup {Unlocked}]
        /\ slotsTaken' \in [Nodes -> Nat]
    BY <1>0 DEF FetchTyped
  <2>9. FetchTyped' /\ ChargesExact'
    BY <2>4, <2>5, <2>6, <2>7, <2>8, ClaimsKeep, 0 \in Nat
  <2>10. SlotsCounted' /\ LocksOwned'
    BY <1>0, <2>4, <2>5, SlotsRest, LocksRest
  <2>. QED
    BY <2>9, <2>10 DEF FetchInv
<1>5. claim \in Int
  <2>1. source[w.request] \in 0..MaxSource
    BY <1>0, <1>2 DEF FetchTyped
  <2>2. MaxSource - source[w.request] \in Int /\ SourceLimit \in Int
    BY <2>1
  <2>. QED
    BY <2>2, LeastOfTwo DEF Claimable
<1>. HIDE DEF claim
<1>6. \/ worker' = AppliedContent(w, LastPlace(w), Cached(w, key)) /\ UNCHANGED source
      \/ worker' = AppliedRendered(w, LastPlace(w), Cached(w, key)) /\ UNCHANGED source
      \/ worker' = FailedAt(w, LastPlace(w), "budget") /\ UNCHANGED source
      \/ /\ claim > 0
         /\ worker' = [worker EXCEPT ![w].at = next, ![w].claim = claim]
         /\ source' = [source EXCEPT ![w.request] = @ + claim]
  BY <1>5 DEF Claim, claim
<1>. QED
  BY <1>3, <1>4, <1>6

LEMMA InsideKeeps ==
  ASSUME FetchInv, NEW w \in Fetches, Inside(w) \/ AutoRender(w)
  PROVE  FetchInv'
<1>0. FetchTyped /\ worker[w].claim = 0
      /\ worker[w].at \in {"inside", "rinside", "auto"}
      /\ UNCHANGED <<options, consumed, pages, fillLock, outlived, slotsTaken>>
  BY FromPlace DEF Inside, AutoRender, At, Claiming
<1>1. Plain(w) \in ArtifactKeys /\ Rendered(w) \in ArtifactKeys
  BY <1>0, KeysOf
<1>2. CASE At(w, "inside") /\ MainKey(w) = Plain(w) /\ Claim(w, Plain(w), "fetch")
  <2>. QED
    BY <1>0, <1>1, <1>2, ClaimStep DEF Claiming
<1>3. CASE At(w, "inside") /\ MainKey(w) = Rendered(w) /\ Claim(w, Rendered(w), "render")
  <2>. QED
    BY <1>0, <1>1, <1>3, ClaimStep DEF Claiming
<1>4. CASE (At(w, "rinside") \/ At(w, "auto")) /\ Claim(w, Rendered(w), "rerender")
  <2>. QED
    BY <1>0, <1>1, <1>4, ClaimStep DEF Claiming
<1>5. CASE At(w, "auto") /\ worker' = Moved(w, "rlock") /\ UNCHANGED source
  <2>1. PICK new \in WorkerRecord :
          /\ Moved(w, "rlock") = [worker EXCEPT ![w] = new]
          /\ new.at = "rlock" /\ new.claim = worker[w].claim /\ new.took = worker[w].took
    <3>1. "rlock" \in Working \cup {"start", "lookup", "slot", "done"}
      BY DEF Working
    <3>. QED
      BY <1>0, <3>1, RecordsOf
  <2>. QED
    BY <1>0, <1>5, <2>1, GoesOn DEF Working, At
<1>. QED
  BY <1>2, <1>3, <1>4, <1>5 DEF Inside, AutoRender

(* What a fetch or a rendering comes to.                                   *)
LEMMA OutcomeKeeps ==
  ASSUME FetchInv, NEW w \in Fetches, NEW new \in WorkerRecord,
         NEW used \in Nat, NEW read \in Nat,
         worker[w].at \in Claiming, worker' = [worker EXCEPT ![w] = new],
         new.claim = 0, new.took = worker[w].took, new.at \in Working,
         source' = Finished(w, used), Used(w, read),
         \/ used = read /\ used <= worker[w].claim
         \/ used > worker[w].claim /\ read = worker[w].claim,
         pages' \in [Nodes \cup {"redis"} -> [ArtifactKeys -> Artifact \cup {NoArtifact}]],
         UNCHANGED <<options, fillLock, outlived, slotsTaken>>
  PROVE  FetchInv'
<1>. USE FetchConstants
<1>0. FetchTyped /\ worker[w] \in WorkerRecord /\ worker[w].at \in Working
  BY FromPlace DEF Claiming, Working
<1>1. w.request \in FetchedRequests
  BY DEF FetchedRequests
<1>2. /\ source \in [FetchedRequests -> 0..MaxSource] /\ source[w.request] \in 0..MaxSource
      /\ consumed \in [FetchedRequests -> Nat] /\ consumed[w.request] \in Nat
      /\ worker[w].claim \in 0..SourceLimit
  BY <1>0, <1>1 DEF FetchTyped, WorkerRecord
<1>3. /\ consumed' = [consumed EXCEPT ![w.request] = @ + read]
      /\ source' = [source EXCEPT ![w.request] = @ + read + new.claim - worker[w].claim]
      /\ source'[w.request] <= MaxSource
  <2>1. consumed' = [consumed EXCEPT ![w.request] = @ + read]
    BY DEF Used
  <2>2. CASE used = read /\ used <= worker[w].claim
    <3>1. source' = [source EXCEPT ![w.request] = @ - (worker[w].claim - used)]
      BY <1>2, <2>2 DEF Finished
    <3>2. source[w.request] - (worker[w].claim - used)
            = source[w.request] + read + new.claim - worker[w].claim
      BY <1>2, <2>2
    <3>3. source'[w.request] = source[w.request] - (worker[w].claim - used)
      BY <1>1, <1>2, <3>1
    <3>. QED
      BY <1>2, <2>1, <2>2, <3>1, <3>2, <3>3
  <2>3. CASE used > worker[w].claim /\ read = worker[w].claim
    <3>1. source' = source
      BY <1>2, <2>3 DEF Finished
    <3>2. source[w.request] = source[w.request] + read + new.claim - worker[w].claim
      BY <1>2, <2>3
    <3>. QED
      BY <1>1, <1>2, <2>1, <3>1, <3>2
  <2>. QED
    BY <2>2, <2>3
<1>4. /\ fillLock' \in [ArtifactKeys -> Fetches \cup {Unlocked}]
      /\ slotsTaken' \in [Nodes -> Nat]
  BY <1>0 DEF FetchTyped
<1>5. FetchTyped' /\ ChargesExact'
  BY <1>3, <1>4, ClaimsKeep
<1>6. SlotsCounted' /\ LocksOwned'
  BY <1>0, SlotsRest, LocksRest
<1>. QED
  BY <1>5, <1>6 DEF FetchInv

LEMMA StoredTyped ==
  ASSUME FetchTyped, NEW w \in Fetches, NEW key \in ArtifactKeys, NEW content \in Artifact
  PROVE  Stored(w, key, content)
           \in [Nodes \cup {"redis"} -> [ArtifactKeys -> Artifact \cup {NoArtifact}]]
<1>1. Home(w) \in Nodes \cup {"redis"}
  BY FetchConstants DEF Home
<1>. QED
  BY <1>1 DEF Stored, FetchTyped

LEMMA OutcomesKeep ==
  ASSUME FetchInv, NEW w \in Fetches,
         FetchFails(w) \/ FetchTooLarge(w) \/ Fetched(w) \/ RenderFails(w) \/ Rendering(w)
  PROVE  FetchInv'
<1>. USE FetchConstants
<1>0. /\ FetchTyped /\ worker[w].at \in Claiming
      /\ worker[w].claim \in Nat /\ UNCHANGED <<options, fillLock, outlived, slotsTaken>>
  BY FromPlace
  DEF FetchFails, FetchTooLarge, Fetched, RenderFails, Rendering, At, Claiming, WorkerRecord
<1>1. PICK place \in {"unlock", "runlock", "auto"} :
        \/ worker' = FailedAt(w, place, "failed") \/ worker' = FailedAt(w, place, "budget")
        \/ \E content \in Artifact : worker' = AppliedContent(w, place, content)
  BY DEF FetchFails, FetchTooLarge, Fetched, RenderFails, Rendering, At, RenderEnd
<1>2. place \in Working /\ place \in Working \cup {"start", "lookup", "slot", "done"}
  BY DEF Working
<1>3. PICK new \in WorkerRecord :
        /\ worker' = [worker EXCEPT ![w] = new]
        /\ new.at = place /\ new.claim = 0 /\ new.took = worker[w].took
  <2>1. CASE worker' = FailedAt(w, place, "failed")
    BY <1>0, <1>2, <2>1, RecordsOf
  <2>2. CASE worker' = FailedAt(w, place, "budget")
    BY <1>0, <1>2, <2>2, RecordsOf
  <2>3. CASE \E content \in Artifact : worker' = AppliedContent(w, place, content)
    BY <1>0, <1>2, <2>3, RecordsOf
  <2>. QED
    BY <1>1, <2>1, <2>2, <2>3
<1>5. pages' \in [Nodes \cup {"redis"} -> [ArtifactKeys -> Artifact \cup {NoArtifact}]]
  <2>1. pages \in [Nodes \cup {"redis"} -> [ArtifactKeys -> Artifact \cup {NoArtifact}]]
    BY <1>0 DEF FetchTyped
  <2>2. Plain(w) \in ArtifactKeys /\ Rendered(w) \in ArtifactKeys
    BY <1>0, KeysOf
  <2>. QED
    BY <1>0, <2>1, <2>2, StoredTyped
    DEF FetchFails, FetchTooLarge, Fetched, RenderFails, Rendering
<1>6. PICK used \in Nat, read \in Nat :
        /\ source' = Finished(w, used) /\ Used(w, read)
        /\ \/ used = read /\ used <= worker[w].claim
           \/ used > worker[w].claim /\ read = worker[w].claim
  <2>1. CASE FetchFails(w) \/ RenderFails(w)
    <3>1. PICK n \in 0..worker[w].claim : source' = Finished(w, n) /\ Used(w, n)
      BY <2>1 DEF FetchFails, RenderFails
    <3>. QED
      BY <1>0, <3>1
  <2>2. CASE Fetched(w) \/ Rendering(w)
    <3>1. PICK n \in 1..worker[w].claim : source' = Finished(w, n) /\ Used(w, n)
      BY <2>2 DEF Fetched, Rendering
    <3>. QED
      BY <1>0, <3>1
  <2>3. CASE FetchTooLarge(w)
    <3>1. source' = Finished(w, worker[w].claim + 1) /\ Used(w, worker[w].claim)
      BY <2>3 DEF FetchTooLarge
    <3>. QED
      BY <1>0, <3>1
  <2>. QED
    BY <2>1, <2>2, <2>3
<1>. QED
  BY <1>0, <1>2, <1>3, <1>5, <1>6, OutcomeKeeps

LEMMA GivesBack ==
  ASSUME FetchInv, NEW w \in Fetches, GiveBack(w)
  PROVE  FetchInv'
<1>0. /\ FetchTyped /\ worker[w] \in WorkerRecord
      /\ worker[w].claim = 0
      /\ UNCHANGED <<options, source, consumed, pages>>
  BY FromPlace DEF GiveBack, At, Claiming
<1>1. Rendered(w) \in ArtifactKeys /\ MainKey(w) \in ArtifactKeys /\ Plain(w) # Rendered(w)
  BY <1>0, KeysOf
<1>2. CASE /\ worker[w].at = "runlock" /\ ReleaseTried(w, Rendered(w))
           /\ worker' = [Moved(w, "unlock") EXCEPT ![w].took = @ \ {Rendered(w)}]
           /\ outlived' = outlived \ {<<w, Rendered(w)>>} /\ UNCHANGED slotsTaken
  <2>0. "unlock" \in Working \cup {"start", "lookup", "slot", "done"}
    BY DEF Working
  <2>1. PICK gone \in WorkerRecord :
          /\ Moved(w, "unlock") = [worker EXCEPT ![w] = gone]
          /\ gone.at = "unlock" /\ gone.claim = 0 /\ gone.took = worker[w].took
    BY <1>0, <2>0, RecordsOf
  <2>. DEFINE new == [gone EXCEPT !.took = worker[w].took \ {Rendered(w)}]
  <2>2. worker[w].took \ {Rendered(w)} \in SUBSET ArtifactKeys
    BY <1>0 DEF WorkerRecord
  <2>3. /\ new \in WorkerRecord /\ new.at = "unlock" /\ new.claim = 0
        /\ new.took = worker[w].took \ {Rendered(w)}
    BY <2>1, <2>2, TookRecord
  <2>4. worker' = [worker EXCEPT ![w] = new]
    BY <1>0, <1>2, <2>1 DEF FetchTyped
  <2>. HIDE DEF new
  <2>. QED
    BY <1>0, <1>1, <1>2, <2>3, <2>4, LockStep DEF Working
<1>3. CASE /\ worker[w].at = "unlock" /\ ReleaseTried(w, MainKey(w))
           /\ worker' = [Moved(w, "free") EXCEPT ![w].took = {}]
           /\ outlived' = outlived \ ({w} \X ArtifactKeys) /\ UNCHANGED slotsTaken
  <2>0. "free" \in Working \cup {"start", "lookup", "slot", "done"}
    BY DEF Working
  <2>1. PICK gone \in WorkerRecord :
          /\ Moved(w, "free") = [worker EXCEPT ![w] = gone]
          /\ gone.at = "free" /\ gone.claim = 0 /\ gone.took = worker[w].took
    BY <1>0, <2>0, RecordsOf
  <2>. DEFINE new == [gone EXCEPT !.took = {}]
  <2>2. {} \in SUBSET ArtifactKeys
    OBVIOUS
  <2>3. new \in WorkerRecord /\ new.at = "free" /\ new.claim = 0 /\ new.took = {}
    BY <2>1, <2>2, TookRecord
  <2>4. worker' = [worker EXCEPT ![w] = new]
    BY <1>0, <1>3, <2>1 DEF FetchTyped
  <2>. HIDE DEF new
  <2>. QED
    BY <1>0, <1>1, <1>3, <2>3, <2>4, LockStep DEF Working
<1>4. CASE /\ worker[w].at = "free" /\ SlotBack(w)
           /\ worker' = Moved(w, "done") /\ UNCHANGED <<fillLock, outlived>>
  <2>1. PICK new \in WorkerRecord :
          /\ Moved(w, "done") = [worker EXCEPT ![w] = new]
          /\ new.at = "done" /\ new.claim = worker[w].claim /\ new.took = worker[w].took
    BY <1>0, RecordsOf
  <2>. QED
    BY <1>0, <1>4, <2>1, SlotStep DEF Working, Quiet
<1>. QED
  BY <1>2, <1>3, <1>4 DEF GiveBack, At

(* What came with a hit is charged as long as it is or as far as it goes.  *)
LEMMA ReadsDocument ==
  ASSUME FetchInv, NEW w \in Fetches, ReadDocument(w)
  PROVE  FetchInv'
<1>. USE FetchConstants
<1>0. /\ FetchTyped /\ worker[w].at = "document" /\ worker[w].claim = 0
      /\ UNCHANGED <<options, pages, fillLock, outlived, slotsTaken>>
  BY FromPlace DEF ReadDocument, At, Claiming
<1>1. w.request \in FetchedRequests
  BY DEF FetchedRequests
<1>2. /\ source[w.request] \in 0..MaxSource /\ source \in [FetchedRequests -> 0..MaxSource]
      /\ consumed[w.request] \in Nat
  BY <1>0, <1>1 DEF FetchTyped
<1>3. PICK size \in 0..(MaxSource + 1) :
        LET charged == Min({size, MaxSource - source[w.request]}) IN
        /\ source' = [source EXCEPT ![w.request] = @ + charged] /\ Used(w, charged)
        /\ \/ worker' = FailedAt(w, "free", IF charged < size THEN "budget" ELSE "failed")
           \/ \E content \in Artifact : worker' = AppliedContent(w, "free", content)
  BY DEF ReadDocument
<1>4. PICK charged : charged = Min({size, MaxSource - source[w.request]})
  OBVIOUS
<1>5. charged \in Nat /\ source[w.request] + charged <= MaxSource
  <2>1. size \in Int /\ MaxSource - source[w.request] \in Int
    BY <1>2
  <2>2. charged = IF size <= MaxSource - source[w.request] THEN size
                  ELSE MaxSource - source[w.request]
    BY <1>4, <2>1, LeastOfTwo
  <2>. QED
    BY <1>2, <2>1, <2>2
<1>6. PICK new \in WorkerRecord :
        /\ worker' = [worker EXCEPT ![w] = new]
        /\ new.at = "free" /\ new.claim = 0 /\ new.took = worker[w].took
  <2>0. "free" \in Working \cup {"start", "lookup", "slot", "done"}
    BY DEF Working
  <2>1. CASE worker' = FailedAt(w, "free", IF charged < size THEN "budget" ELSE "failed")
    <3>1. PICK reason \in {"budget", "failed"} : worker' = FailedAt(w, "free", reason)
      BY <2>1
    <3>. QED
      BY <1>0, <2>0, <3>1, RecordsOf
  <2>2. CASE \E content \in Artifact : worker' = AppliedContent(w, "free", content)
    BY <1>0, <2>0, <2>2, RecordsOf
  <2>. QED
    BY <1>3, <1>4, <2>1, <2>2
<1>7. /\ consumed' = [consumed EXCEPT ![w.request] = @ + charged]
      /\ source' = [source EXCEPT ![w.request] = @ + charged]
  BY <1>3, <1>4 DEF Used
<1>8. source[w.request] + charged = source[w.request] + charged + new.claim - worker[w].claim
  BY <1>0, <1>2, <1>5, <1>6
<1>9. /\ source' = [source EXCEPT ![w.request] = @ + charged + new.claim - worker[w].claim]
      /\ source'[w.request] <= MaxSource
  BY <1>1, <1>2, <1>5, <1>7, <1>8
<1>10. /\ pages' \in [Nodes \cup {"redis"} -> [ArtifactKeys -> Artifact \cup {NoArtifact}]]
       /\ fillLock' \in [ArtifactKeys -> Fetches \cup {Unlocked}]
       /\ slotsTaken' \in [Nodes -> Nat]
  BY <1>0 DEF FetchTyped
<1>11. FetchTyped' /\ ChargesExact'
  BY <1>5, <1>6, <1>7, <1>9, <1>10, ClaimsKeep
<1>12. SlotsCounted' /\ LocksOwned'
  <2>1. worker[w].at \in Working <=> new.at \in Working
    BY <1>0, <1>6 DEF Working
  <2>. QED
    BY <1>0, <1>6, <2>1, SlotsRest, LocksRest
<1>. QED
  BY <1>11, <1>12 DEF FetchInv

(* A server that dies takes its requests, its claims and its slots along.  *)
LEMMA DeadRecord ==
  Dead \in WorkerRecord /\ Dead.claim = 0 /\ Dead.at \notin Working /\ Dead.took = {}
BY FetchConstants DEF Dead, AtStart, WorkerRecord, Working, NoArtifact

LEMMA NodeGoes ==
  ASSUME FetchInv, NEW n \in Nodes, NodeDies(n)
  PROVE  FetchInv'
<1>. USE FetchConstants
<1>. DEFINE served == {w \in Fetches : w.node = n}
            lost == {w.request : w \in served}
<1>0. FetchTyped
  BY DEF FetchInv
<1>1. /\ worker' = [w \in Fetches |-> IF w \in served THEN Dead ELSE worker[w]]
      /\ source' = [r \in FetchedRequests |-> IF r \in lost THEN 0 ELSE source[r]]
      /\ consumed' = [r \in FetchedRequests |-> IF r \in lost THEN 0 ELSE consumed[r]]
      /\ pages' = [pages EXCEPT ![n] = [k \in ArtifactKeys |-> NoArtifact]]
      /\ slotsTaken' = [slotsTaken EXCEPT ![n] = 0]
      /\ outlived' = outlived \ (served \X ArtifactKeys)
      /\ UNCHANGED <<options, fillLock>>
  BY DEF NodeDies
<1>2. FetchTyped'
  <2>1. /\ worker' \in [Fetches -> WorkerRecord]
        /\ \A w \in Fetches : worker'[w].claim # 0 => worker'[w].at \in Claiming
    BY <1>0, <1>1, DeadRecord DEF FetchTyped
  <2>2. /\ source' \in [FetchedRequests -> 0..MaxSource]
        /\ consumed' \in [FetchedRequests -> Nat] /\ slotsTaken' \in [Nodes -> Nat]
    BY <1>0, <1>1 DEF FetchTyped
  <2>3. pages' \in [Nodes \cup {"redis"} -> [ArtifactKeys -> Artifact \cup {NoArtifact}]]
    BY <1>0, <1>1 DEF FetchTyped
  <2>. QED
    BY <1>0, <1>1, <2>1, <2>2, <2>3 DEF FetchTyped
<1>3. ChargesExact'
  <2>. SUFFICES ASSUME NEW r \in FetchedRequests
                PROVE  /\ source'[r] = consumed'[r] + Cardinality(ClaimedUnits(r)')
                       /\ source'[r] <= MaxSource
    BY DEF ChargesExact
  <2>1. CASE r \in lost
    <3>1. \A w \in Fetches : w.request = r => w \in served
      BY <2>1
    <3>2. \A w \in Fetches : w.request = r => worker'[w].claim = 0
      BY <1>1, <3>1, DeadRecord
    <3>3. ClaimedUnits(r)' = {}
      BY <3>2 DEF ClaimedUnits
    <3>4. source'[r] = 0 /\ consumed'[r] = 0 /\ Cardinality({}) = 0
      BY <1>1, <2>1, FS_EmptySet
    <3>. QED
      BY <3>3, <3>4
  <2>2. CASE r \notin lost
    <3>1. \A w \in Fetches : w.request = r => worker'[w] = worker[w]
      BY <1>1, <2>2
    <3>2. ClaimedUnits(r)' = ClaimedUnits(r)
      BY <3>1 DEF ClaimedUnits
    <3>3. source'[r] = source[r] /\ consumed'[r] = consumed[r]
      BY <1>1, <2>2
    <3>. QED
      BY <3>2, <3>3 DEF FetchInv, ChargesExact
  <2>. QED
    BY <2>1, <2>2
<1>4. SlotsCounted'
  <2>. SUFFICES ASSUME NEW m \in Nodes PROVE slotsTaken'[m] = Cardinality(SlotHolders(m)')
    BY DEF SlotsCounted
  <2>1. CASE m = n
    <3>1. SlotHolders(m)' = {}
      BY <1>1, <2>1, DeadRecord DEF SlotHolders
    <3>2. slotsTaken'[m] = 0
      BY <1>0, <1>1, <2>1 DEF FetchTyped
    <3>. QED
      BY <3>1, <3>2, FS_EmptySet
  <2>2. CASE m # n
    <3>1. SlotHolders(m)' = SlotHolders(m) /\ slotsTaken'[m] = slotsTaken[m]
      BY <1>0, <1>1, <2>2 DEF SlotHolders, FetchTyped
    <3>. QED
      BY <3>1 DEF FetchInv, SlotsCounted
  <2>. QED
    BY <2>1, <2>2
<1>5. LocksOwned'
  <2>. SUFFICES ASSUME NEW v \in Fetches, NEW key \in ArtifactKeys,
                       key \in worker'[v].took, <<v, key>> \notin outlived'
                PROVE  fillLock'[key] = v
    BY DEF LocksOwned
  <2>1. v \notin served /\ worker'[v] = worker[v]
    BY <1>1, DeadRecord
  <2>2. <<v, key>> \notin outlived
    BY <1>1, <2>1
  <2>. QED
    BY <1>1, <2>1, <2>2 DEF FetchInv, LocksOwned
<1>. QED
  BY <1>2, <1>3, <1>4, <1>5 DEF FetchInv

(* Locks expire, under their holders or without one, and entries go, at    *)
(* any moment.                                                             *)
LEMMA LockGoes ==
  ASSUME FetchInv, NEW k \in ArtifactKeys, LockExpires(k)
  PROVE  FetchInv'
<1>. USE FetchConstants
<1>1. /\ UNCHANGED <<options, worker, source, consumed, pages, slotsTaken>>
      /\ fillLock \in [ArtifactKeys -> Fetches \cup {Unlocked}] /\ fillLock[k] # Unlocked
      /\ fillLock' = [fillLock EXCEPT ![k] = Unlocked]
      /\ outlived' = IF k \in worker[fillLock[k]].took
                     THEN outlived \cup {<<fillLock[k], k>>} ELSE outlived
  BY DEF LockExpires, FetchInv, FetchTyped
<1>2. LocksOwned'
  <2>. SUFFICES ASSUME NEW v \in Fetches, NEW key \in ArtifactKeys,
                       key \in worker[v].took, <<v, key>> \notin outlived'
                PROVE  fillLock'[key] = v
    BY <1>1 DEF LocksOwned
  <2>1. fillLock[key] = v
    BY <1>1 DEF FetchInv, LocksOwned
  <2>2. key # k
    BY <1>1, <2>1
  <2>. QED
    BY <1>1, <2>1, <2>2
<1>3. FetchTyped' /\ ChargesExact' /\ SlotsCounted'
  BY <1>1 DEF FetchInv, FetchTyped, ChargesExact, ClaimedUnits, SlotsCounted, SlotHolders
<1>. QED
  BY <1>2, <1>3 DEF FetchInv

LEMMA EntryGoes ==
  ASSUME FetchInv, NEW k \in ArtifactKeys, NEW home \in Nodes \cup {"redis"}, EntryGone(home, k)
  PROVE  FetchInv'
<1>1. UNCHANGED <<options, worker, source, consumed, fillLock, outlived, slotsTaken>>
  BY DEF EntryGone
<1>2. FetchTyped'
  BY <1>1 DEF EntryGone, FetchInv, FetchTyped
<1>3. ChargesExact' /\ SlotsCounted' /\ LocksOwned'
  BY <1>1 DEF FetchInv, ChargesExact, ClaimedUnits, SlotsCounted, SlotHolders, LocksOwned
<1>. QED
  BY <1>2, <1>3 DEF FetchInv

LEMMA FetchInductive == FetchInv /\ [FetchNext]_fetchVars => FetchInv'
<1>. SUFFICES ASSUME FetchInv, [FetchNext]_fetchVars PROVE FetchInv'
  OBVIOUS
<1>1. ASSUME NEW w \in Fetches, FetchStep(w) PROVE FetchInv'
  BY <1>1, BeforeTheSlot, TakesLock, ReadsDocument, InsideKeeps, OutcomesKeep, GivesBack
  DEF FetchStep
<1>2. ASSUME NEW k \in ArtifactKeys, LockExpires(k) PROVE FetchInv'
  BY <1>2, LockGoes
<1>3. ASSUME NEW k \in ArtifactKeys, NEW home \in Nodes \cup {"redis"}, EntryGone(home, k)
      PROVE  FetchInv'
  BY <1>3, EntryGoes
<1>4. ASSUME NEW n \in Nodes, NodeDies(n) PROVE FetchInv'
  BY <1>4, NodeGoes
<1>5. CASE UNCHANGED fetchVars
  BY <1>5 DEF fetchVars, FetchInv, FetchTyped, ChargesExact, ClaimedUnits, SlotsCounted,
              SlotHolders, LocksOwned
<1>. QED
  BY <1>1, <1>2, <1>3, <1>4, <1>5 DEF FetchNext

(* Requests are charged exactly for what their workers read and claim, and *)
(* locks and slots stay with whoever was given them, whatever Redis loses  *)
(* and whichever server dies, for any number of nodes, requests and pages  *)
(* (claimSource, finishSource, WithLock, acquireArtifact).                 *)
THEOREM FetchesAreAccounted == FetchSpec => []FetchAccounts
<1>1. FetchInv => FetchAccounts
  BY DEF FetchInv, FetchAccounts, HoldersKeepTheirs, SlotsCounted, SlotHolders, LocksOwned
<1>. QED
  BY <1>1, FetchStarts, FetchInductive, PTL DEF FetchSpec
------------------------------------------------------------------------
(* The pool.  A search that is still asking has heard nothing but failures *)
(* and empty answers, the first of them degraded or a failure; and every   *)
(* circuit was opened for a bounded time.                                  *)
CircuitRecord == [down : Nat, failures : Nat, quality : Nat, degraded : Nat]
AskerRecord == [at : {"idle", "asking", "recording", "cooling", "told"},
                from : Nat, left : SUBSET Instances, heard : Seq(Outcomes),
                verdict : Outcomes \cup {"none", "cooling"}]
Disappointing == {"failed", "degraded_empty", "authoritative_empty"}
LongestBackoff == Largest + Largest \div 5

(* What one search knows.                                                  *)
Truthful(x) ==
  /\ x.at \in {"asking", "recording"} =>
       /\ \A k \in DOMAIN x.heard : x.heard[k] \in Disappointing
       /\ x.heard # <<>> => x.heard[1] # "authoritative_empty"
  /\ x.at = "recording" => x.verdict \in Outcomes \ {"failed"}
  /\ x.at = "cooling" => x.heard = <<>>
  /\ x.at = "told" =>
       /\ x.verdict \in {"healthy", "authoritative_empty"} => x.heard = <<x.verdict>>
       /\ x.verdict = "partial" => x.heard[Len(x.heard)] \in {"healthy", "partial"}
       /\ x.verdict = "failed" => ToSet(x.heard) = {"failed"}
       /\ x.verdict = "degraded_empty" =>
            ToSet(x.heard) \cap {"healthy", "partial"} = {} /\ ToSet(x.heard) # {"failed"}
       /\ x.verdict = "cooling" => x.heard = <<>>
Bounded(c) == /\ c.down <= second + MaxRetryAfter \/ c.down <= second + LongestBackoff
              /\ c.quality <= second + LongestBackoff

PoolInv ==
  /\ second \in Nat /\ nextRound \in Nat
  /\ circuit \in [Instances -> CircuitRecord]
  /\ asker \in [Askers -> AskerRecord]
  /\ \A i \in Instances : Bounded(circuit[i])
  /\ \A s \in Askers : Truthful(asker[s])

LEMMA LargerOfTwo ==
  ASSUME NEW a \in Int, NEW b \in Int
  PROVE  Max({a, b}) = IF a >= b THEN a ELSE b
<1>1. \E x \in {a, b} : \A y \in {a, b} : x >= y
  BY a <= b \/ b <= a
<1>2. Max({a, b}) \in {a, b} /\ \A y \in {a, b} : Max({a, b}) >= y
  BY <1>1 DEF Max
<1>. QED
  BY <1>2

LEMMA BackoffBounded ==
  /\ Largest \in Nat /\ LongestBackoff \in Nat
  /\ \A n : \A length \in Jittered(n) : length \in Nat /\ length <= LongestBackoff
<1>. USE PoolConstants
<1>1. Largest \in Nat /\ Cooldown <= Largest
  BY LargerOfTwo DEF Largest
<1>2. \A n : Backoff(n) \in 0..Largest
  BY <1>1 DEF Backoff
<1>3. \A b \in 0..Largest : b + b \div 5 \in Nat /\ b + b \div 5 <= Largest + Largest \div 5
  BY <1>1
<1>. QED
  BY <1>1, <1>2, <1>3 DEF Jittered, LongestBackoff

LEMMA IdleTruthful == IdleAsker \in AskerRecord /\ Truthful(IdleAsker)
<1>1. <<>> \in Seq(Outcomes)
  OBVIOUS
<1>. QED
  BY <1>1 DEF IdleAsker, AskerRecord, Truthful

LEMMA PoolStarts == PoolInit => PoolInv
<1>. SUFFICES ASSUME PoolInit PROVE PoolInv
  OBVIOUS
<1>. USE PoolConstants DEF PoolInit
<1>1. \A i \in Instances : circuit[i] = [down |-> 0, failures |-> 0, quality |-> 0, degraded |-> 0]
  OBVIOUS
<1>2. \A i \in Instances : Bounded(circuit[i])
  BY <1>1, BackoffBounded DEF Bounded
<1>3. circuit \in [Instances -> CircuitRecord]
  BY DEF CircuitRecord
<1>. QED
  BY <1>2, <1>3, IdleTruthful DEF PoolInv

(* Whatever a search does, it tells what it heard.                         *)
LEMMA AskerMoves ==
  ASSUME PoolInv, NEW s \in Askers, NEW x \in AskerRecord, Truthful(x),
         asker' = [asker EXCEPT ![s] = x]
  PROVE  asker' \in [Askers -> AskerRecord] /\ \A t \in Askers : Truthful(asker'[t])
BY DEF PoolInv

LEMMA CircuitsMove ==
  ASSUME PoolInv, second' = second,
         circuit' \in [Instances -> CircuitRecord],
         \A i \in Instances : Bounded(circuit'[i])
  PROVE  \A i \in Instances : Bounded(circuit[i])'
BY DEF Bounded

LEMMA MarksAreBounded ==
  ASSUME PoolInv, second' = second, NEW i,
         MarkUp(i) \/ \E retryAfter \in RetryAfters : MarkDown(i, retryAfter)
  PROVE  /\ circuit' \in [Instances -> CircuitRecord]
         /\ \A j \in Instances : Bounded(circuit'[j])
<1>. USE PoolConstants
<1>0. /\ circuit \in [Instances -> CircuitRecord] /\ second \in Nat
      /\ \A j \in Instances : Bounded(circuit[j])
  BY DEF PoolInv
<1>1. CASE MarkUp(i)
  <2>1. \A j \in Instances : \/ circuit'[j] = circuit[j]
                             \/ circuit'[j] = [circuit[j] EXCEPT !.failures = 0, !.down = 0]
    BY <1>0, <1>1 DEF MarkUp, MarkedUp
  <2>2. \A c \in CircuitRecord :
          LET u == [c EXCEPT !.failures = 0, !.down = 0]
          IN  u \in CircuitRecord /\ u.down = 0 /\ u.quality = c.quality
    BY DEF CircuitRecord
  <2>3. \A j \in Instances : circuit'[j] \in CircuitRecord /\ Bounded(circuit'[j])
    <3>. SUFFICES ASSUME NEW j \in Instances
                  PROVE  circuit'[j] \in CircuitRecord /\ Bounded(circuit'[j])
      OBVIOUS
    <3>1. circuit[j] \in CircuitRecord /\ Bounded(circuit[j])
      BY <1>0
    <3>2. CASE circuit'[j] = circuit[j]
      BY <3>1, <3>2
    <3>3. CASE circuit'[j] = [circuit[j] EXCEPT !.failures = 0, !.down = 0]
      <4>1. circuit'[j] \in CircuitRecord /\ circuit'[j].down = 0
            /\ circuit'[j].quality = circuit[j].quality
        BY <2>2, <3>1, <3>3
      <4>. QED
        BY <1>0, <3>1, <4>1, BackoffBounded DEF Bounded
    <3>. QED
      BY <2>1, <3>2, <3>3
  <2>4. circuit' = [j \in Instances |-> circuit'[j]]
    BY <1>0, <1>1 DEF MarkUp, MarkedUp
  <2>. QED
    BY <2>3, <2>4
<1>2. ASSUME NEW retryAfter \in RetryAfters, MarkDown(i, retryAfter)
      PROVE  /\ circuit' \in [Instances -> CircuitRecord]
             /\ \A j \in Instances : Bounded(circuit'[j])
  <2>1. PICK length \in Jittered(circuit[i].failures + 1) :
          circuit' = [circuit EXCEPT ![i].failures = @ + 1,
                                     ![i].down = second + Max({retryAfter, length})]
    BY <1>2 DEF MarkDown, MarkedDown
  <2>2. length \in Nat /\ length <= LongestBackoff /\ retryAfter \in Nat
        /\ retryAfter <= MaxRetryAfter
    BY BackoffBounded DEF RetryAfters
  <2>3. PICK end : end = second + Max({retryAfter, length})
    OBVIOUS
  <2>4. /\ end \in Nat
        /\ end <= second + MaxRetryAfter \/ end <= second + LongestBackoff
    BY <1>0, <2>2, <2>3, LargerOfTwo, BackoffBounded
  <2>5. \A j \in Instances : circuit'[j] =
          IF j = i THEN [circuit[j] EXCEPT !.failures = @ + 1, !.down = end] ELSE circuit[j]
    BY <1>0, <2>1, <2>3
  <2>6. \A c \in CircuitRecord :
          LET u == [c EXCEPT !.failures = @ + 1, !.down = end]
          IN  u \in CircuitRecord /\ u.down = end /\ u.quality = c.quality
    <3>. SUFFICES ASSUME NEW c \in CircuitRecord
                  PROVE  LET u == [c EXCEPT !.failures = @ + 1, !.down = end]
                         IN  u \in CircuitRecord /\ u.down = end /\ u.quality = c.quality
      OBVIOUS
    <3>. DEFINE v == [c EXCEPT !.failures = @ + 1]
                u == [v EXCEPT !.down = end]
    <3>1. v \in CircuitRecord /\ v.quality = c.quality
      BY DEF CircuitRecord
    <3>. HIDE DEF v
    <3>2. u \in CircuitRecord /\ u.down = end /\ u.quality = c.quality
      BY <2>4, <3>1 DEF CircuitRecord
    <3>. QED
      BY <3>2 DEF v
  <2>7. \A j \in Instances : circuit'[j] \in CircuitRecord /\ Bounded(circuit'[j])
    <3>. SUFFICES ASSUME NEW j \in Instances
                  PROVE  circuit'[j] \in CircuitRecord /\ Bounded(circuit'[j])
      OBVIOUS
    <3>1. circuit[j] \in CircuitRecord /\ Bounded(circuit[j])
      BY <1>0
    <3>2. CASE j # i
      BY <2>5, <3>1, <3>2
    <3>3. CASE j = i
      <4>1. circuit'[j] = [circuit[j] EXCEPT !.failures = @ + 1, !.down = end]
        BY <2>5, <3>3
      <4>2. circuit'[j] \in CircuitRecord /\ circuit'[j].down = end
            /\ circuit'[j].quality = circuit[j].quality
        BY <2>6, <3>1, <4>1
      <4>. QED
        BY <2>4, <3>1, <4>2 DEF Bounded
    <3>. QED
      BY <3>2, <3>3
  <2>8. circuit' = [j \in Instances |-> circuit'[j]]
    BY <1>0, <2>1
  <2>. QED
    BY <2>7, <2>8
<1>. QED
  BY <1>1, <1>2

LEMMA OneMoreHeard ==
  ASSUME NEW heard \in Seq(Outcomes), NEW outcome \in Outcomes
  PROVE  LET more == Append(heard, outcome)
         IN  /\ more \in Seq(Outcomes) /\ more # <<>> /\ Len(more) = Len(heard) + 1
             /\ more[Len(more)] = outcome
             /\ \A k \in DOMAIN more : \/ k \in DOMAIN heard /\ more[k] = heard[k]
                                       \/ k = Len(more)
             /\ \A k \in DOMAIN heard : more[k] = heard[k]
             /\ heard = <<>> => more = <<outcome>>
<1>. DEFINE more == Append(heard, outcome)
<1>1. /\ more \in Seq(Outcomes) /\ Len(more) = Len(heard) + 1 /\ Len(heard) \in Nat
      /\ DOMAIN more = 1..Len(heard) + 1 /\ DOMAIN heard = 1..Len(heard)
      /\ \A k \in 1..Len(heard) : more[k] = heard[k]
      /\ more[Len(heard) + 1] = outcome
  OBVIOUS
<1>2. heard = <<>> => more = <<outcome>>
  OBVIOUS
<1>. HIDE DEF more
<1>3. more # <<>>
  BY <1>1
<1>4. \A k \in DOMAIN more : (k \in DOMAIN heard /\ more[k] = heard[k]) \/ k = Len(more)
  BY <1>1
<1>. QED
  BY <1>1, <1>2, <1>3, <1>4 DEF more

LEMMA FailureIsTold ==
  ASSUME PoolInv, NEW s \in Askers, asker[s].at \in {"asking", "recording"},
         NEW outcome \in Disappointing,
         asker[s].heard # <<>> \/ outcome # "authoritative_empty"
  PROVE  LET x == AfterFailure(s, Append(asker[s].heard, outcome))
         IN  x \in AskerRecord /\ Truthful(x)
<1>1. /\ asker[s] \in AskerRecord /\ asker[s].heard \in Seq(Outcomes) /\ outcome \in Outcomes
      /\ \A k \in DOMAIN asker[s].heard : asker[s].heard[k] \in Disappointing
      /\ asker[s].heard # <<>> => asker[s].heard[1] # "authoritative_empty"
  BY DEF PoolInv, Truthful, AskerRecord, Disappointing, Outcomes
<1>. DEFINE heard == asker[s].heard
<1>2. PICK more : more = Append(heard, outcome)
  OBVIOUS
<1>3. /\ more \in Seq(Outcomes) /\ more # <<>> /\ Len(more) = Len(heard) + 1
      /\ more[Len(more)] = outcome /\ Len(heard) \in Nat
      /\ \A k \in DOMAIN more : (k \in DOMAIN heard /\ more[k] = heard[k]) \/ k = Len(more)
      /\ \A k \in DOMAIN heard : more[k] = heard[k]
      /\ heard = <<>> => more = <<outcome>>
  BY <1>1, <1>2, OneMoreHeard
<1>4. \A k \in DOMAIN more : more[k] \in Disappointing
  BY <1>1, <1>3
<1>5. more[1] # "authoritative_empty" /\ 1 \in DOMAIN more
  <2>1. CASE heard = <<>>
    BY <1>1, <1>3, <2>1
  <2>2. CASE heard # <<>>
    <3>1. 1 \in DOMAIN heard
      BY <1>1, <2>2
    <3>. QED
      BY <1>1, <1>3, <2>2, <3>1
  <2>. QED
    BY <2>1, <2>2
<1>6. CASE Rest(s) # {}
  <2>. DEFINE a == [asker[s] EXCEPT !.at = "asking"]
              b == [a EXCEPT !.left = Rest(s)]
              x == [b EXCEPT !.heard = more]
  <2>0. Rest(s) \subseteq Instances
    BY <1>1 DEF Rest, AskerRecord
  <2>1. a \in AskerRecord /\ a.at = "asking"
    BY <1>1 DEF AskerRecord
  <2>. HIDE DEF a
  <2>2. b \in AskerRecord /\ b.at = "asking"
    BY <2>0, <2>1 DEF AskerRecord
  <2>. HIDE DEF b
  <2>3. x \in AskerRecord /\ x.at = "asking" /\ x.heard = more
    BY <1>3, <2>2 DEF AskerRecord
  <2>. HIDE DEF x
  <2>4. Truthful(x)
    BY <1>4, <1>5, <2>3 DEF Truthful
  <2>5. AfterFailure(s, more) = x
    BY <1>6 DEF AfterFailure, x, b, a
  <2>. QED
    BY <1>2, <2>3, <2>4, <2>5
<1>7. CASE Rest(s) = {}
  <2>1. PICK verdict \in {"degraded_empty", "failed"} :
          /\ AfterFailure(s, more) = Told(more, verdict)
          /\ verdict = "degraded_empty" => \E k \in DOMAIN more : more[k] # "failed"
          /\ verdict = "failed" => \A k \in DOMAIN more : more[k] = "failed"
    BY <1>7 DEF AfterFailure
  <2>2. PICK x : x = Told(more, verdict)
    OBVIOUS
  <2>3. x \in AskerRecord /\ x.at = "told" /\ x.heard = more /\ x.verdict = verdict
    BY <1>3, <2>2, IdleTruthful DEF Told, IdleAsker, AskerRecord, Outcomes
  <2>4. Truthful(x)
    <3>1. verdict = "failed" => ToSet(more) = {"failed"}
      BY <1>5, <2>1 DEF ToSet
    <3>2. verdict = "degraded_empty" =>
            ToSet(more) \cap {"healthy", "partial"} = {} /\ ToSet(more) # {"failed"}
      BY <1>4, <2>1 DEF ToSet, Disappointing
    <3>. QED
      BY <2>3, <3>1, <3>2 DEF Truthful
  <2>. QED
    BY <1>2, <2>1, <2>2, <2>3, <2>4
<1>. QED
  BY <1>6, <1>7

(* A batch that is no error has one of the four statuses of classifyBatch. *)
LEMMA BatchesSayWhatTheyAre ==
  \A batch \in Batches : batch.status \in Outcomes \ {"failed"}
BY DEF Batches, Batch, Classified, Outcomes

LEMMA VerdictIsTold ==
  ASSUME PoolInv, NEW s \in Askers, asker[s].at = "recording",
         Aggregated(s, asker[s].verdict) # "degraded_empty"
  PROVE  LET x == Told(Append(asker[s].heard, asker[s].verdict),
                       Aggregated(s, asker[s].verdict))
         IN  x \in AskerRecord /\ Truthful(x)
<1>1. /\ asker[s] \in AskerRecord /\ asker[s].heard \in Seq(Outcomes)
      /\ asker[s].verdict \in Outcomes \ {"failed"}
  BY DEF PoolInv, Truthful, AskerRecord
<1>. DEFINE heard == asker[s].heard
            outcome == asker[s].verdict
            verdict == Aggregated(s, outcome)
<1>2. PICK more : more = Append(heard, outcome)
  OBVIOUS
<1>3. /\ more \in Seq(Outcomes) /\ more[Len(more)] = outcome
      /\ heard = <<>> => more = <<outcome>>
  BY <1>1, <1>2, OneMoreHeard
<1>4. \/ heard = <<>> /\ verdict = outcome
      \/ outcome \in {"healthy", "partial"} /\ verdict = "partial"
  BY DEF Aggregated
<1>5. PICK x : x = Told(more, verdict)
  OBVIOUS
<1>6. verdict \in Outcomes \ {"failed", "degraded_empty"}
  BY <1>1, <1>4 DEF Outcomes
<1>. HIDE DEF verdict, outcome, heard
<1>7. x \in AskerRecord /\ x.at = "told" /\ x.heard = more /\ x.verdict = verdict
  BY <1>3, <1>5, <1>6, IdleTruthful DEF Told, IdleAsker, AskerRecord, Outcomes
<1>8. Truthful(x)
  BY <1>3, <1>4, <1>6, <1>7 DEF Truthful, Outcomes
<1>. QED
  BY <1>2, <1>5, <1>7, <1>8 DEF verdict, outcome, heard

-----------------------------------------------------------------------------
LEMMA SearchesKeep ==
  ASSUME PoolInv, NEW s \in Askers,
         Begin(s) \/ ReportCooling(s) \/ InstanceFails(s) \/ InstanceAnswers(s) \/ Leave(s)
  PROVE  PoolInv'
<1>. USE PoolConstants
<1>0. /\ asker[s] \in AskerRecord /\ Truthful(asker[s]) /\ UNCHANGED second
      /\ circuit \in [Instances -> CircuitRecord]
      /\ \A i \in Instances : Bounded(circuit[i])
  BY DEF PoolInv, Begin, ReportCooling, InstanceFails, InstanceAnswers, Leave
<1>1. nextRound' \in Nat
  BY DEF PoolInv, Begin, ReportCooling, InstanceFails, InstanceAnswers, Leave
<1>2. /\ circuit' \in [Instances -> CircuitRecord]
      /\ \A i \in Instances : Bounded(circuit'[i])
  <2>1. CASE Begin(s)
    <3>1. \A i \in Instances : \/ circuit'[i] = circuit[i]
                               \/ circuit'[i] = [circuit[i] EXCEPT !.quality = 0]
      BY <2>1 DEF Begin
    <3>2. \A c \in CircuitRecord : LET u == [c EXCEPT !.quality = 0]
            IN  u \in CircuitRecord /\ u.down = c.down /\ u.quality = 0
      BY DEF CircuitRecord
    <3>3. ASSUME NEW i \in Instances
          PROVE  circuit'[i] \in CircuitRecord /\ Bounded(circuit'[i])
      <4>1. circuit[i] \in CircuitRecord /\ Bounded(circuit[i])
        BY <1>0
      <4>2. CASE circuit'[i] = [circuit[i] EXCEPT !.quality = 0]
        <5>1. /\ circuit'[i] \in CircuitRecord /\ circuit'[i].down = circuit[i].down
              /\ circuit'[i].quality = 0
          BY <3>2, <4>1, <4>2
        <5>. QED
          BY <4>1, <5>1, BackoffBounded DEF Bounded, PoolInv
      <4>. QED
        BY <3>1, <4>1, <4>2
    <3>4. circuit' = [i \in Instances |-> circuit'[i]]
      BY <2>1 DEF Begin
    <3>. QED
      BY <3>3, <3>4
  <2>2. CASE UNCHANGED circuit
    BY <1>0, <2>2
  <2>3. CASE InstanceFails(s) \/ InstanceAnswers(s)
    BY <1>0, <2>3, MarksAreBounded DEF InstanceFails, InstanceAnswers
  <2>. QED
    BY <2>1, <2>2, <2>3 DEF ReportCooling, Leave
<1>3. PICK x \in AskerRecord : Truthful(x) /\ asker' = [asker EXCEPT ![s] = x]
  <2>1. CASE Begin(s)
    <3>. DEFINE a == [IdleAsker EXCEPT !.left = Healthy]
                b == [a EXCEPT !.from = nextRound]
                x == [b EXCEPT !.at = IF Healthy = {} THEN "cooling" ELSE "asking"]
    <3>0. Healthy \subseteq Instances /\ nextRound \in Nat
      BY DEF Healthy, PoolInv
    <3>1. a \in AskerRecord /\ a.heard = <<>>
      BY <3>0, IdleTruthful DEF AskerRecord, IdleAsker
    <3>. HIDE DEF a
    <3>2. b \in AskerRecord /\ b.heard = <<>>
      BY <3>0, <3>1 DEF AskerRecord
    <3>. HIDE DEF b
    <3>3. x \in AskerRecord /\ x.heard = <<>> /\ x.at \in {"cooling", "asking"}
      BY <3>2 DEF AskerRecord
    <3>4. asker' = [asker EXCEPT ![s] = x]
      BY <2>1 DEF Begin, x, b, a
    <3>. HIDE DEF x
    <3>5. Truthful(x)
      BY <3>3 DEF Truthful
    <3>. QED
      BY <3>3, <3>4, <3>5
  <2>2. CASE ReportCooling(s)
    <3>. DEFINE a == [asker[s] EXCEPT !.at = "told"]
                x == [a EXCEPT !.verdict = "cooling"]
    <3>0. asker[s].at = "cooling" /\ asker[s].heard = <<>>
      BY <1>0, <2>2 DEF ReportCooling, Truthful
    <3>1. a \in AskerRecord /\ a.heard = <<>> /\ a.at = "told"
      BY <1>0, <3>0 DEF AskerRecord
    <3>. HIDE DEF a
    <3>2. x \in AskerRecord /\ x.heard = <<>> /\ x.at = "told" /\ x.verdict = "cooling"
      BY <3>1 DEF AskerRecord
    <3>3. asker' = [asker EXCEPT ![s] = x]
      BY <2>2 DEF ReportCooling, x, a, PoolInv
    <3>. HIDE DEF x
    <3>4. Truthful(x)
      BY <3>2 DEF Truthful
    <3>. QED
      BY <3>2, <3>3, <3>4
  <2>3. CASE InstanceFails(s)
    <3>1. LET x == AfterFailure(s, Append(asker[s].heard, "failed"))
          IN  x \in AskerRecord /\ Truthful(x)
      BY <2>3, FailureIsTold DEF InstanceFails, Disappointing
    <3>. QED
      BY <2>3, <3>1 DEF InstanceFails
  <2>4. CASE InstanceAnswers(s)
    <3>0. PICK batch \in Batches :
            asker' = [asker EXCEPT ![s].at = "recording", ![s].verdict = batch.status]
      BY <2>4 DEF InstanceAnswers
    <3>1. PICK outcome \in Outcomes \ {"failed"} :
            asker' = [asker EXCEPT ![s].at = "recording", ![s].verdict = outcome]
      BY <3>0, BatchesSayWhatTheyAre
    <3>. DEFINE a == [asker[s] EXCEPT !.at = "recording"]
                x == [a EXCEPT !.verdict = outcome]
    <3>2. a \in AskerRecord /\ a.heard = asker[s].heard /\ a.at = "recording"
      BY <1>0 DEF AskerRecord
    <3>3. asker' = [asker EXCEPT ![s] = x]
      BY <3>1 DEF PoolInv
    <3>. HIDE DEF a
    <3>4. x \in AskerRecord /\ x.heard = asker[s].heard /\ x.at = "recording"
          /\ x.verdict = outcome
      BY <3>2 DEF AskerRecord
    <3>. HIDE DEF x
    <3>5. asker[s].at = "asking"
      BY <2>4 DEF InstanceAnswers
    <3>6. Truthful(x)
      BY <1>0, <3>4, <3>5 DEF Truthful
    <3>. QED
      BY <3>3, <3>4, <3>6
  <2>5. CASE Leave(s)
    BY <2>5, IdleTruthful DEF Leave
  <2>. QED
    BY <2>1, <2>2, <2>3, <2>4, <2>5
<1>4. asker' \in [Askers -> AskerRecord] /\ \A t \in Askers : Truthful(asker'[t])
  BY <1>3, AskerMoves
<1>5. \A i \in Instances : Bounded(circuit[i])'
  BY <1>0, <1>2, CircuitsMove
<1>6. \A t \in Askers : Truthful(asker[t])'
  BY <1>4 DEF Truthful
<1>. QED
  BY <1>0, <1>1, <1>2, <1>4, <1>5, <1>6 DEF PoolInv

LEMMA QualityKeeps ==
  ASSUME PoolInv, NEW s \in Askers, RecordQuality(s)
  PROVE  PoolInv'
<1>. USE PoolConstants
<1>. DEFINE i == Asked(s)
            outcome == asker[s].verdict
            streak == IF outcome = "degraded_empty" THEN circuit[i].degraded + 1 ELSE 0
            heard == Append(asker[s].heard, outcome)
<1>0. /\ asker[s] \in AskerRecord /\ Truthful(asker[s]) /\ asker[s].at = "recording"
      /\ UNCHANGED <<second, nextRound>> /\ second \in Nat /\ nextRound \in Nat
      /\ circuit \in [Instances -> CircuitRecord]
      /\ \A j \in Instances : Bounded(circuit[j])
  BY DEF PoolInv, RecordQuality
<1>1. PICK length \in Jittered(streak - DegradedAfter + 1) :
        circuit' = [circuit EXCEPT ![i].degraded = streak,
          ![i].quality = IF streak >= DegradedAfter THEN second + length
                         ELSE IF streak = 0 THEN 0 ELSE @]
  BY DEF RecordQuality
<1>2. length \in Nat /\ length <= LongestBackoff
  BY BackoffBounded
<1>3. ASSUME NEW j \in Instances
      PROVE  circuit'[j] \in CircuitRecord /\ Bounded(circuit'[j])
  <2>1. circuit[j] \in CircuitRecord /\ Bounded(circuit[j])
    BY <1>0
  <2>2. CASE j # i
    <3>1. circuit'[j] = circuit[j]
      BY <1>0, <1>1, <2>2
    <3>. QED
      BY <2>1, <3>1
  <2>3. CASE j = i
    <3>1. streak \in Nat
      BY <2>1, <2>3 DEF CircuitRecord
    <3>2. PICK until : until = IF streak >= DegradedAfter THEN second + length
                               ELSE IF streak = 0 THEN 0 ELSE circuit[j].quality
      OBVIOUS
    <3>3. until \in Nat /\ until <= second + LongestBackoff
      BY <1>0, <1>2, <2>1, <3>1, <3>2, BackoffBounded DEF Bounded, CircuitRecord
    <3>. HIDE DEF streak
    <3>. DEFINE a == [circuit[j] EXCEPT !.degraded = streak]
                b == [a EXCEPT !.quality = until]
    <3>4. a \in CircuitRecord /\ a.down = circuit[j].down /\ a.quality = circuit[j].quality
      BY <2>1, <3>1 DEF CircuitRecord
    <3>5. circuit'[j] = b
      BY <1>0, <1>1, <2>3, <3>2, <3>4
    <3>. HIDE DEF a
    <3>6. b \in CircuitRecord /\ b.down = circuit[j].down /\ b.quality = until
      BY <3>3, <3>4 DEF CircuitRecord
    <3>. HIDE DEF b
    <3>. QED
      BY <2>1, <3>3, <3>5, <3>6 DEF Bounded
  <2>. QED
    BY <2>2, <2>3
<1>4. circuit' = [j \in Instances |-> circuit'[j]]
  BY <1>0, <1>1
<1>5. circuit' \in [Instances -> CircuitRecord] /\ \A j \in Instances : Bounded(circuit'[j])
  BY <1>3, <1>4
<1>6. \A j \in Instances : Bounded(circuit[j])'
  BY <1>0, <1>5, CircuitsMove
<1>7. PICK x \in AskerRecord : Truthful(x) /\ asker' = [asker EXCEPT ![s] = x]
  <2>1. CASE Aggregated(s, outcome) = "degraded_empty"
    <3>1. asker' = [asker EXCEPT ![s] = AfterFailure(s, heard)]
      BY <2>1 DEF RecordQuality
    <3>2. outcome \in Disappointing /\ (asker[s].heard # <<>> \/ outcome # "authoritative_empty")
      BY <1>0, <2>1 DEF Aggregated, Truthful, Outcomes, Disappointing
    <3>. QED
      BY <1>0, <3>1, <3>2, FailureIsTold
  <2>2. CASE Aggregated(s, outcome) # "degraded_empty"
    <3>1. asker' = [asker EXCEPT ![s] = Told(heard, Aggregated(s, outcome))]
      BY <2>2 DEF RecordQuality
    <3>. QED
      BY <1>0, <2>2, <3>1, VerdictIsTold
  <2>. QED
    BY <2>1, <2>2
<1>8. asker' \in [Askers -> AskerRecord] /\ \A t \in Askers : Truthful(asker'[t])
  BY <1>7, AskerMoves
<1>9. \A t \in Askers : Truthful(asker[t])'
  BY <1>8 DEF Truthful
<1>. QED
  BY <1>0, <1>5, <1>6, <1>8, <1>9 DEF PoolInv

LEMMA PoolInductive == PoolInv /\ [PoolNext]_poolVars => PoolInv'
<1>. SUFFICES ASSUME PoolInv, [PoolNext]_poolVars PROVE PoolInv'
  OBVIOUS
<1>1. ASSUME NEW s \in Askers,
             Begin(s) \/ ReportCooling(s) \/ InstanceFails(s) \/ InstanceAnswers(s) \/ Leave(s)
      PROVE  PoolInv'
  BY <1>1, SearchesKeep
<1>2. ASSUME NEW s \in Askers, RecordQuality(s) PROVE PoolInv'
  BY <1>2, QualityKeeps
<1>3. ASSUME NEW i \in Instances, Ping(i) PROVE PoolInv'
  <2>1. UNCHANGED <<second, nextRound, asker>> /\ 0 \in RetryAfters
    BY <1>3, PoolConstants DEF Ping, RetryAfters
  <2>2. /\ circuit' \in [Instances -> CircuitRecord]
        /\ \A j \in Instances : Bounded(circuit'[j])
    BY <1>3, <2>1, MarksAreBounded DEF Ping
  <2>3. \A j \in Instances : Bounded(circuit[j])'
    BY <2>1, <2>2, CircuitsMove
  <2>. QED
    BY <2>1, <2>2, <2>3 DEF PoolInv, Truthful
<1>4. CASE SecondPasses
  <2>1. second \in Nat /\ second' = second + 1 /\ UNCHANGED <<circuit, nextRound, asker>>
    BY <1>4 DEF SecondPasses, PoolInv
  <2>2. \A j \in Instances : Bounded(circuit[j])'
    <3>. SUFFICES ASSUME NEW j \in Instances PROVE Bounded(circuit[j])'
      OBVIOUS
    <3>1. Bounded(circuit[j]) /\ circuit[j].down \in Nat /\ circuit[j].quality \in Nat
      BY DEF PoolInv, CircuitRecord
    <3>. QED
      BY <2>1, <3>1, BackoffBounded, PoolConstants DEF Bounded, LongestBackoff, Largest
  <2>3. \A s \in Askers : Truthful(asker[s])'
    BY <2>1 DEF PoolInv, Truthful
  <2>4. circuit' \in [Instances -> CircuitRecord] /\ second' \in Nat
    BY <2>1 DEF PoolInv
  <2>. QED
    BY <2>1, <2>2, <2>3, <2>4 DEF PoolInv
<1>5. CASE UNCHANGED poolVars
  BY <1>5 DEF poolVars, PoolInv, Truthful, Bounded
<1>. QED
  BY <1>1, <1>2, <1>3, <1>4, <1>5 DEF PoolNext

(* A search is told what its instances said, and no run of failures keeps  *)
(* an instance out for longer than the cap or than what a server asked     *)
(* for, whatever the number of instances and searches (classifyAggregate-  *)
(* Batch, exponentialBackoff).                                             *)
THEOREM PoolIsHonest == PoolSpec => []PoolHonest
<1>1. PoolInv => PoolHonest
  <2>. SUFFICES ASSUME PoolInv PROVE PoolHonest
    OBVIOUS
  <2>1. ToldWhatWasHeard
    BY DEF PoolInv, Truthful, ToldWhatWasHeard
  <2>2. LockoutBounded
    <3>. SUFFICES ASSUME NEW i \in Instances
                  PROVE  /\ circuit[i].down - second <= Max({MaxRetryAfter, LongestBackoff})
                         /\ circuit[i].quality - second <= LongestBackoff
      BY DEF LockoutBounded, LongestBackoff
    <3>1. /\ Bounded(circuit[i]) /\ circuit[i].down \in Nat /\ circuit[i].quality \in Nat
          /\ second \in Nat
      BY DEF PoolInv, CircuitRecord
    <3>2. /\ LongestBackoff \in Nat /\ MaxRetryAfter \in Nat
          /\ Max({MaxRetryAfter, LongestBackoff}) =
               IF MaxRetryAfter >= LongestBackoff THEN MaxRetryAfter ELSE LongestBackoff
      BY BackoffBounded, PoolConstants, LargerOfTwo
    <3>. QED
      BY <3>1, <3>2 DEF Bounded
  <2>. QED
    BY <2>1, <2>2 DEF PoolHonest
<1>. QED
  BY <1>1, PoolStarts, PoolInductive, PTL DEF PoolSpec
========================================================================
