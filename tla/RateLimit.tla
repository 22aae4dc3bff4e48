------------------------------ MODULE RateLimit ------------------------------
(* The rate limit of one API key (internal/api/middleware/ratelimit.go):   *)
(* a token bucket in Redis that all servers share, and one in each server  *)
(* that a request needs too.  Redis may fail, lose an answer or be emptied. *)
(* A bucket holds units, of which a token is several, so that a tick may   *)
(* refill part of a token.                                                 *)
EXTENDS Integers, FiniteSetsExt

CONSTANTS
  Servers,
  Burst,       (* units of a full bucket                                   *)
  Token,       (* units of a token                                         *)
  Refill,      (* units a tick brings                                      *)
  LeastTTL,    (* 2000 ms, in ticks                                        *)
  LastSecond, MaxLosses     (* bounds                                      *)

ASSUME LimitAssumption ==
  /\ {Burst, Token, Refill, LeastTTL} \subseteq Nat \ {0} /\ Token <= Burst
  /\ LastSecond \in Nat /\ MaxLosses \in Nat

VARIABLES
  second,     (* the clock, in ticks of two seconds                        *)
  shared,     (* the bucket in Redis                                       *)
  buckets,    (* keyLimiter.bucks, by server                               *)
  middleware, (* the request a server has in hand: none, or past Redis     *)
  granted,    (* how many requests Redis has let pass by the end of each second *)
  admitted,   (* and how many have reached a handler, by server            *)
  losses      (* how often Redis has lost its contents                     *)

limitVars == <<second, shared, buckets, middleware, granted, admitted, losses>>

Seconds == 0..LastSecond
Full == [units |-> Burst, at |-> 0]
NoBucket == [units |-> Burst, at |-> 0, expires |-> 0]

LimitInit ==
  /\ second = 0 /\ shared = NoBucket
  /\ buckets = [s \in Servers |-> Full]
  /\ middleware = [s \in Servers |-> "idle"]
  /\ granted = [t \in Seconds |-> 0]
  /\ admitted = [s \in Servers |-> [t \in Seconds |-> 0]]
  /\ losses = 0

Fewer(a, b) == IF a < b THEN a ELSE b
Refilled(bucket) == Fewer(Burst, bucket.units + Refill * (second - bucket.at))

(* redisTokenBucketScript, one atomic step; a bucket that has expired is   *)
(* full again                                                              *)
ShortTTL == LeastTTL     \* slip: the bucket's size does not count
TTL == Max({LeastTTL, (2 * Burst) \div Refill})
Available == IF second < shared.expires THEN Refilled(shared) ELSE Burst
OneMore(log) == [t \in Seconds |-> IF t >= second THEN log[t] + 1 ELSE log[t]]
Script(allowed) ==
  /\ allowed = (Available >= Token)
  /\ shared' = [units |-> Available - (IF allowed THEN Token ELSE 0), at |-> second,
                expires |-> second + TTL]
  /\ granted' = IF allowed THEN OneMore(granted) ELSE granted

(* allow: Redis first.  A refusal is final and costs no local token; a     *)
(* failed call, whether or not the script has run, leaves it to the local  *)
(* bucket.                                                                 *)
RedisAllow(s) ==
  /\ middleware[s] = "idle"
  /\ \E allowed \in BOOLEAN :
       /\ Script(allowed)
       /\ middleware' = [middleware EXCEPT ![s] = IF allowed THEN "local" ELSE "idle"]
  /\ UNCHANGED <<second, buckets, admitted, losses>>
RedisFails(s) ==
  /\ middleware[s] = "idle"
  /\ \/ \E allowed \in BOOLEAN : Script(allowed)
     \/ UNCHANGED <<shared, granted>>
  /\ middleware' = [middleware EXCEPT ![s] = "local"]
  /\ UNCHANGED <<second, buckets, admitted, losses>>
(* local(key).Allow()                                                      *)
LocalAllow(s) ==
  /\ middleware[s] = "local"
  /\ LET units == Refilled(buckets[s]) IN
     IF units >= Token
     THEN /\ buckets' = [buckets EXCEPT ![s] = [units |-> units - Token, at |-> second]]
          /\ admitted' = [admitted EXCEPT ![s] = OneMore(@)]
     ELSE UNCHANGED <<buckets, admitted>>
  /\ middleware' = [middleware EXCEPT ![s] = "idle"]
  /\ UNCHANGED <<second, shared, granted, losses>>

RedisEmptied ==     \* a restart without persistence, an eviction
  /\ losses < MaxLosses /\ losses' = losses + 1
  /\ shared' = NoBucket
  /\ UNCHANGED <<second, buckets, middleware, granted, admitted>>
SecondPasses ==
  /\ second < LastSecond /\ second' = second + 1
  /\ UNCHANGED <<shared, buckets, middleware, granted, admitted, losses>>

LimitNext ==
  \/ \E s \in Servers : RedisAllow(s) \/ RedisFails(s) \/ LocalAllow(s)
  \/ RedisEmptied \/ SecondPasses

LimitSpec == LimitInit /\ [][LimitNext]_limitVars

-----------------------------------------------------------------------------
LimitTypeOK ==
  /\ second \in Seconds /\ losses \in 0..MaxLosses
  /\ shared.units \in 0..Burst /\ shared.at <= second
  /\ \A s \in Servers : buckets[s].units \in 0..Burst /\ buckets[s].at <= second
  /\ middleware \in [Servers -> {"idle", "local"}]

(* within any period, no more than a burst and what that period refills    *)
Passed(log, from, to) == log[to] - (IF from = 0 THEN 0 ELSE log[from - 1])
WithinLimit(log, bursts) ==
  \A from \in 0..second : \A to \in from..second :
    Passed(log, from, to) * Token <= bursts * Burst + Refill * (to - from)

(* "Replicas share the same sustained rate and burst capacity": what Redis *)
(* grants stays within the limit through the expiry of the bucket, but for *)
(* a burst each time it loses its contents; calls that fail, whether or    *)
(* not the script has run, add nothing.  "Limits persist across a Redis    *)
(* outage": no server by itself admits more than the limit, however calls  *)
(* to Redis fail and recover.                                              *)
LimitKept ==
  /\ WithinLimit(granted, 1 + losses)
  /\ \A s \in Servers : WithinLimit(admitted[s], 1)
=============================================================================
