---------------------------- MODULE EvidenceGate ----------------------------
(***************************************************************************)
(* The pack evidence gate (internal/adapters/packevidencegate): one store  *)
(* behind a Unix socket that paces and bounds the requests of all evidence *)
(* workers of a run.  A worker asks for a host, sends its request, reports *)
(* the response headers while the body is still arriving, and releases     *)
(* (packevidence/observer.go, coordinatedRoundTrip).  Each operation of    *)
(* the store is one transaction and one action; requests to it sit in net  *)
(* until they are served or lost, perhaps after their sender gave up.      *)
(***************************************************************************)
EXTENDS Integers, FiniteSets

CONSTANTS
  Hosts,                  \* numbered in key order
  Workers, Attempts,
  NoAttempt,                   \* no attempt
  MinHostInterval, RequestTimeout, MaxRetryAfter, ControlGrace,
  GlobalConcurrency, ExpiresAt,
  PruneBatch,             \* pruneBatchSize
  RetryAfters,            \* what Retry-After may amount to, 0 for none
  Slack,                  \* how late after its grant a request is sent
  LastGateTime,                \* bound on the clock
  MaxNet,                 \* bound on the requests not yet served
  MaxGeneration           \* the last lease number (2^64-1 in the code)

ASSUME GatePolicyAssumption ==
  /\ {MinHostInterval, RequestTimeout, GlobalConcurrency, PruneBatch}
       \subseteq Nat \ {0}
  /\ {MaxRetryAfter, ControlGrace, ExpiresAt, LastGateTime, MaxNet, MaxGeneration}
       \subseteq Nat
  /\ RetryAfters \subseteq 0..MaxRetryAfter
ASSUME GateNamesAssumption ==
  /\ Hosts \subseteq Nat /\ IsFiniteSet(Hosts) /\ IsFiniteSet(Workers)
  /\ NoAttempt \notin Attempts
(* The control grace is there for the way of the grant to the worker.      *)
ASSUME SlackAssumption == Slack \in 0..ControlGrace

VARIABLES
  hosts,                  \* the host records; generation 0 = no key
  expiries, prunes,       \* schedule indexes: <<time, host, generation>>
  active, generation,     \* the two counters in the meta bucket
  gateTime,
  work,                   \* what each worker is doing
  net,                    \* requests sent to the gate and not yet served
  rest                    \* history: no grant before this, per host

store == <<hosts, expiries, prunes, active, generation>>
gateVars == <<store, gateTime, work, net, rest>>
         
Record == [gen : Nat, attempt : Attempts \cup {NoAttempt}, active : BOOLEAN,
           until : Nat, last : Nat, cooldown : Nat, prune : Nat]
NoRecord == [gen |-> 0, attempt |-> NoAttempt, active |-> FALSE, until |-> 0,
             last |-> 0, cooldown |-> 0, prune |-> 0]

(* by: while granted, the time by which the request is sent; while the     *)
(* request is out, its deadline.                                           *)
Worker == [phase : {"idle", "asking", "denied", "granted", "sending",
                    "recording", "reading", "releasing"},
           attempt : Attempts \cup {NoAttempt}, host : Hosts \cup {0},
           gen : Nat, by : Nat]
IdleWorker == [phase |-> "idle", attempt |-> NoAttempt, host |-> 0, gen |-> 0, by |-> 0]
           
Request == [op : {"acquire", "record", "release"}, worker : Workers,
            attempt : Attempts, host : Hosts, gen : Nat,
            retry : {0} \cup RetryAfters]
Message(w, op, retry) ==
  [op |-> op, worker |-> w, attempt |-> work[w].attempt,
   host |-> work[w].host, gen |-> work[w].gen, retry |-> retry]

Send(m) == net' = net \cup {m} /\ Cardinality(net') <= MaxNet

Larger(a, b) == IF a > b THEN a ELSE b
Smaller(a, b) == IF a < b THEN a ELSE b
Eligible(r) == r.last + MinHostInterval
PruneAt(r) == Larger(Eligible(r), r.cooldown)

GateInit ==
      /\ hosts = [h \in Hosts |-> NoRecord]
      /\ expiries = {} /\ prunes = {} /\ active = 0 /\ generation = 0
      /\ gateTime = 1
      /\ work = [w \in Workers |-> IdleWorker]
      /\ net = {}
      /\ rest = [h \in Hosts |-> 0]
    
-----------------------------------------------------------------------------
(* Index keys are time and host: putting one replaces its generation.      *)
Puts(index, new) ==
  {y \in index : \A x \in new : y[1] # x[1] \/ y[2] # x[2]} \cup new
WithoutKey(index, at, h) == {y \in index : y[1] # at \/ y[2] # h}
   
(* A lease ends, by release or expiry: the record stays while it still     *)
(* restrains its host, and is scheduled to be pruned then.                 *)
EndedForgetful(r) == NoRecord   \* slip: the record goes with the lease
Ended(r) == IF PruneAt(r) > gateTime
            THEN [r EXCEPT !.active = FALSE, !.prune = PruneAt(r)]
            ELSE NoRecord
Schedule(H) == {<<PruneAt(hosts[h]), h, hosts[h].gen>> :
                  h \in {g \in H : PruneAt(hosts[g]) > gateTime}}
     
(* reapExpiredLeases                                                       *)
DueOf(index) == {x \in index : x[1] <= gateTime}
Lapsed == {h \in Hosts : /\ hosts[h].active /\ hosts[h].until <= gateTime
                         /\ \E x \in DueOf(expiries) :
                              x[2] = h /\ x[3] = hosts[h].gen}
Reaped == [h \in Hosts |-> IF h \in Lapsed THEN Ended(hosts[h]) ELSE hosts[h]]
ActiveAfterReapKept == active   \* slip: the reaper leaves the count
ActiveAfterReap == active - Cardinality(Lapsed)

(* pruneExpiredHosts: the first entries in key order, a batch at a time.   *)
Before(x, y) == x[1] < y[1] \/ (x[1] = y[1] /\ x[2] < y[2])
FirstOf(index) ==
  {x \in DueOf(index) : Cardinality({y \in index : Before(y, x)}) < PruneBatch}
Pruned(records, batch) ==
  [h \in Hosts |->
     IF \E x \in batch : /\ x[2] = h /\ x[3] = records[h].gen
                         /\ ~records[h].active /\ records[h].prune <= gateTime
     THEN NoRecord ELSE records[h]]

(* What Acquire finds after it has swept, and commits unless it fails.     *)
SweptPrunes == Puts(prunes, Schedule(Lapsed))
Swept == Pruned(Reaped, FirstOf(SweptPrunes))
SweepWith(records) ==
  /\ hosts' = records
  /\ expiries' = expiries \ DueOf(expiries)
  /\ prunes' = SweptPrunes \ FirstOf(SweptPrunes)
  /\ active' = ActiveAfterReap

(* The answer may not be heard; nobody listens once the sender has moved   *)
(* on.                                                                     *)
Awaits(m) == /\ work[m.worker].attempt = m.attempt
             /\ work[m.worker].phase = CASE m.op = "acquire" -> "asking"
                                         [] m.op = "record" -> "recording"
                                         [] m.op = "release" -> "releasing"
Answer(m, state) ==
  /\ \/ work' = work
     \/ Awaits(m) /\ work' = [work EXCEPT ![m.worker] = state]
  /\ net' = net \ {m}

-----------------------------------------------------------------------------
(* Store.Acquire.                                                          *)
Mine(m) == Swept[m.host].gen # 0 /\ Swept[m.host].attempt = m.attempt
(* An inactive record still counts the expiry of its last lease.           *)
Resting(r) ==
  /\ r.gen # 0
  /\ r.active \/ Larger(r.until, PruneAt(r)) > gateTime
Full == ActiveAfterReap >= GlobalConcurrency
Leased(m, r) == [work[m.worker] EXCEPT !.phase = "granted", !.gen = r.gen,
                                       !.by = r.last + Slack]

(* The run is over, the attempt is complete or the numbers are used up:    *)
(* nothing is written.                                                     *)
AcquireFails(m) ==
  /\ m.op = "acquire"
  /\ \/ gateTime >= ExpiresAt
     \/ Mine(m) /\ ~Swept[m.host].active
     \/ ~Mine(m) /\ ~Resting(Swept[m.host]) /\ ~Full
        /\ generation = MaxGeneration
  /\ Answer(m, IdleWorker)
  /\ UNCHANGED <<store, gateTime, rest>>
     
GrantAgain(m) ==
  /\ m.op = "acquire" /\ gateTime < ExpiresAt
  /\ Mine(m) /\ Swept[m.host].active
  /\ SweepWith(Swept)
  /\ Answer(m, Leased(m, Swept[m.host]))
  /\ UNCHANGED <<generation, gateTime, rest>>
     
Deny(m) ==
  /\ m.op = "acquire" /\ gateTime < ExpiresAt
  /\ ~Mine(m)
  /\ Resting(Swept[m.host]) \/ Full
  /\ SweepWith(Swept)
  /\ Answer(m, [work[m.worker] EXCEPT !.phase = "denied"])
  /\ UNCHANGED <<generation, gateTime, rest>>
     
Grant(m) ==
  LET h == m.host
      until == gateTime + RequestTimeout + MaxRetryAfter + ControlGrace
      r == [gen |-> generation + 1, attempt |-> m.attempt, active |-> TRUE,
            until |-> until, last |-> gateTime, cooldown |-> 0, prune |-> 0]
  IN  /\ m.op = "acquire" /\ gateTime < ExpiresAt
      /\ ~Mine(m) /\ ~Resting(Swept[h]) /\ ~Full
      /\ generation < MaxGeneration
      /\ hosts' = [Swept EXCEPT ![h] = r]
      /\ expiries' = Puts(expiries \ DueOf(expiries),
                          {<<until, h, generation + 1>>})
      /\ prunes' = SweptPrunes \ FirstOf(SweptPrunes)
      /\ active' = ActiveAfterReap + 1
      /\ generation' = generation + 1
      /\ rest' = [rest EXCEPT ![h] = gateTime + MinHostInterval]
      /\ Answer(m, Leased(m, r))
      /\ UNCHANGED gateTime
     
(* Store.RecordResponse: the cooldown the host asked for, and the lease    *)
(* shortened to what the body may still need.                              *)
Matches(m) == /\ hosts[m.host].gen = m.gen
              /\ hosts[m.host].attempt = m.attempt
ShortenedTight(r) ==   \* slip: no grace
  Smaller(r.until, r.last + RequestTimeout)
Shortened(r) ==
  LET sent == r.last + RequestTimeout + ControlGrace
  IN  Smaller(r.until, IF sent < gateTime THEN gateTime + ControlGrace ELSE sent)
          
RecordRefused(m) ==
  /\ m.op = "record" /\ ~Matches(m)
  /\ \/ work' = work /\ net' = net \ {m}
     \/ /\ Awaits(m)
        /\ work' = [work EXCEPT ![m.worker].phase = "releasing",
                                ![m.worker].by = 0]
        /\ net' = (net \ {m}) \cup {Message(m.worker, "release", 0)}
  /\ UNCHANGED <<store, gateTime, rest>>
RecordResponse(m) ==
  LET h == m.host
      r == hosts[h]
      cool == IF m.retry > 0 THEN Larger(r.cooldown, gateTime + m.retry)
                             ELSE r.cooldown
      until == IF r.active THEN Shortened(r) ELSE r.until
  IN  /\ m.op = "record" /\ Matches(m)
      /\ hosts' = [hosts EXCEPT ![h].cooldown = cool, ![h].until = until,
                                ![h].prune = 0]
      /\ expiries' = IF r.active
                     THEN Puts(WithoutKey(expiries, r.until, h),
                               {<<until, h, r.gen>>})
                     ELSE expiries
      /\ prunes' = IF r.prune # 0 THEN WithoutKey(prunes, r.prune, h) ELSE prunes
      /\ rest' = [rest EXCEPT ![h] = Larger(@, cool)]
      /\ Answer(m, [work[m.worker] EXCEPT !.phase = "reading"])
      /\ UNCHANGED <<active, generation, gateTime>>
     
(* Store.Release: unknown or inactive leases change nothing.               *)
StillHeldAnyway(m) == Matches(m)   \* slip: released again, counted again
StillHeld(m) == Matches(m) /\ hosts[m.host].active

Release(m) ==
  LET h == m.host
  IN  /\ m.op = "release"
      /\ IF StillHeld(m)
         THEN /\ hosts' = [hosts EXCEPT ![h] = Ended(@)]
              /\ expiries' = WithoutKey(expiries, hosts[h].until, h)
              /\ prunes' = Puts(prunes, Schedule({h}))
              /\ active' = active - 1
         ELSE UNCHANGED <<hosts, expiries, prunes, active>>
      /\ Answer(m, IdleWorker)
      /\ UNCHANGED <<generation, gateTime, rest>>
     
-----------------------------------------------------------------------------
(* The workers.  An attempt's name is random: one nobody mentions.         *)
Mentioned == {work[w].attempt : w \in Workers} \cup {m.attempt : m \in net}
             \cup {hosts[h].attempt : h \in Hosts}

Ask(w, h) ==
  /\ work[w] = IdleWorker
  /\ \E a \in Attempts \ Mentioned :
       /\ work' = [work EXCEPT ![w] =
            [IdleWorker EXCEPT !.phase = "asking", !.attempt = a, !.host = h]]
       /\ Send([op |-> "acquire", worker |-> w, attempt |-> a, host |-> h,
                gen |-> 0, retry |-> 0])
  /\ UNCHANGED <<store, gateTime, rest>>
     
(* Client.Acquire polls after a denial.  It returns an error when it gets  *)
(* no answer; asking again then, with the same attempt, is what the        *)
(* protocol allows a client and is admitted here.                          *)
AskAgain(w) ==
  /\ work[w].phase \in {"denied", "asking"}
  /\ work' = [work EXCEPT ![w].phase = "asking"]
  /\ Send(Message(w, "acquire", 0))
  /\ UNCHANGED <<store, gateTime, rest>>
     
Dispatch(w) ==
  /\ work[w].phase = "granted" /\ gateTime <= work[w].by
  /\ work' = [work EXCEPT ![w].phase = "sending",
                          ![w].by = gateTime + RequestTimeout]
  /\ UNCHANGED <<store, gateTime, net, rest>>
     
Headers(w, retry) ==
  /\ work[w].phase = "sending" /\ gateTime < work[w].by
  /\ work' = [work EXCEPT ![w].phase = "recording"]
  /\ Send(Message(w, "record", retry))
  /\ UNCHANGED <<store, gateTime, rest>>
     
(* The request is over: it failed, the body ended or was closed, or the    *)
(* headers could not be reported.  Its context is cancelled first.         *)
Finish(w) ==
  /\ work[w].phase \in {"sending", "recording", "reading"}
  /\ work' = [work EXCEPT ![w].phase = "releasing", ![w].by = 0]
  /\ Send(Message(w, "release", 0))
  /\ UNCHANGED <<store, gateTime, rest>>
     
(* The worker gives up on an answer, or dies.                              *)
Abandon(w) ==
  /\ work[w] # IdleWorker
  /\ work' = [work EXCEPT ![w] = IdleWorker]
  /\ UNCHANGED <<store, gateTime, net, rest>>
     
(* A request never reaches the store: the connection or the gate is down.  *)
Lost(m) ==
  /\ net' = net \ {m}
  /\ UNCHANGED <<store, gateTime, work, rest>>
     
GateTick ==
      /\ gateTime < LastGateTime
      /\ gateTime' = gateTime + 1
      /\ UNCHANGED <<store, work, net, rest>>
    
Serve(m) == AcquireFails(m) \/ GrantAgain(m) \/ Deny(m) \/ Grant(m)
            \/ RecordRefused(m) \/ RecordResponse(m) \/ Release(m)

GateNext ==
      \/ \E m \in net : Serve(m) \/ Lost(m)
      \/ \E w \in Workers :
           \/ \E h \in Hosts : Ask(w, h)
           \/ AskAgain(w) \/ Dispatch(w)
           \/ \E retry \in RetryAfters : Headers(w, retry)
           \/ Finish(w) \/ Abandon(w)
      \/ GateTick
        
GateSpec == GateInit /\ [][GateNext]_gateVars
                
-----------------------------------------------------------------------------
GateTypeOK ==
  /\ hosts \in [Hosts -> Record]
  /\ expiries \subseteq Nat \X Hosts \X Nat
  /\ prunes \subseteq Nat \X Hosts \X Nat
  /\ active \in Nat /\ generation \in Nat /\ gateTime \in Nat
  /\ work \in [Workers -> Worker]
  /\ net \subseteq Request
  /\ rest \in [Hosts -> Nat]

(* The counter, the records and the two indexes say the same whatever was  *)
(* lost, served late, reaped or released twice: a slot is counted as long  *)
(* as its lease is in force and no longer, each lease has exactly one      *)
(* expiry, and a record on the prune schedule is found there.              *)
CountExact ==
  LET held == {h \in Hosts : hosts[h].active}
  IN  /\ active = Cardinality(held) /\ active <= GlobalConcurrency
      /\ expiries = {<<hosts[h].until, h, hosts[h].gen>> : h \in held}
      /\ \A h \in Hosts \ held :
           hosts[h].prune # 0 => <<hosts[h].prune, h, hosts[h].gen>> \in prunes

(* A host is granted again only after its minimum interval and after every *)
(* Retry-After the gate has accepted for it, although the record that      *)
(* remembers both is deleted by release, reaper and pruner, and written by *)
(* answers that arrive late.                                               *)
PacedGrants ==
  [][\A h \in Hosts :
       hosts'[h].gen # hosts[h].gen /\ hosts'[h].gen # 0
         => gateTime >= rest[h]]_gateVars
         
(* At any time at most one request is out to a host, and at most           *)
(* GlobalConcurrency in all, although leases expire and are shortened      *)
(* while bodies are still being read.                                      *)
InFlight(w) == work[w].phase \in {"sending", "recording", "reading"}
               /\ gateTime < work[w].by
RequestsBounded ==
  LET out == {w \in Workers : InFlight(w)}
  IN  /\ Cardinality(out) <= GlobalConcurrency
      /\ \A v, w \in out : v # w => work[v].host # work[w].host
=============================================================================
