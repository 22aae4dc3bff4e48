------------------------------ MODULE SearxPool ------------------------------
(* The pool of SearXNG instances (internal/adapters/searxng/multi.go) and  *)
(* what its single clients (client.go) can answer.  Searches take their    *)
(* order of instances under the lock and use it after it, while others     *)
(* open and close the transport and quality circuits: each critical        *)
(* section - healthyOrder, nextRetryAfter, markDown, markUp, the quality   *)
(* record - is a step of its own.  Quality averages and metrics are left   *)
(* out; jitter is one of the lengths a backoff may have.                   *)
EXTENDS Integers, Sequences, FiniteSetsExt, SequencesExt

CONSTANTS
  InstanceCount,  (* configured endpoints                                  *)
  Askers,         (* concurrent searches                                   *)
  Cooldown,       (* FM_SEARXNG_COOLDOWN                                   *)
  MaxBackoff,     (* 15 minutes                                            *)
  MaxRetryAfter,  (* 24 hours: the longest delay a server may ask for      *)
  MaxPages,       (* maxSearchPages                                        *)
  LastSecond      (* bound of the clock                                    *)

ASSUME PoolConstants ==
  /\ InstanceCount \in Nat \ {0} /\ Cooldown \in Nat \ {0}
  /\ MaxPages \in Nat \ {0} /\ MaxBackoff \in Nat /\ MaxRetryAfter \in Nat /\ LastSecond \in Nat

VARIABLES
  second,    (* the clock                                                  *)
  circuit,   (* per instance: cooldown and qualityCooldown, the first      *)
             (* moment it may be asked again, failures and degradedStreak  *)
  nextRound, (* rr: where the next order starts                            *)
  asker      (* each search: whom it still asks, what it heard, its verdict*)

poolVars == <<second, circuit, nextRound, asker>>

Instances == 1..InstanceCount
Outcomes == {"healthy", "partial", "degraded_empty", "authoritative_empty", "failed"}
IdleAsker == [at |-> "idle", from |-> 0, left |-> {}, heard |-> <<>>, verdict |-> "none"]
RetryAfters == 0..MaxRetryAfter   \* 0 when the server asks for nothing

PoolInit ==
  /\ second = 1
  /\ circuit = [i \in Instances |-> [down |-> 0, failures |-> 0, quality |-> 0, degraded |-> 0]]
  /\ nextRound = 0
  /\ asker = [s \in Askers |-> IdleAsker]

-----------------------------------------------------------------------------
(* exponentialBackoff: doubled per failure up to the cap, which is never   *)
(* below the base; the jitter adds up to a fifth.                          *)
Largest == Max({MaxBackoff, Cooldown})
Doubled(n) == Cooldown * 2 ^ (n - 1)
Backoff(n) == IF n <= 1 THEN Cooldown
              ELSE IF Doubled(n) \in 0..Largest THEN Doubled(n) ELSE Largest
Jittered(n) == Backoff(n)..(Backoff(n) + Backoff(n) \div 5)

CircuitOpen(i) == second < circuit[i].down \/ second < circuit[i].quality

(* healthyOrder from the next round-robin slot: those to ask, each in its  *)
(* turn; an elapsed quality circuit is cleared on the way.                 *)
Healthy == {i \in Instances : ~CircuitOpen(i)}
Turn(i, from) == (i - 1 - from + InstanceCount) % InstanceCount
Begin(s) ==
  /\ asker[s].at = "idle"
  /\ asker' = [asker EXCEPT ![s] = [IdleAsker EXCEPT !.left = Healthy, !.from = nextRound,
       !.at = IF Healthy = {} THEN "cooling" ELSE "asking"]]
  /\ nextRound' = (nextRound + 1) % InstanceCount
  /\ circuit' = [i \in Instances |->
       IF circuit[i].quality <= second THEN [circuit[i] EXCEPT !.quality = 0] ELSE circuit[i]]
  /\ UNCHANGED second

(* nextRetryAfter: the least time any open circuit still has; 0 when all   *)
(* have been closed in the meantime.                                       *)
NextRetryAfter ==
  LET ends == {Max({circuit[i].down, circuit[i].quality}) : i \in Instances} IN
  IF \E t \in ends : t > second THEN Min({t \in ends : t > second}) - second ELSE 0
ReportCooling(s) ==
  /\ asker[s].at = "cooling"
  /\ asker' = [asker EXCEPT ![s].at = "told", ![s].verdict = "cooling"]
  /\ UNCHANGED <<second, circuit, nextRound>>

(* markDown and markUp.                                                    *)
MarkedDown(i, retryAfter) ==
  {[circuit EXCEPT ![i].failures = @ + 1, ![i].down = second + Max({retryAfter, length})] :
     length \in Jittered(circuit[i].failures + 1)}
MarkedUp(i) == [circuit EXCEPT ![i].failures = 0, ![i].down = 0]
MarkDown(i, retryAfter) == circuit' \in MarkedDown(i, retryAfter)
MarkUp(i) == circuit' = MarkedUp(i)

(* What the client of an instance makes of its pages (SearchBatch): it     *)
(* reads them until one fails or brings no new row, or it has enough.  A   *)
(* failure before any hit is an error, one after hits leaves them partial; *)
(* engines reported as unresponsive degrade what there is.                 *)
Page == [rows : BOOLEAN, unresponsive : BOOLEAN, fails : BOOLEAN]
Read(pages) == {k \in DOMAIN pages : \A j \in 1..(k - 1) : pages[j].rows /\ ~pages[j].fails}
Hits(pages) == \E k \in Read(pages) : pages[k].rows /\ ~pages[k].fails
CutShort(pages) == Hits(pages) /\ \E k \in Read(pages) : pages[k].fails
Diagnosed(pages) == \E k \in Read(pages) : pages[k].unresponsive /\ ~pages[k].fails
Classified(hits, diagnosed) ==
  IF hits THEN IF diagnosed THEN "partial" ELSE "healthy"
  ELSE IF diagnosed THEN "degraded_empty" ELSE "authoritative_empty"
Batch(pages) ==
  [status |-> IF CutShort(pages) THEN "partial" ELSE Classified(Hits(pages), Diagnosed(pages)),
   cut |-> CutShort(pages)]
Batches == {Batch(pages) : pages \in
  {p \in UNION {[1..n -> Page] : n \in 1..MaxPages} : Hits(p) \/ \A k \in Read(p) : ~p[k].fails}}

(* The instance whose turn it is answers.  An error is retryable or proves *)
(* the instance reachable; a batch that a failure cut short may carry a    *)
(* retryable diagnostic, and its quality is recorded in a section of its   *)
(* own.                                                                    *)
Asked(s) == CHOOSE i \in asker[s].left : \A j \in asker[s].left :
              Turn(i, asker[s].from) <= Turn(j, asker[s].from)
Rest(s) == asker[s].left \ {Asked(s)}
AsAnswered(s, outcome) ==   \* slip: earlier answers are forgotten
  outcome
(* classifyAggregateBatch: what was heard before makes hits partial and an *)
(* empty answer degraded                                                   *)
Aggregated(s, outcome) ==
  CASE asker[s].heard = <<>> -> outcome
    [] outcome \in {"healthy", "partial"} -> "partial"
    [] OTHER -> "degraded_empty"
Told(heard, verdict) ==
  [IdleAsker EXCEPT !.at = "told", !.heard = heard, !.verdict = verdict]
AfterFailure(s, heard) ==
  IF Rest(s) # {} THEN [asker[s] EXCEPT !.at = "asking", !.left = Rest(s), !.heard = heard]
  ELSE Told(heard, IF \E k \in DOMAIN heard : heard[k] # "failed"
                   THEN "degraded_empty" ELSE "failed")
InstanceFails(s) ==
  /\ asker[s].at = "asking"
  /\ \/ \E retryAfter \in RetryAfters : MarkDown(Asked(s), retryAfter)
     \/ MarkUp(Asked(s))
  /\ asker' = [asker EXCEPT ![s] = AfterFailure(s, Append(asker[s].heard, "failed"))]
  /\ UNCHANGED <<second, nextRound>>
InstanceAnswers(s) ==
  /\ asker[s].at = "asking"
  /\ \E batch \in Batches :
       /\ \/ MarkUp(Asked(s))
          \/ batch.cut /\ \E retryAfter \in RetryAfters : MarkDown(Asked(s), retryAfter)
       /\ asker' = [asker EXCEPT ![s].at = "recording", ![s].verdict = batch.status]
  /\ UNCHANGED <<second, nextRound>>

(* recordBatch: two degraded answers in a row open the quality circuit     *)
DegradedAfter == 2
RecordQuality(s) ==
  LET i == Asked(s)
      outcome == asker[s].verdict
      streak == IF outcome = "degraded_empty" THEN circuit[i].degraded + 1 ELSE 0
      aggregated == Aggregated(s, outcome)
      heard == Append(asker[s].heard, outcome) IN
  /\ asker[s].at = "recording"
  /\ \E length \in Jittered(streak - DegradedAfter + 1) :
       circuit' = [circuit EXCEPT ![i].degraded = streak,
         ![i].quality = IF streak >= DegradedAfter THEN second + length
                        ELSE IF streak = 0 THEN 0 ELSE @]
  /\ asker' = [asker EXCEPT ![s] =
       IF aggregated = "degraded_empty" THEN AfterFailure(s, heard) ELSE Told(heard, aggregated)]
  /\ UNCHANGED <<second, nextRound>>

(* The caller gives up, or has its verdict and asks again later.           *)
Leave(s) ==
  /\ asker[s].at # "idle" /\ asker' = [asker EXCEPT ![s] = IdleAsker]
  /\ UNCHANGED <<second, circuit, nextRound>>
(* A readiness probe marks without a Retry-After.                          *)
Ping(i) ==
  /\ MarkUp(i) \/ MarkDown(i, 0)
  /\ UNCHANGED <<second, nextRound, asker>>
SecondPasses ==
  /\ second < LastSecond /\ second' = second + 1
  /\ UNCHANGED <<circuit, nextRound, asker>>

PoolNext ==
  \/ \E s \in Askers : \/ Begin(s) \/ ReportCooling(s) \/ InstanceFails(s)
                       \/ InstanceAnswers(s) \/ RecordQuality(s) \/ Leave(s)
  \/ \E i \in Instances : Ping(i)
  \/ SecondPasses

PoolSpec == PoolInit /\ [][PoolNext]_poolVars

-----------------------------------------------------------------------------
PoolTypeOK ==
  /\ second \in 1..LastSecond /\ nextRound \in 0..(InstanceCount - 1)
  /\ circuit \in [Instances -> [down : Nat, failures : Nat, quality : Nat, degraded : Nat]]
  /\ \A s \in Askers :
       /\ asker[s].at \in {"idle", "asking", "recording", "cooling", "told"}
       /\ asker[s].left \subseteq Instances /\ asker[s].heard \in Seq(Outcomes)
       /\ asker[s].verdict \in Outcomes \cup {"none", "cooling"}

(* A search is not told more than its instances said: empty or healthy     *)
(* only by the first one it asked, partial only with hits, a failure only  *)
(* when every instance of its order failed ("A subsequent empty is         *)
(* degraded rather than authoritative, while fallback hits are partial",   *)
(* searxng.md).                                                            *)
ToldWhatWasHeard ==
  \A s \in Askers : asker[s].at = "told" =>
    LET heard == asker[s].heard
        answer == asker[s].verdict IN
    /\ answer \in {"healthy", "authoritative_empty"} => heard = <<answer>>
    /\ answer = "partial" => heard[Len(heard)] \in {"healthy", "partial"}
    /\ answer = "failed" => ToSet(heard) = {"failed"}
    /\ answer = "degraded_empty" =>
         ToSet(heard) \cap {"healthy", "partial"} = {} /\ ToSet(heard) # {"failed"}
    /\ answer = "cooling" => heard = <<>>

(* However many failures add up, an instance is left out for a bounded     *)
(* time: the capped backoff with its jitter, or what a server asked for    *)
(* (exponentialBackoff).                                                   *)
LockoutBounded ==
  LET longest == Largest + Largest \div 5 IN
  \A i \in Instances :
    /\ circuit[i].down - second <= Max({MaxRetryAfter, longest})
    /\ circuit[i].quality - second <= longest

(* The pool tells what it heard and lets no instance be forgotten.         *)
PoolHonest == ToldWhatWasHeard /\ LockoutBounded
=============================================================================
