----------------------------- MODULE Providers ------------------------------
(* The clients of the external search providers (internal/adapters/arxiv,  *)
(* crossref, github, mwmbl, pubmed, scrapling, stackexchange, wiby,        *)
(* wikipedia, yacy) over their shared gate (providerbudget).  A search     *)
(* passes the same steps in each: the cooldown, a concurrency slot, the    *)
(* cooldown again, a rate token, the cooldown again, the request.  What    *)
(* differs - the ceilings New puts on an operator's budget, what opens a   *)
(* cooldown, how rows become a verdict - is a definition per client.       *)
(* One client is modelled at a time; one tick of the clock is the interval *)
(* of its rate.                                                            *)
EXTENDS Integers, Sequences, FiniteSets, FiniteSetsExt

CONSTANTS
  Clients,        (* the clients to look at, a subset of ClientNames       *)
  Configured,     (* slots and burst the operator asks for                 *)
  Searches,       (* concurrent searches                                   *)
  Queries,        (* query texts, for the guard against repeated queries   *)
  RepeatDelay,    (* StackExchange's duplicateRequestDelay                 *)
  RecentCap,      (* its maxRecentQueries                                  *)
  Patience,       (* intervals a search may wait for its token             *)
  LastTick        (* bound of the clock                                    *)

ClientNames == {"arxiv", "crossref", "github", "mwmbl", "pubmed", "scrapling",
                "stackexchange", "wiby", "wikipedia", "yacy_local", "yacy_global"}

ASSUME ProviderConstants ==
  /\ Clients \subseteq ClientNames /\ Queries # {}
  /\ Configured \in [slots : Nat \ {0}, burst : Nat \ {0}]
  /\ RepeatDelay \in Nat /\ RecentCap \in Nat \ {0} /\ LastTick \in Nat /\ Patience \in Nat
  /\ RepeatDelay <= RecentCap   \* a minute at a query a second at most: 60, 256

VARIABLES
  client,   (* the client at work                                          *)
  tick,     (* the clock                                                   *)
  bucket,   (* rate.Limiter: the tokens it had at a moment, and the moment *)
            (* the latest reservation may act (lastEvent)                  *)
  cooldown, (* cooldownUntil                                               *)
  recent,   (* recentQueries: query -> its anchor, if reserved             *)
  searching,(* each search: where it is, its query and its token           *)
  told,     (* the answer and the verdict of the search that just ended,   *)
            (* and whether its domain filter left the provider out         *)
  sent,     (* the requests sent: query and moment                         *)
  excused,  (* searches past their last check when the cooldown opened     *)
  intruders (* others that sent a request during the cooldown              *)

providerVars == <<client, tick, bucket, cooldown, recent, searching, told, sent, excused, intruders>>

-----------------------------------------------------------------------------
(* What New allows at most: the slots of the gate and the burst.           *)
Single == [slots |-> 1, burst |-> 1]
ArxivLimits == Single
CrossrefLimits == [slots |-> 3, burst |-> 3]   \* with a mailto address
GithubLimits == Single
MwmblLimits == Single
PubmedLimits == Single
ScraplingLimits == [slots |-> 4, burst |-> 4]
StackexchangeLimits == Single
WibyLimits == Single
WikipediaLimits == [slots |-> 2, burst |-> 2]
YacyLimits == Single

(* What opens a cooldown: a status in "cools" always, for "fallback" when  *)
(* the answer names no delay; a status in "heeds" when it names one.  A    *)
(* search makes "requests" requests on one slot; "guarded" clients refuse  *)
(* a query they have just sent.                                            *)
Short == 1   \* a minute
Long == 2    \* five minutes
Day == 3
Statuses == {200, 403, 404, 429, 500}
ArxivControl == [cools |-> {403, 429}, heeds |-> Statuses \ {200}, fallback |-> Long,
                 requests |-> 1, guarded |-> FALSE]
CrossrefControl == ArxivControl
GithubControl == [ArxivControl EXCEPT !.fallback = Short]
MwmblControl == ArxivControl
PubmedControl == [ArxivControl EXCEPT !.fallback = Short, !.requests = 2]
ScraplingControl == [ArxivControl EXCEPT !.cools = {}, !.heeds = {}]
StackexchangeControl ==
  [ArxivControl EXCEPT !.cools = {429, 500}, !.heeds = {429, 500}, !.guarded = TRUE]
WibyControl == ArxivControl
WikipediaControl == ArxivControl
YacyControl == [ArxivControl EXCEPT !.cools = {429}, !.fallback = Short]

(* An answer: rows the client can use and rows it cannot, whether the      *)
(* query's domain filter drops the usable ones, and what the provider says *)
(* about the page: that it is all there is, that there is more, or nothing *)
(* that can be relied on.  StackExchange may add a backoff, whatever the   *)
(* status, and tell that the quota is gone, PubMed that its rate was       *)
(* exceeded.                                                               *)
Reply == [status : Statuses, delay : {0, 1}, body : {"whole", "unread", "malformed"},
          good : {0, 1}, bad : {0, 1}, dropped : BOOLEAN, claim : {"all", "more", "unknown"},
          backoff : {0, 1}, exhausted : BOOLEAN]
Filters == {"mwmbl", "wiby", "yacy_local", "yacy_global", "stackexchange"}
OneHost == {"github", "pubmed"}   \* all their results are of one host
Claims == {"arxiv", "github", "pubmed", "scrapling", "yacy_local", "yacy_global"}
Possible(a) ==
  /\ a.status # 200 \/ a.body # "whole" => a.good = 0 /\ a.bad = 0 /\ a.claim = "all"
  /\ a.status = 200 => a.delay = 0
  /\ a.dropped => a.good = 1 /\ client \in Filters
  /\ a.claim = "more" => client \in Claims
  /\ a.claim = "unknown" => client \in Claims \cup {"crossref", "wikipedia"}
  /\ a.backoff > 0 => client = "stackexchange" /\ a.body = "whole"
  /\ a.exhausted => a.body = "whole" /\
       \/ client = "stackexchange"
       \/ client = "pubmed" /\ a.status = 200 /\ a.good = 0 /\ a.bad = 0
  /\ a.status # 200 => a.body = "whole" \/ client = "stackexchange"
Answers == {a \in Reply : Possible(a)}
Hits(a) == IF a.dropped THEN 0 ELSE a.good

(* The status of a batch from the rows of a readable answer.               *)
Sure(a) == IF Hits(a) = 1 THEN "healthy" ELSE "authoritative_empty"
Unsure(a) == IF Hits(a) = 1 THEN "partial" ELSE "degraded_empty"
ArxivVerdict(a) == IF a.bad > 0 \/ a.claim # "all" THEN Unsure(a) ELSE Sure(a)
CrossrefVerdict(a) == IF a.claim = "unknown" THEN "failed" ELSE Sure(a)   \* not "ok"
GithubVerdict(a) ==
  CASE a.bad > 0 -> IF Hits(a) = 1 THEN "partial" ELSE "failed"
    [] a.claim = "unknown" -> Unsure(a)   \* incomplete_results
    [] OTHER -> IF Hits(a) = 0 /\ a.claim = "more" THEN "degraded_empty" ELSE Sure(a)
MwmblVerdict(a) ==
  IF a.bad = 0 THEN Sure(a) ELSE IF Hits(a) = 1 THEN "partial" ELSE "failed"
WibyVerdict(a) == MwmblVerdict(a)
StackexchangeVerdict(a) == MwmblVerdict(a)
WikipediaVerdict(a) == IF a.claim = "unknown" THEN "failed" ELSE Sure(a)   \* an error
YacyVerdict(a) ==
  CASE a.bad > 0 /\ a.good = 0 -> "failed"
    [] a.bad > 0 \/ a.claim # "all" -> Unsure(a)
    [] OTHER -> IF client = "yacy_global" /\ Hits(a) = 0 THEN "degraded_empty" ELSE Sure(a)
(* a status of the sidecar that contradicts its results is malformed       *)
ScraplingVerdict(a) ==
  CASE a.bad > 0 -> Unsure(a)
    [] a.claim = "unknown" -> "failed"
    [] OTHER -> IF a.claim = "more" THEN Unsure(a) ELSE Sure(a)
(* two requests: identifiers that may be invalid, then their records       *)
PubmedIds(a) ==
  CASE a.exhausted -> "failed"   \* apiError
    [] a.good = 1 -> "more"
    [] OTHER -> IF a.claim = "all" /\ a.bad = 0 THEN "authoritative_empty" ELSE "failed"
PubmedVerdict(a) == IF a.good = 0 THEN "failed" ELSE IF a.bad > 0 THEN "partial" ELSE "healthy"

-----------------------------------------------------------------------------
Of(arxiv, crossref, github, mwmbl, pubmed, scrapling, stackexchange, wiby, wikipedia, yacy) ==
  CASE client = "arxiv" -> arxiv [] client = "crossref" -> crossref
    [] client = "github" -> github [] client = "mwmbl" -> mwmbl
    [] client = "pubmed" -> pubmed [] client = "scrapling" -> scrapling
    [] client = "stackexchange" -> stackexchange [] client = "wiby" -> wiby
    [] client = "wikipedia" -> wikipedia [] OTHER -> yacy
Ceiling == Of(ArxivLimits, CrossrefLimits, GithubLimits, MwmblLimits, PubmedLimits,
              ScraplingLimits, StackexchangeLimits, WibyLimits, WikipediaLimits, YacyLimits)
Limits == [slots |-> Min({Ceiling.slots, Configured.slots}),
           burst |-> Min({Ceiling.burst, Configured.burst})]
Control == Of(ArxivControl, CrossrefControl, GithubControl, MwmblControl, PubmedControl,
              ScraplingControl, StackexchangeControl, WibyControl, WikipediaControl, YacyControl)
RowsVerdict(a) ==
  Of(ArxivVerdict(a), CrossrefVerdict(a), GithubVerdict(a), MwmblVerdict(a), PubmedVerdict(a),
     ScraplingVerdict(a), StackexchangeVerdict(a), WibyVerdict(a), WikipediaVerdict(a),
     YacyVerdict(a))
BatchVerdict(a) == IF a.status = 200 /\ a.body = "whole" THEN RowsVerdict(a) ELSE "failed"
     
NoAnswer == CHOOSE a \in Reply :
  a.status = 404 /\ a.delay = 0 /\ a.claim = "all" /\ a.good = 0 /\ a.bad = 0 /\ a.backoff = 0 /\ ~a.exhausted
NotSearching == [at |-> "idle", query |-> 0, due |-> 0, waited |-> FALSE, round |-> 1,
                 carried |-> 0]
Silence == [answer |-> NoAnswer, verdict |-> "none", excluded |-> FALSE]

ProvidersInit ==
  /\ client \in Clients /\ tick = 0 /\ cooldown = 0 /\ intruders = {} /\ excused = {} /\ sent = <<>>
  /\ bucket = [tokens |-> Limits.burst, at |-> 0, last |-> 0]
  /\ recent = << >> /\ searching = [c \in Searches |-> NotSearching] /\ told = Silence

Cooling == tick < cooldown
Become(c, s) == searching' = [searching EXCEPT ![c] = s] /\ told' = Silence
Move(c, at) == Become(c, [searching[c] EXCEPT !.at = at])
End(c, a, verdict) ==
  /\ searching' = [searching EXCEPT ![c] = NotSearching]
  /\ told' = [answer |-> a, verdict |-> verdict, excluded |-> FALSE]
ExcludedByDomain(c) ==
  /\ searching' = [searching EXCEPT ![c] = NotSearching]
  /\ told' = [answer |-> NoAnswer, verdict |-> "authoritative_empty", excluded |-> TRUE]
Fail(c) == End(c, NoAnswer, "failed")
Holding == {c \in Searches : searching[c].at \in {"admitted", "pacing", "cleared", "sending"}}

(* SearchBatch up to the gate: a query the provider cannot express fails,  *)
(* then one whose domain filter leaves out the provider's only host is     *)
(* answered at once, then the cooldown is looked at.                       *)
BeginSearch(c) ==
          /\ searching[c].at = "idle"
          /\ \/ Fail(c)   \* unsupportedControl, projectQuery or the cooldown
             \/ client \in OneHost /\ ExcludedByDomain(c)
             \/ /\ ~Cooling
                /\ \E q \in IF Control.guarded THEN Queries ELSE {CHOOSE q \in Queries : TRUE} :
                     Become(c, [NotSearching EXCEPT !.at = "queueing", !.query = q])
          /\ UNCHANGED <<client, tick, bucket, cooldown, recent, sent, excused, intruders>>
(* Gate.AcquireSlot                                                        *)
AcquireSlot(c) ==
  /\ searching[c].at = "queueing" /\ Cardinality(Holding) < Limits.slots
  /\ Move(c, "admitted")
  /\ UNCHANGED <<client, tick, bucket, cooldown, recent, sent, excused, intruders>>

(* The cooldown again, reserveQuery, and the reservation of a token in     *)
(* Gate.WaitRate, which reserves none beyond the search's deadline.  When  *)
(* the table of recent queries is full its oldest entry goes.              *)
Tokens == Min({Limits.burst, bucket.tokens + tick - bucket.at})
Reservation == LET left == Tokens - 1 IN
  [tokens |-> left, at |-> tick, last |-> tick + (IF left < 0 THEN -left ELSE 0)]
With(table, q) == [k \in DOMAIN table \cup {q} |-> IF k = q THEN tick ELSE table[k]]
Without(table, gone) == [k \in DOMAIN table \ gone |-> table[k]]
Live == Without(recent, {q \in DOMAIN recent : tick - recent[q] >= RepeatDelay})
NoneOldest(table) == {}   \* slip: the table grows
Oldest(table) == IF Cardinality(DOMAIN table) < RecentCap THEN {}
                 ELSE {CHOOSE q \in DOMAIN table : \A k \in DOMAIN table : table[q] <= table[k]}
Repeated(c) == Control.guarded /\ searching[c].round = 1 /\ searching[c].query \in DOMAIN Live
WaitRate(c) ==
  /\ searching[c].at = "admitted"
  /\ IF Cooling \/ Repeated(c) \/ Reservation.last - tick > Patience
     THEN Fail(c) /\ UNCHANGED <<bucket, recent>>
     ELSE /\ bucket' = Reservation
          /\ Become(c, [searching[c] EXCEPT !.at = "pacing", !.due = Reservation.last,
                                            !.waited = Reservation.last > tick])
          /\ recent' = IF Control.guarded
                       THEN With(Without(Live, Oldest(Live)), searching[c].query) ELSE recent
  /\ UNCHANGED <<client, tick, cooldown, sent, excused, intruders>>

(* releaseQuery                                                            *)
Released(c) == IF Control.guarded THEN Without(recent, {searching[c].query}) ELSE recent
(* The token is there: the cooldown a last time, then the request.         *)
NeverCooling == FALSE   \* slip: the cooldown is not looked at after the wait
CoolingAfterWait == Cooling
Check(c) ==
  /\ searching[c].at = "pacing" /\ searching[c].due <= tick
  /\ IF CoolingAfterWait THEN Fail(c) /\ recent' = Released(c)
     ELSE Move(c, "cleared") /\ UNCHANGED recent
  /\ UNCHANGED <<client, tick, bucket, cooldown, sent, excused, intruders>>
(* commitQueryDispatch and the request                                     *)
SendQuery(c) ==
       /\ searching[c].at = "cleared"
       /\ Move(c, "sending")
       /\ sent' = Append(sent, [query |-> searching[c].query, at |-> tick])
       /\ intruders' = IF Cooling /\ c \notin excused THEN intruders \cup {c} ELSE intruders
       /\ excused' = excused \ {c}
       /\ recent' = IF Control.guarded THEN With(recent, searching[c].query) ELSE recent
       /\ UNCHANGED <<client, tick, bucket, cooldown>>
     
(* openCooldown with what the answer asks for (retryafter.Parse bounds it) *)
CooldownFor(a) ==
  LET named == Max({IF a.status \in Control.heeds THEN a.delay ELSE 0, a.backoff,
                    IF ~a.exhausted THEN 0 ELSE IF client = "pubmed" THEN Short ELSE Day}) IN
  IF named = 0 /\ a.status \in Control.cools THEN Control.fallback ELSE named
Receive(c) ==
  /\ searching[c].at = "sending"
  /\ \E a \in Answers :
       LET before == searching[c]
           rows == [a EXCEPT !.bad = Max({a.bad, before.carried})]
           more == /\ before.round < Control.requests /\ a.status = 200 /\ a.body = "whole"
                   /\ PubmedIds(a) = "more" IN
       /\ cooldown' = Max({cooldown, IF CooldownFor(a) > 0 THEN tick + CooldownFor(a) ELSE 0})
       /\ excused' = IF CooldownFor(a) > 0 /\ ~Cooling
                    THEN {d \in Searches : searching[d].at = "cleared"} ELSE excused
       /\ \/ /\ more
             /\ Become(c, [before EXCEPT !.at = "admitted", !.round = 2, !.carried = a.bad])
          \/ more /\ Fail(c)   \* nothing is left of the limit of bytes
          \/ /\ ~more
             /\ End(c, rows, IF before.round < Control.requests /\ a.status = 200 /\ a.body = "whole"
                             THEN PubmedIds(a) ELSE BatchVerdict(rows))
  /\ UNCHANGED <<client, tick, bucket, recent, sent, intruders>>

(* The caller gives up, or the request is lost.  A token still waited for  *)
(* goes back if no later one was reserved (rate.Reservation.Cancel).       *)
Returned(c) ==
  LET due == searching[c].due
      restored == 1 - (bucket.last - due) IN
  IF searching[c].at = "pacing" /\ searching[c].waited /\ due >= tick /\ restored > 0
  THEN [tokens |-> Min({Limits.burst, Tokens + restored}), at |-> tick,
        last |-> IF restored = 1 /\ due - 1 >= tick THEN due - 1 ELSE bucket.last]
  ELSE bucket
GiveUp(c) ==
  /\ searching[c].at \in {"queueing", "admitted", "pacing", "cleared", "sending"}
  /\ bucket' = Returned(c)
  /\ recent' = IF searching[c].at \in {"pacing", "cleared"} THEN Released(c) ELSE recent
  /\ Fail(c)
  /\ UNCHANGED <<client, tick, cooldown, sent, excused, intruders>>

(* The steps between a token and its request take no time worth an         *)
(* interval of the rate.                                                   *)
TickPasses ==
  /\ tick < LastTick
  /\ \A c \in Searches : /\ searching[c].at # "cleared"
                         /\ searching[c].at = "pacing" => searching[c].due > tick
  /\ tick' = tick + 1 /\ told' = Silence
  /\ UNCHANGED <<client, bucket, cooldown, recent, searching, sent, excused, intruders>>

ProvidersNext ==
  \/ \E c \in Searches : BeginSearch(c) \/ AcquireSlot(c) \/ WaitRate(c) \/ Check(c) \/ SendQuery(c)
                       \/ Receive(c) \/ GiveUp(c)
  \/ TickPasses

ProvidersSpec == ProvidersInit /\ [][ProvidersNext]_providerVars

-----------------------------------------------------------------------------
ProvidersTypeOK ==
  /\ client \in Clients /\ tick \in 0..LastTick /\ cooldown \in Nat /\ intruders \subseteq Searches
  /\ bucket.tokens <= Limits.burst /\ bucket.at \in 0..LastTick /\ bucket.last \in Nat
  /\ DOMAIN recent \subseteq Queries /\ Cardinality(DOMAIN recent) <= RecentCap
  /\ \A i \in DOMAIN sent : sent[i].at \in 0..LastTick
  /\ told.answer \in Reply

(* "This prevents queued operations from reserving future tokens and then  *)
(* bursting when the slot opens" (providerbudget/gate.go): however       *)
(* searches queue, give up and come back, in any stretch of time a         *)
(* provider gets no more requests than the burst and one per interval.     *)
Paced ==
  \A i, j \in DOMAIN sent : i <= j => j - i + 1 <= Limits.burst + sent[j].at - sent[i].at

(* After an answer opened the cooldown no request follows but those that   *)
(* had passed the last check beside it: none when there is one slot, and   *)
(* no search that was still queueing or waiting for its token              *)
(* (wikipedia/client.go: "Another admitted request can open cooldown while *)
(* this call waits for its rate token").                                   *)
CoolingRespected == intruders = {} /\ Cardinality(excused) < Limits.slots

(* StackExchange never sees a query twice within the delay, although its   *)
(* table forgets and gives back reservations (reserveQuery).               *)
NoRepeats ==
  Control.guarded => \A i, j \in DOMAIN sent :
    i < j /\ sent[i].query = sent[j].query => sent[j].at - sent[i].at >= RepeatDelay

(* What is told: an authoritative empty result or a healthy one only when  *)
(* the provider said so and - except by Crossref and Wikipedia, which skip *)
(* bad rows silently - nothing in it was unusable.  The one verdict given  *)
(* without an answer is GitHub's and PubMed's, that no result can be of    *)
(* the domains asked for (excludedByDomain, domainAllowed).                *)
VerdictsHold ==
  LET a == told.answer
      verdict == told.verdict IN
  /\ told.excluded => client \in OneHost /\ verdict = "authoritative_empty"
  /\ verdict \in {"authoritative_empty", "healthy"} /\ ~told.excluded =>
       /\ a.status = 200 /\ a.body = "whole"
       /\ client \in {"crossref", "wikipedia"} \/ a.bad = 0
       /\ client \in Claims \ {"pubmed", "github"} => a.claim = "all"
       /\ verdict = "authoritative_empty" => Hits(a) = 0 /\ a.claim = "all"
  /\ verdict \in {"healthy", "partial"} => Hits(a) = 1
  /\ verdict = "degraded_empty" => Hits(a) = 0

(* The clients keep to the budgets and tell no more than they were told.   *)
ClientsHonest == Paced /\ CoolingRespected /\ NoRepeats /\ VerdictsHold
=============================================================================
