----------------------------- MODULE PageFetch ------------------------------
(* Fetching pages (internal/adapters/fetcher) through a global semaphore,  *)
(* one gate per host, the robots.txt checker (robots) and the egress       *)
(* policy (egress).  A fetch follows redirects and retries; it takes the   *)
(* gate of one host at a time and gives it back before it queues for the   *)
(* next.  Servers answer what they like; names may resolve to addresses    *)
(* the policy refuses, at each look anew.                                  *)
EXTENDS Integers, FiniteSets, FiniteSetsExt

CONSTANTS
  Fetchers,    (* concurrent calls of Fetch                                *)
  HostOf,      (* page -> its host, which has one origin                   *)
  Wanted,      (* requests: the page, the scope of its redirects, whether  *)
               (* it is conditional                                        *)
  Policies,    (* host -> the sets of pages its robots.txt may allow       *)
  GlobalLimit, (* GlobalConcurrency                                        *)
  PerHost,     (* PerHostConcurrency                                       *)
  MaxGates,    (* maxHostGates                                             *)
  MaxHops,     (* MaxRedirects                                             *)
  Retries,     (* Budgets.Retries                                          *)
  BodyLimit,   (* MaxBodyBytes and MaxDecompressedBytes                    *)
  MaxTotal,    (* MaxTotalBytes                                            *)
  BodySizes    (* sizes of bodies, compressed and not                      *)

Pages == DOMAIN HostOf
Hosts == {HostOf[p] : p \in Pages}
Overflow == "overflow"   \* overflowHostGate

(* MaxGates is 1024 and GlobalConcurrency ten by default: with more        *)
(* fetches than gates a host may have a holder of the shared gate and,     *)
(* once an idle gate is dropped, another of its own.                       *)
ASSUME FetchConstants ==
  /\ {GlobalLimit, PerHost, MaxGates} \subseteq Nat \ {0} /\ GlobalLimit <= MaxGates
  /\ {MaxHops, Retries, BodyLimit, MaxTotal} \subseteq Nat /\ MaxTotal > 0
  /\ \A w \in Wanted : w.page \in w.scope /\ w.scope \subseteq Pages
  /\ {Overflow, "none"} \cap Hosts = {}
  /\ IsFiniteSet(Fetchers) /\ BodySizes \subseteq Nat

VARIABLES
  gates,   (* Fetcher.hosts: the hosts that have a gate -> which one       *)
  inside,  (* the places taken in gates: fetch and gate                    *)
  fetch,   (* each call of Fetch                                           *)
  policy,  (* Checker.cache: origin -> the pages it allows                 *)
  asking   (* Checker.sf: origins whose robots.txt is on its way           *)

pageVars == <<gates, inside, fetch, policy, asking>>

NoGate == <<"none", 0>>
NoFetch == [at |-> "idle", want |-> CHOOSE w \in Wanted : TRUE, page |-> "none",
            gate |-> NoGate, hops |-> 0, attempt |-> 0, bytes |-> 0, cleared |-> {}]

PageInit ==
  /\ gates = << >> /\ inside = {} /\ policy = << >> /\ asking = {}
  /\ fetch = [f \in Fetchers |-> NoFetch]

-----------------------------------------------------------------------------
Users(g) == {f \in Fetchers : fetch[f].gate = g}   \* hostGate.active
Within(g) == {x \in inside : x[2] = g}             \* hostGate.sem
Held(f) == {x \in inside : x[1] = f}
Running == {f \in Fetchers : fetch[f].at \notin {"idle", "global"}}
Go(f, s) == fetch' = [fetch EXCEPT ![f] = s]
(* Fetch returns; the deferred functions give everything back.             *)
Return(f) == Go(f, NoFetch) /\ inside' = inside \ Held(f)

(* Fetch: the scope and the egress policy have accepted the page.          *)
Begin(f) ==
  /\ fetch[f].at = "idle"
  /\ \E w \in Wanted : Go(f, [NoFetch EXCEPT !.at = "global", !.want = w, !.page = w.page])
  /\ UNCHANGED <<gates, inside, policy, asking>>
TakeGlobal(f) ==
  /\ fetch[f].at = "global" /\ Cardinality(Running) < GlobalLimit
  /\ Go(f, [fetch[f] EXCEPT !.at = "reserve_robots"])
  /\ UNCHANGED <<gates, inside, policy, asking>>

(* reserveHostGate: the gate of the host, a new one if there is room or an *)
(* idle gate to drop, or the gate all others share.                        *)
Next_(at) == CASE at = "reserve_robots" -> "queue_robots" [] at = "reserve" -> "queue"
               [] at = "reserve_next" -> "queue_next"
EvictAny == DOMAIN gates   \* slip: a gate in use may be dropped
Evictable == {h \in DOMAIN gates : Users(<<h, gates[h]>>) = {}}
NewGate(h) == CHOOSE n \in 0..Cardinality(Fetchers) : Users(<<h, n>>) = {}
WithGate(kept, h) == [k \in kept \cup {h} |-> IF k = h THEN NewGate(h) ELSE gates[k]]
Reserve(f) ==
  LET h == HostOf[fetch[f].page]
      Reserved(g) == Go(f, [fetch[f] EXCEPT !.at = Next_(@), !.gate = g]) IN
  /\ fetch[f].at \in {"reserve_robots", "reserve", "reserve_next"}
  /\ CASE h \in DOMAIN gates -> UNCHANGED gates /\ Reserved(<<h, gates[h]>>)
       [] h \notin DOMAIN gates /\ Cardinality(DOMAIN gates) < MaxGates ->
            gates' = WithGate(DOMAIN gates, h) /\ Reserved(<<h, NewGate(h)>>)
       [] OTHER ->
            \/ \E gone \in Evictable :
                 gates' = WithGate(DOMAIN gates \ {gone}, h) /\ Reserved(<<h, NewGate(h)>>)
            \/ Evictable = {} /\ UNCHANGED gates /\ Reserved(<<Overflow, 0>>)
  /\ UNCHANGED <<inside, policy, asking>>
Enter(f) ==
  /\ fetch[f].at \in {"queue_robots", "queue", "queue_next"}
  /\ Cardinality(Within(fetch[f].gate)) < PerHost
  /\ inside' = inside \cup {<<f, fetch[f].gate>>}
  /\ Go(f, [fetch[f] EXCEPT !.at = CASE @ = "queue_robots" -> "ask"
                                     [] @ = "queue" -> "requested" [] OTHER -> "ask_next"])
  /\ UNCHANGED <<gates, policy, asking>>

-----------------------------------------------------------------------------
(* Evaluate: the cached policy, or the flight for it, begun by whoever     *)
(* comes first - a fetch, or the pipeline's own check.  Whoever joined     *)
(* waits for it, whatever becomes of its own context.                      *)
Decided(s, allowed) ==
  CASE s.page \notin allowed -> NoFetch
    [] s.page \in allowed /\ s.at \in {"ask", "wait"} ->
         [s EXCEPT !.at = "reserve", !.gate = NoGate, !.cleared = {s.page}]
    [] OTHER -> [s EXCEPT !.at = "requested", !.cleared = {s.want.page, s.page}]
LetsGo(s, allowed) == s.page \notin allowed \/ s.at \in {"ask", "wait"}
Origin(f) == HostOf[fetch[f].page]
Consult(f) ==
  /\ fetch[f].at \in {"ask", "ask_next"} /\ Origin(f) \in DOMAIN policy
  /\ Go(f, Decided(fetch[f], policy[Origin(f)]))
  /\ inside' = IF LetsGo(fetch[f], policy[Origin(f)]) THEN inside \ Held(f) ELSE inside
  /\ UNCHANGED <<gates, policy, asking>>
AskRobots(f) ==
  /\ fetch[f].at \in {"ask", "ask_next"} /\ Origin(f) \notin DOMAIN policy
  /\ Go(f, [fetch[f] EXCEPT !.at = IF @ = "ask" THEN "wait" ELSE "wait_next"])
  /\ asking' = asking \cup {Origin(f)}
  /\ UNCHANGED <<gates, inside, policy>>
PipelineAsks ==
  /\ \E h \in Hosts \ (DOMAIN policy \cup asking) : asking' = asking \cup {h}
  /\ UNCHANGED <<gates, inside, fetch, policy>>
(* fetch: a policy, which is kept, or a failure - also the cancellation of *)
(* the caller that began it - which allows nothing and is not.             *)
RobotsAnswer ==
  \E h \in asking :
    LET waiting == {f \in Fetchers : fetch[f].at \in {"wait", "wait_next"} /\ Origin(f) = h}
        All(allowed) ==
          /\ fetch' = [f \in Fetchers |-> IF f \in waiting THEN Decided(fetch[f], allowed)
                                          ELSE fetch[f]]
          /\ inside' = {x \in inside : x[1] \notin waiting \/ ~LetsGo(fetch[x[1]], allowed)} IN
    /\ asking' = asking \ {h}
    /\ \/ \E allowed \in Policies[h] :
            All(allowed) /\ policy' = [o \in DOMAIN policy \cup {h} |->
                                         IF o = h THEN allowed ELSE policy[o]]
       \/ All({}) /\ UNCHANGED policy
    /\ UNCHANGED gates
PolicyExpires ==
  /\ \E h \in DOMAIN policy : policy' = [o \in DOMAIN policy \ {h} |-> policy[o]]
  /\ UNCHANGED <<gates, inside, fetch, asking>>

-----------------------------------------------------------------------------
(* doOnce and doWithRetry.                                                 *)

(* what to do after a network error, a 429 or a 5xx: from the start again  *)
Again(f, bytes) ==
  IF fetch[f].attempt = Retries \/ bytes >= MaxTotal THEN Return(f)
  ELSE /\ LET want == fetch[f].want IN
          Go(f, [at |-> "reserve", want |-> want, page |-> want.page, gate |-> NoGate,
                 hops |-> 0, attempt |-> fetch[f].attempt + 1, bytes |-> bytes,
                 cleared |-> {want.page}])
       /\ inside' = inside \ Held(f)
(* the name does not resolve, the address is refused at the dial, the      *)
(* connection breaks                                                       *)
RequestFails(f) ==
  /\ fetch[f].at = "requested" /\ Again(f, fetch[f].bytes)
  /\ UNCHANGED <<gates, policy, asking>>
(* CheckRedirect: the scope, the number of hops, the scheme and the        *)
(* address, then the gate of another host, then its robots.txt.            *)
Redirected(f) ==
  /\ fetch[f].at = "requested"
  /\ \E page \in Pages :
       CASE page \notin fetch[f].want.scope -> Return(f)
         [] page \in fetch[f].want.scope /\ fetch[f].hops = MaxHops -> Again(f, fetch[f].bytes)
         [] OTHER ->
              \/ Again(f, fetch[f].bytes)   \* refused by the egress policy
              \/ LET s == [fetch[f] EXCEPT !.page = page, !.hops = @ + 1] IN
                 IF HostOf[page] = Origin(f)
                 THEN Go(f, [s EXCEPT !.at = "ask_next"]) /\ UNCHANGED inside
                 ELSE /\ Go(f, [s EXCEPT !.at = "reserve_next", !.gate = NoGate])
                      /\ inside' = inside \ Held(f)
  /\ UNCHANGED <<gates, policy, asking>>

(* A body of a size, compressed or not: what is read of it and what        *)
(* becomes of the answer.                                                  *)
Least(a, b) == IF a < b THEN a ELSE b
Raw(f, size) == Least(size, Least(BodyLimit, MaxTotal - fetch[f].bytes))
Reading(f, size, gzip, full) ==
  LET left == MaxTotal - fetch[f].bytes - Raw(f, size)
      most == Least(BodyLimit, left) IN
  CASE Raw(f, size) < size -> [bytes |-> fetch[f].bytes + Raw(f, size), whole |-> FALSE]
    [] gzip /\ left > 0 /\ Raw(f, size) = size ->
         [bytes |-> fetch[f].bytes + size + Least(full, most), whole |-> full <= most]
    [] OTHER -> [bytes |-> fetch[f].bytes + Raw(f, size), whole |-> ~gzip]
NotModified(f) ==
  /\ fetch[f].at = "requested"
  /\ IF fetch[f].want.conditional /\ fetch[f].page = fetch[f].want.page
     THEN Return(f) ELSE Again(f, fetch[f].bytes)
  /\ UNCHANGED <<gates, policy, asking>>
Answered(f) ==
  /\ fetch[f].at = "requested"
  /\ \E transient, gzip, breaks \in BOOLEAN, size, full \in BodySizes :
       LET r == Reading(f, size, gzip, full) IN
       IF transient \/ (breaks /\ r.whole) THEN Again(f, r.bytes) ELSE Return(f)
  /\ UNCHANGED <<gates, policy, asking>>
(* The context ends: while queueing, between attempts or on the wire.      *)
Cancelled(f) ==
  /\ fetch[f].at \notin {"idle", "ask", "ask_next", "wait", "wait_next"}
  /\ Return(f)
  /\ UNCHANGED <<gates, policy, asking>>

PageNext ==
  \/ \E f \in Fetchers :
       \/ Begin(f) \/ TakeGlobal(f) \/ Reserve(f) \/ Enter(f) \/ Consult(f) \/ AskRobots(f)
       \/ RequestFails(f) \/ Redirected(f) \/ NotModified(f) \/ Answered(f) \/ Cancelled(f)
  \/ PipelineAsks \/ RobotsAnswer \/ PolicyExpires

PageSpec == PageInit /\ [][PageNext]_pageVars

-----------------------------------------------------------------------------
PageTypeOK ==
  /\ DOMAIN gates \subseteq Hosts /\ Cardinality(DOMAIN gates) <= MaxGates
  /\ asking \subseteq Hosts /\ DOMAIN policy \subseteq Hosts \ asking
  /\ \A x \in inside : x[1] \in Fetchers /\ fetch[x[1]].gate = x[2]
  /\ \A f \in Fetchers : fetch[f].page \in Pages \cup {"none"} /\ fetch[f].hops \in 0..MaxHops
                         /\ fetch[f].attempt \in 0..Retries

(* No host ever has more than its limit of this process's fetches, with    *)
(* their wait for its robots.txt, through redirects, retries and the       *)
(* coming and going of gates.  The requests for robots.txt themselves take *)
(* no gate and are not counted: one that the pipeline's own check starts,  *)
(* or a redirect of one, comes on top.                                     *)
HostsSpared ==
  \A h \in Hosts : Cardinality({x \in inside : HostOf[fetch[x[1]].page] = h}) <= PerHost

(* "Per-host gates are acquired for one HTTP hop at a time below so        *)
(* reciprocal redirects cannot lock-invert": who queues has nothing that   *)
(* others queue for.                                                       *)
NobodyStuck ==
  \A f \in Fetchers : fetch[f].at \in {"global", "queue", "queue_robots", "queue_next"} =>
                        Held(f) = {}

(* Nothing is requested, after whatever redirects and retries, that this   *)
(* very fetch did not find allowed and in its scope.                       *)
OnlyCleared ==
  \A f \in Fetchers : fetch[f].at = "requested" =>
    fetch[f].page \in fetch[f].cleared \cap fetch[f].want.scope

(* All attempts together read no more than the request allows: the         *)
(* pipeline has claimed that much of its budget (MaxTotalBytes).           *)
BytesBounded == \A f \in Fetchers : fetch[f].bytes <= MaxTotal

FetchesBehave == HostsSpared /\ NobodyStuck /\ OnlyCleared /\ BytesBounded
=============================================================================
