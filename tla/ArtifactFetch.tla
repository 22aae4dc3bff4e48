---------------------------- MODULE ArtifactFetch ----------------------------
(* How the search pipeline fetches the URLs of its requests                *)
(* (internal/core/pipeline/pipeline.go: processOne, fetchAndExtract,       *)
(* renderAndExtract, tryAutoRender) through the shared page cache with its *)
(* fill locks (internal/adapters/cache/cache.go: Get, Set, WithLock).  One *)
(* goroutine per URL of a request asks robots.txt, looks into the cache,   *)
(* takes one of the node's artifact slots, then the Redis lock of its key, *)
(* looks again, claims source bytes from the budget of its request,        *)
(* fetches, stores, and may upgrade a page that needs a browser; a result  *)
(* that came with its provider's text reads that instead, for the same     *)
(* budget.  A lock may expire under its holder, whoever cannot get one     *)
(* works without, and Redis may keep a lock whose grant or release was     *)
(* lost, or whose holder's node died, until it expires.                    *)
(*                                                                         *)
(* The server requires source and output budgets (config.go), so flight    *)
(* keys carry the request's number and no two workers share a flight:      *)
(* Cache.Do only runs its function and is left out.  A cancelled context   *)
(* is a failure any wait or call may meet.  What retention does with an    *)
(* answer is LocalCorpus.                                                  *)
EXTENDS Integers, FiniteSets, FiniteSetsExt

CONSTANTS
  Nodes,          (* server processes that may share a Redis               *)
  Fetches,        (* worker goroutines: [node, request, page]              *)
  ArtifactSlots,  (* FM_ARTIFACT_CONCURRENCY, per node                     *)
  SourceLimit,    (* claim of one artifact, in units of bytes              *)
  MaxSource,      (* FM_MAX_REQUEST_SOURCE_BYTES                           *)
  Unlocked        (* no worker                                             *)

ASSUME FetchConstants ==
  /\ ArtifactSlots \in Nat \ {0} /\ SourceLimit \in Nat \ {0}
  /\ MaxSource \in Nat /\ ArtifactSlots * SourceLimit <= MaxSource
  /\ Unlocked \notin Fetches /\ IsFiniteSet(Fetches)
  /\ \A w \in Fetches : w.node \in Nodes
  (* one server serves a request                                           *)
  /\ \A v, w \in Fetches : v.request = w.request => v.node = w.node

VARIABLES
  options,     (* redis, auto render, the kind of each request, and the    *)
               (* results with a provider's document                       *)
  worker,      (* where each worker is, its claim and its result           *)
  source,      (* requestBudget.source of each request                     *)
  consumed,    (* what each request has read, and lost to a document that  *)
               (* did not fit: history                                     *)
  pages,       (* the cache: pages[home][key]                              *)
  fillLock,    (* Redis lock keys: the worker whose token they hold, which *)
               (* may not know it or be long gone                          *)
  outlived,    (* <<worker, key>> whose lock has expired under it, until   *)
               (* it gives it back: history                                *)
  slotsTaken   (* artifactSem of each node                                 *)

fetchVars == <<options, worker, source, consumed, pages, fillLock, outlived,
               slotsTaken>>

FetchedRequests == {w.request : w \in Fetches}
ArtifactKeys == {w.page : w \in Fetches} \X {"plain", "rendered"}
(* what the extractor makes of a page: text, or a js_required placeholder  *)
Artifact == {"text", "js"}
NoArtifact == "none"

Home(w) == IF options.redis THEN "redis" ELSE w.node
Plain(w) == <<w.page, "plain">>
Rendered(w) == <<w.page, "rendered">>
Fresh(w) == options.kind[w.request] = "fresh"
MainKey(w) == IF options.kind[w.request] = "render" THEN Rendered(w) ELSE Plain(w)
Cached(w, key) == pages[Home(w)][key]
Locking(w) == options.redis /\ ~Fresh(w)

At(w, place) == worker[w].at = place
Moved(w, place) == [worker EXCEPT ![w].at = place]
FailedAt(w, place, reason) ==
  [worker EXCEPT ![w].at = place, ![w].claim = 0, ![w].reason = reason]
(* applyContent fills: it sets a reason where there is none and clears none *)
AppliedContent(w, place, content) ==
  [worker EXCEPT ![w].at = place, ![w].claim = 0, ![w].content = content,
     ![w].reason = IF content = "js" /\ @ = "none" THEN "js" ELSE @]
(* applyRenderedContent clears the placeholder's reason first              *)
AppliedRendered(w, place, content) ==
  [worker EXCEPT ![w].at = place, ![w].content = content, ![w].reason = "none"]

AtStart == [at |-> "start", claim |-> 0, took |-> {},
            content |-> NoArtifact, reason |-> "none"]
Dead == [AtStart EXCEPT !.at = "gone"]

FetchInit ==
  /\ options \in [redis : BOOLEAN, auto : BOOLEAN,
                  kind : [FetchedRequests -> {"plain", "render", "fresh"}],
                  documents : SUBSET Fetches]
  /\ worker = [w \in Fetches |-> AtStart]
  /\ source = [r \in FetchedRequests |-> 0] /\ consumed = source
  /\ pages = [h \in Nodes \cup {"redis"} |-> [k \in ArtifactKeys |-> NoArtifact]]
  /\ fillLock = [k \in ArtifactKeys |-> Unlocked] /\ outlived = {}
  /\ slotsTaken = [n \in Nodes |-> 0]

-----------------------------------------------------------------------------
(* acquireArtifact and its release.                                        *)
SlotTakenBy(w) ==
  /\ slotsTaken[w.node] < ArtifactSlots
  /\ slotsTaken' = [slotsTaken EXCEPT ![w.node] = @ + 1]
SlotBack(w) == slotsTaken' = [slotsTaken EXCEPT ![w.node] = @ - 1]

(* A provider's document is read with a slot, and nothing else is asked.   *)
TakeDocument(w) ==
  /\ At(w, "start") /\ w \in options.documents
  /\ \/ SlotTakenBy(w) /\ worker' = Moved(w, "document")
     \/ UNCHANGED slotsTaken /\ worker' = FailedAt(w, "done", "failed")
  /\ UNCHANGED <<options, source, consumed, pages, fillLock, outlived>>
(* robots.txt, when the request respects it, is asked with a slot          *)
AskRobots(w) ==
  /\ At(w, "start") /\ w \notin options.documents
  /\ \/ SlotTakenBy(w) /\ worker' = Moved(w, "robots")
     \/ UNCHANGED slotsTaken /\ worker' = Moved(w, "lookup")
     \/ UNCHANGED slotsTaken /\ worker' = FailedAt(w, "done", "failed")
  /\ UNCHANGED <<options, source, consumed, pages, fillLock, outlived>>
RobotsAnswer(w) ==
  /\ At(w, "robots") /\ SlotBack(w)
  /\ \/ worker' = Moved(w, "lookup")
     \/ worker' = FailedAt(w, "done", "robots")
  /\ UNCHANGED <<options, source, consumed, pages, fillLock, outlived>>

(* An entry expires or is evicted.                                         *)
EntryGone(home, key) ==
  /\ pages[home][key] # NoArtifact
  /\ pages' = [pages EXCEPT ![home][key] = NoArtifact]
  /\ UNCHANGED <<options, worker, source, consumed, fillLock, outlived, slotsTaken>>
(* The cache answers, or the worker goes on to fetch: past cache and locks *)
(* if it must be fresh.                                                    *)
LookUp(w) ==
  /\ At(w, "lookup")
  /\ worker' = IF ~Fresh(w) /\ Cached(w, MainKey(w)) # NoArtifact
               THEN AppliedContent(w, "done", Cached(w, MainKey(w)))
               ELSE Moved(w, "slot")
  /\ UNCHANGED <<options, source, consumed, pages, fillLock, outlived, slotsTaken>>
TakeSlot(w) ==
  /\ At(w, "slot")
  /\ \/ SlotTakenBy(w)
        /\ worker' = Moved(w, IF Locking(w) THEN "lock" ELSE "inside")
     \/ UNCHANGED slotsTaken /\ worker' = Moved(w, "done")
  /\ UNCHANGED <<options, source, consumed, pages, fillLock, outlived>>

(* WithLock: SetNX, or the wait times out or Redis fails and the function  *)
(* runs without the lock; the call that failed may have set the token.     *)
LockKey(w) == IF At(w, "lock") THEN MainKey(w) ELSE Rendered(w)
TakeFillLock(w) ==
  LET entered == Moved(w, IF At(w, "lock") THEN "inside" ELSE "rinside") IN
  /\ At(w, "lock") \/ At(w, "rlock")
  /\ \/ /\ fillLock[LockKey(w)] = Unlocked
        /\ fillLock' = [fillLock EXCEPT ![LockKey(w)] = w]
        /\ \/ worker' = [entered EXCEPT ![w].took = @ \cup {LockKey(w)}]
           \/ worker' = entered
     \/ UNCHANGED fillLock /\ worker' = entered
  /\ UNCHANGED <<options, source, consumed, pages, outlived, slotsTaken>>
LockExpires(k) ==
  /\ fillLock[k] # Unlocked
  /\ fillLock' = [fillLock EXCEPT ![k] = Unlocked]
  /\ outlived' = IF k \in worker[fillLock[k]].took
                  THEN outlived \cup {<<fillLock[k], k>>} ELSE outlived
  /\ UNCHANGED <<options, worker, source, consumed, pages, slotsTaken>>
ReleasedAnyway(w, k) ==   \* slip: the token is not compared
  IF k \in worker[w].took THEN [fillLock EXCEPT ![k] = Unlocked] ELSE fillLock
(* The script deletes the key only if it holds the worker's token.  An     *)
(* error or a timeout is ignored and may leave the token; a script that    *)
(* runs late looks to the others like its expiry.                          *)
Released(w, k) ==
  IF k \in worker[w].took /\ fillLock[k] = w
  THEN [fillLock EXCEPT ![k] = Unlocked] ELSE fillLock
ReleaseTried(w, k) == fillLock' \in {Released(w, k), fillLock}

-----------------------------------------------------------------------------
(* requestBudget: a claim is counted at once and corrected when it is      *)
(* finished; a result larger than its claim keeps the claim.               *)
Claimable(r) == Min({SourceLimit, MaxSource - source[r]})
Finished(w, used) ==
  IF used > worker[w].claim THEN source
  ELSE [source EXCEPT ![w.request] = @ - (worker[w].claim - used)]
(* the entry of a fresh request is not stored, a placeholder not rendered  *)
Stored(w, key, content) ==
  IF Fresh(w) THEN pages ELSE [pages EXCEPT ![Home(w)][key] = content]
Used(w, n) == consumed' = [consumed EXCEPT ![w.request] = @ + n]

(* extractProviderDocument claims the length of the document and keeps the *)
(* claim, also one that falls short: the document is then not read.        *)
ReadDocument(w) ==
  /\ At(w, "document")
  /\ \E size \in 0..(MaxSource + 1) :
       LET charged == Min({size, MaxSource - source[w.request]}) IN
       /\ source' = [source EXCEPT ![w.request] = @ + charged]
       /\ Used(w, charged)
       /\ \/ worker' = FailedAt(w, "free", IF charged < size THEN "budget" ELSE "failed")
          \/ /\ size > 0 /\ charged = size
             /\ \E content \in Artifact : worker' = AppliedContent(w, "free", content)
  /\ UNCHANGED <<options, pages, fillLock, outlived, slotsTaken>>

(* With lock or without, the cache is read again and bytes are claimed for *)
(* a fetch or a rendering, whose outcome ends at the worker's releases.    *)
LastPlace(w) == IF At(w, "rinside") \/ At(w, "auto") THEN "runlock" ELSE "unlock"
Claim(w, key, next) ==
  LET hit == ~Fresh(w) /\ Cached(w, key) # NoArtifact
      claim == Claimable(w.request) IN
  IF hit THEN
    /\ worker' = IF key = MainKey(w) THEN AppliedContent(w, LastPlace(w), Cached(w, key))
                 ELSE AppliedRendered(w, LastPlace(w), Cached(w, key))
    /\ UNCHANGED source
  ELSE IF claim <= 0 THEN
    worker' = FailedAt(w, LastPlace(w), "budget") /\ UNCHANGED source
  ELSE
    /\ worker' = [worker EXCEPT ![w].at = next, ![w].claim = claim]
    /\ source' = [source EXCEPT ![w.request] = @ + claim]
Inside(w) ==
  /\ \/ At(w, "inside") /\ MainKey(w) = Plain(w) /\ Claim(w, Plain(w), "fetch")
     \/ At(w, "inside") /\ MainKey(w) = Rendered(w) /\ Claim(w, Rendered(w), "render")
     \/ At(w, "rinside") /\ Claim(w, Rendered(w), "rerender")
  /\ UNCHANGED <<options, consumed, pages, fillLock, outlived, slotsTaken>>

(* The fetch reads n bytes at most its claim, over redirects and a repeat  *)
(* without validators; it fails or is refused, or the page is extracted,   *)
(* stored, and upgraded if it needs a browser.  A page confirmed by a 304  *)
(* counts with its retained body, which may be more than the claim.        *)
FetchFails(w) ==
  /\ At(w, "fetch")
  /\ \E n \in 0..worker[w].claim : source' = Finished(w, n) /\ Used(w, n)
  /\ worker' = FailedAt(w, "unlock", "failed")
  /\ UNCHANGED <<options, pages, fillLock, outlived, slotsTaken>>
FetchTooLarge(w) ==
  /\ At(w, "fetch")
  /\ source' = Finished(w, worker[w].claim + 1) /\ Used(w, worker[w].claim)
  /\ worker' = FailedAt(w, "unlock", "budget")
  /\ UNCHANGED <<options, pages, fillLock, outlived, slotsTaken>>
Fetched(w) ==
  /\ At(w, "fetch")
  /\ \E n \in 1..worker[w].claim, content \in Artifact :
       /\ source' = Finished(w, n) /\ Used(w, n)
       /\ pages' = Stored(w, Plain(w), content)
       /\ worker' = AppliedContent(w, IF content = "js" /\ options.auto
                                       THEN "auto" ELSE "unlock", content)
  /\ UNCHANGED <<options, fillLock, outlived, slotsTaken>>

(* tryAutoRender: from the cache, under the lock of the rendered key, or   *)
(* at once where there is no lock to take                                  *)
AutoRender(w) ==
  /\ At(w, "auto")
  /\ IF Locking(w) /\ Cached(w, Rendered(w)) = NoArtifact
     THEN worker' = Moved(w, "rlock") /\ UNCHANGED source
     ELSE Claim(w, Rendered(w), "rerender")
  /\ UNCHANGED <<options, consumed, pages, fillLock, outlived, slotsTaken>>

(* renderAndExtract: a failed rendering costs its whole claim, a failed    *)
(* extraction what was rendered, an address the egress policy refuses      *)
(* nothing; the result is applied like a plain one.                        *)
RenderEnd(w) == IF At(w, "rerender") THEN "runlock" ELSE "unlock"
RenderFails(w) ==
  /\ At(w, "render") \/ At(w, "rerender")
  /\ \E n \in 0..worker[w].claim : source' = Finished(w, n) /\ Used(w, n)
  /\ worker' = FailedAt(w, RenderEnd(w), "failed")
  /\ UNCHANGED <<options, pages, fillLock, outlived, slotsTaken>>
Rendering(w) ==
  /\ At(w, "render") \/ At(w, "rerender")
  /\ \E n \in 1..worker[w].claim, content \in Artifact :
       /\ source' = Finished(w, n) /\ Used(w, n)
       /\ pages' = IF content = "js" THEN pages ELSE Stored(w, Rendered(w), content)
       /\ worker' = AppliedContent(w, RenderEnd(w), content)
  /\ UNCHANGED <<options, fillLock, outlived, slotsTaken>>

(* The locks are given back one after the other, then the slot.            *)
GiveBack(w) ==
  /\ \/ /\ At(w, "runlock") /\ ReleaseTried(w, Rendered(w))
        /\ worker' = [Moved(w, "unlock") EXCEPT ![w].took = @ \ {Rendered(w)}]
        /\ outlived' = outlived \ {<<w, Rendered(w)>>} /\ UNCHANGED slotsTaken
     \/ /\ At(w, "unlock") /\ ReleaseTried(w, MainKey(w))
        /\ worker' = [Moved(w, "free") EXCEPT ![w].took = {}]
        /\ outlived' = outlived \ ({w} \X ArtifactKeys) /\ UNCHANGED slotsTaken
     \/ /\ At(w, "free") /\ SlotBack(w)
        /\ worker' = Moved(w, "done") /\ UNCHANGED <<fillLock, outlived>>
  /\ UNCHANGED <<options, source, consumed, pages>>

(* A server dies: its requests, its memory and its slots are gone, what it *)
(* has set in Redis is not.                                                *)
NodeDies(n) ==
  LET served == {w \in Fetches : w.node = n}
      lost == {w.request : w \in served} IN
  /\ \E w \in served : ~At(w, "gone")
  /\ worker' = [w \in Fetches |-> IF w \in served THEN Dead ELSE worker[w]]
  /\ source' = [r \in FetchedRequests |-> IF r \in lost THEN 0 ELSE source[r]]
  /\ consumed' = [r \in FetchedRequests |-> IF r \in lost THEN 0 ELSE consumed[r]]
  /\ pages' = [pages EXCEPT ![n] = [k \in ArtifactKeys |-> NoArtifact]]
  /\ slotsTaken' = [slotsTaken EXCEPT ![n] = 0]
  /\ outlived' = outlived \ (served \X ArtifactKeys)
  /\ UNCHANGED <<options, fillLock>>

FetchStep(w) ==
  \/ TakeDocument(w) \/ ReadDocument(w) \/ AskRobots(w) \/ RobotsAnswer(w) \/ LookUp(w) \/ TakeSlot(w)
  \/ TakeFillLock(w) \/ Inside(w)
  \/ FetchFails(w) \/ FetchTooLarge(w) \/ Fetched(w)
  \/ AutoRender(w) \/ RenderFails(w) \/ Rendering(w) \/ GiveBack(w)
FetchNext ==
  \/ \E w \in Fetches : FetchStep(w)
  \/ \E n \in Nodes : NodeDies(n)
  \/ \E k \in ArtifactKeys :
       LockExpires(k) \/ \E home \in Nodes \cup {"redis"} : EntryGone(home, k)

FetchSpec == FetchInit /\ [][FetchNext]_fetchVars

-----------------------------------------------------------------------------
Working == {"document", "robots", "lock", "inside", "fetch", "auto", "rlock", "rinside",
            "render", "rerender", "runlock", "unlock", "free"}
FetchTypeOK ==
  /\ worker \in [Fetches ->
       [at : Working \cup {"start", "lookup", "slot", "done", "gone"},
        claim : 0..SourceLimit, took : SUBSET ArtifactKeys,
        content : Artifact \cup {NoArtifact},
        reason : {"none", "js", "robots", "failed", "budget"}]]
  /\ source \in [FetchedRequests -> 0..MaxSource]
  /\ pages \in [Nodes \cup {"redis"} -> [ArtifactKeys -> Artifact \cup {NoArtifact}]]
  /\ fillLock \in [ArtifactKeys -> Fetches \cup {Unlocked}]

(* A request's budget counts exactly what its workers have consumed, from  *)
(* the network, a browser or a provider's document, and what those still   *)
(* at work have claimed, whatever fails, is refused or is repeated; so the *)
(* sum of all it reads stays under the limit although its workers claim    *)
(* concurrently (claimSource, finishSource).  A document that does not fit *)
(* counts as having consumed what was left.                                *)
ClaimedUnits(r) ==
  {unit \in Fetches \X (1..SourceLimit) :
     unit[1].request = r /\ unit[2] <= worker[unit[1]].claim}
ChargesExact ==
  \A r \in FetchedRequests :
    /\ source[r] = consumed[r] + Cardinality(ClaimedUnits(r))
    /\ source[r] <= MaxSource

(* A worker owns what it was given until it gives it back: Redis keeps its *)
(* token in the fill lock it was granted, unless that has expired, though  *)
(* others time out, work without, die, leave tokens of their own and       *)
(* release the same key (WithLock, releaseScript), so that of two who both *)
(* hold a key at least one has outlived its lock; and slots are taken by   *)
(* workers at work and by nobody else (acquireArtifact).  Not every token  *)
(* has a holder: a lost grant or release leaves one until it expires.      *)
HoldersKeepTheirs ==
  /\ \A n \in Nodes :
       slotsTaken[n] = Cardinality({w \in Fetches : w.node = n /\ worker[w].at \in Working})
  /\ \A w \in Fetches, key \in ArtifactKeys :
       key \in worker[w].took /\ <<w, key>> \notin outlived => fillLock[key] = w

(* What requests and nodes account for is what really happened.            *)
FetchAccounts == ChargesExact /\ HoldersKeepTheirs
=============================================================================
