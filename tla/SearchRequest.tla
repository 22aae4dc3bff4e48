---------------------------- MODULE SearchRequest ----------------------------
(* One search through the discovery lanes (internal/core/pipeline/         *)
(* expansion.go) and what becomes of its candidates (pipeline.go: process, *)
(* dedupe.go).  Lanes run on a few goroutines that take them in order; the *)
(* outcomes are summarised by position, so that the timing shows nowhere.  *)
(* A configured Scrapling primary is asked alone first.  Each lane answers *)
(* anything its provider may; the fetched text of a URL, what counts as a  *)
(* near duplicate and the ranker's scores are given.  How a URL is fetched *)
(* is ArtifactFetch.  Titles, snippets, durations and diagnostics are left *)
(* out, and so are the paths of domain filters.                            *)
EXTENDS Integers, Sequences, FiniteSets, FiniteSetsExt, SequencesExt

CONSTANTS
  Requests,          (* what may be asked: [advanced, local, formats,       *)
                     (* variants: <<[name, weight]>>, best first, and the   *)
                     (* sources planned: <<[provider, weight, variants]>>]; *)
                     (* local: the local index is there to be asked         *)
  PrimaryProvider,   (* provider of the planner's primary                   *)
  PrimaryFirst,      (* whether that is Scrapling                           *)
  LaneConcurrency,   (* AdvancedSearchConcurrency                           *)
  Answers,           (* sequences of URLs a provider may return             *)
  CanonicalOf,       (* canonical form of each URL                          *)
  RelevantUrls,      (* canonical URLs whose hit passes the lexical policy  *)
  HostOf,            (* labels of the host of a canonical URL, last first   *)
  IncludeDomains, ExcludeDomains,   (* hosts asked for, hosts shut out      *)
  Documenting,       (* providers whose hits bring their document along     *)
  TextOf,            (* canonical URL -> what fetching it yields            *)
  NearDuplicates,    (* symmetric pairs of texts                            *)
  ScoreOf,           (* canonical URL -> the ranker's score                 *)
  TextSize,          (* text -> bytes it retains                            *)
  NoText,            (* nothing could be extracted                          *)
  CandidateCap, RequiredResults, MaxResults, MaxOutput

ASSUME SearchConstants ==
  /\ LaneConcurrency \in Nat \ {0} /\ PrimaryFirst \in BOOLEAN
  /\ CandidateCap \in Nat /\ RequiredResults \in Nat /\ MaxResults \in Nat
  /\ \A r \in Requests :
       /\ \A k \in DOMAIN r.variants : r.variants[k].weight \in Nat \ {0}
       /\ \A k \in DOMAIN r.sources : r.sources[k].weight \in Nat \ {0}

VARIABLES
  request,   (* what is asked                                              *)
  lanes,     (* the lanes planned for it: [provider, weight], in order      *)
  lane,      (* each lane: not planned, queued, running or its outcome     *)
  stage,     (* what the request is doing                                  *)
  canceled,  (* its context                                                *)
  verdict,   (* status of the report                                       *)
  report,    (* what it says of each lane                                  *)
  results    (* the candidates, then the results                           *)

searchVars == <<request, lanes, lane, stage, canceled, verdict, report, results>>

(* A source serves the variants it declares, or any but "concept".  A      *)
(* basic search asks each provider once, through the source that serves    *)
(* the best variant - one it declares, or the query itself - and adds the  *)
(* primary when no planned source serves any.  An advanced one asks every  *)
(* source for every variant it serves, the primary if there is no source   *)
(* at all.  Both ask the local index for the query.                        *)
Serves(source, variant) ==
  IF source.variants = {} THEN variant # "concept" ELSE variant \in source.variants
Original(provider) == [provider |-> provider, weight |-> 1, variants |-> {"original"}]
WithLocal(sources) == IF request.local THEN Append(sources, Original("local-index")) ELSE sources
LaneOf(source, variant) ==
  [provider |-> source.provider, weight |-> source.weight * variant.weight]
Served(source) ==
  {k \in DOMAIN request.variants :
     LET variant == request.variants[k].name IN
     Serves(source, variant) /\ (variant = "original" \/ source.variants # {})}
BasicSources ==
  WithLocal(IF \E k \in DOMAIN request.sources : Served(request.sources[k]) # {}
            THEN request.sources ELSE <<Original(PrimaryProvider)>> \o request.sources)
BasicLanes ==
  LET s == BasicSources
      rivals(p) == {k \in DOMAIN s : s[k].provider = p /\ Served(s[k]) # {}}
      best(p) == CHOOSE k \in rivals(p) : \A j \in rivals(p) :
                   \/ Min(Served(s[k])) < Min(Served(s[j]))
                   \/ Min(Served(s[k])) = Min(Served(s[j])) /\ k <= j
      providers == {p \in {s[k].provider : k \in DOMAIN s} : rivals(p) # {}}
      order == SetToSortSeq(providers, LAMBDA p, q : Min(rivals(p)) < Min(rivals(q))) IN
  [n \in DOMAIN order |->
     LET source == s[best(order[n])] IN LaneOf(source, request.variants[Min(Served(source))])]
AdvancedLanes ==
  LET sources == WithLocal(request.sources)
      asked == IF sources = <<>>
               THEN <<[provider |-> "primary", weight |-> 1, variants |-> {}]>> ELSE sources IN
  FlattenSeq([k \in DOMAIN request.variants |->
    LET serving == SelectSeq(asked, LAMBDA s : Serves(s, request.variants[k].name)) IN
    [n \in DOMAIN serving |-> LaneOf(serving[n], request.variants[k])]])
Lanes == IF request.advanced THEN AdvancedLanes ELSE BasicLanes

LaneIndex == DOMAIN lanes
LaneStatuses == {"healthy", "partial", "degraded_empty", "authoritative_empty", "failed"}
LaneEnded(i) == lane[i].at = "ended"
LaneStatus(i) == lane[i].status
IdleLane == [at |-> "idle", status |-> "none", hits |-> <<>>]

(* The primary's lanes first, if the rest is to be a fallback only.        *)
Primary == {i \in LaneIndex : PrimaryFirst /\ lanes[i].provider = PrimaryProvider}
Staged == Primary # {} /\ Primary # LaneIndex
LanesQueued(I) ==
  [i \in LaneIndex |-> IF i \in I THEN [IdleLane EXCEPT !.at = "queued"] ELSE lane[i]]

SearchInit ==
  /\ request \in Requests /\ lanes = Lanes
  /\ lane = [i \in LaneIndex |->
       IF Staged => i \in Primary THEN [IdleLane EXCEPT !.at = "queued"] ELSE IdleLane]
  /\ stage = "lanes" /\ canceled = FALSE /\ verdict = "none" /\ report = <<>>
  /\ results = <<>>

-----------------------------------------------------------------------------
(* executeDiscoveryLanes: a free goroutine takes the first queued lane;    *)
(* once the context is done it fails it.                                   *)
FirstQueued == Min({i \in LaneIndex : lane[i].at = "queued"})
TakeLane ==
  /\ stage = "lanes" /\ \E i \in LaneIndex : lane[i].at = "queued"
  /\ Cardinality({i \in LaneIndex : lane[i].at = "running"}) < LaneConcurrency
  /\ lane' = [lane EXCEPT ![FirstQueued] =
       IF canceled THEN [at |-> "ended", status |-> "failed", hits |-> <<>>]
       ELSE [@ EXCEPT !.at = "running"]]
  /\ UNCHANGED <<request, lanes, stage, canceled, verdict, report, results>>

(* executeDiscoveryLane: what a provider calls healthy or partial without  *)
(* a hit is empty, a missing status follows the hits.                      *)
Normalized(status, hits) ==
  CASE status = "healthy" /\ hits = <<>> -> "authoritative_empty"
    [] status = "partial" /\ hits = <<>> -> "degraded_empty"
    [] status = "none" -> IF hits = <<>> THEN "authoritative_empty" ELSE "healthy"
    [] OTHER -> status
LaneAnswers(i) ==
  /\ lane[i].at = "running"
  /\ \E status \in LaneStatuses \cup {"none"}, hits \in Answers :
       lane' = [lane EXCEPT ![i] = [at |-> "ended", status |-> Normalized(status, hits),
                  hits |-> IF Normalized(status, hits) \in {"healthy", "partial"}
                           THEN hits ELSE <<>>]]
  /\ UNCHANGED <<request, lanes, stage, canceled, verdict, report, results>>

ClientLeaves ==
  /\ stage = "lanes" /\ ~canceled /\ canceled' = TRUE
  /\ UNCHANGED <<request, lanes, lane, stage, verdict, report, results>>

-----------------------------------------------------------------------------
(* fuseCandidateSet: reciprocal ranks, weighted, of the usable lanes; one  *)
(* candidate per canonical URL carries the lanes that found it.  Scores    *)
(* are compared as fractions over a common denominator.                    *)
Usable == {i \in LaneIndex : LaneEnded(i) /\ LaneStatus(i) \in {"healthy", "partial"}}
RankConstant == 60
LongestAnswer == Max({Len(a) : a \in Answers})
Denominator == FoldFunction(LAMBDA d, product : d * product, 1,
                            [k \in 1..LongestAnswer |-> RankConstant + k])
Findings == {<<i, k>> \in LaneIndex \X (1..LongestAnswer) :
               i \in Usable /\ k <= Len(lane[i].hits)}
UrlFound(f) == CanonicalOf[lane[f[1]].hits[f[2]]]
RRF(u) == MapThenSumSet(LAMBDA f : lanes[f[1]].weight * (Denominator \div (RankConstant + f[2])),
                        {f \in Findings : UrlFound(f) = u})
Earlier(f, g) == f[1] < g[1] \/ (f[1] = g[1] /\ f[2] < g[2])
FirstFinding(u) == CHOOSE f \in Findings : UrlFound(f) = u
                     /\ \A g \in Findings : UrlFound(g) = u => ~Earlier(g, f)
Better(u, v) == \/ RRF(u) > RRF(v)
                \/ RRF(u) = RRF(v) /\ Earlier(FirstFinding(u), FirstFinding(v))
Candidate(u) == [url |-> u, from |-> {f[1] : f \in {g \in Findings : UrlFound(g) = u}},
                 text |-> NoText, reason |-> "none"]
Capped(s) == IF CandidateCap > 0 THEN SubSeq(s, 1, Min({Len(s), CandidateCap})) ELSE s
Fused == LET urls == SetToSortSeq({UrlFound(f) : f \in Findings}, Better) IN
         Capped([k \in DOMAIN urls |-> Candidate(urls[k])])

(* summarizeLaneOutcomes                                                   *)
Somewhere(S) == \E i \in LaneIndex : LaneEnded(i) /\ LaneStatus(i) \in S
Summary ==
  IF Findings # {}
  THEN IF Somewhere({"partial", "degraded_empty", "failed"}) THEN "partial" ELSE "healthy"
  ELSE IF \/ Somewhere({"partial", "degraded_empty"})
          \/ Somewhere({"authoritative_empty"}) /\ Somewhere({"failed"}) THEN "degraded_empty"
  ELSE IF Somewhere({"authoritative_empty"}) THEN "authoritative_empty" ELSE "failed"

(* executeDiscoveryPlan: the primary suffices when it fills the window     *)
(* with relevant candidates; else the other lanes run as well.             *)
RelevantFound == Cardinality({k \in DOMAIN Fused : Fused[k].url \in RelevantUrls})
PrimarySuffices ==
  /\ ~canceled /\ Summary \in {"healthy", "partial"}
  /\ RelevantFound > 0 /\ RelevantFound >= RequiredResults
LanesDone == stage = "lanes" /\ \A i \in LaneIndex : lane[i].at \in {"idle", "ended"}
FallBack ==
  /\ LanesDone /\ (\E i \in LaneIndex : lane[i] = IdleLane) /\ ~PrimarySuffices
  /\ lane' = LanesQueued(LaneIndex \ Primary)
  /\ UNCHANGED <<request, lanes, stage, canceled, verdict, report, results>>
(* discoveryLaneReport: what became of a lane and how many URLs it found.  *)
LaneReport(i) ==
  [provider |-> lanes[i].provider, status |-> LaneStatus(i),
   candidates |-> IF i \in Usable THEN Cardinality({CanonicalOf[u] : u \in ToSet(lane[i].hits)})
                  ELSE 0]
(* filterResultsByDomains: a filter is a host and the hosts below it.      *)
Below(u, filters) == \E f \in filters : IsPrefix(f, HostOf[u])
InDomains(u) ==
  (IncludeDomains = {} \/ Below(u, IncludeDomains)) /\ ~Below(u, ExcludeDomains)
Collect ==
  /\ LanesDone /\ ((\A i \in LaneIndex : LaneEnded(i)) \/ PrimarySuffices)
  /\ verdict' = Summary
  /\ report' = [i \in {j \in LaneIndex : LaneEnded(j)} |-> LaneReport(i)]
  /\ results' = SelectSeq(Fused, LAMBDA r : InDomains(r.url))
  /\ stage' = IF canceled \/ Summary = "failed" THEN "refused" ELSE "fetching"
  /\ UNCHANGED <<request, lanes, lane, canceled>>

-----------------------------------------------------------------------------
(* process: the URLs are fetched in parallel, each with its own outcome;   *)
(* content is retained in the order of the results while the output budget *)
(* lasts.  A result whose hit brought a document along is extracted from   *)
(* that, within the request's source budget, and never fetched.            *)
TextBytes(r) == IF r.text = NoText THEN 0 ELSE TextSize[r.text]
Retain(kept, r) ==
  LET used == FoldSeq(LAMBDA k, sum : TextBytes(k) + sum, 0, kept) IN
  IF used + TextBytes(r) > MaxOutput
  THEN Append(kept, [r EXCEPT !.text = NoText, !.reason = "request_byte_budget"])
  ELSE Append(kept, r)
Documented(r) == \E i \in r.from : lanes[i].provider \in Documenting
PageOutcomes(r) ==
  IF Documented(r) THEN {"none", "extract_failed", "request_byte_budget"} ELSE {"none", "fetch_failed"}
ReadAs(r, outcome) ==
  IF outcome = "none" THEN [r EXCEPT !.text = TextOf[r.url]] ELSE [r EXCEPT !.reason = outcome]
FetchAll ==
  /\ stage = "fetching"
  /\ \E outcome \in [DOMAIN results -> UNION {PageOutcomes(results[k]) : k \in DOMAIN results}] :
       /\ \A k \in DOMAIN results : outcome[k] \in PageOutcomes(results[k])
       /\ results' = FoldLeft(Retain, <<>>,
            [k \in DOMAIN results |-> ReadAs(results[k], outcome[k])])
  /\ stage' = "merging" /\ UNCHANGED <<request, lanes, lane, canceled, verdict, report>>

(* dedupeByContentSHA: the first of several results with one text stays,   *)
(* with the attributions of all.                                           *)
Absorb(kept, k, r) == [kept EXCEPT ![k].from = @ \cup r.from]
SameText(kept, r) == {k \in DOMAIN kept : r.text # NoText /\ kept[k].text = r.text}
MergeSame(kept, r) ==
  IF SameText(kept, r) = {} THEN Append(kept, r) ELSE Absorb(kept, Min(SameText(kept, r)), r)

(* dedupeNearDuplicates on the ranked results: an entry is compared with   *)
(* every later one until it loses; the winner takes the attributions.      *)
Ranked(s) == SortSeq(s, LAMBDA a, b : ScoreOf[a.url] > ScoreOf[b.url])
Similar(a, b) == {a.text, b.text} \in NearDuplicates
LengthOf(a) == IF a.text = NoText THEN 0 ELSE TextSize[a.text]
Prefer(a, b) ==
  IF ScoreOf[a.url] # ScoreOf[b.url] THEN ScoreOf[a.url] > ScoreOf[b.url]
  ELSE LengthOf(a) >= LengthOf(b)
Pairs(n) == SetToSortSeq({p \in (1..n) \X (1..n) : p[1] < p[2]}, Earlier)
Compare(s, dropped, p) ==
  IF p[1] \in dropped \/ p[2] \in dropped \/ ~Similar(s[p[1]], s[p[2]])
  THEN [s |-> s, out |-> dropped]
  ELSE IF Prefer(s[p[1]], s[p[2]])
  THEN [s |-> Absorb(s, p[1], s[p[2]]), out |-> dropped \cup {p[2]}]
  ELSE [s |-> Absorb(s, p[2], s[p[1]]), out |-> dropped \cup {p[1]}]
WithoutNeighbours(s) ==   \* slip: only neighbours are compared
  LET end == FoldLeft(LAMBDA acc, p : IF p[2] = p[1] + 1 THEN Compare(acc.s, acc.out, p) ELSE acc,
                      [s |-> s, out |-> {}], Pairs(Len(s)))
      kept == SetToSortSeq(DOMAIN s \ end.out, <) IN
  [k \in DOMAIN kept |-> end.s[kept[k]]]
WithoutNearDuplicates(s) ==
  LET end == FoldLeft(LAMBDA acc, p : Compare(acc.s, acc.out, p),
                      [s |-> s, out |-> {}], Pairs(Len(s)))
      kept == SetToSortSeq(DOMAIN s \ end.out, <) IN
  [k \in DOMAIN kept |-> end.s[kept[k]]]

(* The relevance floor (FilterLowConfidence) drops what the fetched text   *)
(* or the providers do not support.                                        *)
MergeResults ==
  /\ stage = "merging"
  /\ \E supported \in SUBSET {results[k].url : k \in DOMAIN results} :
       results' = WithoutNearDuplicates(SelectSeq(
         Ranked(FoldLeft(MergeSame, <<>>, results)), LAMBDA r : r.url \in supported))
  /\ stage' = "cutting" /\ UNCHANGED <<request, lanes, lane, canceled, verdict, report>>
(* filterResultsByFormats: the text is shown as markdown or in the json.   *)
Shown(r) == IF request.formats = {"html"}
            THEN [r EXCEPT !.text = NoText] ELSE r
CutResults ==
  /\ stage = "cutting"
  /\ LET kept == IF MaxResults > 0 THEN Min({Len(results), MaxResults}) ELSE Len(results) IN
       results' = [k \in 1..kept |-> Shown(results[k])]
  /\ stage' = "answered" /\ UNCHANGED <<request, lanes, lane, canceled, verdict, report>>

SearchNext ==
  \/ TakeLane \/ (\E i \in LaneIndex : LaneAnswers(i)) \/ ClientLeaves
  \/ FallBack \/ Collect \/ FetchAll \/ MergeResults \/ CutResults

SearchSpec == SearchInit /\ [][SearchNext]_searchVars
-----------------------------------------------------------------------------
SearchTypeOK ==
  /\ \A i \in LaneIndex :
       /\ lane[i].at \in {"idle", "queued", "running", "ended"}
       /\ lane[i].status \in LaneStatuses \cup {"none"} /\ lane[i].hits \in Answers \cup {<<>>}
  /\ stage \in {"lanes", "refused", "fetching", "merging", "cutting", "answered"}
  /\ canceled \in BOOLEAN /\ verdict \in LaneStatuses \cup {"none"}
  /\ request \in Requests /\ \A k \in DOMAIN results : InDomains(results[k].url)

(* What a caller is told of the discovery is true of every planned lane,   *)
(* whatever order they ran in: "healthy" and "authoritatively empty" hide  *)
(* no failed or degraded lane; lanes that were spared were not needed to   *)
(* fill the window with relevant candidates; and an error never comes with *)
(* a lane that answered in full (executeDiscoveryPlan,                     *)
(* summarizeLaneOutcomes).  Every lane a result is attributed to has       *)
(* reported candidates, and what the lanes report makes up the verdict.    *)
VerdictTrue ==
  LET spared == {i \in LaneIndex : lane[i].at = "idle"}
      told == {LaneStatus(i) : i \in LaneIndex \ spared} IN
  verdict # "none" =>
    /\ verdict \in {"healthy", "authoritative_empty"} =>
         told \subseteq {"healthy", "authoritative_empty"}
    /\ verdict = "authoritative_empty" => told = {"authoritative_empty"} /\ spared = {}
    /\ verdict = "failed" => told = {"failed"} /\ results = <<>>
    /\ spared # {} => /\ spared = LaneIndex \ Primary
                      /\ RelevantFound >= Max({1, RequiredResults})
    /\ {report[i].status : i \in DOMAIN report} = told
    /\ \A k \in DOMAIN results : \A i \in results[k].from : report[i].candidates > 0
    /\ Len(results) <= MapThenSumSet(LAMBDA i : report[i].candidates, DOMAIN report)

(* However lanes answer and fetches fail, no two results share a URL or a  *)
(* text or have near-duplicate texts, each carries every lane that found   *)
(* it, and what is retained fits the output budget (process, dedupe.go).   *)
ResultsDistinct ==
  /\ stage \in {"cutting", "answered"} => \A j, k \in DOMAIN results : j # k =>
       /\ results[j].url # results[k].url
       /\ results[j].text # NoText => results[j].text # results[k].text
       /\ ~Similar(results[j], results[k])
  /\ \A k \in DOMAIN results :
       {i \in Usable : \E n \in DOMAIN lane[i].hits :
          CanonicalOf[lane[i].hits[n]] = results[k].url} \subseteq results[k].from
  /\ stage = "answered" => FoldSeq(LAMBDA r, sum : TextBytes(r) + sum, 0, results) <= MaxOutput

(* Verdict and results of a request are true to what its lanes found.      *)
AnswersTrue == VerdictTrue /\ ResultsDistinct
=============================================================================
