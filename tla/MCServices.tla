----------------------------- MODULE MCServices -----------------------------
(* The services that work in memory or over the network: the discovery     *)
(* cache, the fetching of pages, the SearXNG pool and one search request.  *)
(* They share no state, so one run checks each of them by itself: the      *)
(* initial state says which, and the others stay as they start.            *)
EXTENDS DiscoveryCache, ArtifactFetch, SearxPool, SearchRequest, TLC

CONSTANTS main, other   \* search providers

VARIABLE focus

servicesVars == <<vars, fetchVars, poolVars, searchVars, focus>>

(* what the discovery cache tells apart by name only                       *)
Interchangeable == Permutations(Keys)

(* one node serves a request of two pages, the other another of one of them *)
ThreeFetches ==
  {[node |-> "m", request |-> 1, page |-> "p"], [node |-> "m", request |-> 1, page |-> "q"],
   [node |-> "n", request |-> 2, page |-> "p"]}

(* an advanced search of two providers, one with two sources; a basic one
   of them; one whose planned source serves nothing that is asked; and an
   advanced one without a source                                           *)
Variant(name) == [name |-> name, weight |-> 1]
SourceOf(p, w, variants) == [provider |-> p, weight |-> w, variants |-> variants]
TwoProviders == <<SourceOf(main, 2, {}), SourceOf(other, 1, {"original"}),
                  SourceOf(other, 1, {"concept", "docs"})>>
FourRequests ==
  {[advanced |-> TRUE, local |-> FALSE, formats |-> {}, sources |-> TwoProviders,
    variants |-> <<Variant("original"), Variant("concept")>>],
   [advanced |-> FALSE, local |-> FALSE, formats |-> {"html"}, sources |-> TwoProviders,
    variants |-> <<Variant("docs"), Variant("original")>>],
   [advanced |-> FALSE, local |-> TRUE, formats |-> {"markdown"},
    sources |-> <<SourceOf(other, 1, {"docs"})>>, variants |-> <<Variant("original")>>],
   [advanced |-> TRUE, local |-> FALSE, formats |-> {}, sources |-> <<>>,
    variants |-> <<Variant("original"), Variant("concept"), Variant("docs")>>]}
(* URLs 1 and 3 are one page, 1 and 5 have one text; x is nearly y; 6 is   *)
(* of a host that is shut out                                              *)
HostOfUrl == <<<<"org", "a">>, <<"org", "a", "b">>, <<>>, <<"net", "c">>, <<"net", "d">>,
               <<"com", "e">>>>
ComHosts == {<<"com">>}
FourAnswers == {<<>>, <<6, 1>>, <<2, 1>>, <<3, 4, 5>>}
OneRepeated == <<1, 2, 1, 4, 5, 6>>
TextOfUrl == <<"x", "z", "x", "y", "x", "z">>
XLikeY == {{"x", "y"}}
ScoreOfUrl == <<3, 2, 1, 1, 1, 1>>
UnitText == [t \in {"x", "y", "z"} |-> 1]

(* the fetches worth telling apart: without Redis only what one node does  *)
(* alone; with it the first request, of two pages, may bypass the cache,   *)
(* or a provider has sent the text of page q with its hit while the second *)
(* request asks for rendering.  The node that serves two pages may die.    *)
AsUsual == <<"plain", "plain">>
FetchChoices ==
  {o \in [redis : BOOLEAN, auto : {TRUE},
          kind : {AsUsual, <<"fresh", "plain">>, <<"plain", "render">>},
          documents : {{}, {w \in ThreeFetches : w.page = "q"}}] :
     /\ o.redis \/ o.kind = AsUsual
     /\ o.documents # {} <=> o.kind = <<"plain", "render">>}
FetchBounded == \A w \in Fetches : w.node = "n" => worker'[w].at # "gone"

ServicesInit ==
  /\ focus \in {"cache", "fetch", "pool", "search"}
  /\ Init /\ FetchInit /\ PoolInit /\ SearchInit
  /\ options \in (IF focus = "fetch" THEN FetchChoices
                  ELSE {CHOOSE o \in FetchChoices : TRUE})
  /\ focus # "search" => request = CHOOSE r \in Requests : TRUE

PoolBounded ==
  \A i \in Instances : circuit'[i].failures <= 3 /\ circuit'[i].degraded <= 2

ServicesNext ==
  \/ /\ focus = "cache" /\ Next
     /\ UNCHANGED <<fetchVars, poolVars, searchVars, focus>>
  \/ /\ focus = "fetch" /\ FetchNext /\ FetchBounded
     /\ UNCHANGED <<vars, poolVars, searchVars, focus>>
  \/ /\ focus = "pool" /\ PoolNext /\ PoolBounded
     /\ UNCHANGED <<vars, fetchVars, searchVars, focus>>
  \/ /\ focus = "search" /\ SearchNext
     /\ UNCHANGED <<vars, fetchVars, poolVars, focus>>

ServicesSpec == ServicesInit /\ [][ServicesNext]_servicesVars

(* The types of the service in focus.                                      *)
ServicesTypeOK ==
  CASE focus = "cache" -> TypeOK
    [] focus = "fetch" -> FetchTypeOK
    [] focus = "pool" -> PoolTypeOK
    [] focus = "search" -> SearchTypeOK
=============================================================================
