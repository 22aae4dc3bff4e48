----------------------------- MODULE MCNetwork ------------------------------
(* What talks to others over the network: the clients of the search        *)
(* providers, the federation of trusted peers, the fetching of pages, the  *)
(* rate limit of the server and its start and end.                         *)
(* They share no state, so one run checks each by itself: the initial      *)
(* state says which, and the others stay as they start.                    *)
EXTENDS Providers, Federation, PageFetch, RateLimit, ServerRun, TLC

VARIABLE focus

networkVars == <<providerVars, federationVars, pageVars, limitVars, serverVars, focus>>

(* providers with two slots and a burst of two, if the client allows       *)
TwoAtOnce == [slots |-> 2, burst |-> 2]

(* registries: both peers may ask; b may not, and is not who signs; broken *)
Identity(i, k) == [id |-> i, key |-> k]
PeerOf(p, i, inbound) == [peer |-> p, identity |-> i, inbound |-> inbound]
ThreeRegistries == {
  [identities |-> <<Identity("a", "ka"), Identity("b", "kb")>>,
   peers |-> <<PeerOf("pa", "a", TRUE), PeerOf("pb", "b", TRUE)>>],
  [identities |-> <<Identity("a", "ka"), Identity("b", "kc")>>,
   peers |-> <<PeerOf("pa", "a", TRUE), PeerOf("pb", "b", FALSE)>>],
  [identities |-> <<Identity("a", "ka"), Identity("b", "ka")>>,
   peers |-> <<PeerOf("pa", "a", TRUE)>>]}
AskersAB == [a |-> "ka", b |-> "kb"]

(* pages of three hosts; one request stays on its origin, the other leaves *)
(* it for pages whose robots.txt may forbid them                           *)
ThreeHosts == [a1 |-> "a", a2 |-> "a", b1 |-> "b", c1 |-> "c"]
Scopes == {[page |-> "a1", scope |-> {"a1", "a2"}, conditional |-> TRUE],
           [page |-> "b1", scope |-> {"a1", "b1", "c1"}, conditional |-> FALSE]}
RobotsFiles == [a |-> {{"a1"}, {"a1", "a2"}}, b |-> {{"b1"}}, c |-> {{"c1"}}]

(* the local stores of each mode of the local corpus, and two packs        *)
StoresOfMode == [disabled |-> << >>, ephemeral |-> <<"index">>,
                 personal |-> <<"index", "artifacts">>, archive |-> <<"index", "artifacts">>]
TwoPacks == <<"pack1", "pack2">>

(* searches, handlers, fetches, servers and requests are the same model values                *)
Interchangeable == Permutations(Searches)

NetworkInit ==
  /\ focus \in {"providers", "federation", "pages", "limit", "server"}
  /\ ProvidersInit /\ FederationInit /\ PageInit /\ LimitInit /\ ServerInit
  /\ focus # "providers" => client = CHOOSE c \in Clients : TRUE
  /\ focus # "federation" => registry = CHOOSE doc \in Documents : WellFormed(doc)
  /\ focus # "server" => mode = CHOOSE m \in DOMAIN Modes : TRUE

NetworkNext ==
  \/ /\ focus = "providers" /\ ProvidersNext
     /\ UNCHANGED <<federationVars, pageVars, limitVars, serverVars, focus>>
  \/ /\ focus = "federation" /\ FederationNext
     /\ UNCHANGED <<providerVars, pageVars, limitVars, serverVars, focus>>
  \/ /\ focus = "pages" /\ PageNext
     /\ UNCHANGED <<providerVars, federationVars, limitVars, serverVars, focus>>
  \/ /\ focus = "limit" /\ LimitNext
     /\ UNCHANGED <<providerVars, federationVars, pageVars, serverVars, focus>>
  \/ /\ focus = "server" /\ ServerNext
     /\ UNCHANGED <<providerVars, federationVars, pageVars, limitVars, focus>>

NetworkSpec == NetworkInit /\ [][NetworkNext]_networkVars

(* The types of the component in focus.                                    *)
NetworkTypeOK ==
  CASE focus = "providers" -> ProvidersTypeOK
    [] focus = "federation" -> FederationTypeOK
    [] focus = "pages" -> PageTypeOK
    [] focus = "limit" -> LimitTypeOK
    [] focus = "server" -> ServerTypeOK
=============================================================================
