------------------------------ MODULE MCStores ------------------------------
(* The stores of the server and of the pack publisher.  They share no      *)
(* state, so one run checks each of them by itself: the initial state says *)
(* which, and the others stay as they start.                               *)
EXTENDS ArtifactStore, RegistryActivation, TufRepository, PackInstall,
        LocalCorpus, RootCeremony, TLC

VARIABLE focus

storesVars == <<storeVars, regVars, tufVars, packVars, corpusVars, ceremonyVars, focus>>

(* URL u1 changes its content, u2 shares one with it *)
TwoUrls == {<<"u1", "x">>, <<"u1", "y">>, <<"u2", "x">>}
(* the second revision is a delta on the first *)
SecondOnFirst == (1 :> 0) @@ (2 :> 1)
(* a snapshot and three deltas on it: one removes u, two add text for v, of
   which one also removes a row the snapshot never had *)
RowsOf == [m \in {"s1", "d2", "e2", "f2"} |->
             CASE m = "s1" -> ("u" :> "x") @@ ("v" :> "x")
               [] m = "d2" -> "u" :> TombstoneRow
               [] m = "e2" -> ("v" :> "y") @@ ("w" :> TombstoneRow)
               [] m = "f2" -> "v" :> "y"]
OnS1 == [m \in {"s1", "d2", "e2", "f2"} |-> IF m = "s1" THEN NoPack ELSE "s1"]
DaysOf == [m \in {"s1", "d2", "e2", "f2"} |->
             CASE m = "e2" -> <<1, 1>> [] m = "f2" -> <<2, 2>> [] OTHER -> <<1, 2>>]

(* two custodians, each of whom may generate two keys *)
Custodians == [k3 |-> "ann", k4 |-> "bob", k5 |-> "ann", k6 |-> "bob"]

Interchangeable == Permutations(Requests) \cup Permutations(Editions)

StoresInit ==
  /\ focus \in {"artifacts", "registry", "tuf", "packs", "corpus", "ceremony"}
  /\ StoreInit /\ RegInit /\ TufInit /\ PackInit /\ CorpusInit /\ CeremonyInit
  /\ focus # "artifacts" => ~archive
  /\ focus # "registry" => live = CHOOSE d \in Document : TRUE
  /\ focus # "corpus" => corpusMode = "personal"

StoresNext ==
  \/ /\ focus = "artifacts" /\ StoreNext
     /\ UNCHANGED <<regVars, tufVars, packVars, corpusVars, ceremonyVars, focus>>
  \/ /\ focus = "registry" /\ RegNext
     /\ UNCHANGED <<storeVars, tufVars, packVars, corpusVars, ceremonyVars, focus>>
  \/ /\ focus = "tuf" /\ TufNext
     /\ UNCHANGED <<storeVars, regVars, packVars, corpusVars, ceremonyVars, focus>>
  \/ /\ focus = "packs" /\ PackNext
     /\ UNCHANGED <<storeVars, regVars, tufVars, corpusVars, ceremonyVars, focus>>
  \/ /\ focus = "corpus" /\ CorpusNext
     /\ UNCHANGED <<storeVars, regVars, tufVars, packVars, ceremonyVars, focus>>
  \/ /\ focus = "ceremony" /\ CeremonyNext
     /\ UNCHANGED <<storeVars, regVars, tufVars, packVars, corpusVars, focus>>

StoresSpec == StoresInit /\ [][StoresNext]_storesVars

(* The types of the store that moves.                                      *)
StoresTypeOK ==
  CASE focus = "artifacts" -> StoreTypeOK
    [] focus = "registry" -> RegTypeOK
    [] focus = "tuf" -> TufTypeOK
    [] focus = "packs" -> PackTypeOK
    [] focus = "corpus" -> CorpusTypeOK
    [] focus = "ceremony" -> CeremonyTypeOK
=============================================================================
