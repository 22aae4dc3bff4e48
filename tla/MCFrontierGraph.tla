--------------------------- MODULE MCFrontierGraph ---------------------------
(* Three histories of one frontier in one run: pages that two workers      *)
(* lease, a graph of discovery sources, and a graph of links between       *)
(* pages.  The initial state says which of them is lived.                  *)
EXTENDS CrawlFrontier

CONSTANT Loner   \* the worker of the graphs

VARIABLE shape

Three == 1..3
JobOfThree == [x \in Three |-> "a"]
HostOfThree == [x \in Three |-> "h"]
UnderFirst == [x \in Three |-> 1]   \* source 1 is the only root

(* Leases expire, and are slow to come back, among the pages; the graphs   *)
(* stand still in time.                                                    *)
Unhurried ==
  /\ \A w \in Workers \ {Loner} : work'[w] = Idle
  /\ now' = 1 /\ \A x \in due' \cup srcDue' : x[1] = 1
TwoPagesOnly ==
  /\ entries'[3] = NoPage /\ UNCHANGED <<sources, policy, hosts>>
SourcesOfOnePage ==
  /\ entries'[2] = NoPage /\ entries'[3] = NoPage
  /\ UNCHANGED policy /\ Unhurried
LinksOfThreePages ==
  /\ UNCHANGED <<sources, hosts>> /\ seq' <= 2 /\ Unhurried

GraphInit == shape \in {"pages", "sources", "links"} /\ Init
GraphNext ==
  /\ Next /\ UNCHANGED shape
  /\ CASE shape = "pages" -> TwoPagesOnly
       [] shape = "sources" -> SourcesOfOnePage
       [] shape = "links" -> LinksOfThreePages
GraphSpec == GraphInit /\ [][GraphNext]_<<vars, shape>>
=============================================================================
