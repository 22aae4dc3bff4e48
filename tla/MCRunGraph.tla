----------------------------- MODULE MCRunGraph -----------------------------
(* Runs over discovery sources and runs over links between pages: the      *)
(* first configuration decides, and the operator's edits stay of its kind. *)
EXTENDS CrawlRun

JobNames == {"a"}
HostNames == {"h"}
OneJob == <<"a">>
OneInterval == [j \in JobNames |-> 1]
PagesJob == [x \in {1, 2, 3} |-> "a"]
PagesHost == [x \in {1, 2, 3} |-> "h"]
SourcesJob == [x \in {1, 2} |-> "a"]
SourcesHost == [x \in {1, 2} |-> "h"]
UnderFirst == [x \in {1, 2} |-> 1]   \* source 1 is the only root
Waits == {0, 1}

(* The operator narrows what sources and pages may be admitted or how deep *)
(* sources nest, or replaces the root by a seed.                           *)
Polled == [seeds |-> {}, roots |-> {1}, scope |-> {1}, sourceScope |-> {1, 2},
           maxDepth |-> [s \in {1} |-> 1], policy |-> [j \in JobNames |-> 0]]
SourceConfigs == {Polled, [Polled EXCEPT !.roots = {}, !.seeds = {1}],
                  [Polled EXCEPT !.sourceScope = {1}, !.scope = {}],
                  [Polled EXCEPT !.maxDepth = [s \in {1} |-> 0]]}

(* Pages only: page 1 is a seed and may link to the others.                *)
Linking == [Polled EXCEPT !.seeds = {1}, !.roots = {}, !.scope = {1, 2, 3},
              !.sourceScope = {}, !.policy = [j \in JobNames |-> 1]]
LinkConfigs == {Linking, [Linking EXCEPT !.scope = {1}],
                [Linking EXCEPT !.seeds = {1, 3}, !.policy = [j \in JobNames |-> 0]]}
AllConfigs == SourceConfigs \cup LinkConfigs

StaysOfItsKind == cfg' \in LinkConfigs <=> cfg \in LinkConfigs
=============================================================================
