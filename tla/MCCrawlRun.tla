----------------------------- MODULE MCCrawlRun -----------------------------
(* Instances of CrawlRun small enough for TLC.                             *)
EXTENDS CrawlRun

One == {1}
Two == {1, 2}
OneJob == <<"a">>
TwoJobs == <<"a", "b">>
PagesOneJob == [p \in Pages |-> "a"]
PagesTwoJobs == [p \in Pages |-> IF p = 1 THEN "a" ELSE "b"]
OneInterval == [j \in Jobs |-> 1]
LongerForB == [j \in Jobs |-> IF j = "a" THEN 1 ELSE 2]
PagesOneHost == [p \in Pages |-> "h"]
SourcesOneJob == [s \in Sources |-> "a"]
SourcesOneHost == [s \in Sources |-> "h"]
(* source 1 is the root of source 2 *)
UnderFirst == [s \in Sources |-> 1]

Plain == [seeds |-> {}, roots |-> Roots, scope |-> Pages,
          sourceScope |-> Sources, maxDepth |-> [s \in Roots |-> 1],
          policy |-> [j \in Jobs |-> 0]]
DepthConfigs == {Plain, [Plain EXCEPT !.maxDepth = [s \in Roots |-> 0]]}
ScopeConfigs == {Plain, [Plain EXCEPT !.scope = {}]}

(* Job b has page 2; job a polls a source or admits page 1.                *)
ProgressConfigs == {[Plain EXCEPT !.seeds = {2}],
                    [Plain EXCEPT !.roots = {}, !.seeds = {1, 2}]}
=============================================================================
