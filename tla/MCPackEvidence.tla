--------------------------- MODULE MCPackEvidence ---------------------------
(* The commands around a pack: the evidence gate and the evidence          *)
(* collector, partitioner and merger of its publisher, its builder, and    *)
(* its consumer's channel.  The gate paces the requests the collector      *)
(* sends; they share no state otherwise, so one run checks each by itself: *)
(* the initial state says which.  The collector has two instances: the     *)
(* shards of a partition, and a selection collected whole.                 *)
EXTENDS EvidenceGate, MCEvidenceFiles, PackChannel, PackBuild

VARIABLE focus

packEvidenceVars == <<gateVars, evidenceVars, channelVars, buildVars, focus>>

TwoHosts == {1, 2}

(* the second generation brings a delta, or withdraws the pack             *)
TwoFeeds == {<<1, 2>>, <<1, 0>>}
OnTheFirst == <<0, 1>>
FirstDayOnly == <<0, 1>>

(* rows of the host h, decided at c until x; the rights of 2 end earlier,  *)
(* 5 is no page, 6 is of a host that a list excludes.  The clock of the    *)
(* merge of the second stream is ahead of its decisions.                   *)
PackRow(u, h, t, c, x) ==
  [url |-> u, host |-> h, text |-> t, html |-> u # 5, captured |-> 0,
   notice |-> IF u = 6 THEN "other" ELSE "same",
   admission |-> [d \in Decisions |->
     [granted |-> TRUE, from |-> c, until |-> IF d = "rights" /\ u = 2 THEN 2 ELSE x]]]
ThreeStreams ==
  <<[rows |-> <<PackRow(1, 1, "x", 0, 2), PackRow(2, 1, "x", 0, 5),
                PackRow(3, 2, "x", 0, 5)>>, completed |-> 0, evidence |-> TRUE],
    [rows |-> <<PackRow(1, 1, "y", 1, 4), PackRow(1, 1, "x", 1, 4), PackRow(5, 3, "x", 1, 4),
                PackRow(4, 3, "x", 1, 3)>>, completed |-> 2, evidence |-> TRUE],
    [rows |-> <<PackRow(6, 4, "x", 0, 5), PackRow(3, 2, "x", 0, 5)>>,
     completed |-> 0, evidence |-> TRUE]>>
TwoLists == {[urls |-> {}, hosts |-> {}], [urls |-> {3}, hosts |-> {4}]}

(* gate workers, publishers and operators are the same model values        *)
Interchangeable == Permutations(Workers) \cup Permutations(Attempts)

PackEvidenceInit ==
  /\ focus \in {"gate", "shards", "whole", "build", "channel"}
  /\ GateInit /\ EvidenceInit /\ ChannelInit /\ PackBuildInit
  /\ bound = 1
  /\ focus # "channel" => channel = CHOOSE f \in Feeds : TRUE
  /\ selection = IF focus = "whole" THEN 2 ELSE 1

(* One shard at a time and the merge.  Every host answers with a           *)
(* robots.txt that allows the page; a published merge ends it.             *)
ShardsBounded ==
  /\ 0 \notin locks' /\ Cardinality(locks' \ {Merging}) <= 1
  /\ directory[Merging] = Missing /\ selection' # 3
  /\ \A x \in Publishers : \A i \in DOMAIN publisher'[x].row :
       publisher'[x].row[i].policy \in {"none", "archived"} /\
       (publisher'[x].row[i].allowed <=> publisher'[x].row[i].policy = "archived")
WholeBounded == locks' \subseteq {0}

(* One output takes snapshots, the other deltas upon it.                   *)
BuildBounded ==
  \A b \in Bundles : build'[b] # NoBuild => (build'[b].parent = NoParent <=> b = 1)

PackEvidenceNext ==
  \/ focus = "gate" /\ GateNext /\ UNCHANGED <<evidenceVars, channelVars, buildVars, focus>>
  \/ focus = "shards" /\ EvidenceNext /\ ShardsBounded /\ UNCHANGED <<gateVars, channelVars, buildVars, focus>>
  \/ focus = "whole" /\ EvidenceNext /\ WholeBounded /\ UNCHANGED <<gateVars, channelVars, buildVars, focus>>
  \/ focus = "channel" /\ ChannelNext /\ UNCHANGED <<gateVars, evidenceVars, buildVars, focus>>
  \/ focus = "build" /\ PackBuildNext /\ BuildBounded /\ UNCHANGED <<gateVars, evidenceVars, channelVars, focus>>

PackEvidenceSpec == PackEvidenceInit /\ [][PackEvidenceNext]_packEvidenceVars
=============================================================================
