---------------------------- MODULE EvidenceFiles ----------------------------
(* The commands of fetchmark-pack-evidence that write directories          *)
(* (internal/adapters/packevidence): partition cuts a selection into       *)
(* shards, collect observes the rows of a shard - or of a whole selection  *)
(* - with a few workers and publishes a bundle, merge verifies the bundles *)
(* of all shards against the partition and publishes their candidates.     *)
(* Each claims a lock file, works in a staging directory and renames it;   *)
(* whatever is killed leaves both behind for the operator.  Meanwhile the  *)
(* selection and published directories may be replaced.                    *)
(*                                                                         *)
(* A row is the page of a host.  Digests are the contents they stand for;  *)
(* validity windows, rights, and the pacing of requests (EvidenceGate) are *)
(* left out, and the final sync of the parent is part of Unlock.          *)
EXTENDS Integers, Sequences, FiniteSets, FiniteSetsExt, SequencesExt

CONSTANTS
  Selections,     (* <<rows>>: the successive contents of the selection    *)
  ShardSize,      (* MaxCollectorRecords                                   *)
  Allowed,        (* [host -> pages]: what robots.txt allows               *)
  CacheEntries,   (* MaxRobotsCacheEntries                                 *)
  Concurrency,    (* global_concurrency                                    *)
  Publishers      (* processes running the commands                        *)

SelectedRows == UNION {ToSet(Selections[v]) : v \in DOMAIN Selections}
ASSUME EvidenceConstants ==
  /\ ShardSize \in Nat \ {0} /\ CacheEntries \in Nat \ {0} /\ Concurrency \in Nat \ {0}
  /\ Selections \in Seq(Seq(SelectedRows) \ {<<>>})

VARIABLES
  selection,   (* which contents the selection has                         *)
  directory,   (* published output of each job, or Missing                 *)
  locks,       (* jobs whose lock file exists                              *)
  stagings,    (* jobs whose staging directory exists                      *)
  publisher    (* what each process is doing                               *)

evidenceVars == <<selection, directory, locks, stagings, publisher>>

Missing == <<>>
Shards(v) == (Len(Selections[v]) + ShardSize - 1) \div ShardSize
(* The manifest says which rows each shard holds, first and last.          *)
Manifest(v) ==
  [k \in 1..Shards(v) |-> <<(k - 1) * ShardSize + 1, Min({k * ShardSize, Len(Selections[v])})>>]
ShardRows(v, k) == SubSeq(Selections[v], Manifest(v)[k][1], Manifest(v)[k][2])
MostShards == Max({Shards(v) : v \in DOMAIN Selections})
ShardJobs == 1..MostShards
(* shard 0 is the whole selection, collected without a partition           *)
Partition == MostShards + 1
Merging == MostShards + 2
EvidenceJobs == 0..Merging
Collecting(job) == job < Partition
InputRows(input) == IF input[2] = 0 THEN Selections[input[1]] ELSE ShardRows(input[1], input[2])

AwayPublisher == [job |-> 0, at |-> "away", input |-> Missing, row |-> <<>>, policies |-> <<>>,
         sources |-> <<>>, got |-> Missing, again |-> 0]
Step(p, place) == [publisher EXCEPT ![p].at = place]
PublisherAt(p, place) == publisher[p].at = place

EvidenceInit ==
  /\ selection \in DOMAIN Selections
  /\ directory = [job \in EvidenceJobs |-> Missing]
  /\ locks = {} /\ stagings = {}
  /\ publisher = [p \in Publishers |-> AwayPublisher]

-----------------------------------------------------------------------------
(* Every command: the lock is created exclusively; an output or a staging  *)
(* directory that exists already ends it.                                  *)
ClaimOutput(p, job) ==
  /\ PublisherAt(p, "away") /\ job \notin locks
  /\ locks' = locks \cup {job}
  /\ publisher' = [publisher EXCEPT ![p] = [AwayPublisher EXCEPT !.job = job, !.at = "claimed"]]
  /\ UNCHANGED <<selection, directory, stagings>>
Unlock(p) ==
  /\ locks' = locks \ {publisher[p].job}
  /\ publisher' = [publisher EXCEPT ![p] = AwayPublisher]
OutputTaken(p) ==
  /\ PublisherAt(p, "claimed")
  /\ directory[publisher[p].job] # Missing \/ publisher[p].job \in stagings
  /\ Unlock(p) /\ UNCHANGED <<selection, directory, stagings>>

(* What the command reads: collect opens its shard, or the selection, once *)
(* and digests the bytes it gets.                                          *)
InputOf(job) ==
  IF job = 0 \/ job > MostShards THEN <<selection, 0>>
  ELSE IF directory[Partition] = Missing THEN Missing
  ELSE IF job <= Shards(directory[Partition][1]) THEN <<directory[Partition][1], job>> ELSE Missing
UnreadRows(input) ==
  [i \in DOMAIN InputRows(input) |-> [at |-> "unread", allowed |-> FALSE, policy |-> "none"]]
BeginWork(p) ==
  LET job == publisher[p].job
      input == InputOf(job) IN
  /\ PublisherAt(p, "claimed") /\ directory[job] = Missing /\ job \notin stagings
  /\ job = Merging => directory[Partition] # Missing
  /\ input # Missing
  /\ stagings' = stagings \cup {job}
  /\ publisher' = [publisher EXCEPT ![p].at = IF Collecting(job) THEN "collecting"
                     ELSE IF job = Merging THEN "verifying" ELSE "cutting",
       ![p].input = IF job = Merging THEN directory[Partition] ELSE input,
       ![p].row = IF Collecting(job) THEN UnreadRows(input) ELSE <<>>]
  /\ UNCHANGED <<selection, directory, locks>>

(* A rename that never replaces; the staging directory becomes the output. *)
ActivateOutput(p) ==
  LET job == publisher[p].job IN
  /\ PublisherAt(p, "ready") /\ directory[job] = Missing
  /\ directory' = [directory EXCEPT ![job] = publisher[p].got]
  /\ stagings' = stagings \ {job}
  /\ publisher' = Step(p, "committed")
  /\ UNCHANGED <<selection, locks>>
CommandEnds(p) ==
  /\ PublisherAt(p, "committed") /\ Unlock(p)
  /\ UNCHANGED <<selection, directory, stagings>>
(* Any error or a cancellation before the rename takes both away again.    *)
CommandFails(p) ==
  /\ publisher[p].at \notin {"away", "committed"}
  /\ stagings' = IF PublisherAt(p, "claimed") THEN stagings ELSE stagings \ {publisher[p].job}
  /\ Unlock(p) /\ UNCHANGED <<selection, directory>>
CommandKilled(p) ==
  /\ ~PublisherAt(p, "away") /\ publisher' = [publisher EXCEPT ![p] = AwayPublisher]
  /\ UNCHANGED <<selection, directory, locks, stagings>>

(* The operator cleans up after a killed command, discards an output to    *)
(* make it anew, or replaces the selection.                                *)
CleanUp(job) ==
  /\ job \in locks /\ \A p \in Publishers : PublisherAt(p, "away") \/ publisher[p].job # job
  /\ locks' = locks \ {job} /\ stagings' = stagings \ {job}
  /\ UNCHANGED <<selection, directory, publisher>>
Discard(job) ==
  /\ directory[job] # Missing /\ directory' = [directory EXCEPT ![job] = Missing]
  /\ UNCHANGED <<selection, locks, stagings, publisher>>
ReplaceSelection ==
  /\ selection + 1 \in DOMAIN Selections /\ selection' = selection + 1
  /\ UNCHANGED <<directory, locks, stagings, publisher>>

-----------------------------------------------------------------------------
(* partitionRows refuses a host that comes twice; the selection is hashed  *)
(* again before and after the manifest is written.                         *)
HostsDistinct(v) ==
  \A i, j \in DOMAIN Selections[v] : i # j => Selections[v][i].host # Selections[v][j].host
CutShards(p) ==
  /\ PublisherAt(p, "cutting") /\ HostsDistinct(publisher[p].input[1])
  /\ LET v == publisher[p].input[1] IN
       publisher' = [publisher EXCEPT ![p].at = "cut", ![p].got = <<v, Manifest(v)>>]
  /\ UNCHANGED <<selection, directory, locks, stagings>>
RecheckSelection(p) ==
  /\ PublisherAt(p, "cut") /\ selection = publisher[p].input[1]
  /\ publisher' = Step(p, "ready")
  /\ UNCHANGED <<selection, directory, locks, stagings>>

-----------------------------------------------------------------------------
(* collectRows and Observer.Observe.  A row is unread, looks for a robots  *)
(* decision, asks for robots.txt or waits for a row that does, asks for    *)
(* its page, or has its outcome; no row past the limit is started.         *)
Row(p, i) == publisher[p].row[i]
TheRow(p, i) == InputRows(publisher[p].input)[i]
RowsAt(p, places) == {i \in DOMAIN publisher[p].row : Row(p, i).at \in places}
OfHost(p, rows, i) == {j \in rows : TheRow(p, j).host = TheRow(p, i).host}
RowMoved(p, i, place) == [publisher EXCEPT ![p].row[i].at = place]
StartRow(p) ==
  LET unread == RowsAt(p, {"unread"}) IN
  /\ PublisherAt(p, "collecting") /\ unread # {}
  /\ Min(unread) <= ShardSize
  /\ Cardinality(RowsAt(p, {"robots", "asking", "joined", "page"})) < Concurrency
  /\ publisher' = RowMoved(p, Min(unread), "robots")
  /\ UNCHANGED <<selection, directory, locks, stagings>>

(* observeRobots: one decision per origin serves all its rows, from the    *)
(* cache or from the flight a row joins.  fetchRobots evaluates a policy   *)
(* for the page that asks; no policy allows everything, a failure nothing. *)
(* cacheRobots keeps the newest origins.                                   *)
Decided(p, rows, said) ==
  [i \in DOMAIN publisher[p].row |-> IF i \notin rows THEN Row(p, i)
     ELSE [at |-> IF said.allowed THEN "page" ELSE "rejected",
           allowed |-> said.allowed, policy |-> said.policy]]
CachedFor(p, i) ==
  {k \in DOMAIN publisher[p].policies : publisher[p].policies[k].host = TheRow(p, i).host}
RowAsksRobots(p, i) ==
  /\ PublisherAt(p, "collecting") /\ i \in RowsAt(p, {"robots"})
  /\ IF CachedFor(p, i) # {}
     THEN \E k \in CachedFor(p, i) :
            publisher' = [publisher EXCEPT
              ![p].row = Decided(p, {i}, publisher[p].policies[k].said)]
     ELSE publisher' = RowMoved(p, i, IF OfHost(p, RowsAt(p, {"asking"}), i) # {}
                                      THEN "joined" ELSE "asking")
  /\ UNCHANGED <<selection, directory, locks, stagings>>
RobotsSay(row) ==
  {[allowed |-> row.page \in Allowed[row.host], policy |-> "archived"],
   [allowed |-> TRUE, policy |-> "none"], [allowed |-> FALSE, policy |-> "failed"]}
Remembered(policies, host, said) ==
  Append(IF Len(policies) >= CacheEntries THEN Tail(policies) ELSE policies,
         [host |-> host, said |-> said])
RowRobotsAnswer(p, i) ==
  /\ PublisherAt(p, "collecting") /\ i \in RowsAt(p, {"asking"})
  /\ \E said \in RobotsSay(TheRow(p, i)) :
       publisher' = [publisher EXCEPT
         ![p].row = Decided(p, {i} \cup OfHost(p, RowsAt(p, {"joined"}), i), said),
         ![p].policies = Remembered(@, TheRow(p, i).host, said)]
  /\ UNCHANGED <<selection, directory, locks, stagings>>
(* get reads a page whole or says why it could not; what observePage reads *)
(* must be evaluated, and be a 200 of HTML that permits its indexing.      *)
UnreadReplies == {"unreachable", "encoded", "cut short"}
Indexable(reply) == reply \notin UnreadReplies \cup {"not evaluated", "forbids indexing"}
PageAnswers(p, i) ==
  /\ PublisherAt(p, "collecting") /\ i \in RowsAt(p, {"page"})
  /\ \E reply \in UnreadReplies \cup {"not evaluated", "forbids indexing", "indexable"} :
       publisher' = RowMoved(p, i, IF Indexable(reply) THEN "admitted" ELSE "rejected")
  /\ UNCHANGED <<selection, directory, locks, stagings>>

(* Verdicts come in any order and are written in that of the input.        *)
Verdict(p, i) ==
  [row |-> TheRow(p, i), admitted |-> Row(p, i).at = "admitted",
   allowed |-> Row(p, i).allowed, policy |-> Row(p, i).policy]
Reported(p) == RowsAt(p, {"admitted", "rejected"})
WriteAsTheyCome(p) ==   \* slip: verdicts are not put in order
  /\ PublisherAt(p, "collecting") /\ Len(publisher[p].got) < Len(publisher[p].row)
  /\ \E i \in Reported(p) : publisher' = [publisher EXCEPT ![p].got = Append(@, Verdict(p, i))]
  /\ UNCHANGED <<selection, directory, locks, stagings>>
WriteNext(p) ==
  LET next == Len(publisher[p].got) + 1 IN
  /\ PublisherAt(p, "collecting") /\ next \in Reported(p)
  /\ publisher' = [publisher EXCEPT ![p].got = Append(@, Verdict(p, next))]
  /\ UNCHANGED <<selection, directory, locks, stagings>>
(* The report counts the admitted rows, and the others by their reason.    *)
Reason(verdict) ==
  IF verdict.admitted THEN "admitted" ELSE IF verdict.allowed THEN "indexing" ELSE "robots"
Reasons == {"admitted", "indexing", "robots"}
Counts(verdicts) == [r \in Reasons |-> Quantify(DOMAIN verdicts, LAMBDA i : Reason(verdicts[i]) = r)]
Total(counts) == MapThenSumSet(LAMBDA r : counts[r], Reasons)
CollectionDone(p) ==
  /\ PublisherAt(p, "collecting") /\ Len(publisher[p].got) = Len(publisher[p].row)
  /\ publisher' = [publisher EXCEPT ![p].at = "ready", ![p].row = <<>>, ![p].policies = <<>>,
       ![p].got = <<publisher[p].input, @, Counts(@)>>]
  /\ UNCHANGED <<selection, directory, locks, stagings>>

-----------------------------------------------------------------------------
(* verifyMergeSources.  The manifest must cut the selection into adjacent  *)
(* shards; each needs a bundle that was collected from these very bytes,   *)
(* accounts for each of its rows in order and reports them as they are; an *)
(* admitted row's archived policy is evaluated again, for its own page.    *)
(* Its candidates are written as it is read.  The second pass reads        *)
(* everything anew and must find the same.                                 *)
EndOf(parts, k) == IF k = 0 THEN 0 ELSE parts[k][2]
ManifestValid(v, parts) ==
  /\ parts # <<>> /\ EndOf(parts, Len(parts)) = Len(Selections[v])
  /\ \A k \in DOMAIN parts : /\ parts[k][1] = EndOf(parts, k - 1) + 1
                             /\ parts[k][2] - parts[k][1] + 1 \in 1..ShardSize
PolicyAgrees(verdict) ==
  ~verdict.admitted \/ verdict.policy # "archived" \/ verdict.row.page \in Allowed[verdict.row.host]
AdmissionAgrees(verdict) == verdict.admitted => verdict.allowed /\ verdict.policy # "failed"
Accounts(rows, verdicts) ==
  /\ Len(verdicts) = Len(rows)
  /\ \A i \in DOMAIN rows : /\ verdicts[i].row = rows[i]
                            /\ PolicyAgrees(verdicts[i]) /\ AdmissionAgrees(verdicts[i])
ReportValid(collected) ==
  Total(collected[3]) = Len(InputRows(collected[1])) /\ collected[3] = Counts(collected[2])
Verified(manifest, k) ==
  LET v == manifest[1] IN
  /\ directory[Partition] = manifest /\ ManifestValid(v, manifest[2])
  /\ directory[k] # Missing /\ directory[k][1] = <<v, k>>
  /\ Accounts(ShardRows(v, k), directory[k][2]) /\ ReportValid(directory[k])
VerifyShard(p) ==
  LET v == publisher[p].input[1]
      k == Len(publisher[p].sources) + 1 IN
  /\ PublisherAt(p, "verifying") /\ k <= Shards(v) /\ Verified(publisher[p].input, k)
  /\ publisher' = [publisher EXCEPT ![p].sources = Append(@, directory[k]),
                                ![p].got = @ \o directory[k][2]]
  /\ UNCHANGED <<selection, directory, locks, stagings>>
(* The merged report: the shards in order, each with its rows and counts,  *)
(* and their sum (validateMergeReport).                                    *)
MergeReport(p) ==
  LET sources == publisher[p].sources IN
  [sources |-> [k \in DOMAIN sources |->
                  [rows |-> publisher[p].input[2][k], counts |-> sources[k][3]]],
   counts |-> Counts(publisher[p].got)]
MergeReportValid(v, report) ==
  /\ Total(report.counts) = Len(Selections[v])
  /\ ManifestValid(v, [k \in DOMAIN report.sources |-> report.sources[k].rows])
  /\ \A k \in DOMAIN report.sources :
       LET source == report.sources[k] IN Total(source.counts) = source.rows[2] - source.rows[1] + 1
  /\ \A r \in Reasons :
       report.counts[r] = MapThenSumSet(LAMBDA k : report.sources[k].counts[r], DOMAIN report.sources)
AllVerified(p) ==
  /\ PublisherAt(p, "verifying") /\ Len(publisher[p].sources) = Shards(publisher[p].input[1])
  /\ HostsDistinct(publisher[p].input[1])
  /\ MergeReportValid(publisher[p].input[1], MergeReport(p))
  /\ publisher' = [publisher EXCEPT ![p].at = "revalidating", ![p].again = 1]
  /\ UNCHANGED <<selection, directory, locks, stagings>>
VerifyAgain(p) ==
  LET v == publisher[p].input[1]
      k == publisher[p].again IN
  /\ PublisherAt(p, "revalidating") /\ k <= Shards(v)
  /\ Verified(publisher[p].input, k) /\ directory[k] = publisher[p].sources[k]
  /\ publisher' = [publisher EXCEPT ![p].again = k + 1]
  /\ UNCHANGED <<selection, directory, locks, stagings>>
MergeDone(p) ==
  /\ PublisherAt(p, "revalidating") /\ publisher[p].again > Shards(publisher[p].input[1])
  /\ publisher' = [publisher EXCEPT ![p].at = "ready", ![p].again = 0, ![p].sources = <<>>,
       ![p].got = <<publisher[p].input, @, MergeReport(p)>>]
  /\ UNCHANGED <<selection, directory, locks, stagings>>

EvidenceNext ==
  \/ \E p \in Publishers, job \in EvidenceJobs : ClaimOutput(p, job)
  \/ \E p \in Publishers :
       \/ OutputTaken(p) \/ BeginWork(p) \/ ActivateOutput(p) \/ CommandEnds(p) \/ CommandFails(p)
       \/ CommandKilled(p) \/ CutShards(p) \/ RecheckSelection(p) \/ StartRow(p) \/ WriteNext(p)
       \/ CollectionDone(p) \/ VerifyShard(p) \/ AllVerified(p) \/ VerifyAgain(p) \/ MergeDone(p)
       \/ \E i \in DOMAIN publisher[p].row :
            RowAsksRobots(p, i) \/ RowRobotsAnswer(p, i) \/ PageAnswers(p, i)
  \/ \E job \in EvidenceJobs : CleanUp(job) \/ Discard(job)
  \/ ReplaceSelection
EvidenceSpec == EvidenceInit /\ [][EvidenceNext]_evidenceVars

-----------------------------------------------------------------------------
(* The types: work goes on under its lock and in its staging directory,    *)
(* unless it was killed, and no two processes work for one output.         *)
EvidenceTypeOK ==
  /\ selection \in DOMAIN Selections /\ DOMAIN directory = EvidenceJobs
  /\ locks \subseteq EvidenceJobs /\ stagings \subseteq EvidenceJobs
  /\ \A p \in Publishers : publisher[p].at \in
       {"away", "claimed", "collecting", "verifying", "revalidating", "cutting", "cut",
        "ready", "committed"}
  /\ \A p, q \in Publishers : p # q /\ publisher[p].at # "away" /\ publisher[q].at # "away"
       => publisher[p].job # publisher[q].job

(* A bundle tells of every row of the one input it names, once and in the  *)
(* order of the input, whatever order its answers came in and whatever     *)
(* replaced the selection meanwhile; a merge tells so of every row of the  *)
(* selection that was cut, though its bundles may be discarded and made    *)
(* anew under it, and admits no page an archived policy forbids.  What a   *)
(* report counts is what its bundle holds.                                 *)
EvidenceExact ==
  /\ EvidenceTypeOK
  /\ \A job \in EvidenceJobs \ {Partition} : directory[job] # Missing =>
       LET input == directory[job][1]
           verdicts == directory[job][2]
           rows == IF job = Merging THEN Selections[input[1]] ELSE InputRows(input) IN
       /\ [i \in DOMAIN verdicts |-> verdicts[i].row] = rows
       /\ Counts(verdicts) = IF job = Merging THEN directory[job][3].counts ELSE directory[job][3]
       /\ job = Merging => \A i \in DOMAIN verdicts : PolicyAgrees(verdicts[i])

(* "Only fully robots-allowed [...] rows [...] enter the builder candidate *)
(* stream" (docs/dev/staticvar/fetchmark/open-index-pack-publishing.md):   *)
(* a row a bundle admits is a page its archived policy allows.  The code   *)
(* reuses the decision made for the first page of the origin.              *)
OnlyAllowedAdmitted ==
  \A job \in EvidenceJobs : Collecting(job) /\ directory[job] # Missing =>
    \A i \in DOMAIN directory[job][2] : PolicyAgrees(directory[job][2][i])
=============================================================================
