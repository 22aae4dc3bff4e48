------------------------------ MODULE CrawlRun ------------------------------
(***************************************************************************)
(* One fetchmark-crawl process after another on the same frontier file     *)
(* (cmd/fetchmark-crawl and core/focusedcrawl): open, synchronise the      *)
(* configuration, poll due discovery sources, admit due pages, close.  The *)
(* file lock admits one process at a time, so one worker is enough; the    *)
(* operator may edit the configuration between two runs, and a process may *)
(* die or be interrupted anywhere in one.  Every step that touches the     *)
(* store is the CrawlFrontier action the code calls there.                 *)
(***************************************************************************)
EXTENDS CrawlFrontier, Sequences

CONSTANTS
  Crawler,              \* the one worker
  JobOrder,             \* the jobs in the order of the configuration
  Configs,              \* the configurations the operator may choose from
  HostInterval,         \* per job, the interval its hosts keep
  MaxSourcePollsPerRun, MaxURLsPerRun, MaxPagesPerRun,
  Horizon               \* the clock only passes it to let a run finish

Config == [seeds : SUBSET Pages, roots : SUBSET Roots, scope : SUBSET Pages,
           sourceScope : SUBSET Sources, maxDepth : [Roots -> 0..MaxSourceDepth],
           policy : [Jobs -> 0..MaxLinksPerPage]]

(* Config.validate                                                         *)
Valid(c) ==
  /\ c.seeds \subseteq c.scope /\ c.roots \subseteq c.sourceScope
  /\ Cardinality(c.seeds) <= MaxEntries /\ Cardinality(c.roots) <= MaxSources
  /\ c.roots # {} => MaxMemberships > 0 /\ MaxSourceEdges > 0
  /\ (\E j \in Jobs : c.policy[j] > 0) => MaxLinkEdges > 0
  /\ \A i \in DOMAIN JobOrder :
       \/ \E p \in c.seeds : PageJob[p] = JobOrder[i]
       \/ \E s \in c.roots : SourceJob[s] = JobOrder[i]

ASSUME RunAssumption ==
  /\ Workers = {Crawler}
  /\ JobOrder \in Seq(Jobs)
  /\ Configs \subseteq Config
  /\ \A c \in Configs : Valid(c)
  /\ HostInterval \in [Jobs -> Intervals]
  /\ 0 \in Delays          \* an interrupted item is due again at once
  /\ {MaxSourcePollsPerRun, MaxURLsPerRun, MaxPagesPerRun, Horizon}
       \subseteq Nat

VARIABLES
  cfg,      \* the configuration of the last run
  run       \* where the process is

runVars == <<vars, cfg, run>>

Polling == {"poll", "source", "sourceHost", "sourceFetch"}
Admitting == {"admit", "page", "pageHost", "pageAdmit"}
Run == [stage : {"down", "seeds", "policy", "roots", "seedsAgain",
                 "policyAgain"} \cup Polling \cup Admitting,
        job : Nat, left : Nat, linkPages : Nat, asked : BOOLEAN,
        mark : Nat, exit : {"none", "ok", "interrupted", "stopped", "refused",
                            "policy", "killed"}]

RunInit ==
  /\ Init
  /\ cfg \in Configs
  /\ run = [stage |-> "down", job |-> 0, left |-> 0, linkPages |-> 0,
            asked |-> FALSE, mark |-> 0, exit |-> "none"]

(* How a step leaves the process: at another stage, with an exit, or at    *)
(* the i-th job of a loop over the jobs.                                   *)
Goto(stage) == run' = [run EXCEPT !.stage = stage]
Ended(exit) == [run EXCEPT !.stage = "down", !.exit = exit]
Exit(exit) == run' = Ended(exit)
AtJob(loop, i) ==
  IF i <= Len(JobOrder)
  THEN [run EXCEPT !.stage = loop, !.job = i, !.linkPages = MaxPagesPerRun,
                   !.left = IF loop = "poll" THEN MaxSourcePollsPerRun
                                             ELSE MaxURLsPerRun]
  ELSE IF loop = "poll" THEN [run EXCEPT !.stage = "seedsAgain"]
                        ELSE Ended("ok")
NextJobForgotten(loop) ==   \* slip: an empty queue is asked again and again
  run' = [run EXCEPT !.stage = loop]
NextJob(loop) == run' = AtJob(loop, run.job + 1)
Job == JobOrder[run.job]
TookTwice(stage) ==   \* slip: the loop counter moves twice per item
  run' = [run EXCEPT !.stage = stage, !.left = @ - 2]
Took(stage) == run' = [run EXCEPT !.stage = stage, !.left = @ - 1]

-----------------------------------------------------------------------------
(* main: the operator starts a run, possibly with an edited configuration. *)
Start(c) ==
  /\ run.stage = "down"
  /\ Reopen
  /\ cfg' = c
  /\ run' = [run EXCEPT !.stage = "seeds", !.mark = seq, !.exit = "none"]

Killed ==
  /\ run.stage # "down"
  /\ Exit("killed")
  /\ UNCHANGED <<vars, cfg>>

(* SyncPlan, twice: once before anything else and once before admissions.  *)
Seeds ==
  /\ \/ run.stage = "seeds" /\ Goto("policy")
     \/ run.stage = "seedsAgain" /\ Goto("policyAgain")
  /\ SyncSeeds(cfg.seeds)
  /\ UNCHANGED cfg
SeedsRefused ==
  /\ run.stage \in {"seeds", "seedsAgain"}
  /\ Cardinality(Present(entries, Pages) \cup cfg.seeds) > MaxEntries
  /\ Exit("refused")
  /\ UNCHANGED <<vars, cfg>>
Policy ==
  /\ \/ run.stage = "policy" /\ Goto("roots")
     \/ run.stage = "policyAgain" /\ run' = AtJob("admit", 1)
  /\ IF cfg.policy = policy THEN UNCHANGED vars
                            ELSE SyncLinkPolicies(cfg.policy)
  /\ UNCHANGED cfg

-----------------------------------------------------------------------------
(* SourceRunner.Run                                                        *)
RootsSynced ==
  /\ run.stage = "roots"
  /\ SyncDiscoverySources(cfg.roots, {})
  /\ IF cfg.roots = {} THEN Goto("seedsAgain") ELSE run' = AtJob("poll", 1)
  /\ UNCHANGED cfg

NothingToPoll ==
  /\ run.stage = "poll"
  /\ IF run.left = 0 THEN UNCHANGED vars ELSE LeaseNoSource(Crawler, Job)
  /\ NextJob("poll")
  /\ UNCHANGED cfg
PollSource ==
  /\ run.stage = "poll" /\ run.left > 0
  /\ LeaseSource(Crawler, Job)
  /\ Took("source")
  /\ UNCHANGED cfg

TheSource == work[Crawler].key
TooDeep == work[Crawler].depth > cfg.maxDepth[SourceRoot[TheSource]]

SourceKept(exit) ==   \* slip: the error returns without the release
  Exit(exit) /\ UNCHANGED vars

(* releaseInterrupted: the lease is given back as of now, the run ends.    *)
SourceReleased(exit) ==
  /\ CompleteDiscoverySource(Crawler, 0)
  /\ Exit(exit)
SourceInterrupted ==
  /\ run.stage \in {"source", "sourceHost", "sourceFetch"}
  /\ SourceReleased("interrupted")
  /\ UNCHANGED cfg

SourceWithoutPolicy ==
  /\ run.stage = "source" /\ TooDeep
  /\ SourceReleased("policy")
  /\ UNCHANGED cfg
SourceSkipped(d) ==
  /\ run.stage = "source" /\ ~TooDeep
  /\ TheSource \notin cfg.sourceScope
  /\ CompleteDiscoverySource(Crawler, d) /\ Goto("poll")
  /\ UNCHANGED cfg
SourceAccepted ==
  /\ run.stage = "source" /\ ~TooDeep
  /\ TheSource \in cfg.sourceScope
  /\ Goto("sourceHost")
  /\ UNCHANGED <<vars, cfg>>
SourceHostReserved ==
  /\ run.stage = "sourceHost"
  /\ ReserveHost(Crawler, HostInterval[Job])
  /\ Goto("sourceFetch")
  /\ UNCHANGED cfg

SourceFailedOn(d) ==   \* slip: no continue after the retry
  /\ run.stage = "sourceFetch"
  /\ CompleteDiscoverySource(Crawler, d)
  /\ UNCHANGED <<cfg, run>>

(* Any transport, status, parse or limit failure is a retry.               *)
SourceFailed(d) ==
  /\ run.stage = "sourceFetch"
  /\ CompleteDiscoverySource(Crawler, d) /\ Goto("poll")
  /\ UNCHANGED cfg
SourceUnchanged(d) ==   \* a 304, which the client only accepts if asked for
  /\ run.stage = "sourceFetch"
  /\ PreserveDiscoverySnapshot(Crawler, d) /\ Goto("poll")
  /\ UNCHANGED cfg

(* The document names pages P and children C: those outside the scope are  *)
(* dropped, children below the configured depth make it a failure.         *)
Eligible(P, C) ==
  LET s == TheSource
  IN  /\ P \subseteq cfg.scope /\ C \subseteq cfg.sourceScope
      /\ \A p \in P : PageJob[p] = SourceJob[s]
      /\ \A c \in C : c \notin {s, SourceRoot[s]}
                      /\ SourceRoot[c] = SourceRoot[s]
      /\ C # {} => work[Crawler].depth < cfg.maxDepth[SourceRoot[s]]
SourceApplied(P, C, d) ==
  /\ run.stage = "sourceFetch" /\ Eligible(P, C)
  /\ ApplyDiscoverySnapshot(Crawler, P, C, d) /\ Goto("poll")
  /\ UNCHANGED cfg
SourceTooLarge(P, C, d) ==
  /\ run.stage = "sourceFetch" /\ Eligible(P, C)
  /\ ~SnapshotFits(TheSource, P, C)
  /\ CompleteDiscoverySource(Crawler, d)
  /\ Exit("refused")
  /\ UNCHANGED cfg

-----------------------------------------------------------------------------
(* Runner.Run                                                              *)
NothingToAdmit ==
  /\ run.stage = "admit"
  /\ IF run.left = 0 THEN UNCHANGED vars ELSE LeaseNoPage(Crawler, Job)
  /\ NextJob("admit")
  /\ UNCHANGED cfg
AdmitPage ==
  /\ run.stage = "admit" /\ run.left > 0
  /\ LeasePage(Crawler, Job)
  /\ Took("page")
  /\ UNCHANGED cfg

(* The lease sequence is exhausted.                                        *)
LeaseRefused ==
  /\ run.left > 0 /\ seq = MaxSeq
  /\ \/ run.stage = "poll" /\ DueSources(Job) # {}
     \/ run.stage = "admit" /\ DuePages(Job) # {}
  /\ Exit("refused")
  /\ UNCHANGED <<vars, cfg>>

ThePage == work[Crawler].key

PageInterrupted ==
  /\ run.stage \in {"page", "pageHost", "pageAdmit"}
  /\ Complete(Crawler, "retry", 0)
  /\ Exit("interrupted")
  /\ UNCHANGED cfg
PageOutsideScope ==
  /\ run.stage = "page" /\ ThePage \notin cfg.scope
  /\ Complete(Crawler, "disabled", 0) /\ Goto("admit")
  /\ UNCHANGED cfg
PageAccepted ==
  /\ run.stage = "page" /\ ThePage \in cfg.scope
  /\ Goto("pageHost")
  /\ UNCHANGED <<vars, cfg>>

Expands == work[Crawler].expand /\ policy[Job] > 0

(* Links are asked for while the run's budget of link pages lasts.         *)
PageHostReserved ==
  LET asks == Expands /\ run.linkPages > 0
  IN  /\ run.stage = "pageHost"
      /\ ReserveHost(Crawler, HostInterval[Job])
      /\ run' = [run EXCEPT !.stage = "pageAdmit", !.asked = asks,
                            !.linkPages = IF asks THEN @ - 1 ELSE @]
      /\ UNCHANGED cfg

(* classifyAdmission, without a link snapshot: success when none was asked *)
(* for; a client error or exhausted attempts reject; a temporary failure   *)
(* retries and a fatal one or a full disk also stops the run.              *)
PageDone(outcome, d) ==
  /\ run.stage = "pageAdmit"
  /\ outcome = "succeeded" => ~(Expands /\ run.asked)
  /\ Complete(Crawler, outcome, d)
  /\ Goto("admit")
  /\ UNCHANGED cfg
PageStops(d) ==
  /\ run.stage = "pageAdmit"
  /\ Complete(Crawler, "retry", d)
  /\ Exit("stopped")
  /\ UNCHANGED cfg

(* A verdict of the API on a page that may publish links.  A snapshot the  *)
(* store has no room for ends the run without giving the lease back.       *)
PageLinks(outcome, L) ==
  /\ run.stage = "pageAdmit" /\ Expands
  /\ outcome = "succeeded" => run.asked
  /\ outcome = "rejected" => L = {}
  /\ L \subseteq cfg.scope \ {ThePage}
  /\ \A q \in L : PageJob[q] = PageJob[ThePage]
PageExpanded(outcome, d, L) ==
  /\ PageLinks(outcome, L)
  /\ CompleteWithLinks(Crawler, outcome, d, L) /\ Goto("admit")
  /\ UNCHANGED cfg
LinksTooMany(L) ==
  /\ PageLinks("succeeded", L) /\ Cardinality(L) <= policy[Job]
  /\ ~LinksFit(ThePage, L)
  /\ Exit("refused")
  /\ UNCHANGED <<vars, cfg>>

-----------------------------------------------------------------------------
(* A reservation that has to wait sleeps, so time passes there; elsewhere  *)
(* the clock is bounded.                                                   *)
Waiting == /\ run.stage \in {"sourceHost", "pageHost"}
           /\ ~Rested(WorkAuthority(Crawler), HostInterval[Job])
TimePasses ==
  /\ now < Horizon \/ Waiting
  /\ Tick
  /\ UNCHANGED <<cfg, run>>

Rechecks == Delays \ {0}   \* configured intervals are positive

SourceStep ==
  \/ RootsSynced \/ NothingToPoll \/ PollSource
  \/ SourceWithoutPolicy \/ SourceAccepted \/ SourceHostReserved
  \/ \E d \in Rechecks :
       \/ SourceSkipped(d) \/ SourceFailed(d) \/ SourceUnchanged(d)
       \/ \E P \in SUBSET Pages, C \in SUBSET Sources :
            SourceApplied(P, C, d) \/ SourceTooLarge(P, C, d)
PageStep ==
  \/ NothingToAdmit \/ AdmitPage \/ PageOutsideScope \/ PageAccepted
  \/ PageHostReserved
  \/ \E d \in Rechecks :
       \/ PageStops(d)
       \/ \E o \in {"succeeded", "rejected", "retry"} : PageDone(o, d)
       \/ \E o \in {"succeeded", "rejected"}, L \in SUBSET Pages :
            PageExpanded(o, d, L)
  \/ \E L \in SUBSET Pages : LinksTooMany(L)
RunStep == Seeds \/ SeedsRefused \/ Policy \/ LeaseRefused
           \/ SourceStep \/ PageStep

RunNext ==
  \/ \E c \in Configs : Start(c)
  \/ RunStep
  \/ SourceInterrupted \/ PageInterrupted \/ Killed
  \/ TimePasses

RunSpec == RunInit /\ [][RunNext]_runVars

(* The process is scheduled, its HTTP calls end by their timeouts, and     *)
(* time passes.  Nobody is obliged to start another run.                   *)
FairRuns == RunSpec /\ WF_runVars(RunStep) /\ WF_runVars(TimePasses)

-----------------------------------------------------------------------------
RunTypeOK == cfg \in Configs /\ run \in Run

(* What the process works on is its own: from the lease to the completion  *)
(* no expiry, synchronisation or reconciliation takes the item away, so    *)
(* none of its completions is refused as stale.                            *)
WorksOnItsLease ==
  /\ run.stage \in Polling \ {"poll"} => SourceLeaseCurrent(Crawler)
  /\ run.stage \in Admitting \ {"admit"} => PageLeaseCurrent(Crawler)

(* Leases taken by a run do not outlive it, unless it was killed or the    *)
(* store refused a link snapshot; and a run never holds two.               *)
LeasesGivenBack ==
  LET held == {p \in Pages : entries[p].state = "leased"
                             /\ entries[p].gen > run.mark}
      polled == {s \in Sources : sources[s].state = "leased"
                                 /\ sources[s].gen > run.mark}
  IN  /\ run.stage = "down" /\ run.exit \notin {"killed", "refused"}
           => held = {} /\ polled = {}
      /\ Cardinality(held) + Cardinality(polled) <= 1
      /\ run.stage \notin Polling \cup {"down"} => polled = {}
      /\ run.stage \notin Admitting \cup {"down"} => held = {}

(* Every run ends.                                                         *)
RunsEnd == (run.stage # "down") ~> (run.stage = "down")

(* source_runner.go:208-210: policy narrowing is an expected configuration *)
(* change and must not suppress unrelated page admissions, as a run that   *)
(* ends before its second SyncPlan does.                                   *)
NarrowingSuppressesNothing == run.exit # "policy"

(* docs/adr/0005:64-65: a page is active while owned.  Stated of pages the *)
(* current configuration allows, after a run that finished.                *)
OwnedPagesAreActive ==
  run.stage = "down" /\ run.exit = "ok" =>
    \A p \in cfg.scope :
      Owned(p, entries, sources, pageOf, links)
        => entries[p].state # "disabled"
=============================================================================
