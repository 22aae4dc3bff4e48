--------------------------- MODULE CrawlRun_proofs ---------------------------
(* What holds of every run of the crawler, on any configuration.           *)
EXTENDS CrawlRun, CrawlFrontier_proofs

(* A run only ever asks the store for what the store's own specification   *)
(* allows, and stays inside its list of jobs while it loops over it.       *)
RunShape ==
  /\ RunTypeOK
  /\ run.stage \in Polling \cup Admitting => run.job \in 1..Len(JobOrder)

LEMMA JobInOrder ==
  ASSUME RunShape, run.stage \in Polling \cup Admitting
  PROVE  Job \in Jobs
  BY RunAssumption DEF RunShape, Job

LEMMA CrawlerWorks == Crawler \in Workers
  BY RunAssumption

LEMMA ConfigParts ==
  ASSUME RunTypeOK
  PROVE  /\ cfg.seeds \in SUBSET Pages /\ cfg.roots \in SUBSET Roots
         /\ cfg.policy \in [Jobs -> 0..MaxLinksPerPage]
  BY RunAssumption DEF RunTypeOK, Config

LEMMA LoopShape ==
  ASSUME RunTypeOK, NEW loop \in {"poll", "admit"}, NEW i \in Nat \ {0},
         run' = AtJob(loop, i), cfg' \in Configs
  PROVE  RunShape'
<1>1. Len(JobOrder) \in Nat
  BY RunAssumption
<1>2. CASE i <= Len(JobOrder)
  <2> DEFINE budget == IF loop = "poll" THEN MaxSourcePollsPerRun
                                        ELSE MaxURLsPerRun
  <2>1. run' = [run EXCEPT !.stage = loop, !.job = i,
                           !.linkPages = MaxPagesPerRun, !.left = budget]
    BY <1>2 DEF AtJob
  <2>2. budget \in Nat /\ MaxPagesPerRun \in Nat
    BY RunAssumption
  <2>3. run' \in Run /\ run'.job = i
    <3> HIDE DEF budget
    <3> QED BY <2>1, <2>2 DEF RunTypeOK, Run, Polling, Admitting
  <2> QED
    BY <1>1, <1>2, <2>3 DEF RunShape, RunTypeOK
<1>3. CASE ~(i <= Len(JobOrder))
  <2>1. run' \in {[run EXCEPT !.stage = "seedsAgain"], Ended("ok")}
    BY <1>3 DEF AtJob
  <2> QED
    BY <2>1 DEF RunShape, RunTypeOK, Run, Polling, Admitting, Ended
<1> QED
  BY <1>2, <1>3

LEMMA LeafShape ==
  ASSUME RunShape, cfg' \in Configs,
         NEW stage \in {"policy", "roots", "seedsAgain", "policyAgain"}
                       \cup Polling \cup Admitting,
         stage \in Polling \cup Admitting
           => run.stage \in Polling \cup Admitting,
         Goto(stage)
  PROVE  RunShape'
  BY DEF RunShape, RunTypeOK, Run, Polling, Admitting, Goto

LEMMA ExitShape ==
  ASSUME RunShape, cfg' \in Configs,
         NEW exit \in {"ok", "interrupted", "stopped", "refused", "policy",
                       "killed"},
         Exit(exit)
  PROVE  RunShape'
  BY DEF RunShape, RunTypeOK, Run, Polling, Admitting, Exit, Ended

LEMMA NextJobShape ==
  ASSUME RunShape, cfg' \in Configs, NEW loop \in {"poll", "admit"},
         run.stage = loop, NextJob(loop)
  PROVE  RunShape'
<1>1. run.job \in Nat
  BY DEF RunShape, RunTypeOK, Run
<1> QED
  BY <1>1, LoopShape DEF NextJob, RunShape

LEMMA TookShape ==
  ASSUME RunShape, cfg' \in Configs, NEW stage \in {"source", "page"},
         run.stage \in {"poll", "admit"}, run.left > 0, Took(stage)
  PROVE  RunShape'
<1>1. run \in Run /\ run.left - 1 \in Nat
  BY DEF RunShape, RunTypeOK, Run
<1>2. run' = [run EXCEPT !.stage = stage, !.left = run.left - 1]
  BY <1>1 DEF Took, Run
<1>3. run' \in Run /\ run'.job = run.job
  BY <1>1, <1>2 DEF Run, Polling, Admitting
<1> QED
  BY <1>3 DEF RunShape, RunTypeOK, Polling, Admitting

(* Every step of a process is a step of the frontier store.                *)
LEMMA SourceStepShape ==
  ASSUME RunShape, SourceStep
  PROVE  RunShape' /\ [Next]_vars
<1> USE CrawlerWorks
<1>1. RunTypeOK /\ cfg \in Configs
  BY DEF RunShape, RunTypeOK
<1>2. CASE RootsSynced
  <2>1. RunShape'
    BY <1>1, <1>2, LeafShape, LoopShape DEF RootsSynced, Polling, Admitting
  <2>2. {} \in SUBSET (cfg.roots \cap Present(sources, Sources))
    OBVIOUS
  <2> QED
    BY <1>1, <1>2, <2>1, <2>2, ConfigParts DEF RootsSynced, Next
<1>3. CASE NothingToPoll \/ PollSource
  <2>1. Job \in Jobs
    BY <1>3, JobInOrder DEF NothingToPoll, PollSource, Polling
  <2>2. RunShape'
    BY <1>1, <1>3, NextJobShape, TookShape DEF NothingToPoll, PollSource
  <2> QED
    BY <1>3, <2>1, <2>2 DEF NothingToPoll, PollSource, Next
<1>4. CASE SourceWithoutPolicy
  <2>1. RunShape'
    BY <1>1, <1>4, ExitShape DEF SourceWithoutPolicy, SourceReleased
  <2> QED
    BY <1>4, <2>1, RunAssumption
    DEF SourceWithoutPolicy, SourceReleased, Next
<1>5. CASE SourceAccepted
  BY <1>1, <1>5, LeafShape DEF SourceAccepted, Polling, Admitting
<1>6. CASE SourceHostReserved
  <2>1. RunShape'
    BY <1>1, <1>6, LeafShape DEF SourceHostReserved, Polling, Admitting
  <2>2. HostInterval[Job] \in Intervals
    BY <1>6, JobInOrder, RunAssumption DEF SourceHostReserved, Polling
  <2> QED
    BY <1>6, <2>1, <2>2 DEF SourceHostReserved, Next
<1>7. ASSUME NEW d \in Rechecks,
             SourceSkipped(d) \/ SourceFailed(d) \/ SourceUnchanged(d)
      PROVE  RunShape' /\ [Next]_vars
  <2>1. RunShape'
    BY <1>1, <1>7, LeafShape
    DEF SourceSkipped, SourceFailed, SourceUnchanged, Polling, Admitting
  <2>2. d \in Delays
    BY <1>7 DEF Rechecks
  <2> QED
    BY <1>7, <2>1, <2>2 DEF SourceSkipped, SourceFailed, SourceUnchanged, Next
<1>8. ASSUME NEW d \in Rechecks, NEW P \in SUBSET Pages,
             NEW C \in SUBSET Sources,
             SourceApplied(P, C, d) \/ SourceTooLarge(P, C, d)
      PROVE  RunShape' /\ [Next]_vars
  <2>1. RunShape'
    BY <1>1, <1>8, LeafShape, ExitShape
    DEF SourceApplied, SourceTooLarge, Polling, Admitting
  <2>2. d \in Delays
    BY <1>8 DEF Rechecks
  <2> QED
    BY <1>8, <2>1, <2>2 DEF SourceApplied, SourceTooLarge, Next
<1> QED
  BY <1>2, <1>3, <1>4, <1>5, <1>6, <1>7, <1>8 DEF SourceStep

LEMMA PageStepShape ==
  ASSUME RunShape, PageStep
  PROVE  RunShape' /\ [Next]_vars
<1> USE CrawlerWorks
<1>1. RunTypeOK /\ cfg \in Configs
  BY DEF RunShape, RunTypeOK
<1>2. CASE NothingToAdmit \/ AdmitPage
  <2>1. Job \in Jobs
    BY <1>2, JobInOrder DEF NothingToAdmit, AdmitPage, Admitting
  <2>2. RunShape'
    BY <1>1, <1>2, NextJobShape, TookShape DEF NothingToAdmit, AdmitPage
  <2> QED
    BY <1>2, <2>1, <2>2 DEF NothingToAdmit, AdmitPage, Next
<1>3. CASE PageOutsideScope
  <2>1. RunShape'
    BY <1>1, <1>3, LeafShape DEF PageOutsideScope, Polling, Admitting
  <2> QED
    BY <1>3, <2>1, RunAssumption DEF PageOutsideScope, Next
<1>4. CASE PageAccepted
  BY <1>1, <1>4, LeafShape DEF PageAccepted, Polling, Admitting
<1>5. CASE PageHostReserved
  <2> DEFINE asks == Expands /\ run.linkPages > 0
  <2> DEFINE n == IF asks THEN run.linkPages - 1 ELSE run.linkPages
  <2>1. run' = [run EXCEPT !.stage = "pageAdmit", !.asked = asks,
                           !.linkPages = n]
    BY <1>1, <1>5 DEF PageHostReserved, RunTypeOK, Run
  <2>2. n \in Nat /\ asks \in BOOLEAN /\ run \in Run
    BY <1>1 DEF RunTypeOK, Run
  <2>3. run' \in Run /\ run'.job = run.job /\ run'.stage = "pageAdmit"
    <3> HIDE DEF asks, n
    <3> QED BY <2>1, <2>2 DEF Run, Admitting
  <2>4. RunShape'
    BY <1>1, <1>5, <2>3
    DEF RunShape, RunTypeOK, PageHostReserved, Admitting, Polling
  <2>5. HostInterval[Job] \in Intervals
    BY <1>5, JobInOrder, RunAssumption DEF PageHostReserved, Admitting
  <2> QED
    BY <1>5, <2>4, <2>5 DEF PageHostReserved, Next
<1>6. ASSUME NEW d \in Rechecks, PageStops(d)
      PROVE  RunShape' /\ [Next]_vars
  <2>1. RunShape'
    BY <1>1, <1>6, ExitShape DEF PageStops
  <2> QED
    BY <1>6, <2>1 DEF PageStops, Rechecks, Next
<1>7. ASSUME NEW d \in Rechecks,
             NEW o \in {"succeeded", "rejected", "retry"}, PageDone(o, d)
      PROVE  RunShape' /\ [Next]_vars
  <2>1. RunShape'
    BY <1>1, <1>7, LeafShape DEF PageDone, Polling, Admitting
  <2> QED
    BY <1>7, <2>1 DEF PageDone, Rechecks, Next
<1>8. ASSUME NEW d \in Rechecks, NEW o \in {"succeeded", "rejected"},
             NEW L \in SUBSET Pages, PageExpanded(o, d, L)
      PROVE  RunShape' /\ [Next]_vars
  <2>1. RunShape'
    BY <1>1, <1>8, LeafShape DEF PageExpanded, PageLinks, Polling, Admitting
  <2> QED
    BY <1>8, <2>1 DEF PageExpanded, Rechecks, Next
<1>9. ASSUME NEW L \in SUBSET Pages, LinksTooMany(L)
      PROVE  RunShape' /\ [Next]_vars
  BY <1>1, <1>9, ExitShape DEF LinksTooMany
<1> QED
  BY <1>2, <1>3, <1>4, <1>5, <1>6, <1>7, <1>8, <1>9 DEF PageStep

LEMMA RunStepShape ==
  ASSUME TypeOK, RunShape, [RunNext]_runVars
  PROVE  RunShape' /\ [Next]_vars
<1> USE CrawlerWorks
<1>1. RunTypeOK /\ cfg \in Configs
  BY DEF RunShape, RunTypeOK
<1>2. ASSUME NEW c \in Configs, Start(c)
      PROVE  RunShape' /\ [Next]_vars
  <2>1. seq \in Nat
    BY DEF TypeOK
  <2>2. RunShape'
    BY <1>1, <1>2, <2>1
    DEF Start, RunShape, RunTypeOK, Run, Polling, Admitting
  <2> QED
    BY <1>2, <2>2 DEF Start, Next
<1>3. CASE Seeds
  <2>1. RunShape'
    BY <1>1, <1>3, LeafShape DEF Seeds, Polling, Admitting
  <2> QED
    BY <1>1, <1>3, <2>1, ConfigParts DEF Seeds, Next
<1>4. CASE Policy
  <2>1. RunShape'
    BY <1>1, <1>4, LeafShape, LoopShape DEF Policy, Polling, Admitting
  <2> QED
    BY <1>1, <1>4, <2>1, ConfigParts DEF Policy, Next
<1>5. CASE SeedsRefused \/ LeaseRefused \/ Killed
  BY <1>1, <1>5, ExitShape DEF SeedsRefused, LeaseRefused, Killed
<1>6. CASE SourceStep \/ PageStep
  BY <1>6, SourceStepShape, PageStepShape
<1>7. CASE SourceInterrupted \/ PageInterrupted
  <2>1. RunShape'
    BY <1>1, <1>7, ExitShape
    DEF SourceInterrupted, SourceReleased, PageInterrupted
  <2> QED
    BY <1>7, <2>1, RunAssumption
    DEF SourceInterrupted, SourceReleased, PageInterrupted, Next
<1>8. CASE TimePasses \/ UNCHANGED runVars
  BY <1>8 DEF TimePasses, runVars, vars, Next, RunShape, RunTypeOK
<1> QED
  BY <1>2, <1>3, <1>4, <1>5, <1>6, <1>7, <1>8 DEF RunNext, RunStep

LEMMA RunStart ==
  ASSUME RunInit
  PROVE  Init /\ TypeOK /\ RunShape
<1>1. TypeOK
  BY TypeInit DEF RunInit
<1> QED
  BY <1>1 DEF RunInit, RunShape, RunTypeOK, Run, Polling, Admitting

(* Whatever the crawler does to its store the store's specification        *)
(* allows, so every theorem about the frontier holds of every run.         *)
THEOREM RunsUseTheFrontier == RunSpec => Spec /\ []RunTypeOK
<1>1. TypeOK /\ RunShape /\ [RunNext]_runVars
        => (TypeOK /\ RunShape)' /\ [Next]_vars
  BY RunStepShape, StepEffect
<1>2. RunShape => RunTypeOK
  BY DEF RunShape
<1> QED
  BY RunStart, <1>1, <1>2, PTL DEF RunSpec, Spec

(* Dispatches of all runs, jobs and loops to one host keep their distance. *)
THEOREM RunsArePolite ==
  ASSUME PruneLimits = {}
  PROVE  RunSpec => PoliteDispatch
  BY RunsUseTheFrontier, DispatchIsPolite

(* However the process is interrupted or dies between two calls, the next  *)
(* run can open the store it leaves, with the schedule its graphs ask for, *)
(* and no run stops crawling a page that is still owned.                   *)
THEOREM RunsLeaveSoundStores ==
  RunSpec => [](AllReopen /\ ScheduleFollowsOwnership) /\ OwnedStaysActive
  BY RunsUseTheFrontier, FrontierReopens, ScheduleIsOwned, OwnedPagesStay, PTL

-----------------------------------------------------------------------------
(* A lease just granted is current, and no step between the lease and the  *)
(* completion touches the leased record.                                   *)
LEMMA GrantedIsCurrent ==
  ASSUME TypeOK, NEW j
  PROVE  /\ LeasePage(Crawler, j) => PageLeaseCurrent(Crawler)'
         /\ LeaseSource(Crawler, j) => SourceLeaseCurrent(Crawler)'
<1> USE CrawlerWorks
<1>1. ASSUME LeasePage(Crawler, j)
      PROVE  PageLeaseCurrent(Crawler)'
  <2>1. RecoveredPages(entries, leases) \in [Pages -> Entry]
    BY RecoveredTypes
  <2>2. DuePages(j) \subseteq Nat \X Pages
    BY RecoveredTypes DEF DuePages, TypeOK
  <2>3. PICK x \in DuePages(j) :
          /\ entries' = [RecoveredPages(entries, leases) EXCEPT ![x[2]] =
               [RecoveredPages(entries, leases)[x[2]]
                  EXCEPT !.state = "leased", !.gen = seq + 1,
                         !.until = now + LeaseTTL,
                         !.attempts =
                           RecoveredPages(entries, leases)[x[2]].attempts + 1]]
          /\ work' = [work EXCEPT ![Crawler] =
               [kind |-> "page", key |-> x[2], gen |-> seq + 1, depth |-> 0,
                expand |-> BaseOwned(x[2], entries, sources, pageOf)
                           /\ policy[j] > 0]]
    BY <1>1 DEF LeasePage
  <2>4. /\ entries'[x[2]].state = "leased" /\ entries'[x[2]].gen = seq + 1
        /\ work'[Crawler].kind = "page" /\ work'[Crawler].key = x[2]
        /\ work'[Crawler].gen = seq + 1
    BY <2>1, <2>2, <2>3 DEF TypeOK, Entry
  <2> QED
    BY <2>4 DEF PageLeaseCurrent
<1>2. ASSUME LeaseSource(Crawler, j)
      PROVE  SourceLeaseCurrent(Crawler)'
  <2>1. RecoveredSources(sources, srcLeases) \in [Sources -> Source]
    BY RecoveredTypes
  <2>2. DueSources(j) \subseteq Nat \X Sources
    BY RecoveredTypes DEF DueSources, TypeOK
  <2>3. PICK x \in DueSources(j) :
          /\ sources' = [RecoveredSources(sources, srcLeases) EXCEPT ![x[2]] =
               [RecoveredSources(sources, srcLeases)[x[2]]
                  EXCEPT !.state = "leased", !.gen = seq + 1,
                         !.until = now + LeaseTTL]]
          /\ work' = [work EXCEPT ![Crawler] =
               [kind |-> "source", key |-> x[2], gen |-> seq + 1,
                expand |-> FALSE,
                depth |-> RecoveredSources(sources, srcLeases)[x[2]].depth]]
    BY <1>2 DEF LeaseSource
  <2>4. /\ sources'[x[2]].state = "leased" /\ sources'[x[2]].gen = seq + 1
        /\ work'[Crawler].kind = "source" /\ work'[Crawler].key = x[2]
        /\ work'[Crawler].gen = seq + 1
    BY <2>1, <2>2, <2>3 DEF TypeOK, Source
  <2> QED
    BY <2>4 DEF SourceLeaseCurrent
<1> QED
  BY <1>1, <1>2

LEMMA CurrentStays ==
  ASSUME UNCHANGED <<entries, sources, work>>
  PROVE  /\ PageLeaseCurrent(Crawler)' <=> PageLeaseCurrent(Crawler)
         /\ SourceLeaseCurrent(Crawler)' <=> SourceLeaseCurrent(Crawler)
  BY DEF PageLeaseCurrent, SourceLeaseCurrent

LEMMA WorksStep ==
  ASSUME TypeOK, RunShape, WorksOnItsLease, [RunNext]_runVars
  PROVE  WorksOnItsLease'
<1> USE DEF Polling, Admitting
<1>0. run \in Run
  BY DEF RunShape, RunTypeOK
<1>2. CASE run'.stage \in {"down", "seeds", "policy", "roots", "seedsAgain",
                           "policyAgain", "poll", "admit"}
  BY <1>2 DEF WorksOnItsLease
<1>3. CASE AdmitPage
  <2>1. run'.stage = "page"
    BY <1>0, <1>3 DEF AdmitPage, Took, Run
  <2> QED
    BY <1>3, <2>1, GrantedIsCurrent DEF AdmitPage, WorksOnItsLease
<1>4. CASE PollSource
  <2>1. run'.stage = "source"
    BY <1>0, <1>4 DEF PollSource, Took, Run
  <2> QED
    BY <1>4, <2>1, GrantedIsCurrent DEF PollSource, WorksOnItsLease
<1>5. CASE \E c \in Configs : Start(c)
  BY <1>0, <1>2, <1>5 DEF Start, Run
<1>6. CASE Seeds \/ Policy \/ RootsSynced \/ NothingToPoll \/ NothingToAdmit
  <2>1. \A loop \in {"poll", "admit"}, i \in Nat :
          AtJob(loop, i).stage \in {loop, "seedsAgain", "down"}
    BY <1>0 DEF AtJob, Ended, Run
  <2>2. run.job + 1 \in Nat
    BY <1>0 DEF Run
  <2> QED
    BY <1>0, <1>2, <1>6, <2>1, <2>2
    DEF Seeds, Policy, RootsSynced, NothingToPoll, NothingToAdmit, NextJob,
        Goto, Run
<1>7. CASE SeedsRefused \/ LeaseRefused \/ Killed
           \/ SourceInterrupted \/ PageInterrupted \/ SourceWithoutPolicy
           \/ (\E L \in SUBSET Pages : LinksTooMany(L))
           \/ (\E d \in Rechecks : PageStops(d))
           \/ (\E d \in Rechecks, P \in SUBSET Pages, C \in SUBSET Sources :
                 SourceTooLarge(P, C, d))
  <2>1. \E exit : Exit(exit)
    BY <1>7 DEF SeedsRefused, LeaseRefused, Killed, SourceInterrupted,
       PageInterrupted, SourceWithoutPolicy, SourceReleased, LinksTooMany,
       PageStops, SourceTooLarge
  <2> QED
    BY <1>0, <1>2, <2>1 DEF Exit, Ended, Run
<1>8. CASE PageOutsideScope
           \/ (\E d \in Rechecks :
                 SourceSkipped(d) \/ SourceFailed(d) \/ SourceUnchanged(d))
           \/ (\E d \in Rechecks, P \in SUBSET Pages, C \in SUBSET Sources :
                 SourceApplied(P, C, d))
           \/ (\E d \in Rechecks, o \in {"succeeded", "rejected", "retry"} :
                 PageDone(o, d))
           \/ (\E d \in Rechecks, o \in {"succeeded", "rejected"},
                  L \in SUBSET Pages : PageExpanded(o, d, L))
  <2>1. Goto("poll") \/ Goto("admit")
    BY <1>8 DEF PageOutsideScope, SourceSkipped, SourceFailed,
       SourceUnchanged, SourceApplied, PageDone, PageExpanded
  <2> QED
    BY <1>0, <1>2, <2>1 DEF Goto, Run
<1>9. CASE SourceAccepted \/ PageAccepted
  <2>1. \/ run.stage = "source" /\ run'.stage = "sourceHost"
        \/ run.stage = "page" /\ run'.stage = "pageHost"
    BY <1>0, <1>9 DEF SourceAccepted, PageAccepted, Goto, Run
  <2>2. UNCHANGED <<entries, sources, work>>
    BY <1>9 DEF SourceAccepted, PageAccepted, vars, store
  <2> QED
    BY <2>1, <2>2, CurrentStays DEF WorksOnItsLease
<1>10. CASE SourceHostReserved \/ PageHostReserved
  <2>1. \/ run.stage = "sourceHost" /\ run'.stage = "sourceFetch"
        \/ run.stage = "pageHost" /\ run'.stage = "pageAdmit"
    BY <1>0, <1>10 DEF SourceHostReserved, PageHostReserved, Goto, Run
  <2>2. UNCHANGED <<entries, sources, work>>
    BY <1>10 DEF SourceHostReserved, PageHostReserved, ReserveHost
  <2> QED
    BY <2>1, <2>2, CurrentStays DEF WorksOnItsLease
<1>11. CASE TimePasses \/ UNCHANGED runVars
  <2>1. UNCHANGED <<entries, sources, work, run>>
    BY <1>11 DEF TimePasses, Tick, runVars, vars, store
  <2> QED
    BY <2>1, CurrentStays DEF WorksOnItsLease
<1> QED
  BY <1>3, <1>4, <1>5, <1>6, <1>7, <1>8, <1>9, <1>10, <1>11
  DEF RunNext, RunStep, SourceStep, PageStep

(* The process never loses the item it works on, however long the fetch    *)
(* takes: no completion of a run is refused as stale.                      *)
THEOREM RunsWorkOnTheirLeases == RunSpec => []WorksOnItsLease
<1>1. RunInit => TypeOK /\ RunShape /\ WorksOnItsLease
  <2>1. RunInit => WorksOnItsLease
    BY DEF RunInit, WorksOnItsLease, Polling, Admitting
  <2> QED
    BY <2>1, RunStart
<1>2. TypeOK /\ RunShape /\ WorksOnItsLease /\ [RunNext]_runVars
        => (TypeOK /\ RunShape /\ WorksOnItsLease)'
  BY RunStepShape, StepEffect, WorksStep
<1> QED
  BY <1>1, <1>2, PTL DEF RunSpec

-----------------------------------------------------------------------------
(* Giving leases back.  The leases a run has taken are those with a number *)
(* after the sequence it found; until it exits, and after any exit that    *)
(* gives them back, they are at most the one of the item it works on.      *)
Fresh == {i \in Items : Owner[i] > run.mark}
Mine == IF run.stage \in Polling \ {"poll"} THEN {<<"source", work[Crawler].key>>}
        ELSE IF run.stage \in Admitting \ {"admit"} THEN {<<"page", work[Crawler].key>>}
        ELSE {}
LeftBehind == run.stage = "down" /\ run.exit \in {"killed", "refused"}
Tidy ==
  /\ run.mark <= seq
  /\ \A i \in Items : Owner[i] <= seq
  /\ \A i, j \in Fresh : i = j
  /\ ~LeftBehind => Fresh \subseteq Mine

LEMMA OwnersCount ==
  ASSUME TypeOK
  PROVE  \A i \in Items : Owner[i] \in Nat
<1>1. \A i \in Items : /\ i[1] = "page" => i[2] \in Pages
                       /\ i[1] # "page" => i[2] \in Sources
  BY DEF Items
<1> QED
  BY <1>1 DEF Owner, TypeOK, Entry, Source

(* A step that draws no number begins no lease.                            *)
LEMMA OwnersEnd ==
  ASSUME TypeOK, [Next]_vars, seq' = seq
  PROVE  \A i \in Items : Owner'[i] \in {0, Owner[i]}
<1>1. ~Granted
  <2>1. Granted => seq' = seq + 1
    BY DEF Granted
  <2> QED
    BY <2>1 DEF TypeOK
<1>2. Quiet \/ Finished
  BY <1>1, StepEffect
<1>3. KeepsPages(entries, entries', {}) /\ KeepsSources(sources, sources', {})
  BY <1>2 DEF Quiet, Finished
<1> QED
  BY <1>3, OwnerKept

LEMMA NumbersDrawnByLeases ==
  ASSUME [RunNext]_runVars, ~AdmitPage, ~PollSource
  PROVE  seq' = seq
<1>1. ASSUME NEW S, SyncSeeds(S) \/ (\E K : SyncDiscoverySources(S, K)) \/ SyncLinkPolicies(S)
      PROVE  seq' = seq
  BY <1>1 DEF SyncSeeds, SyncDiscoverySources, SyncLinkPolicies
<1>2. ASSUME NEW o, NEW d, NEW L, Complete(Crawler, o, d) \/ CompleteWithLinks(Crawler, o, d, L)
      PROVE  seq' = seq
  BY <1>2 DEF Complete, CompleteWithLinks
<1>3. ASSUME NEW P, NEW C, NEW d,
             \/ CompleteDiscoverySource(Crawler, d) \/ PreserveDiscoverySnapshot(Crawler, d)
             \/ ApplyDiscoverySnapshot(Crawler, P, C, d)
      PROVE  seq' = seq
  BY <1>3 DEF CompleteDiscoverySource, PreserveDiscoverySnapshot, ApplyDiscoverySnapshot,
              SourceDone
<1>4. ASSUME NEW i, NEW j,
             \/ LeaseNoPage(Crawler, j) \/ LeaseNoSource(Crawler, j)
             \/ ReserveHost(Crawler, i) \/ Reopen \/ Tick \/ UNCHANGED vars
      PROVE  seq' = seq
  BY <1>4 DEF LeaseNoPage, LeaseNoSource, ReserveHost, Reopen, Tick, vars, store
<1>5. CASE (\E c \in Configs : Start(c)) \/ TimePasses \/ Killed \/ UNCHANGED runVars
  BY <1>4, <1>5 DEF Start, TimePasses, Killed, runVars
<1>6. CASE Seeds \/ SeedsRefused \/ Policy \/ LeaseRefused
  BY <1>1, <1>4, <1>6 DEF Seeds, SeedsRefused, Policy, LeaseRefused
<1>7. CASE SourceStep \/ SourceInterrupted
  BY <1>1, <1>3, <1>4, <1>7
     DEF SourceStep, RootsSynced, NothingToPoll, SourceWithoutPolicy, SourceReleased,
         SourceAccepted, SourceHostReserved, SourceSkipped, SourceFailed, SourceUnchanged,
         SourceApplied, SourceTooLarge, SourceInterrupted
<1>8. CASE PageStep \/ PageInterrupted
  BY <1>2, <1>4, <1>8
     DEF PageStep, NothingToAdmit, PageOutsideScope, PageAccepted, PageHostReserved,
         PageStops, PageDone, PageExpanded, LinksTooMany, PageInterrupted
<1> QED
  BY <1>5, <1>6, <1>7, <1>8 DEF RunNext, RunStep

LEMMA MarkStays ==
  ASSUME RunShape, [RunNext]_runVars, ~(\E c \in Configs : Start(c))
  PROVE  run'.mark = run.mark
<1>0. run \in Run
  BY DEF RunShape, RunTypeOK
<1>1. /\ \A stage : Goto(stage) \/ Took(stage) => run'.mark = run.mark
      /\ \A exit : Exit(exit) => run'.mark = run.mark
      /\ \A loop, i : run' = AtJob(loop, i) => run'.mark = run.mark
  BY <1>0 DEF Goto, Took, Exit, Ended, AtJob, Run
<1>2. CASE Seeds \/ SeedsRefused \/ Policy \/ LeaseRefused \/ Killed \/ TimePasses
           \/ UNCHANGED runVars
  BY <1>1, <1>2 DEF Seeds, SeedsRefused, Policy, LeaseRefused, Killed, TimePasses, runVars
<1>3. CASE SourceStep \/ SourceInterrupted
  BY <1>1, <1>3
     DEF SourceStep, RootsSynced, NothingToPoll, PollSource, NextJob, SourceWithoutPolicy,
         SourceReleased, SourceAccepted, SourceHostReserved, SourceSkipped, SourceFailed,
         SourceUnchanged, SourceApplied, SourceTooLarge, SourceInterrupted
<1>4. CASE PageHostReserved
  BY <1>0, <1>4 DEF PageHostReserved, Run
<1>5. CASE (PageStep /\ ~PageHostReserved) \/ PageInterrupted
  BY <1>1, <1>5
     DEF PageStep, NothingToAdmit, AdmitPage, NextJob, PageOutsideScope, PageAccepted,
         PageStops, PageDone, PageExpanded, LinksTooMany, PageInterrupted
<1> QED
  BY <1>2, <1>3, <1>4, <1>5 DEF RunNext, RunStep

(* Where no lease begins, those of the run must be gone, or be its item's, *)
(* or be left behind.                                                      *)
LEMMA TidyKept ==
  ASSUME TypeOK, RunShape, Tidy, [RunNext]_runVars, ~(\E c \in Configs : Start(c)),
         ~AdmitPage, ~PollSource,
         LeftBehind' \/ \A i \in Fresh : Owner'[i] = 0 \/ i \in Mine'
  PROVE  Tidy'
<1>1. /\ seq' = seq /\ run'.mark = run.mark
      /\ \A i \in Items : Owner'[i] \in {0, Owner[i]} /\ Owner[i] \in Nat
  BY NumbersDrawnByLeases, MarkStays, RunStepShape, OwnersEnd, OwnersCount
<1>2. seq \in Nat /\ run.mark \in Nat
  BY DEF TypeOK, RunShape, RunTypeOK, Run
<1>3. \A i \in Fresh' : i \in Fresh /\ Owner'[i] # 0
  BY <1>1, <1>2 DEF Fresh
<1>4. \A i \in Items : Owner'[i] <= seq'
  BY <1>1, <1>2 DEF Tidy
<1>5. ~LeftBehind' => Fresh' \subseteq Mine'
  BY <1>3
<1> QED
  BY <1>1, <1>3, <1>4, <1>5 DEF Tidy

LEMMA LeaseIsMine ==
  ASSUME TypeOK, NEW j, LeasePage(Crawler, j) \/ LeaseSource(Crawler, j)
  PROVE  /\ seq' = seq + 1
         /\ \E kind \in {"page", "source"} :
              LET i == <<kind, work'[Crawler].key>>
              IN  /\ LeasePage(Crawler, j) => kind = "page"
                  /\ LeaseSource(Crawler, j) => kind = "source"
                  /\ Owner'[i] = seq + 1 /\ i \in Items
                  /\ \A k \in Items \ {i} : Owner'[k] \in {0, Owner[k]}
<1> USE CrawlerWorks
<1>1. CASE LeasePage(Crawler, j)
  <2>1. RecoveredPages(entries, leases) \in [Pages -> Entry]
    BY RecoveredTypes
  <2>2. DuePages(j) \subseteq Nat \X Pages
    BY RecoveredTypes DEF DuePages, TypeOK
  <2>11. PICK x \in DuePages(j) : \E e :
          /\ e = RecoveredPages(entries, leases)[x[2]]
          /\ entries' = [RecoveredPages(entries, leases) EXCEPT ![x[2]] =
               [e EXCEPT !.state = "leased", !.gen = seq + 1,
                         !.until = now + LeaseTTL, !.attempts = e.attempts + 1]]
          /\ work' = [work EXCEPT ![Crawler] =
               [kind |-> "page", key |-> x[2], gen |-> seq + 1, depth |-> 0,
                expand |-> BaseOwned(x[2], entries, sources, pageOf)
                           /\ policy[j] > 0]]
    BY <1>1 DEF LeasePage
  <2>3. PICK e :
          /\ e = RecoveredPages(entries, leases)[x[2]]
          /\ entries' = [RecoveredPages(entries, leases) EXCEPT ![x[2]] =
               [e EXCEPT !.state = "leased", !.gen = seq + 1,
                         !.until = now + LeaseTTL, !.attempts = e.attempts + 1]]
          /\ work' = [work EXCEPT ![Crawler] =
               [kind |-> "page", key |-> x[2], gen |-> seq + 1, depth |-> 0,
                expand |-> BaseOwned(x[2], entries, sources, pageOf)
                           /\ policy[j] > 0]]
    BY <2>11
  <2> DEFINE p == x[2]
             i == <<"page", p>>
  <2>4. /\ p \in Pages /\ entries'[p].state = "leased" /\ entries'[p].gen = seq + 1
        /\ work'[Crawler].key = p
        /\ \A q \in Pages \ {p} : entries'[q] = RecoveredPages(entries, leases)[q]
    BY <2>1, <2>2, <2>3 DEF TypeOK, Entry
  <2>5. KeepsPages(entries, RecoveredPages(entries, leases), {})
    BY RecoveryKeeps DEF TypeOK
  <2>6. KeepsPages(entries, entries', {p})
    BY <2>4, <2>5 DEF KeepsPages
  <2>7. seq' = seq + 1 /\ sources' = sources /\ ~LeaseSource(Crawler, j)
    <3>1. seq' = seq + 1 /\ sources' = sources
      BY <1>1 DEF LeasePage
    <3>2. ASSUME LeaseSource(Crawler, j)  PROVE FALSE
      <4>1. entries' = entries
        BY <3>2 DEF LeaseSource
      <4>2. PICK y \in DueSources(j) :
              work' = [work EXCEPT ![Crawler] =
                 [kind |-> "source", key |-> y[2], gen |-> seq + 1, expand |-> FALSE,
                  depth |-> RecoveredSources(sources, srcLeases)[y[2]].depth]]
        BY <3>2 DEF LeaseSource
      <4>3. work'[Crawler].kind = "source"
        BY <4>2 DEF TypeOK
      <4>4. work'[Crawler].kind = "page"
        BY <2>3 DEF TypeOK
      <4> QED
        BY <4>3, <4>4
    <3> QED
      BY <3>1, <3>2
  <2>8. \A k \in Items \ {i} : k[1] = "page" => k[2] \notin {p}
    BY DEF Items
  <2>9. \A k \in Items \ {i} : Owner'[k] \in {0, Owner[k]}
    BY <2>6, <2>7, <2>8, UnchangedKeeps, OwnerKept
  <2>10. i \in Items /\ Owner'[i] = seq + 1
    BY <2>4 DEF Items, Owner
  <2> QED
    BY <1>1, <2>4, <2>7, <2>9, <2>10
<1>2. CASE LeaseSource(Crawler, j) /\ ~LeasePage(Crawler, j)
  <2>1. RecoveredSources(sources, srcLeases) \in [Sources -> Source]
    BY RecoveredTypes
  <2>2. DueSources(j) \subseteq Nat \X Sources
    BY RecoveredTypes DEF DueSources, TypeOK
  <2>11. PICK x \in DueSources(j) : \E r :
          /\ r = RecoveredSources(sources, srcLeases)[x[2]]
          /\ sources' = [RecoveredSources(sources, srcLeases) EXCEPT ![x[2]] =
               [r EXCEPT !.state = "leased", !.gen = seq + 1, !.until = now + LeaseTTL]]
          /\ work' = [work EXCEPT ![Crawler] =
               [kind |-> "source", key |-> x[2], gen |-> seq + 1,
                expand |-> FALSE, depth |-> r.depth]]
    BY <1>2 DEF LeaseSource
  <2>3. PICK r :
          /\ r = RecoveredSources(sources, srcLeases)[x[2]]
          /\ sources' = [RecoveredSources(sources, srcLeases) EXCEPT ![x[2]] =
               [r EXCEPT !.state = "leased", !.gen = seq + 1, !.until = now + LeaseTTL]]
          /\ work' = [work EXCEPT ![Crawler] =
               [kind |-> "source", key |-> x[2], gen |-> seq + 1,
                expand |-> FALSE, depth |-> r.depth]]
    BY <2>11
  <2> DEFINE s == x[2]
             i == <<"source", s>>
  <2>4. /\ s \in Sources /\ sources'[s].state = "leased" /\ sources'[s].gen = seq + 1
        /\ work'[Crawler].key = s
        /\ \A q \in Sources \ {s} : sources'[q] = RecoveredSources(sources, srcLeases)[q]
    BY <2>1, <2>2, <2>3 DEF TypeOK, Source
  <2>5. KeepsSources(sources, RecoveredSources(sources, srcLeases), {})
    BY RecoveryKeeps DEF TypeOK
  <2>6. KeepsSources(sources, sources', {s})
    BY <2>4, <2>5 DEF KeepsSources
  <2>7. seq' = seq + 1 /\ entries' = entries
    BY <1>2 DEF LeaseSource
  <2>8. \A k \in Items \ {i} : k[1] # "page" => k[2] \notin {s}
    BY DEF Items
  <2>9. \A k \in Items \ {i} : Owner'[k] \in {0, Owner[k]}
    BY <2>6, <2>7, <2>8, UnchangedKeeps, OwnerKept
  <2>10. i \in Items /\ Owner'[i] = seq + 1
    BY <2>4 DEF Items, Owner
  <2> QED
    BY <1>2, <2>4, <2>7, <2>9, <2>10
<1> QED
  BY <1>1, <1>2

(* A completion ends the lease it is made under.                           *)
LEMMA FinishedEnds ==
  ASSUME TypeOK, Finished
  PROVE  /\ PageLeaseCurrent(Crawler) => Owner'[<<"page", work[Crawler].key>>] = 0
         /\ SourceLeaseCurrent(Crawler) => Owner'[<<"source", work[Crawler].key>>] = 0
<1>1. Workers = {Crawler}
  BY RunAssumption
<1>2. \/ PageLeaseCurrent(Crawler) /\ entries'[work[Crawler].key].state # "leased"
      \/ SourceLeaseCurrent(Crawler) /\ sources'[work[Crawler].key].state # "leased"
  BY <1>1 DEF Finished
<1>3. ~(PageLeaseCurrent(Crawler) /\ SourceLeaseCurrent(Crawler))
  BY DEF PageLeaseCurrent, SourceLeaseCurrent
<1>4. /\ PageLeaseCurrent(Crawler) => <<"page", work[Crawler].key>> \in Items
      /\ SourceLeaseCurrent(Crawler) => <<"source", work[Crawler].key>> \in Items
  BY CrawlerWorks DEF PageLeaseCurrent, SourceLeaseCurrent, TypeOK, Items
<1> QED
  BY <1>2, <1>3, <1>4 DEF Owner

LEMMA CompletionsFinish ==
  ASSUME TypeOK, NEW d \in Delays
  PROVE  /\ \A o \in {"succeeded", "rejected", "retry", "disabled"} :
              Complete(Crawler, o, d) => Finished
         /\ \A o \in {"succeeded", "rejected"}, L \in SUBSET Pages :
              CompleteWithLinks(Crawler, o, d, L) => Finished
         /\ CompleteDiscoverySource(Crawler, d) => Finished
         /\ PreserveDiscoverySnapshot(Crawler, d) => Finished
         /\ \A P \in SUBSET Pages, C \in SUBSET Sources :
              ApplyDiscoverySnapshot(Crawler, P, C, d) => Finished
<1> USE CrawlerWorks
<1>1. {"succeeded", "rejected", "retry", "disabled"} \subseteq PageStates \ {"leased"}
  BY DEF PageStates
<1> QED
  BY <1>1, CompleteStep, CompleteWithLinksStep, SourceCompletionsStep,
     ApplyDiscoverySnapshotStep

LEMMA TidyStep ==
  ASSUME TypeOK, RunShape, WorksOnItsLease, Tidy, [RunNext]_runVars
  PROVE  Tidy'
<1> USE DEF Polling, Admitting
<1>0. run \in Run /\ seq \in Nat
  BY DEF RunShape, RunTypeOK, TypeOK
<1>1. ASSUME NEW c \in Configs, Start(c)
      PROVE  Tidy'
  <2>1. seq' = seq /\ run'.mark = seq
    BY <1>0, <1>1 DEF Start, Reopen, Run
  <2>2. \A i \in Items : Owner'[i] \in {0, Owner[i]} /\ Owner[i] \in Nat
    BY <1>1, <2>1, RunStepShape, OwnersEnd, OwnersCount DEF RunNext
  <2>3. \A i \in Items : Owner'[i] <= seq
    BY <1>0, <2>2 DEF Tidy
  <2>4. Fresh' = {}
    <3>1. \A i \in Items : ~(Owner'[i] > seq)
      BY <1>0, <2>2, <2>3
    <3> QED
      BY <2>1, <3>1 DEF Fresh
  <2> QED
    BY <1>0, <2>1, <2>3, <2>4 DEF Tidy
<1>2. CASE AdmitPage \/ PollSource
  <2>1. PICK j : /\ AdmitPage => LeasePage(Crawler, j)
                 /\ PollSource => LeaseSource(Crawler, j)
    BY DEF AdmitPage, PollSource
  <2>2. PICK kind \in {"page", "source"} :
          /\ AdmitPage => kind = "page"
          /\ PollSource => kind = "source"
          /\ seq' = seq + 1
          /\ <<kind, work'[Crawler].key>> \in Items
          /\ Owner'[<<kind, work'[Crawler].key>>] = seq + 1
          /\ \A k \in Items \ {<<kind, work'[Crawler].key>>} : Owner'[k] \in {0, Owner[k]}
    BY <1>2, <2>1, LeaseIsMine
  <2> DEFINE i == <<kind, work'[Crawler].key>>
  <2>3. /\ run'.mark = run.mark /\ run.mark \in Nat
        /\ run'.stage = IF kind = "page" THEN "page" ELSE "source"
        /\ run.stage \in {"poll", "admit"}
    BY <1>0, <1>2, <2>2 DEF AdmitPage, PollSource, Took, Run
  <2>4. Mine' = {i}
    BY <2>3 DEF Mine
  <2>5. \A k \in Items : Owner[k] \in Nat /\ Owner[k] <= run.mark
    BY <1>0, <2>3, OwnersCount DEF Tidy, Fresh, Mine, LeftBehind
  <2>6. Fresh' \subseteq {i}
    <3> SUFFICES ASSUME NEW k \in Items \ {i}  PROVE ~(Owner'[k] > run'.mark)
      BY DEF Fresh
    <3> QED
      BY <2>2, <2>3, <2>5
  <2>7. \A k \in Items : Owner'[k] <= seq'
    <3> SUFFICES ASSUME NEW k \in Items \ {i}  PROVE Owner'[k] <= seq'
      BY <1>0, <2>2
    <3>1. Owner'[k] \in {0, Owner[k]} /\ Owner[k] <= seq /\ Owner[k] \in Nat
      BY <2>2, <2>5 DEF Tidy
    <3> QED
      BY <1>0, <2>2, <3>1
  <2>8. run'.mark <= seq'
    BY <1>0, <2>2, <2>3 DEF Tidy
  <2> HIDE DEF i
  <2> QED
    BY <2>4, <2>6, <2>7, <2>8 DEF Tidy
<1>3. ASSUME ~(\E c \in Configs : Start(c)), ~AdmitPage, ~PollSource
      PROVE  Tidy'
  <2> SUFFICES LeftBehind' \/ \A i \in Fresh : Owner'[i] = 0 \/ i \in Mine'
    BY <1>3, TidyKept
  <2>1. CASE run.stage \in {"seeds", "policy", "roots", "seedsAgain", "policyAgain",
                            "poll", "admit"}
    BY <2>1 DEF Tidy, Mine, LeftBehind
  <2>2. CASE Killed \/ (\E L \in SUBSET Pages : LinksTooMany(L))
    BY <1>0, <2>2 DEF Killed, LinksTooMany, Exit, Ended, LeftBehind, Run
  <2>3. CASE SourceAccepted \/ PageAccepted \/ SourceHostReserved \/ PageHostReserved
             \/ TimePasses \/ UNCHANGED runVars
    <3>1. work' = work
      BY <2>3 DEF SourceAccepted, PageAccepted, SourceHostReserved, PageHostReserved,
                  ReserveHost, TimePasses, Tick, runVars, vars
    <3>2. \/ run' = run
          \/ /\ run.stage \in {"source", "sourceHost"}
             /\ run'.stage \in {"sourceHost", "sourceFetch"}
          \/ /\ run.stage \in {"page", "pageHost"}
             /\ run'.stage \in {"pageHost", "pageAdmit"}
      BY <1>0, <2>3 DEF SourceAccepted, PageAccepted, SourceHostReserved, PageHostReserved,
                  Goto, TimePasses, runVars, Run
    <3>3. Mine' = Mine /\ (LeftBehind => LeftBehind')
      BY <3>1, <3>2 DEF Mine, LeftBehind
    <3> QED
      BY <3>3 DEF Tidy
  <2>4. ASSUME Finished, run.stage \in {"source", "sourceHost", "sourceFetch",
                                       "page", "pageHost", "pageAdmit"}
        PROVE  \A i \in Fresh : Owner'[i] = 0
    <3>1. CASE run.stage \in {"source", "sourceHost", "sourceFetch"}
      <4>1. Fresh \subseteq {<<"source", work[Crawler].key>>} /\ SourceLeaseCurrent(Crawler)
        BY <3>1 DEF Tidy, Mine, LeftBehind, WorksOnItsLease
      <4> QED
        BY <2>4, <4>1, FinishedEnds
    <3>2. CASE run.stage \in {"page", "pageHost", "pageAdmit"}
      <4>1. Fresh \subseteq {<<"page", work[Crawler].key>>} /\ PageLeaseCurrent(Crawler)
        BY <3>2 DEF Tidy, Mine, LeftBehind, WorksOnItsLease
      <4> QED
        BY <2>4, <4>1, FinishedEnds
    <3> QED
      BY <2>4, <3>1, <3>2
  <2>5. 0 \in Delays /\ Rechecks \subseteq Delays
    BY RunAssumption DEF Rechecks
  <2>6. CASE SourceInterrupted \/ SourceWithoutPolicy
             \/ \E d \in Rechecks :
                  \/ SourceSkipped(d) \/ SourceFailed(d) \/ SourceUnchanged(d)
                  \/ \E P \in SUBSET Pages, C \in SUBSET Sources :
                       SourceApplied(P, C, d) \/ SourceTooLarge(P, C, d)
    <3>1. run.stage \in {"source", "sourceHost", "sourceFetch"}
      BY <2>6 DEF SourceInterrupted, SourceWithoutPolicy, SourceSkipped, SourceFailed,
                  SourceUnchanged, SourceApplied, SourceTooLarge
    <3>2. Finished
      BY <2>5, <2>6, CompletionsFinish
         DEF SourceInterrupted, SourceWithoutPolicy, SourceReleased, SourceSkipped,
             SourceFailed, SourceUnchanged, SourceApplied, SourceTooLarge
    <3> QED
      BY <2>4, <3>1, <3>2
  <2>7. CASE PageInterrupted \/ PageOutsideScope
             \/ \E d \in Rechecks :
                  \/ PageStops(d)
                  \/ \E o \in {"succeeded", "rejected", "retry"} : PageDone(o, d)
                  \/ \E o \in {"succeeded", "rejected"}, L \in SUBSET Pages :
                       PageExpanded(o, d, L)
    <3>1. run.stage \in {"page", "pageHost", "pageAdmit"}
      BY <2>7 DEF PageInterrupted, PageOutsideScope, PageStops, PageDone, PageExpanded,
                  PageLinks
    <3>2. Finished
      BY <2>5, <2>7, CompletionsFinish
         DEF PageInterrupted, PageOutsideScope, PageStops, PageDone, PageExpanded
    <3> QED
      BY <2>4, <3>1, <3>2
  <2>8. CASE Seeds \/ SeedsRefused \/ Policy \/ LeaseRefused \/ RootsSynced
             \/ NothingToPoll \/ NothingToAdmit
    BY <2>1, <2>8 DEF Seeds, SeedsRefused, Policy, LeaseRefused, RootsSynced, NothingToPoll,
                      NothingToAdmit
  <2> QED
    BY <1>3, <2>2, <2>3, <2>6, <2>7, <2>8 DEF RunNext, RunStep, SourceStep, PageStep
<1> QED
  BY <1>1, <1>2, <1>3

LEMMA TidyMeans ==
  ASSUME RunShape, Tidy, TypeOK
  PROVE  LeasesGivenBack
<1> DEFINE held == {p \in Pages : entries[p].state = "leased" /\ entries[p].gen > run.mark}
           polled == {s \in Sources : sources[s].state = "leased"
                                      /\ sources[s].gen > run.mark}
<1>1. /\ \A p \in held : <<"page", p>> \in Fresh
      /\ \A s \in polled : <<"source", s>> \in Fresh
  BY DEF Fresh, Owner, Items
<1>2. Cardinality({}) = 0 /\ \A x : Cardinality({x}) = 1
  BY FS_EmptySet, FS_Singleton
<1>3. \/ held = {} /\ polled = {}
      \/ polled = {} /\ \E p : held = {p}
      \/ held = {} /\ \E s : polled = {s}
  <2>1. \A p, q \in held : p = q
    BY <1>1 DEF Tidy
  <2>2. \A s, t \in polled : s = t
    BY <1>1 DEF Tidy
  <2>3. held = {} \/ polled = {}
    BY <1>1 DEF Tidy
  <2> HIDE DEF held, polled
  <2> QED
    BY <2>1, <2>2, <2>3
<1>4. Cardinality(held) + Cardinality(polled) <= 1
  <2> HIDE DEF held, polled
  <2>1. CASE held = {} /\ polled = {}
    BY <1>2, <2>1
  <2>2. CASE polled = {} /\ \E p : held = {p}
    <3>1. Cardinality(polled) = 0 /\ Cardinality(held) = 1
      BY <1>2, <2>2
    <3> QED
      BY <3>1
  <2>3. CASE held = {} /\ \E s : polled = {s}
    <3>1. Cardinality(held) = 0 /\ Cardinality(polled) = 1
      BY <1>2, <2>3
    <3> QED
      BY <3>1
  <2> QED
    BY <1>3, <2>1, <2>2, <2>3
<1>5. ~LeftBehind =>
        /\ run.stage \notin Polling \ {"poll"} => polled = {}
        /\ run.stage \notin Admitting \ {"admit"} => held = {}
  <2>1. ~LeftBehind => Fresh \subseteq Mine
    BY DEF Tidy
  <2>2. run.stage \notin Polling \ {"poll"} => \A s : <<"source", s>> \notin Mine
    BY DEF Mine
  <2>3. run.stage \notin Admitting \ {"admit"} => \A p : <<"page", p>> \notin Mine
    BY DEF Mine
  <2> QED
    BY <1>1, <2>1, <2>2, <2>3
<1>6. /\ run.stage = "down" /\ run.exit \notin {"killed", "refused"} =>
            held = {} /\ polled = {}
      /\ run.stage \notin Polling \cup {"down"} => polled = {}
      /\ run.stage \notin Admitting \cup {"down"} => held = {}
  <2> HIDE DEF held, polled
  <2> QED
    BY <1>5 DEF LeftBehind, Polling, Admitting
<1> QED
  BY <1>4, <1>6 DEF LeasesGivenBack

(* Whatever the configuration, the documents and the answers of the API: a *)
(* run that ends by itself or is interrupted gives back the lease it was   *)
(* working on, and never holds two (releaseInterrupted, Runner.Run).       *)
THEOREM RunsGiveLeasesBack == RunSpec => []LeasesGivenBack
<1>1. RunInit => TypeOK /\ RunShape /\ WorksOnItsLease /\ Tidy
  <2> SUFFICES ASSUME RunInit  PROVE TypeOK /\ RunShape /\ WorksOnItsLease /\ Tidy
    OBVIOUS
  <2>1. WorksOnItsLease
    BY DEF RunInit, WorksOnItsLease, Polling, Admitting
  <2>2. \A i \in Items : Owner[i] = 0
    BY DEF RunInit, Init, Owner, Items, NoPage, NoSource
  <2>3. seq = 0 /\ run.mark = 0
    BY DEF RunInit, Init
  <2>4. Fresh = {}
    BY <2>2, <2>3 DEF Fresh
  <2>5. Tidy
    BY <2>2, <2>3, <2>4 DEF Tidy
  <2> QED
    BY <2>1, <2>5, RunStart
<1>2. TypeOK /\ RunShape /\ WorksOnItsLease /\ Tidy /\ [RunNext]_runVars
        => (TypeOK /\ RunShape /\ WorksOnItsLease /\ Tidy)'
  BY RunStepShape, StepEffect, WorksStep, TidyStep
<1>3. RunShape /\ Tidy /\ TypeOK => LeasesGivenBack
  BY TidyMeans
<1> QED
  BY <1>1, <1>2, <1>3, PTL DEF RunSpec
=============================================================================
