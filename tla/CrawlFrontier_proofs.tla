------------------------ MODULE CrawlFrontier_proofs ------------------------
(* What holds of the frontier for any number of pages, sources, jobs,      *)
(* hosts and workers and for any limits.                                   *)
EXTENDS CrawlFrontier, FiniteSetTheorems, WellFoundedInduction, TLAPS

-----------------------------------------------------------------------------
(* Helpers keep to their types.                                            *)

LEMMA CountsAreNatural ==
  ASSUME NEW S, NEW T, IsFiniteSet(T), S \subseteq T
  PROVE  Cardinality(S) \in Nat
  BY FS_Subset, FS_CardinalityType

LEMMA ConstantRecords ==
  /\ NoPage \in Entry /\ NoSource \in Source /\ Idle \in Lease
  /\ NoPage.state = "absent" /\ Idle.kind = "idle" /\ Idle.gen = 0
  BY DEF NoPage, NoSource, Idle, Entry, Source, Lease, PageStates

LEMMA RequeuedType ==
  ASSUME NEW e \in Entry, now \in Nat
  PROVE  /\ Requeued(e) \in Entry /\ Requeued(e).state = "queued"
         /\ Orphaned(e) \in Entry /\ Orphaned(e).state = "disabled"
  BY DEF Requeued, Orphaned, Entry, PageStates

LEMMA NewPageType ==
  ASSUME NEW b \in BOOLEAN, now \in Nat
  PROVE  NewPage(b) \in Entry /\ NewPage(b).state = "queued"
  BY DEF NewPage, NoPage, Entry, PageStates

LEMMA ReconciledSourcesType ==
  ASSUME NEW srcs \in [Sources -> Source], NEW edges, NEW t \in Nat
  PROVE  ReconciledSources(srcs, edges, t) \in [Sources -> Source]
<1> DEFINE within == Within(srcs, edges)
           hops(s) == Cardinality({d \in 0..MaxSourceDepth : s \notin within[d]})
<1>1. \A s : hops(s) \in Nat
  <2>1. IsFiniteSet(0..MaxSourceDepth)
    BY FS_Interval, LimitsAssumption
  <2> QED
    BY <2>1, CountsAreNatural
<1> HIDE DEF within, hops
<1>2. ASSUME NEW s \in Sources, NEW r \in Source, r = srcs[s]
      PROVE  /\ r \in Source
             /\ [r EXCEPT !.state = "disabled", !.due = 0, !.until = 0] \in Source
             /\ [r EXCEPT !.state = "queued", !.due = t, !.depth = hops(s)]
                  \in Source
             /\ [r EXCEPT !.depth = hops(s)] \in Source
  BY <1>1 DEF Source, PageStates
<1> QED
  BY <1>2 DEF ReconciledSources, within, hops

LEMMA ReconciledPagesType ==
  ASSUME NEW ents \in [Pages -> Entry], NEW srcs, NEW mem, NEW lnk,
         NEW t \in Nat, now \in Nat
  PROVE  ReconciledPages(ents, srcs, mem, lnk, t) \in [Pages -> Entry]
<1>1. ASSUME NEW p \in Pages
      PROVE  /\ Orphaned(ents[p]) \in Entry
             /\ [Requeued(ents[p]) EXCEPT !.due = t] \in Entry
  <2>1. Requeued(ents[p]) \in Entry /\ Orphaned(ents[p]) \in Entry
    BY RequeuedType
  <2> QED
    BY <2>1 DEF Entry
<1> QED
  BY <1>1 DEF ReconciledPages

LEMMA PageIndexTypes ==
  ASSUME NEW ents \in [Pages -> Entry]
  PROVE  /\ PageDueIndex(ents) \subseteq Nat \X Pages
         /\ PageLeaseIndex(ents) \subseteq Nat \X Pages
  BY DEF PageDueIndex, PageLeaseIndex, Entry

LEMMA SourceIndexTypes ==
  ASSUME NEW srcs \in [Sources -> Source]
  PROVE  /\ SourceDueIndex(srcs) \subseteq Nat \X Sources
         /\ SourceLeaseIndex(srcs) \subseteq Nat \X Sources
  BY DEF SourceDueIndex, SourceLeaseIndex, Source

LEMMA AuthorityRefsType ==
  ASSUME NEW ents, NEW srcs
  PROVE  AuthorityRefs(ents, srcs) \in [Authorities -> Nat]
<1>1. ASSUME NEW a \in Authorities
      PROVE  /\ Cardinality({p \in Present(ents, Pages) : PageAuth[p] = a}) \in Nat
             /\ Cardinality({s \in Present(srcs, Sources) : SourceAuth[s] = a})
                  \in Nat
  BY KeysAssumption, CountsAreNatural DEF Present
<1> QED
  BY <1>1 DEF AuthorityRefs

RecordsTyped ==
  /\ entries \in [Pages -> Entry] /\ sources \in [Sources -> Source]
  /\ pageOf \subseteq Sources \X Pages
  /\ childOf \subseteq Sources \X Sources
  /\ links \subseteq Pages \X Pages
  /\ due \subseteq Nat \X Pages /\ leases \subseteq Nat \X Pages
  /\ srcDue \subseteq Nat \X Sources /\ srcLeases \subseteq Nat \X Sources
  /\ refs \in [Authorities -> Nat]

LEMMA ReconcileType ==
  ASSUME NEW ents \in [Pages -> Entry], NEW srcs \in [Sources -> Source],
         NEW mem \in SUBSET (Sources \X Pages),
         NEW edges \in SUBSET (Sources \X Sources),
         NEW lnk \in SUBSET (Pages \X Pages), NEW t \in Nat, now \in Nat,
         Reconcile(ents, srcs, mem, edges, lnk, t)
  PROVE  RecordsTyped'
<1> DEFINE rs == ReconciledSources(srcs, edges, t)
           re == ReconciledPages(ents, rs, mem, lnk, t)
<1>1. rs \in [Sources -> Source]
  BY ReconciledSourcesType
<1>2. re \in [Pages -> Entry]
  BY ReconciledPagesType
<1>3. /\ sources' = rs /\ entries' = re
      /\ pageOf' = mem /\ childOf' = edges /\ links' = lnk
      /\ due' = PageDueIndex(re) /\ leases' = PageLeaseIndex(re)
      /\ srcDue' = SourceDueIndex(rs) /\ srcLeases' = SourceLeaseIndex(rs)
      /\ refs' = AuthorityRefs(re, rs)
  BY DEF Reconcile
<1> HIDE DEF rs, re
<1> QED
  BY <1>1, <1>2, <1>3, PageIndexTypes, SourceIndexTypes, AuthorityRefsType
     DEF RecordsTyped

LEMMA RecoveredTypes ==
  ASSUME TypeOK
  PROVE  /\ RecoveredPages(entries, leases) \in [Pages -> Entry]
         /\ RecoveredSources(sources, srcLeases) \in [Sources -> Source]
         /\ Recovered(leases) \subseteq Nat \X Pages
         /\ Recovered(srcLeases) \subseteq Nat \X Sources
<1>1. RecoveredPages(entries, leases) \in [Pages -> Entry]
  <2>1. ASSUME NEW e \in Entry
        PROVE  [e EXCEPT !.state = "retry", !.due = now, !.until = 0,
                         !.orphaned = FALSE] \in Entry
    BY DEF TypeOK, Entry, PageStates
  <2> QED
    BY <2>1 DEF TypeOK, RecoveredPages
<1>2. RecoveredSources(sources, srcLeases) \in [Sources -> Source]
  <2>1. ASSUME NEW r \in Source
        PROVE  [r EXCEPT !.state = "retry", !.due = now, !.until = 0]
                 \in Source
    BY DEF TypeOK, Source, PageStates
  <2> QED
    BY <2>1 DEF TypeOK, RecoveredSources
<1>3. /\ Recovered(leases) \subseteq Nat \X Pages
      /\ Recovered(srcLeases) \subseteq Nat \X Sources
  BY DEF TypeOK, Recovered, Expired
<1> QED
  BY <1>1, <1>2, <1>3

LEMMA CompletedType ==
  ASSUME NEW e \in Entry, NEW o \in PageStates, NEW d \in Nat, now \in Nat
  PROVE  Completed(e, o, d) \in Entry /\ Completed(e, o, d).state = o
<1> DEFINE t == IF o = "disabled" THEN 0 ELSE now + d
           n == IF o \in {"succeeded", "rejected"} THEN 0 ELSE e.attempts
           done == [e EXCEPT !.state = o, !.due = t, !.until = 0,
                             !.orphaned = FALSE, !.attempts = n]
<1>1. t \in Nat /\ n \in Nat
  BY DEF Entry
<1>2. Completed(e, o, d) = done
  BY DEF Completed, Entry
<1> HIDE DEF t, n
<1>3. done \in Entry /\ done.state = o
  BY <1>1 DEF Entry
<1> QED
  BY <1>2, <1>3

-----------------------------------------------------------------------------
(* Every step either is quiet about leases (some end, none begins), or     *)
(* grants one to one worker, or records the result of one worker's.        *)

KeepsPages(e1, e2, but) ==
  \A p \in Pages \ but : e2[p].state = "leased" =>
                           e1[p].state = "leased" /\ e2[p].gen = e1[p].gen
KeepsSources(s1, s2, but) ==
  \A s \in Sources \ but : s2[s].state = "leased" =>
                             s1[s].state = "leased" /\ s2[s].gen = s1[s].gen

Quiet ==
  /\ KeepsPages(entries, entries', {})
  /\ KeepsSources(sources, sources', {})
  /\ UNCHANGED <<seq, result>>
  /\ \A w \in Workers : work'[w] \in {work[w], Idle}

Granted ==
  \E w \in Workers, l \in Lease :
    /\ work' = [work EXCEPT ![w] = l]
    /\ l.gen = seq + 1 /\ seq' = seq + 1 /\ seq < MaxSeq
    /\ UNCHANGED result
    /\ \/ /\ l.key \in Pages
          /\ KeepsPages(entries, entries', {l.key})
          /\ KeepsSources(sources, sources', {})
          /\ entries'[l.key].state = "leased" /\ entries'[l.key].gen = l.gen
       \/ /\ l.key \in Sources
          /\ KeepsPages(entries, entries', {})
          /\ KeepsSources(sources, sources', {l.key})
          /\ sources'[l.key].state = "leased" /\ sources'[l.key].gen = l.gen

Finished ==
  \E w \in Workers :
    /\ work' = [work EXCEPT ![w] = Idle]
    /\ UNCHANGED seq
    /\ KeepsPages(entries, entries', {})
    /\ KeepsSources(sources, sources', {})
    /\ \/ /\ PageLeaseCurrent(w)
          /\ entries'[work[w].key].state # "leased"
          /\ result' = [result EXCEPT ![<<"page", work[w].key>>] = work[w].gen]
       \/ /\ SourceLeaseCurrent(w)
          /\ sources'[work[w].key].state # "leased"
          /\ result' = [result EXCEPT
                           ![<<"source", work[w].key>>] = work[w].gen]

LEMMA ReconciledKeeps ==
  ASSUME NEW ents \in [Pages -> Entry], NEW srcs \in [Sources -> Source],
         NEW owners, NEW mem, NEW edges, NEW lnk, NEW t \in Nat
  PROVE  /\ KeepsPages(ents, ReconciledPages(ents, owners, mem, lnk, t), {})
         /\ KeepsSources(srcs, ReconciledSources(srcs, edges, t), {})
<1> DEFINE re == ReconciledPages(ents, owners, mem, lnk, t)
           rs == ReconciledSources(srcs, edges, t)
<1>1. ASSUME NEW p \in Pages, re[p].state = "leased"
      PROVE  ents[p].state = "leased" /\ re[p].gen = ents[p].gen
  <2>1. /\ ents[p] \in Entry
        /\ re[p] \in {ents[p], Orphaned(ents[p]),
                            [Requeued(ents[p]) EXCEPT !.due = t]}
    BY DEF ReconciledPages
  <2>2. /\ Orphaned(ents[p]).state = "disabled"
        /\ [Requeued(ents[p]) EXCEPT !.due = t].state = "queued"
    BY <2>1 DEF Entry, Orphaned, Requeued
  <2> QED
    BY <1>1, <2>1, <2>2
<1>2. ASSUME NEW s \in Sources, rs[s].state = "leased"
      PROVE  srcs[s].state = "leased" /\ rs[s].gen = srcs[s].gen
  <2>1. PICK n :
          /\ srcs[s] \in Source
          /\ rs[s] \in
               {srcs[s],
                [srcs[s] EXCEPT !.state = "disabled", !.due = 0, !.until = 0],
                [srcs[s] EXCEPT !.state = "queued", !.due = t, !.depth = n],
                [srcs[s] EXCEPT !.depth = n]}
    BY DEF ReconciledSources
  <2> QED
    BY <1>2, <2>1 DEF Source
<1> QED
  BY <1>1, <1>2 DEF KeepsPages, KeepsSources

LEMMA ReconcileKeeps ==
  ASSUME NEW ents \in [Pages -> Entry], NEW srcs \in [Sources -> Source],
         NEW mem, NEW edges, NEW lnk, NEW t \in Nat,
         Reconcile(ents, srcs, mem, edges, lnk, t)
  PROVE  KeepsPages(ents, entries', {}) /\ KeepsSources(srcs, sources', {})
  BY ReconciledKeeps DEF Reconcile

LEMMA RecoveryKeeps ==
  ASSUME NEW ents \in [Pages -> Entry], NEW srcs \in [Sources -> Source],
         NEW pl, NEW sl
  PROVE  /\ KeepsPages(ents, RecoveredPages(ents, pl), {})
         /\ KeepsSources(srcs, RecoveredSources(srcs, sl), {})
  BY DEF KeepsPages, KeepsSources, RecoveredPages, RecoveredSources, Entry,
         Source

LEMMA KeepingComposes ==
  /\ \A e1, e2, e3 : KeepsPages(e1, e2, {}) /\ KeepsPages(e2, e3, {})
                      => KeepsPages(e1, e3, {})
  /\ \A s1, s2, s3 : KeepsSources(s1, s2, {}) /\ KeepsSources(s2, s3, {})
                      => KeepsSources(s1, s3, {})
  BY DEF KeepsPages, KeepsSources

LEMMA UnchangedKeeps ==
  /\ entries' = entries => KeepsPages(entries, entries', {})
  /\ sources' = sources => KeepsSources(sources, sources', {})
  BY DEF KeepsPages, KeepsSources

-----------------------------------------------------------------------------
(* Every operation keeps the types and has one of the three effects.  The  *)
(* operations that end in Reconcile hand it well-typed records; the others *)
(* update one record and its index.                                        *)

Rest == <<policy, hosts, seq, now, work, result, dispatch>>

RestTyped ==
  /\ policy \in [Jobs -> Nat]
  /\ hosts \in [Authorities -> [last : Nat, interval : Nat]]
  /\ seq \in Nat /\ now \in Nat \ {0}
  /\ work \in [Workers -> Lease]
  /\ \A w \in Workers : /\ work[w].kind = "page" => work[w].key \in Pages
                        /\ work[w].kind = "source" => work[w].key \in Sources
  /\ result \in [Items -> Nat]
  /\ dispatch \in [Authorities -> [last : Nat, interval : Nat]]

LEMMA TypeParts ==
  ASSUME TypeOK
  PROVE  RecordsTyped /\ RestTyped /\ now \in Nat
  BY DEF TypeOK, RecordsTyped, RestTyped

LEMMA TypeJoined ==
  ASSUME RecordsTyped', RestTyped'
  PROVE  TypeOK'
  BY DEF TypeOK, RecordsTyped, RestTyped

LEMMA RestUnchanged ==
  ASSUME RestTyped, UNCHANGED Rest
  PROVE  RestTyped'
  BY DEF RestTyped, Rest

LEMMA SyncSeedsStep ==
  ASSUME TypeOK, NEW S \in SUBSET Pages, SyncSeeds(S)
  PROVE  TypeOK' /\ Quiet
<1> DEFINE seeded == [p \in Pages |->
        IF p \in S
        THEN IF entries[p].state = "absent" THEN NewPage(TRUE)
             ELSE IF entries[p].state = "disabled"
                  THEN [Requeued(entries[p]) EXCEPT !.explicit = TRUE]
                  ELSE [entries[p] EXCEPT !.explicit = TRUE]
        ELSE IF ~entries[p].explicit THEN entries[p]
             ELSE IF \E s \in Sources : <<s, p>> \in pageOf
                  THEN [entries[p] EXCEPT !.explicit = FALSE]
                  ELSE [Orphaned(entries[p]) EXCEPT !.explicit = FALSE]]
<1>1. seeded \in [Pages -> Entry] /\ KeepsPages(entries, seeded, {})
  <2>1. ASSUME NEW p \in Pages
        PROVE  /\ NewPage(TRUE) \in Entry
               /\ entries[p] \in Entry
               /\ Requeued(entries[p]) \in Entry
               /\ Orphaned(entries[p]) \in Entry
    BY NewPageType, RequeuedType DEF TypeOK
  <2>2. ASSUME NEW e \in Entry, NEW b \in BOOLEAN
        PROVE  /\ [e EXCEPT !.explicit = b] \in Entry
               /\ [e EXCEPT !.explicit = b].state = e.state
               /\ [e EXCEPT !.explicit = b].gen = e.gen
    BY DEF Entry
  <2>3. seeded \in [Pages -> Entry]
    BY <2>1, <2>2
  <2>4. ASSUME NEW p \in Pages, seeded[p].state = "leased"
        PROVE  entries[p].state = "leased" /\ seeded[p].gen = entries[p].gen
    <3>1. /\ NewPage(TRUE).state # "leased"
          /\ [Requeued(entries[p]) EXCEPT !.explicit = TRUE].state # "leased"
          /\ [Orphaned(entries[p]) EXCEPT !.explicit = FALSE].state # "leased"
      BY <2>1, <2>2, RequeuedType, NewPageType DEF TypeOK
    <3>2. seeded[p] \in {entries[p], [entries[p] EXCEPT !.explicit = TRUE],
                         [entries[p] EXCEPT !.explicit = FALSE]}
      BY <2>4, <3>1
    <3> QED
      BY <2>1, <2>2, <2>4, <3>2
  <2> QED
    BY <2>3, <2>4 DEF KeepsPages
<1>2. Reconcile(seeded, sources, pageOf, childOf, links, now) /\ UNCHANGED Rest
  BY DEF SyncSeeds, Rest
<1> HIDE DEF seeded
<1>3. RecordsTyped'
  BY <1>1, <1>2, ReconcileType DEF TypeOK
<1>4. Quiet
  BY <1>1, <1>2, ReconcileKeeps, KeepingComposes DEF Quiet, Rest, TypeOK
<1> QED
  BY <1>2, <1>3, <1>4, RestUnchanged, TypeParts, TypeJoined

LEMMA SyncDiscoverySourcesStep ==
  ASSUME TypeOK, NEW S \in SUBSET Sources, NEW K \in SUBSET S,
         SyncDiscoverySources(S, K)
  PROVE  TypeOK' /\ Quiet
<1> DEFINE synced == [s \in Sources |->
        CASE s \in S /\ sources[s].state = "absent" ->
               [NoSource EXCEPT !.state = "queued", !.due = now,
                                !.configured = TRUE]
          [] s \in K ->
               [sources[s] EXCEPT !.state = "queued", !.due = now,
                  !.until = 0, !.configured = TRUE, !.hasSnapshot = FALSE]
          [] s \in S \ K /\ sources[s].state = "disabled" ->
               [sources[s] EXCEPT !.state = "queued", !.due = now,
                  !.until = 0, !.configured = TRUE]
          [] s \in S \ K /\ sources[s].state \notin {"absent", "disabled"} ->
               [sources[s] EXCEPT !.configured = TRUE]
          [] OTHER -> [sources[s] EXCEPT !.configured = FALSE]]
<1>1. synced \in [Sources -> Source] /\ KeepsSources(sources, synced, {})
  <2>1. ASSUME NEW s \in Sources
        PROVE  sources[s] \in Source
    BY DEF TypeOK
  <2>2. ASSUME NEW r \in Source
        PROVE  /\ [NoSource EXCEPT !.state = "queued", !.due = now,
                                   !.configured = TRUE] \in Source
               /\ [r EXCEPT !.state = "queued", !.due = now, !.until = 0,
                     !.configured = TRUE, !.hasSnapshot = FALSE] \in Source
               /\ [r EXCEPT !.state = "queued", !.due = now,
                     !.until = 0, !.configured = TRUE] \in Source
               /\ [r EXCEPT !.configured = TRUE] \in Source
               /\ [r EXCEPT !.configured = FALSE] \in Source
    BY DEF TypeOK, Source, NoSource, PageStates
  <2>3. synced \in [Sources -> Source]
    BY <2>1, <2>2
  <2>4. ASSUME NEW s \in Sources, synced[s].state = "leased"
        PROVE  sources[s].state = "leased" /\ synced[s].gen = sources[s].gen
    BY <2>1, <2>4 DEF Source, NoSource
  <2> QED
    BY <2>3, <2>4 DEF KeepsSources
<1>2. /\ Reconcile(entries, synced, WithoutSnapshots(pageOf, K),
                   WithoutSnapshots(childOf, K), links, now)
      /\ UNCHANGED Rest
  BY DEF SyncDiscoverySources, Rest
<1>3. /\ WithoutSnapshots(pageOf, K) \in SUBSET (Sources \X Pages)
      /\ WithoutSnapshots(childOf, K) \in SUBSET (Sources \X Sources)
  BY DEF TypeOK, WithoutSnapshots
<1> HIDE DEF synced
<1>4. RecordsTyped'
  BY <1>1, <1>2, <1>3, ReconcileType DEF TypeOK
<1>5. Quiet
  BY <1>1, <1>2, ReconcileKeeps, KeepingComposes DEF Quiet, Rest, TypeOK
<1> QED
  BY <1>2, <1>4, <1>5, RestUnchanged, TypeParts, TypeJoined

LEMMA SyncLinkPoliciesStep ==
  ASSUME TypeOK, NEW new \in [Jobs -> 0..MaxLinksPerPage],
         SyncLinkPolicies(new)
  PROVE  TypeOK' /\ Quiet
<1> DEFINE changed == {j \in Jobs : new[j] # policy[j]}
           restarted == [p \in Pages |->
        IF /\ entries[p].state # "absent"
           /\ PageJob[p] \in changed
           /\ BaseOwned(p, entries, sources, pageOf)
        THEN [Requeued(entries[p]) EXCEPT !.attempts = 0]
        ELSE entries[p]]
<1>1. restarted \in [Pages -> Entry] /\ KeepsPages(entries, restarted, {})
  <2>1. ASSUME NEW p \in Pages
        PROVE  /\ entries[p] \in Entry /\ Requeued(entries[p]) \in Entry
               /\ Requeued(entries[p]).state = "queued"
    BY RequeuedType DEF TypeOK
  <2>2. ASSUME NEW e \in Entry
        PROVE  /\ [e EXCEPT !.attempts = 0] \in Entry
               /\ [e EXCEPT !.attempts = 0].state = e.state
    BY DEF Entry
  <2> QED
    BY <2>1, <2>2 DEF KeepsPages
<1>2. /\ Reconcile(restarted, sources, pageOf, childOf,
                   LinksOfOtherJobs(changed), now)
      /\ policy' = new
      /\ UNCHANGED <<hosts, seq, now, work, result, dispatch>>
  BY DEF SyncLinkPolicies
<1>3. LinksOfOtherJobs(changed) \in SUBSET (Pages \X Pages)
  BY DEF TypeOK, LinksOfOtherJobs
<1>4. RestTyped'
  BY <1>2, LimitsAssumption DEF RestTyped, TypeOK
<1> HIDE DEF restarted, changed
<1>5. RecordsTyped'
  BY <1>1, <1>2, <1>3, ReconcileType DEF TypeOK
<1>6. Quiet
  BY <1>1, <1>2, ReconcileKeeps, KeepingComposes DEF Quiet, TypeOK
<1> QED
  BY <1>4, <1>5, <1>6, TypeJoined

LEMMA PruneDisabledStep ==
  ASSUME TypeOK, NEW n \in PruneLimits, PruneDisabled(n)
  PROVE  TypeOK' /\ Quiet
<1>1. PICK doomed \in SUBSET Pages :
        /\ entries' = [p \in Pages |-> IF p \in doomed THEN NoPage
                                                     ELSE entries[p]]
        /\ refs' = AuthorityRefs(entries', sources)
        /\ due' = PageDueIndex(entries')
        /\ leases' = PageLeaseIndex(entries')
        /\ hosts' = [a \in Authorities |->
                       IF refs'[a] = 0 THEN [last |-> 0, interval |-> 0]
                                       ELSE hosts[a]]
  BY DEF PruneDisabled
<1>2. UNCHANGED <<sources, graph, policy, srcDue, srcLeases, seq, now, work,
                  result, dispatch>>
  BY DEF PruneDisabled
<1>3. entries' \in [Pages -> Entry]
  BY <1>1, ConstantRecords DEF TypeOK
<1>4. RecordsTyped'
  BY <1>1, <1>2, <1>3, PageIndexTypes, AuthorityRefsType
     DEF TypeOK, RecordsTyped, graph
<1>5. hosts' \in [Authorities -> [last : Nat, interval : Nat]]
  BY <1>1 DEF TypeOK
<1>6. RestTyped'
  BY <1>2, <1>5 DEF TypeOK, RestTyped
<1>7. KeepsPages(entries, entries', {})
  BY <1>1, ConstantRecords DEF KeepsPages, TypeOK
<1> QED
  BY <1>2, <1>4, <1>6, <1>7, TypeJoined, UnchangedKeeps DEF Quiet

LEMMA LeasePageStep ==
  ASSUME TypeOK, NEW w \in Workers, NEW j \in Jobs,
         LeasePage(w, j) \/ LeaseNoPage(w, j)
  PROVE  TypeOK' /\ (Quiet \/ Granted)
<1>1. CASE LeaseNoPage(w, j)
  <2>1. RecordsTyped'
    BY <1>1, RecoveredTypes
       DEF TypeOK, RecordsTyped, LeaseNoPage, graph
  <2>2. RestTyped'
    BY <1>1 DEF TypeOK, RestTyped, LeaseNoPage
  <2>3. Quiet
    BY <1>1, RecoveryKeeps, UnchangedKeeps DEF LeaseNoPage, Quiet, TypeOK
  <2> QED
    BY <2>1, <2>2, <2>3, TypeJoined
<1>2. CASE LeasePage(w, j)
  <2> DEFINE recovered == RecoveredPages(entries, leases)
  <2>1. PICK p \in Pages, t \in Nat, b \in BOOLEAN :
          /\ entries' = [recovered EXCEPT ![p] =
               [recovered[p] EXCEPT !.state = "leased", !.gen = seq + 1,
                                    !.until = now + LeaseTTL,
                                    !.attempts = recovered[p].attempts + 1]]
          /\ due' = (due \cup Recovered(leases)) \ {<<t, p>>}
          /\ leases' = (leases \ Expired(leases)) \cup {<<now + LeaseTTL, p>>}
          /\ work' = [work EXCEPT ![w] =
               [kind |-> "page", key |-> p, gen |-> seq + 1, depth |-> 0,
                expand |-> b]]
    <3>1. PICK x \in DuePages(j) :
            /\ entries' = [recovered EXCEPT ![x[2]] =
                 [recovered[x[2]] EXCEPT !.state = "leased", !.gen = seq + 1,
                        !.until = now + LeaseTTL,
                        !.attempts = recovered[x[2]].attempts + 1]]
            /\ due' = (due \cup Recovered(leases)) \ {x}
            /\ leases' = (leases \ Expired(leases))
                         \cup {<<now + LeaseTTL, x[2]>>}
            /\ work' = [work EXCEPT ![w] =
                 [kind |-> "page", key |-> x[2], gen |-> seq + 1, depth |-> 0,
                  expand |-> BaseOwned(x[2], entries, sources, pageOf)
                             /\ policy[j] > 0]]
      BY <1>2 DEF LeasePage
    <3>2. x \in Nat \X Pages
      BY RecoveredTypes DEF DuePages, TypeOK
    <3>3. (BaseOwned(x[2], entries, sources, pageOf) /\ policy[j] > 0)
            \in BOOLEAN
      OBVIOUS
    <3>4. x = <<x[1], x[2]>> /\ x[1] \in Nat /\ x[2] \in Pages
      BY <3>2
    <3> QED
      BY <3>1, <3>3, <3>4
  <2>2. seq' = seq + 1 /\ UNCHANGED <<sources, graph, policy, srcDue,
                            srcLeases, hosts, refs, now, result, dispatch>>
    BY <1>2 DEF LeasePage
  <2>3. /\ recovered \in [Pages -> Entry]
        /\ KeepsPages(entries, recovered, {})
    BY RecoveredTypes, RecoveryKeeps DEF TypeOK
  <2> HIDE DEF recovered
  <2>4. /\ entries' \in [Pages -> Entry]
        /\ entries'[p].state = "leased" /\ entries'[p].gen = seq + 1
        /\ \A q \in Pages \ {p} : entries'[q] = recovered[q]
    <3> DEFINE e == recovered[p]
               until == now + LeaseTTL
               n == e.attempts + 1
               new == [e EXCEPT !.state = "leased", !.gen = seq + 1,
                                !.until = until, !.attempts = n]
    <3>1. e \in Entry /\ seq + 1 \in Nat /\ until \in Nat
      BY <2>3, LimitsAssumption DEF TypeOK
    <3>2. entries' = [recovered EXCEPT ![p] = new]
      BY <2>1
    <3> HIDE DEF e, until
    <3>3. n \in Nat
      BY <3>1 DEF Entry
    <3> HIDE DEF n
    <3>4. new \in Entry /\ new.state = "leased" /\ new.gen = seq + 1
      BY <3>1, <3>3 DEF Entry, PageStates
    <3> HIDE DEF new
    <3> QED
      BY <2>3, <3>2, <3>4
  <2>5. /\ due' \subseteq Nat \X Pages /\ leases' \subseteq Nat \X Pages
    BY <2>1, RecoveredTypes, LimitsAssumption DEF TypeOK
  <2>6. RecordsTyped'
    BY <2>2, <2>4, <2>5 DEF TypeOK, RecordsTyped, graph
  <2>7. [kind |-> "page", key |-> p, gen |-> seq + 1, depth |-> 0,
         expand |-> b] \in Lease
    BY KeysAssumption DEF TypeOK, Lease
  <2>8. RestTyped'
    BY <2>1, <2>2, <2>7 DEF TypeOK, RestTyped
  <2>9. Granted
    <3> DEFINE l == [kind |-> "page", key |-> p, gen |-> seq + 1, depth |-> 0,
                     expand |-> b]
    <3>1. l \in Lease /\ l.key = p /\ l.gen = seq + 1 /\ work' = [work EXCEPT ![w] = l]
      BY <2>1, <2>7
    <3>2. KeepsPages(entries, entries', {p})
      BY <2>3, <2>4 DEF KeepsPages
    <3>3. seq < MaxSeq
      BY <1>2 DEF LeasePage
    <3> HIDE DEF l
    <3> QED
      BY <2>2, <2>4, <3>1, <3>2, <3>3, UnchangedKeeps DEF Granted
  <2> QED
    BY <2>6, <2>8, <2>9, TypeJoined
<1> QED
  BY <1>1, <1>2

LEMMA LeaseSourceStep ==
  ASSUME TypeOK, NEW w \in Workers, NEW j \in Jobs,
         LeaseSource(w, j) \/ LeaseNoSource(w, j)
  PROVE  TypeOK' /\ (Quiet \/ Granted)
<1>1. CASE LeaseNoSource(w, j)
  <2>1. RecordsTyped'
    BY <1>1, RecoveredTypes
       DEF TypeOK, RecordsTyped, LeaseNoSource, graph
  <2>2. RestTyped'
    BY <1>1 DEF TypeOK, RestTyped, LeaseNoSource
  <2>3. Quiet
    BY <1>1, RecoveryKeeps, UnchangedKeeps DEF LeaseNoSource, Quiet, TypeOK
  <2> QED
    BY <2>1, <2>2, <2>3, TypeJoined
<1>2. CASE LeaseSource(w, j)
  <2> DEFINE recovered == RecoveredSources(sources, srcLeases)
  <2>1. PICK x \in DueSources(j) :
          /\ sources' = [recovered EXCEPT ![x[2]] =
               [recovered[x[2]] EXCEPT !.state = "leased", !.gen = seq + 1,
                                       !.until = now + LeaseTTL]]
          /\ srcDue' = (srcDue \cup Recovered(srcLeases)) \ {x}
          /\ srcLeases' = (srcLeases \ Expired(srcLeases))
                          \cup {<<now + LeaseTTL, x[2]>>}
          /\ work' = [work EXCEPT ![w] =
               [kind |-> "source", key |-> x[2], gen |-> seq + 1,
                expand |-> FALSE, depth |-> recovered[x[2]].depth]]
    BY <1>2 DEF LeaseSource
  <2>2. seq' = seq + 1 /\ UNCHANGED <<entries, graph, policy, due, leases,
                            hosts, refs, now, result, dispatch>>
    BY <1>2 DEF LeaseSource
  <2>3. /\ recovered \in [Sources -> Source]
        /\ KeepsSources(sources, recovered, {})
    BY RecoveredTypes, RecoveryKeeps DEF TypeOK
  <2>4. x \in Nat \X Sources /\ x[2] \in Sources
    BY RecoveredTypes DEF DueSources, TypeOK
  <2> HIDE DEF recovered
  <2>5. /\ sources' \in [Sources -> Source]
        /\ sources'[x[2]].state = "leased" /\ sources'[x[2]].gen = seq + 1
        /\ \A s \in Sources \ {x[2]} : sources'[s] = recovered[s]
    <3> DEFINE r == recovered[x[2]]
               new == [r EXCEPT !.state = "leased", !.gen = seq + 1,
                                !.until = now + LeaseTTL]
    <3>1. r \in Source /\ seq + 1 \in Nat /\ now + LeaseTTL \in Nat
      BY <2>3, <2>4, LimitsAssumption DEF TypeOK
    <3>2. sources' = [recovered EXCEPT ![x[2]] = new]
      BY <2>1
    <3> HIDE DEF r
    <3>3. new \in Source /\ new.state = "leased" /\ new.gen = seq + 1
      BY <3>1 DEF Source, PageStates
    <3> HIDE DEF new
    <3> QED
      BY <2>3, <2>4, <3>2, <3>3
  <2>6. /\ srcDue' \subseteq Nat \X Sources
        /\ srcLeases' \subseteq Nat \X Sources
    BY <2>1, <2>4, RecoveredTypes, LimitsAssumption DEF TypeOK
  <2>7. RecordsTyped'
    BY <2>2, <2>5, <2>6 DEF TypeOK, RecordsTyped, graph
  <2>8. [kind |-> "source", key |-> x[2], gen |-> seq + 1, expand |-> FALSE,
         depth |-> recovered[x[2]].depth] \in Lease
    <3>1. recovered[x[2]].depth \in Nat
      BY <2>3, <2>4 DEF Source
    <3>2. x[2] \in Nat
      BY <2>4, KeysAssumption
    <3>4. seq + 1 \in Nat
      BY DEF TypeOK
    <3>3. ASSUME NEW k \in Nat, NEW g \in Nat, NEW n \in Nat
          PROVE  [kind |-> "source", key |-> k, gen |-> g, expand |-> FALSE,
                  depth |-> n] \in Lease
      BY DEF Lease
    <3> QED
      BY <3>1, <3>2, <3>3, <3>4
  <2>9. RestTyped'
    BY <2>1, <2>2, <2>4, <2>8 DEF TypeOK, RestTyped
  <2>10. Granted
    <3> DEFINE l == [kind |-> "source", key |-> x[2], gen |-> seq + 1,
                     expand |-> FALSE, depth |-> recovered[x[2]].depth]
    <3>1. /\ l \in Lease /\ l.key = x[2] /\ l.gen = seq + 1
          /\ work' = [work EXCEPT ![w] = l]
      BY <2>1, <2>8
    <3>2. KeepsSources(sources, sources', {x[2]})
      BY <2>3, <2>5 DEF KeepsSources
    <3>3. seq < MaxSeq
      BY <1>2 DEF LeaseSource
    <3> HIDE DEF l
    <3> QED
      BY <2>2, <2>4, <2>5, <3>1, <3>2, <3>3, UnchangedKeeps DEF Granted
  <2> QED
    BY <2>7, <2>9, <2>10, TypeJoined
<1> QED
  BY <1>1, <1>2

(* A completion touches, besides the records, the worker and its result.   *)
LEMMA WorkerDone ==
  ASSUME TypeOK, NEW w \in Workers, NEW i,
         i \in {"page"} \X Pages \/ i \in {"source"} \X Sources,
         result' = [result EXCEPT ![i] = work[w].gen],
         work' = [work EXCEPT ![w] = Idle],
         UNCHANGED <<policy, hosts, seq, now, dispatch>>
  PROVE  RestTyped'
<1>1. work[w].gen \in Nat
  BY DEF TypeOK, Lease
<1>2. Idle \in Lease /\ Idle.kind = "idle"
  BY ConstantRecords DEF Idle
<1>3. i \in Items
  BY DEF Items
<1> QED
  BY <1>1, <1>2, <1>3 DEF TypeOK, RestTyped

LEMMA CompleteStep ==
  ASSUME TypeOK, NEW w \in Workers, NEW o \in PageStates \ {"leased"}, NEW d \in Delays,
         Complete(w, o, d)
  PROVE  TypeOK' /\ Finished
<1> DEFINE p == work[w].key
           done == Completed(entries[p], o, d)
<1>1. /\ entries' = [entries EXCEPT ![p] = done]
      /\ leases' = leases \ {<<entries[p].until, p>>}
      /\ due' = IF o \in Schedulable THEN due \cup {<<done.due, p>>} ELSE due
      /\ result' = [result EXCEPT ![<<"page", p>>] = work[w].gen]
      /\ work' = [work EXCEPT ![w] = Idle]
      /\ UNCHANGED <<sources, graph, policy, srcDue, srcLeases, hosts, refs,
                     seq, now, dispatch>>
  BY DEF Complete
<1>2. p \in Pages
  BY DEF Complete, PageLeaseCurrent, TypeOK
<1>3. done \in Entry /\ done.state = o
  BY <1>2, CompletedType, LimitsAssumption DEF TypeOK
<1> HIDE DEF p, done
<1>4. done.due \in Nat
  BY <1>3 DEF Entry
<1>5. RecordsTyped'
  BY <1>1, <1>2, <1>3, <1>4 DEF TypeOK, RecordsTyped, graph
<1>6. RestTyped'
  <2>1. <<"page", p>> \in {"page"} \X Pages
    BY <1>2
  <2> QED
    BY <1>1, <2>1, WorkerDone
<1>7. KeepsPages(entries, entries', {}) /\ entries'[p].state # "leased"
  BY <1>1, <1>2, <1>3 DEF KeepsPages, TypeOK
<1>8. PageLeaseCurrent(w)
  BY DEF Complete
<1>9. Finished
  BY <1>1, <1>7, <1>8, UnchangedKeeps DEF Finished, p
<1> QED
  BY <1>5, <1>6, <1>9, TypeJoined

LEMMA CompleteWithLinksStep ==
  ASSUME TypeOK, NEW w \in Workers, NEW o \in PageStates \ {"leased"}, NEW d \in Delays,
         NEW L \in SUBSET Pages, CompleteWithLinks(w, o, d, L)
  PROVE  TypeOK' /\ Finished
<1> DEFINE p == work[w].key
           others == {e \in links : e[1] # p}
           done == [q \in Pages |->
                 IF q = p THEN Completed(entries[p], o, d)
                 ELSE IF q \in L /\ entries[q].state = "absent"
                      THEN NewPage(FALSE) ELSE entries[q]]
<1>1. /\ Reconcile(done, sources, pageOf, childOf, others \cup ({p} \X L), now)
      /\ result' = [result EXCEPT ![<<"page", p>>] = work[w].gen]
      /\ work' = [work EXCEPT ![w] = Idle]
      /\ UNCHANGED <<policy, hosts, seq, now, dispatch>>
  BY DEF CompleteWithLinks
<1>2. p \in Pages
  BY DEF CompleteWithLinks, PageLeaseCurrent, TypeOK
<1>3. /\ done \in [Pages -> Entry] /\ done[p].state = o
      /\ KeepsPages(entries, done, {})
  <2>1. /\ Completed(entries[p], o, d) \in Entry
        /\ Completed(entries[p], o, d).state = o
        /\ NewPage(FALSE) \in Entry /\ NewPage(FALSE).state = "queued"
    BY <1>2, CompletedType, NewPageType, LimitsAssumption DEF TypeOK
  <2> QED
    BY <1>2, <2>1 DEF TypeOK, KeepsPages
<1>4. others \cup ({p} \X L) \in SUBSET (Pages \X Pages)
  BY <1>2 DEF TypeOK
<1> HIDE DEF p, done, others
<1>5. RestTyped'
  <2>1. <<"page", p>> \in {"page"} \X Pages
    BY <1>2
  <2> QED
    BY <1>1, <2>1, WorkerDone
<1>6. RecordsTyped'
  BY <1>1, <1>3, <1>4, ReconcileType DEF TypeOK
<1>7. /\ KeepsPages(done, entries', {}) /\ KeepsPages(entries, entries', {})
      /\ KeepsSources(sources, sources', {})
  BY <1>1, <1>3, ReconcileKeeps, KeepingComposes DEF TypeOK
<1>8. entries'[p].state # "leased"
  BY <1>2, <1>3, <1>7 DEF KeepsPages
<1>9. PageLeaseCurrent(w)
  BY DEF CompleteWithLinks
<1>10. Finished
  BY <1>1, <1>7, <1>8, <1>9 DEF Finished, p
<1> QED
  BY <1>5, <1>6, <1>10, TypeJoined

LEMMA SourceDoneStep ==
  ASSUME TypeOK, NEW w \in Workers, SourceLeaseCurrent(w),
         NEW ents \in [Pages -> Entry], NEW srcs \in [Sources -> Source],
         NEW mem \in SUBSET (Sources \X Pages),
         NEW edges \in SUBSET (Sources \X Sources), NEW t \in Nat,
         KeepsPages(entries, ents, {}), KeepsSources(sources, srcs, {}),
         srcs[work[w].key].state # "leased",
         SourceDone(w, ents, srcs, mem, edges, t)
  PROVE  TypeOK' /\ Finished
<1>1. work[w].key \in Sources
  BY DEF SourceLeaseCurrent, TypeOK
<1>2. RestTyped'
  <2>1. <<"source", work[w].key>> \in {"source"} \X Sources
    BY <1>1
  <2> QED
    BY <2>1, WorkerDone DEF SourceDone
<1>3. RecordsTyped'
  BY ReconcileType DEF TypeOK, SourceDone
<1>4. /\ KeepsSources(srcs, sources', {}) /\ KeepsSources(sources, sources', {})
      /\ KeepsPages(entries, entries', {})
  BY ReconcileKeeps, KeepingComposes DEF SourceDone, TypeOK
<1>5. sources'[work[w].key].state # "leased"
  BY <1>1, <1>4 DEF KeepsSources
<1>6. Finished
  BY <1>4, <1>5 DEF Finished, SourceDone
<1> QED
  BY <1>2, <1>3, <1>6, TypeJoined

LEMMA SourceCompletionsStep ==
  ASSUME TypeOK, NEW w \in Workers, NEW d \in Delays,
         CompleteDiscoverySource(w, d) \/ PreserveDiscoverySnapshot(w, d)
  PROVE  TypeOK' /\ Finished
<1> DEFINE done(state) == [sources EXCEPT ![work[w].key] =
             [@ EXCEPT !.state = state, !.due = now + d, !.until = 0]]
<1>1. work[w].key \in Sources /\ SourceLeaseCurrent(w)
  BY DEF SourceLeaseCurrent, CompleteDiscoverySource,
         PreserveDiscoverySnapshot, TypeOK
<1>2. now + d \in Nat
  BY LimitsAssumption DEF TypeOK
<1>3. ASSUME NEW state \in {"retry", "succeeded"}
      PROVE  /\ done(state) \in [Sources -> Source]
             /\ done(state)[work[w].key].state # "leased"
             /\ KeepsSources(sources, done(state), {})
  <2>1. ASSUME NEW r \in Source, NEW t \in Nat
        PROVE  LET x == [r EXCEPT !.state = state, !.due = t, !.until = 0]
               IN  x \in Source /\ x.state = state
    BY DEF Source, PageStates
  <2> QED
    BY <1>1, <1>2, <2>1 DEF TypeOK, KeepsSources
<1>4. PICK state \in {"retry", "succeeded"} :
        SourceDone(w, entries, done(state), pageOf, childOf, now + d)
  BY DEF CompleteDiscoverySource, PreserveDiscoverySnapshot
<1>5. KeepsPages(entries, entries, {})
  BY DEF KeepsPages
<1>6. /\ done(state) \in [Sources -> Source]
      /\ done(state)[work[w].key].state # "leased"
      /\ KeepsSources(sources, done(state), {})
  BY <1>3
<1> HIDE DEF done
<1> QED
  BY <1>1, <1>2, <1>4, <1>5, <1>6, SourceDoneStep DEF TypeOK

LEMMA ApplyDiscoverySnapshotStep ==
  ASSUME TypeOK, NEW w \in Workers, NEW d \in Delays,
         NEW P \in SUBSET Pages, NEW C \in SUBSET Sources,
         ApplyDiscoverySnapshot(w, P, C, d)
  PROVE  TypeOK' /\ Finished
<1> DEFINE s == work[w].key
           mem == {e \in pageOf : e[1] # s} \cup ({s} \X P)
           edges == {e \in childOf : e[1] # s} \cup ({s} \X C)
           listed == [p \in Pages |->
        IF p \notin P THEN entries[p]
        ELSE IF entries[p].state = "absent" THEN NewPage(FALSE)
        ELSE IF entries[p].state = "disabled" /\ entries[p].orphaned
             THEN Requeued(entries[p]) ELSE entries[p]]
           grown == [c \in Sources |->
        CASE c = s ->
               [sources[s] EXCEPT !.state = "succeeded", !.due = now + d,
                                  !.until = 0, !.hasSnapshot = TRUE]
          [] c \in C \ {s} /\ sources[c].state = "absent" ->
               [NoSource EXCEPT !.state = "queued", !.due = now,
                                !.depth = sources[s].depth + 1]
          [] c \in C \ {s} /\ sources[c].state = "disabled" ->
               [sources[c] EXCEPT !.state = "queued", !.due = now]
          [] OTHER -> sources[c]]
<1>1. /\ SourceLeaseCurrent(w)
      /\ SourceDone(w, listed, grown, mem, edges, now)
  BY DEF ApplyDiscoverySnapshot
<1>2. s \in Sources
  BY <1>1 DEF SourceLeaseCurrent, TypeOK
<1>3. listed \in [Pages -> Entry] /\ KeepsPages(entries, listed, {})
  BY RequeuedType, NewPageType DEF TypeOK, KeepsPages
<1>4. /\ grown \in [Sources -> Source] /\ KeepsSources(sources, grown, {})
      /\ grown[s].state # "leased"
  <2>1. /\ now \in Nat /\ now + d \in Nat
        /\ \A c \in Sources : sources[c] \in Source
    BY LimitsAssumption DEF TypeOK
  <2>2. sources[s].depth + 1 \in Nat
    BY <1>2, <2>1 DEF Source
  <2> DEFINE t == now + d
             n == sources[s].depth + 1
             fetched == [sources[s] EXCEPT !.state = "succeeded", !.due = t,
                                  !.until = 0, !.hasSnapshot = TRUE]
             added == [NoSource EXCEPT !.state = "queued", !.due = now,
                                       !.depth = n]
             revived(c) == [sources[c] EXCEPT !.state = "queued", !.due = now]
  <2>3. grown = [c \in Sources |->
          CASE c = s -> fetched
            [] c \in C \ {s} /\ sources[c].state = "absent" -> added
            [] c \in C \ {s} /\ sources[c].state = "disabled" -> revived(c)
            [] OTHER -> sources[c]]
    OBVIOUS
  <2>6. t \in Nat /\ n \in Nat
    BY <2>1, <2>2
  <2> HIDE DEF t, n
  <2>7. /\ fetched \in Source /\ fetched.state = "succeeded"
        /\ added \in Source /\ added.state = "queued"
        /\ \A c \in Sources : revived(c) \in Source /\ revived(c).state = "queued"
    <3> DEFINE r == sources[s]
    <3>4. r \in Source /\ fetched = [r EXCEPT !.state = "succeeded", !.due = t,
                                         !.until = 0, !.hasSnapshot = TRUE]
      BY <1>2, <2>1
    <3> HIDE DEF r, fetched
    <3>1. fetched \in Source /\ fetched.state = "succeeded"
      BY <2>6, <3>4 DEF Source, PageStates
    <3>2. added \in Source /\ added.state = "queued"
      BY <2>1, <2>6 DEF Source, PageStates, NoSource
    <3>3. ASSUME NEW c \in Sources
          PROVE  revived(c) \in Source /\ revived(c).state = "queued"
      BY <2>1 DEF Source, PageStates
    <3> QED
      BY <3>1, <3>2, <3>3
  <2> HIDE DEF grown, fetched, added, revived
  <2>4. ASSUME NEW c \in Sources
        PROVE  /\ grown[c] \in Source
               /\ c = s => grown[c].state # "leased"
               /\ grown[c].state = "leased" => grown[c] = sources[c]
    BY <2>1, <2>3, <2>7
  <2> QED
    BY <1>2, <2>3, <2>4 DEF KeepsSources
<1>5. /\ mem \in SUBSET (Sources \X Pages)
      /\ edges \in SUBSET (Sources \X Sources)
  BY <1>2 DEF TypeOK
<1> HIDE DEF s, mem, edges, listed, grown
<1> QED
  BY <1>1, <1>3, <1>4, <1>5, SourceDoneStep DEF TypeOK, s

LEMMA ReopenStep ==
  ASSUME TypeOK, Reopen
  PROVE  TypeOK' /\ Quiet
<1> DEFINE rs == ReconciledSources(sources, childOf, now)
           re == ReconciledPages(entries, rs, pageOf, links, now)
           pl == PageLeaseIndex(re)
           sl == SourceLeaseIndex(rs)
<1>1. rs \in [Sources -> Source] /\ re \in [Pages -> Entry]
  BY ReconciledSourcesType, ReconciledPagesType DEF TypeOK
<1>2. /\ sources' = RecoveredSources(rs, sl)
      /\ entries' = RecoveredPages(re, pl)
      /\ due' = PageDueIndex(re) \cup Recovered(pl)
      /\ leases' = pl \ Expired(pl)
      /\ srcDue' = SourceDueIndex(rs) \cup Recovered(sl)
      /\ srcLeases' = sl \ Expired(sl)
      /\ refs' = AuthorityRefs(re, rs)
      /\ work' = [w \in Workers |-> Idle]
      /\ UNCHANGED <<graph, policy, hosts, seq, now, result, dispatch>>
  BY DEF Reopen
<1>3. /\ pl \subseteq Nat \X Pages /\ PageDueIndex(re) \subseteq Nat \X Pages
      /\ sl \subseteq Nat \X Sources
      /\ SourceDueIndex(rs) \subseteq Nat \X Sources
  BY <1>1, PageIndexTypes, SourceIndexTypes
<1> HIDE DEF rs, re, pl, sl
<1>4. Recovered(pl) \subseteq Nat \X Pages
      /\ Recovered(sl) \subseteq Nat \X Sources
  BY <1>3 DEF Recovered, Expired, TypeOK
<1>5. entries' \in [Pages -> Entry]
  <2>1. ASSUME NEW e \in Entry
        PROVE  [e EXCEPT !.state = "retry", !.due = now, !.until = 0,
                         !.orphaned = FALSE] \in Entry
    BY DEF TypeOK, Entry, PageStates
  <2> QED
    BY <1>1, <1>2, <2>1 DEF RecoveredPages
<1>6. sources' \in [Sources -> Source]
  <2>1. ASSUME NEW r \in Source
        PROVE  [r EXCEPT !.state = "retry", !.due = now, !.until = 0]
                 \in Source
    BY DEF TypeOK, Source, PageStates
  <2> QED
    BY <1>1, <1>2, <2>1 DEF RecoveredSources
<1>7. RecordsTyped'
  BY <1>2, <1>3, <1>4, <1>5, <1>6, AuthorityRefsType
     DEF TypeOK, RecordsTyped, graph
<1>8. RestTyped'
  <2>1. Idle \in Lease /\ Idle.kind = "idle"
    BY ConstantRecords DEF Idle
  <2> QED
    BY <1>2, <2>1 DEF TypeOK, RestTyped
<1>9. /\ KeepsPages(entries, re, {}) /\ KeepsSources(sources, rs, {})
  BY ReconciledKeeps DEF TypeOK, re, rs
<1>10. Quiet
  BY <1>1, <1>2, <1>9, RecoveryKeeps, KeepingComposes DEF Quiet
<1> QED
  BY <1>7, <1>8, <1>10, TypeJoined

LEMMA ReserveHostStep ==
  ASSUME TypeOK, NEW w \in Workers, NEW i \in Intervals, ReserveHost(w, i)
  PROVE  TypeOK' /\ Quiet
<1>1. [last |-> now, interval |-> i] \in [last : Nat, interval : Nat]
  BY LimitsAssumption DEF TypeOK
<1>2. TypeOK'
  BY <1>1 DEF TypeOK, ReserveHost, graph, indexes
<1> QED
  BY <1>2, UnchangedKeeps DEF ReserveHost, Quiet

LEMMA TypeInit == Init => TypeOK
<1> SUFFICES ASSUME Init PROVE TypeOK
  OBVIOUS
<1>1. entries \in [Pages -> Entry] /\ sources \in [Sources -> Source]
      /\ work \in [Workers -> Lease]
  BY ConstantRecords DEF Init
<1> QED
  BY <1>1 DEF Init, TypeOK, Idle

LEMMA StepEffect ==
  ASSUME TypeOK, [Next]_vars
  PROVE  TypeOK' /\ (Quiet \/ Granted \/ Finished)
<1>1. CASE \E S \in SUBSET Pages : SyncSeeds(S)
  BY <1>1, SyncSeedsStep
<1>2. CASE \E S \in SUBSET Roots :
             \E K \in SUBSET (S \cap Present(sources, Sources)) :
               SyncDiscoverySources(S, K)
  BY <1>2, SyncDiscoverySourcesStep DEF Roots
<1>3. CASE \E new \in [Jobs -> 0..MaxLinksPerPage] : SyncLinkPolicies(new)
  BY <1>3, SyncLinkPoliciesStep
<1>4. CASE \E n \in PruneLimits : PruneDisabled(n)
  BY <1>4, PruneDisabledStep
<1>5. CASE \E w \in Workers, j \in Jobs :
             LeasePage(w, j) \/ LeaseNoPage(w, j)
  BY <1>5, LeasePageStep
<1>6. CASE \E w \in Workers, j \in Jobs :
             LeaseSource(w, j) \/ LeaseNoSource(w, j)
  BY <1>6, LeaseSourceStep
<1>7. CASE \E w \in Workers, d \in Delays :
             \E o \in {"succeeded", "rejected", "retry", "disabled"} :
               Complete(w, o, d)
  BY <1>7, CompleteStep DEF PageStates
<1>8. CASE \E w \in Workers, d \in Delays :
             \E o \in {"succeeded", "rejected"}, L \in SUBSET Pages :
               CompleteWithLinks(w, o, d, L)
  BY <1>8, CompleteWithLinksStep DEF PageStates
<1>9. CASE \E w \in Workers, d \in Delays :
             \/ CompleteDiscoverySource(w, d)
             \/ PreserveDiscoverySnapshot(w, d)
  BY <1>9, SourceCompletionsStep
<1>10. CASE \E w \in Workers, d \in Delays :
              \E P \in SUBSET Pages, C \in SUBSET Sources :
                ApplyDiscoverySnapshot(w, P, C, d)
  BY <1>10, ApplyDiscoverySnapshotStep
<1>11. CASE \E w \in Workers : GiveUp(w)
  <2>1. Idle \in Lease /\ Idle.kind = "idle"
    BY ConstantRecords DEF Idle
  <2> QED
    BY <1>11, <2>1, UnchangedKeeps
       DEF GiveUp, store, graph, indexes, TypeOK, Quiet
<1>12. CASE \E w \in Workers, i \in Intervals : ReserveHost(w, i)
  BY <1>12, ReserveHostStep
<1>13. CASE Reopen
  BY <1>13, ReopenStep
<1>14. CASE Tick \/ UNCHANGED vars
  BY <1>14, UnchangedKeeps
     DEF Tick, vars, store, graph, indexes, TypeOK, Quiet
<1> QED
  BY <1>1, <1>2, <1>3, <1>4, <1>5, <1>6, <1>7, <1>8, <1>9, <1>10, <1>11,
     <1>12, <1>13, <1>14 DEF Next

(* The frontier's records, graphs, indexes and counters keep their types,  *)
(* and a worker's lease always names a page or a source that exists.       *)
THEOREM FrontierTyped == Spec => []TypeOK
<1>1. Init => TypeOK
  BY TypeInit
<1>2. TypeOK /\ [Next]_vars => TypeOK'
  BY StepEffect
<1> QED
  BY <1>1, <1>2, PTL DEF Spec

-----------------------------------------------------------------------------
(* The lease ledger.                                                       *)

Owner == [i \in Items |->
  IF i[1] = "page"
  THEN IF entries[i[2]].state = "leased" THEN entries[i[2]].gen ELSE 0
  ELSE IF sources[i[2]].state = "leased" THEN sources[i[2]].gen ELSE 0]

(* A worker's number was drawn from the sequence and is nobody else's; a   *)
(* leased record has a number.                                             *)
NumbersDrawn ==
  /\ \A p \in Pages : entries[p].state = "leased" => entries[p].gen # 0
  /\ \A s \in Sources : sources[s].state = "leased" => sources[s].gen # 0
  /\ \A w \in Workers : work[w].gen <= seq
  /\ \A w \in Workers : work[w] # Idle => work[w].gen # 0
  /\ \A v, w \in Workers : v # w /\ work[v] # Idle => work[v].gen # work[w].gen

LEMMA NumbersDrawnInit == Init => NumbersDrawn
  BY DEF Init, NumbersDrawn, NoPage, NoSource, Idle

LEMMA NumbersDrawnNext ==
  ASSUME TypeOK, NumbersDrawn, TypeOK', Quiet \/ Granted \/ Finished
  PROVE  NumbersDrawn'
<1>1. Idle.gen = 0 /\ seq \in Nat /\ \A w \in Workers : work[w].gen \in Nat
  BY DEF Idle, TypeOK, Lease
<1>2. CASE Quiet
  <2>1. /\ \A p \in Pages : entries'[p].state = "leased" => entries'[p].gen # 0
        /\ \A s \in Sources : sources'[s].state = "leased" => sources'[s].gen # 0
    BY <1>2 DEF Quiet, NumbersDrawn, KeepsPages, KeepsSources
  <2>2. seq' = seq /\ \A w \in Workers : work'[w] \in {work[w], Idle}
    BY <1>2 DEF Quiet
  <2> QED
    BY <1>1, <2>1, <2>2 DEF NumbersDrawn
<1>3. CASE Granted
  <2>1. PICK w \in Workers, l \in Lease :
          /\ work' = [work EXCEPT ![w] = l]
          /\ l.gen = seq + 1 /\ seq' = seq + 1
          /\ \A p \in Pages : entries'[p].state = "leased" =>
                 \/ entries[p].state = "leased" /\ entries'[p].gen = entries[p].gen
                 \/ entries'[p].gen = seq + 1
          /\ \A s \in Sources : sources'[s].state = "leased" =>
                 \/ sources[s].state = "leased" /\ sources'[s].gen = sources[s].gen
                 \/ sources'[s].gen = seq + 1
    BY <1>3 DEF Granted, KeepsPages, KeepsSources
  <2>2. /\ seq \in Nat /\ work'[w] = l
        /\ \A v \in Workers \ {w} : work'[v] = work[v]
    BY <2>1 DEF TypeOK
  <2> QED
    BY <1>1, <2>1, <2>2 DEF NumbersDrawn
<1>4. CASE Finished
  <2>1. PICK w \in Workers : work' = [work EXCEPT ![w] = Idle]
    BY <1>4 DEF Finished
  <2>2. /\ work'[w] = Idle
        /\ \A v \in Workers \ {w} : work'[v] = work[v]
    BY <2>1 DEF TypeOK
  <2>3. /\ \A p \in Pages : entries'[p].state = "leased" => entries'[p].gen # 0
        /\ \A s \in Sources : sources'[s].state = "leased" => sources'[s].gen # 0
    BY <1>4 DEF Finished, NumbersDrawn, KeepsPages, KeepsSources
  <2>4. seq' = seq /\ \A v \in Workers : work'[v] \in {work[v], Idle}
    BY <1>4, <2>2 DEF Finished
  <2> QED
    BY <1>1, <2>3, <2>4 DEF NumbersDrawn
<1> QED
  BY <1>2, <1>3, <1>4

(* Two workers never both hold a lease the frontier would honour for one   *)
(* item, and no worker holds a number the sequence has not reached: not    *)
(* after an expiry, not after a restart, not after pages were pruned and   *)
(* created again.                                                          *)
THEOREM HoldersAreDistinct == Spec => []HoldersDistinct
<1>1. Init => TypeOK /\ NumbersDrawn
  BY TypeInit, NumbersDrawnInit
<1>2. TypeOK /\ NumbersDrawn /\ [Next]_vars => (TypeOK /\ NumbersDrawn)'
  BY StepEffect, NumbersDrawnNext
<1>3. TypeOK /\ NumbersDrawn => HoldersDistinct
  BY DEF TypeOK, NumbersDrawn, HoldersDistinct, PageLeaseCurrent,
         SourceLeaseCurrent, Idle
<1> QED
  BY <1>1, <1>2, <1>3, PTL DEF Spec

LEMMA LedgerTerms ==
  /\ Ledger!LedgerInit <=> /\ Owner = [i \in Items |-> 0]
                          /\ seq = 0 /\ result = [i \in Items |-> 0]
  /\ (\E S \in SUBSET Items :
         /\ Owner' = [i \in Items |-> IF i \in S THEN 0 ELSE Owner[i]]
         /\ UNCHANGED <<seq, result>>) => Ledger!Revoke
  /\ (\E S \in SUBSET Items, i \in Items :
         /\ i \in S /\ seq < MaxSeq /\ seq' = seq + 1
         /\ Owner' = [[k \in Items |-> IF k \in S THEN 0 ELSE Owner[k]]
                        EXCEPT ![i] = seq + 1]
         /\ UNCHANGED result) => Ledger!Grant
  /\ (\E S \in SUBSET Items, i \in Items :
         /\ Owner[i] # 0
         /\ result' = [result EXCEPT ![i] = Owner[i]]
         /\ Owner' = [k \in Items |-> IF k \in S \cup {i} THEN 0 ELSE Owner[k]]
         /\ UNCHANGED seq) => Ledger!Finish
<1>1. Ledger!LedgerInit <=> /\ Owner = [i \in Items |-> 0]
                           /\ seq = 0 /\ result = [i \in Items |-> 0]
  BY DEF Ledger!LedgerInit, Owner
<1>2. ASSUME NEW S \in SUBSET Items, UNCHANGED <<seq, result>>,
             Owner' = [i \in Items |-> IF i \in S THEN 0 ELSE Owner[i]]
      PROVE  Ledger!Revoke
  BY <1>2 DEF Ledger!Revoke, Ledger!Without, Owner
<1>3. ASSUME NEW S \in SUBSET Items, NEW i \in Items, i \in S,
             seq < MaxSeq, seq' = seq + 1, UNCHANGED result,
             Owner' = [[k \in Items |-> IF k \in S THEN 0 ELSE Owner[k]]
                         EXCEPT ![i] = seq + 1]
      PROVE  Ledger!Grant
  BY <1>3 DEF Ledger!Grant, Ledger!Without, Owner
<1>4. ASSUME NEW S \in SUBSET Items, NEW i \in Items, Owner[i] # 0, UNCHANGED seq,
             result' = [result EXCEPT ![i] = Owner[i]],
             Owner' = [k \in Items |-> IF k \in S \cup {i} THEN 0 ELSE Owner[k]]
      PROVE  Ledger!Finish
  BY <1>4 DEF Ledger!Finish, Ledger!Without, Owner
<1> QED
  BY <1>1, <1>2, <1>3, <1>4

(* What keeping leases means for the owner of an item.                     *)
LEMMA OwnerKept ==
  ASSUME NEW P, NEW S,
         KeepsPages(entries, entries', P), KeepsSources(sources, sources', S),
         NEW i \in Items, i[1] = "page" => i[2] \notin P,
         i[1] # "page" => i[2] \notin S
  PROVE  Owner'[i] \in {0, Owner[i]}
<1>1. /\ i[1] = "page" => i[2] \in Pages \ P
      /\ i[1] # "page" => i[2] \in Sources \ S
  BY DEF Items
<1> QED
  BY <1>1 DEF Owner, KeepsPages, KeepsSources

LEMMA LedgerStep ==
  ASSUME TypeOK, NumbersDrawn, TypeOK', Quiet \/ Granted \/ Finished
  PROVE  Ledger!LedgerNext
<1> DEFINE S == {k \in Items : Owner'[k] = 0}
<1>0. Owner = [k \in Items |-> Owner[k]] /\ Owner' = [k \in Items |-> Owner'[k]]
  BY DEF Owner
<1>1. CASE Quiet
  <2>1. \A k \in Items : Owner'[k] \in {0, Owner[k]}
    BY <1>1, OwnerKept DEF Quiet
  <2>2. Owner' = [k \in Items |-> IF k \in S THEN 0 ELSE Owner[k]]
    BY <1>0, <2>1
  <2>3. S \in SUBSET Items /\ UNCHANGED <<seq, result>>
    BY <1>1 DEF Quiet
  <2> QED
    BY <2>2, <2>3, LedgerTerms DEF Ledger!LedgerNext
<1>2. CASE Granted
  <2>1. PICK i \in Items :
          /\ seq < MaxSeq /\ seq' = seq + 1 /\ UNCHANGED result
          /\ Owner'[i] = seq + 1
          /\ \A k \in Items \ {i} : Owner'[k] \in {0, Owner[k]}
    <3>1. PICK w \in Workers, l \in Lease :
            /\ l.gen = seq + 1 /\ seq' = seq + 1 /\ seq < MaxSeq
            /\ UNCHANGED result
            /\ \/ /\ l.key \in Pages
                  /\ KeepsPages(entries, entries', {l.key})
                  /\ KeepsSources(sources, sources', {})
                  /\ entries'[l.key].state = "leased"
                  /\ entries'[l.key].gen = l.gen
               \/ /\ l.key \in Sources
                  /\ KeepsPages(entries, entries', {})
                  /\ KeepsSources(sources, sources', {l.key})
                  /\ sources'[l.key].state = "leased"
                  /\ sources'[l.key].gen = l.gen
      BY <1>2 DEF Granted
    <3>2. CASE /\ l.key \in Pages
               /\ KeepsPages(entries, entries', {l.key})
               /\ KeepsSources(sources, sources', {})
               /\ entries'[l.key].state = "leased"
               /\ entries'[l.key].gen = l.gen
      <4> DEFINE i == <<"page", l.key>>
      <4>1. i \in Items /\ Owner'[i] = seq + 1
        BY <3>1, <3>2 DEF Items, Owner
      <4>2. \A k \in Items \ {i} : k[1] = "page" => k[2] \notin {l.key}
        BY DEF Items
      <4>3. \A k \in Items \ {i} : Owner'[k] \in {0, Owner[k]}
        BY <3>2, <4>2, OwnerKept
      <4> QED
        BY <3>1, <4>1, <4>3
    <3>3. CASE /\ l.key \in Sources
               /\ KeepsPages(entries, entries', {})
               /\ KeepsSources(sources, sources', {l.key})
               /\ sources'[l.key].state = "leased"
               /\ sources'[l.key].gen = l.gen
      <4> DEFINE i == <<"source", l.key>>
      <4>1. i \in Items /\ Owner'[i] = seq + 1
        BY <3>1, <3>3 DEF Items, Owner
      <4>2. \A k \in Items \ {i} : k[1] # "page" => k[2] \notin {l.key}
        BY DEF Items
      <4>3. \A k \in Items \ {i} : Owner'[k] \in {0, Owner[k]}
        BY <3>3, <4>2, OwnerKept
      <4> QED
        BY <3>1, <4>1, <4>3
    <3> QED
      BY <3>1, <3>2, <3>3
  <2>2. Owner' = [[k \in Items |-> IF k \in S \cup {i} THEN 0 ELSE Owner[k]]
                    EXCEPT ![i] = seq + 1]
    BY <1>0, <2>1
  <2>3. S \cup {i} \in SUBSET Items /\ i \in S \cup {i}
    OBVIOUS
  <2> QED
    BY <2>1, <2>2, <2>3, LedgerTerms DEF Ledger!LedgerNext
<1>3. CASE Finished
  <2>1. \A k \in Items : Owner'[k] \in {0, Owner[k]}
    BY <1>3, OwnerKept DEF Finished
  <2>2. PICK i \in Items : /\ Owner[i] # 0 /\ Owner'[i] = 0
                          /\ result' = [result EXCEPT ![i] = Owner[i]]
                          /\ UNCHANGED seq
    <3>1. PICK w \in Workers :
            /\ UNCHANGED seq
            /\ \/ /\ PageLeaseCurrent(w)
                  /\ entries'[work[w].key].state # "leased"
                  /\ result' = [result EXCEPT
                                  ![<<"page", work[w].key>>] = work[w].gen]
               \/ /\ SourceLeaseCurrent(w)
                  /\ sources'[work[w].key].state # "leased"
                  /\ result' = [result EXCEPT
                                  ![<<"source", work[w].key>>] = work[w].gen]
      BY <1>3 DEF Finished
    <3>2. CASE PageLeaseCurrent(w) /\ entries'[work[w].key].state # "leased"
               /\ result' = [result EXCEPT
                               ![<<"page", work[w].key>>] = work[w].gen]
      <4>1. /\ work[w].key \in Pages /\ entries[work[w].key].state = "leased"
            /\ entries[work[w].key].gen = work[w].gen
        BY <3>2 DEF PageLeaseCurrent, TypeOK
      <4>2. /\ <<"page", work[w].key>> \in Items
            /\ Owner[<<"page", work[w].key>>] = work[w].gen
            /\ Owner'[<<"page", work[w].key>>] = 0
        BY <3>2, <4>1 DEF Items, Owner
      <4>3. work[w].gen # 0
        BY <4>1 DEF NumbersDrawn
      <4> QED
        BY <3>1, <3>2, <4>2, <4>3
    <3>3. CASE SourceLeaseCurrent(w) /\ sources'[work[w].key].state # "leased"
               /\ result' = [result EXCEPT
                               ![<<"source", work[w].key>>] = work[w].gen]
      <4>1. /\ work[w].key \in Sources
            /\ sources[work[w].key].state = "leased"
            /\ sources[work[w].key].gen = work[w].gen
        BY <3>3 DEF SourceLeaseCurrent, TypeOK
      <4>2. /\ <<"source", work[w].key>> \in Items
            /\ Owner[<<"source", work[w].key>>] = work[w].gen
            /\ Owner'[<<"source", work[w].key>>] = 0
        BY <3>3, <4>1 DEF Items, Owner
      <4>3. work[w].gen # 0
        BY <4>1 DEF NumbersDrawn
      <4> QED
        BY <3>1, <3>3, <4>2, <4>3
    <3> QED
      BY <3>1, <3>2, <3>3
  <2>3. Owner' = [k \in Items |-> IF k \in S \cup {i} THEN 0 ELSE Owner[k]]
    BY <1>0, <2>1, <2>2
  <2>4. S \in SUBSET Items
    OBVIOUS
  <2> QED
    BY <2>2, <2>3, <2>4, LedgerTerms DEF Ledger!LedgerNext
<1> QED
  BY <1>1, <1>2, <1>3

LEMMA LedgerStart ==
  ASSUME Init
  PROVE  Ledger!LedgerInit
<1>1. \A i \in Items : Owner[i] = 0
  BY DEF Owner, Items, Init, NoPage, NoSource
<1>2. Owner = [i \in Items |-> 0]
  BY <1>1 DEF Owner
<1> QED
  BY <1>2, LedgerTerms DEF Init

(* The frontier implements the lease ledger: every outcome on record was   *)
(* written under the lease in force, and no number is drawn twice.         *)
THEOREM FrontierImplementsLedger == Spec => LedgerRefined
<1>1. Init => Ledger!LedgerInit /\ TypeOK /\ NumbersDrawn
  BY LedgerStart, TypeInit, NumbersDrawnInit
<1>2. TypeOK /\ NumbersDrawn /\ [Next]_vars
        => /\ (TypeOK /\ NumbersDrawn)'
           /\ [Ledger!LedgerNext]_(Ledger!ledgerVars)
  BY StepEffect, NumbersDrawnNext, LedgerStep
<1> QED
  BY <1>1, <1>2, PTL DEF Spec, LedgerRefined, Ledger!LedgerSpec

-----------------------------------------------------------------------------
(* Politeness.  What the store remembers of a host is what was last granted*)
(* for it, as long as nothing is pruned (no program calls PruneDisabled;   *)
(* pruning a host's last page forgets the host).                           *)

Remembered == hosts = dispatch

LEMMA DispatchStep ==
  ASSUME PruneLimits = {}, [Next]_vars
  PROVE  \/ UNCHANGED <<hosts, dispatch>>
         \/ \E w \in Workers, i \in Intervals : ReserveHost(w, i)
<1>1. ASSUME NEW w \in Workers, NEW j \in Jobs,
             \/ LeasePage(w, j) \/ LeaseNoPage(w, j)
             \/ LeaseSource(w, j) \/ LeaseNoSource(w, j)
      PROVE  UNCHANGED <<hosts, dispatch>>
  BY <1>1 DEF LeasePage, LeaseNoPage, LeaseSource, LeaseNoSource
<1>2. ASSUME NEW w \in Workers, NEW d \in Delays,
             \/ \E o \in {"succeeded", "rejected", "retry", "disabled"} :
                  Complete(w, o, d)
             \/ \E o \in {"succeeded", "rejected"}, L \in SUBSET Pages :
                  CompleteWithLinks(w, o, d, L)
             \/ CompleteDiscoverySource(w, d)
             \/ PreserveDiscoverySnapshot(w, d)
             \/ \E P \in SUBSET Pages, C \in SUBSET Sources :
                  ApplyDiscoverySnapshot(w, P, C, d)
      PROVE  UNCHANGED <<hosts, dispatch>>
  BY <1>2 DEF Complete, CompleteWithLinks, CompleteDiscoverySource,
              PreserveDiscoverySnapshot, ApplyDiscoverySnapshot, SourceDone
<1>3. ASSUME \/ \E S \in SUBSET Pages : SyncSeeds(S)
             \/ \E S, K : SyncDiscoverySources(S, K)
             \/ \E new : SyncLinkPolicies(new)
             \/ \E w : GiveUp(w)
             \/ Reopen \/ Tick \/ UNCHANGED vars
      PROVE  UNCHANGED <<hosts, dispatch>>
  BY <1>3 DEF SyncSeeds, SyncDiscoverySources, SyncLinkPolicies, GiveUp,
              Reopen, Tick, vars, store
<1> QED
  BY <1>1, <1>2, <1>3 DEF Next

(* Two dispatches to one authority keep the larger of the two intervals    *)
(* between them, across jobs, workers and restarts, when nothing is pruned.*)
THEOREM DispatchIsPolite ==
  ASSUME PruneLimits = {}
  PROVE  Spec => PoliteDispatch
<1>1. Init => TypeOK /\ Remembered
  BY TypeInit DEF Init, Remembered
<1>2. TypeOK /\ Remembered /\ [Next]_vars => (TypeOK /\ Remembered)'
  <2> SUFFICES ASSUME TypeOK, Remembered, [Next]_vars
               PROVE  TypeOK' /\ Remembered'
    OBVIOUS
  <2>1. CASE UNCHANGED <<hosts, dispatch>>
    BY <2>1, StepEffect DEF Remembered
  <2>2. CASE \E w \in Workers, i \in Intervals : ReserveHost(w, i)
    BY <2>2, StepEffect DEF Remembered, ReserveHost
  <2> QED
    BY <2>1, <2>2, DispatchStep
<1>3. TypeOK /\ Remembered /\ [Next]_vars =>
        [\A a \in Authorities :
           dispatch'[a] # dispatch[a] /\ dispatch[a].last # 0 =>
             dispatch'[a].last >= dispatch[a].last
               + Larger(dispatch[a].interval, dispatch'[a].interval)]_vars
  <2> SUFFICES ASSUME TypeOK, Remembered, [Next]_vars, NEW a \in Authorities,
                      dispatch'[a] # dispatch[a], dispatch[a].last # 0
               PROVE  dispatch'[a].last >= dispatch[a].last
                        + Larger(dispatch[a].interval, dispatch'[a].interval)
    OBVIOUS
  <2>1. PICK w \in Workers, i \in Intervals : ReserveHost(w, i)
    BY DispatchStep
  <2>2. /\ a = WorkAuthority(w) /\ Rested(a, i)
        /\ dispatch'[a] = [last |-> now, interval |-> i]
    BY <2>1 DEF ReserveHost, TypeOK
  <2>3. hosts[a].last + Larger(i, hosts[a].interval) <= now
    BY <2>2 DEF Rested, Remembered
  <2>4. /\ i \in Nat /\ now \in Nat /\ dispatch[a].last \in Nat
        /\ dispatch[a].interval \in Nat
    BY LimitsAssumption DEF TypeOK
  <2> QED
    BY <2>2, <2>3, <2>4 DEF Larger, Remembered
<1> QED
  BY <1>1, <1>2, <1>3, PTL DEF Spec, PoliteDispatch

-----------------------------------------------------------------------------
(* What every transaction leaves behind: the store can be opened again and *)
(* its schedule follows its graphs.  First, how far a source is from a     *)
(* configured root.                                                        *)

(* A nonempty set of numbers has a least one.                              *)
LEMMA LeastNumber ==
  ASSUME NEW S \in SUBSET Nat, S # {}
  PROVE  \E n \in S : \A m \in S : n <= m
<1>1. PICK n \in S : \A m \in S : <<m, n>> \notin OpToRel(<, Nat)
  BY WFMin, NatLessThanWellFounded, Zenon
<1>2. \A m \in S : ~(m < n)
  BY <1>1, Zenon DEF OpToRel
<1>. QED
  BY <1>2

-----------------------------------------------------------------------------
(* The sources within so many hops of a configured root.                   *)
Rooted(srcs) == {s \in Sources : srcs[s].configured}
Near(edges, near) == near \cup {e[2] : e \in {x \in edges : x[1] \in near}}
Reaches(R, n, srcs, edges) ==
  R = [d \in 0..n |-> IF d = 0 THEN Rooted(srcs) ELSE Near(edges, R[d - 1])]

(* The recursion that defines Within has a solution for every bound.       *)
LEMMA ReachExists ==
  ASSUME NEW srcs, NEW edges, NEW n \in Nat
  PROVE  \E R : Reaches(R, n, srcs, edges)
<1> DEFINE Bad == {m \in Nat : ~\E R : Reaches(R, m, srcs, edges)}
<1>1. SUFFICES ASSUME Bad # {} PROVE FALSE
  BY <1>1
<1>2. PICK m \in Bad : \A k \in Bad : m <= k
  BY <1>1, LeastNumber
<1>3. CASE m = 0
  <2>1. PICK R : R = [d \in 0..0 |-> Rooted(srcs)]
    OBVIOUS
  <2>2. Reaches(R, 0, srcs, edges)
    BY <2>1 DEF Reaches
  <2> QED
    BY <1>2, <1>3, <2>2
<1>4. CASE m # 0
  <2>1. m - 1 \in Nat /\ m - 1 \notin Bad
    BY <1>2, <1>4
  <2>2. PICK h : Reaches(h, m - 1, srcs, edges)
    BY <2>1
  <2>3. PICK R : R = [d \in 0..m |-> IF d = m THEN Near(edges, h[m - 1]) ELSE h[d]]
    OBVIOUS
  <2>4. \A d \in 0..(m - 1) : R[d] = h[d]
    BY <2>1, <2>3
  <2>5. \A d \in 0..(m - 1) : h[d] = IF d = 0 THEN Rooted(srcs) ELSE Near(edges, h[d - 1])
    BY <2>2 DEF Reaches
  <2>6. \A d \in 0..m : R[d] = IF d = 0 THEN Rooted(srcs) ELSE Near(edges, R[d - 1])
    <3> TAKE d \in 0..m
    <3>1. CASE d = m
      <4>1. R[m] = Near(edges, h[m - 1]) /\ R[m - 1] = h[m - 1]
        BY <2>1, <2>3, <2>4
      <4> QED
        BY <3>1, <4>1, <1>4
    <3>2. CASE d # m
      <4>1. d \in 0..(m - 1) /\ (d # 0 => d - 1 \in 0..(m - 1))
        BY <2>1, <3>2
      <4> QED
        BY <4>1, <2>4, <2>5
    <3> QED
      BY <3>1, <3>2
  <2>7. Reaches(R, m, srcs, edges)
    BY <2>3, <2>6 DEF Reaches
  <2> QED
    BY <1>2, <2>7
<1> QED
  BY <1>3, <1>4

LEMMA WithinIs ==
  ASSUME NEW srcs, NEW edges
  PROVE  Reaches(Within(srcs, edges), MaxSourceDepth, srcs, edges)
<1>1. MaxSourceDepth \in Nat
  BY LimitsAssumption
<1>2. PICK R : Reaches(R, MaxSourceDepth, srcs, edges)
  BY <1>1, ReachExists
<1>3. Within(srcs, edges) = CHOOSE g : Reaches(g, MaxSourceDepth, srcs, edges)
  BY DEF Within, Reaches, Rooted, Near
<1> QED
  BY <1>2, <1>3

LEMMA WithinGrows ==
  ASSUME NEW srcs, NEW edges, NEW W, W = Within(srcs, edges), NEW N, N = MaxSourceDepth
  PROVE  /\ N \in Nat /\ W[0] = Rooted(srcs)
         /\ \A d \in 1..N : W[d] = Near(edges, W[d - 1])
         /\ \A i, j \in 0..N : i <= j => W[i] \subseteq W[j]
<1>1. N \in Nat
  BY LimitsAssumption
<1>2. Reaches(W, N, srcs, edges)
  BY WithinIs
<1>3. \A d \in 0..N : W[d] = IF d = 0 THEN Rooted(srcs) ELSE Near(edges, W[d - 1])
  BY <1>2 DEF Reaches
<1>4. W[0] = Rooted(srcs) /\ \A d \in 1..N : W[d] = Near(edges, W[d - 1])
  BY <1>1, <1>3
<1>5. ASSUME NEW i \in 0..N
      PROVE  \A j \in 0..N : i <= j => W[i] \subseteq W[j]
  <2> DEFINE Bad == {j \in 0..N : i <= j /\ ~(W[i] \subseteq W[j])}
  <2>1. SUFFICES ASSUME Bad # {} PROVE FALSE
    BY <2>1
  <2>2. Bad \in SUBSET Nat
    OBVIOUS
  <2>3. PICK j \in Bad : \A k \in Bad : j <= k
    <3> HIDE DEF Bad
    <3> QED
      BY <2>1, <2>2, LeastNumber
  <2>4. j \in 0..N /\ i <= j /\ j # i
    BY <2>3
  <2>5. j \in 1..N /\ j - 1 \in 0..N /\ i <= j - 1 /\ ~(j <= j - 1)
    BY <2>4, <1>1
  <2>6. W[i] \subseteq W[j - 1]
    BY <2>3, <2>5
  <2>7. W[j - 1] \subseteq W[j]
    BY <1>4, <2>5 DEF Near
  <2> QED
    BY <2>3, <2>6, <2>7
<1> QED
  BY <1>1, <1>4, <1>5

Hops(W, s) == Cardinality({d \in 0..MaxSourceDepth : s \notin W[d]})

(* The hops of a source are the first depth within which it lies.          *)
LEMMA HopsAre ==
  ASSUME NEW srcs, NEW edges, NEW W, W = Within(srcs, edges), NEW s, s \in W[MaxSourceDepth]
  PROVE  /\ Hops(W, s) \in 0..MaxSourceDepth
         /\ \A d \in 0..MaxSourceDepth : s \in W[d] <=> Hops(W, s) <= d
<1>1. PICK N : N = MaxSourceDepth
  OBVIOUS
<1>2. N \in Nat /\ \A i, j \in 0..N : i <= j => W[i] \subseteq W[j]
  BY <1>1, WithinGrows
<1>3. PICK D : D = {d \in 0..N : s \in W[d]}
  OBVIOUS
<1>4. D \in SUBSET Nat /\ D # {}
  BY <1>1, <1>2, <1>3
<1>5. PICK k \in D : \A d \in D : k <= d
  BY <1>4, LeastNumber
<1>6. k \in 0..N /\ s \in W[k]
  BY <1>3, <1>5
<1>7. \A d \in 0..N : s \in W[d] <=> k <= d
  BY <1>2, <1>3, <1>5, <1>6
<1>8. {d \in 0..N : s \notin W[d]} = 0..(k - 1)
  BY <1>2, <1>6, <1>7
<1>9. Cardinality(0..(k - 1)) = k
  <2>1. 0 \in Int /\ k - 1 \in Int
    BY <1>6
  <2>2. Cardinality(0..(k - 1)) = IF 0 > k - 1 THEN 0 ELSE (k - 1) - 0 + 1
    BY <2>1, FS_Interval
  <2> QED
    BY <2>2, <1>6
<1>10. Hops(W, s) = k
  BY <1>1, <1>8, <1>9 DEF Hops
<1> QED
  BY <1>1, <1>6, <1>7, <1>10

-----------------------------------------------------------------------------
(* What the store's parts say of each other, of any version of them: what  *)
(* Open insists on, and that nothing is known of what is not there.        *)
PageGood(e, sq) ==
  /\ e.gen <= sq
  /\ e.state = "absent" => ~e.explicit
  /\ e.state \in Schedulable => e.due # 0 /\ e.until = 0
  /\ e.state = "leased" => e.until # 0 /\ e.gen # 0
  /\ e.state = "disabled" => e.due = 0 /\ e.until = 0
SourceGood(r, sq) ==
  /\ r.gen <= sq
  /\ r.state = "absent" => ~r.configured /\ ~r.hasSnapshot
  /\ r.state \in SourceSchedulable => r.due # 0 /\ r.until = 0
  /\ r.state = "leased" => r.until # 0 /\ r.gen # 0
  /\ r.state = "disabled" => r.due = 0 /\ r.until = 0
RecordsGood(ents, srcs, sq) ==
  /\ \A p \in Pages : PageGood(ents[p], sq)
  /\ \A s \in Sources : SourceGood(srcs[s], sq)
  /\ \A s \in Sources : srcs[s].configured => SourceRoot[s] = s
  /\ Cardinality(Present(ents, Pages)) <= MaxEntries
  /\ Cardinality(Present(srcs, Sources)) <= MaxSources
SnapshotsGood(ents, srcs, mem, edges) ==
  /\ \A e \in mem : /\ srcs[e[1]].hasSnapshot
                    /\ ents[e[2]].state # "absent"
                    /\ SourceJob[e[1]] = PageJob[e[2]]
  /\ \A e \in edges : /\ srcs[e[1]].hasSnapshot
                      /\ srcs[e[2]].state # "absent"
                      /\ SourceJob[e[1]] = SourceJob[e[2]]
                      /\ SourceRoot[e[1]] = SourceRoot[e[2]]
SnapshotsFit(mem, edges) ==
  /\ \A s \in Sources :
       /\ Cardinality({e \in mem : e[1] = s}) <= MaxPagesPerSource
       /\ Cardinality({e \in edges : e[1] = s}) <= MaxChildrenPerSource
  /\ Cardinality(mem) <= MaxMemberships
  /\ Cardinality(edges) <= MaxSourceEdges
LinksGood(ents, lnk, pol) ==
  /\ \A e \in lnk : /\ e[1] # e[2]
                    /\ ents[e[1]].state # "absent"
                    /\ ents[e[2]].state # "absent"
                    /\ PageJob[e[1]] = PageJob[e[2]]
                    /\ pol[PageJob[e[1]]] > 0
  /\ \A p \in Pages : Cardinality({e \in lnk : e[1] = p}) <= pol[PageJob[p]]
  /\ Cardinality(lnk) <= MaxLinkEdges
Good(ents, srcs, mem, edges, lnk, pol, sq) ==
  /\ RecordsGood(ents, srcs, sq) /\ SnapshotsGood(ents, srcs, mem, edges)
  /\ SnapshotsFit(mem, edges) /\ LinksGood(ents, lnk, pol)

(* The schedule follows the ownership, of any version of the store.        *)
Alive(srcs) == {s \in Sources : srcs[s].state \notin {"absent", "disabled"}}
SourcesFollow(srcs, edges) ==
  /\ \A s \in Alive(srcs) :
       \/ srcs[s].configured
       \/ \E r \in Alive(srcs) : <<r, s>> \in edges /\ srcs[s].depth = srcs[r].depth + 1
  /\ \A s \in Sources : srcs[s].configured => s \in Alive(srcs) /\ srcs[s].depth = 0
  /\ \A e \in edges :
       e[1] \in Alive(srcs) => \/ srcs[e[1]].depth >= MaxSourceDepth
                               \/ /\ e[2] \in Alive(srcs)
                                  /\ srcs[e[2]].depth <= srcs[e[1]].depth + 1
PagesFollow(ents, srcs, mem, lnk) ==
  \A p \in Present(ents, Pages) :
    IF Owned(p, ents, srcs, mem, lnk)
    THEN ents[p].state = "disabled" => ~ents[p].orphaned
    ELSE ents[p].state = "disabled"

(* What reconciling makes of a source.                                     *)
LEMMA ReconciledSourceIs ==
  ASSUME NEW srcs \in [Sources -> Source], NEW edges, NEW t \in Nat,
         NEW W, W = Within(srcs, edges), NEW s \in Sources,
         NEW r, r = ReconciledSources(srcs, edges, t)[s]
  PROVE  /\ r.state = "absent" <=> srcs[s].state = "absent"
         /\ r.configured = srcs[s].configured /\ r.hasSnapshot = srcs[s].hasSnapshot
         /\ r.gen = srcs[s].gen
         /\ srcs[s].state # "absent" /\ s \in W[MaxSourceDepth] =>
              /\ r.state \notin {"absent", "disabled"} /\ r.depth = Hops(W, s)
              /\ IF srcs[s].state = "disabled"
                 THEN r.state = "queued" /\ r.due = t /\ r.until = srcs[s].until
                 ELSE r.state = srcs[s].state /\ r.due = srcs[s].due /\ r.until = srcs[s].until
         /\ srcs[s].state # "absent" /\ s \notin W[MaxSourceDepth] =>
              r.state = "disabled" /\ r.due = 0 /\ r.until = 0
<1>1. PICK q : q = srcs[s]
  OBVIOUS
<1>2. q \in Source
  BY <1>1
<1>3. r = IF q.state = "absent" THEN q
          ELSE IF s \notin W[MaxSourceDepth]
               THEN [q EXCEPT !.state = "disabled", !.due = 0, !.until = 0]
               ELSE IF q.state = "disabled"
                    THEN [q EXCEPT !.state = "queued", !.due = t, !.depth = Hops(W, s)]
                    ELSE [q EXCEPT !.depth = Hops(W, s)]
  BY <1>1 DEF ReconciledSources, Hops
<1>4. PICK h : h = Hops(W, s)
  OBVIOUS
<1>5. CASE q.state = "absent"
  BY <1>1, <1>3, <1>5
<1>6. CASE q.state # "absent" /\ s \notin W[MaxSourceDepth]
  <2>1. r = [q EXCEPT !.state = "disabled", !.due = 0, !.until = 0]
    BY <1>3, <1>6
  <2> QED
    BY <1>1, <1>2, <1>6, <2>1 DEF Source
<1>7. CASE q.state = "disabled" /\ s \in W[MaxSourceDepth]
  <2>1. r = [q EXCEPT !.state = "queued", !.due = t, !.depth = h]
    BY <1>3, <1>4, <1>7
  <2> QED
    BY <1>1, <1>2, <1>4, <1>7, <2>1 DEF Source
<1>8. CASE q.state \notin {"absent", "disabled"} /\ s \in W[MaxSourceDepth]
  <2>1. r = [q EXCEPT !.depth = h]
    BY <1>3, <1>4, <1>8
  <2> QED
    BY <1>1, <1>2, <1>4, <1>8, <2>1 DEF Source
<1> QED
  BY <1>5, <1>6, <1>7, <1>8

(* However the sources were left, reconciling makes the live ones those a  *)
(* chain of falling depth leads to.                                        *)
LEMMA SourcesFollowReconciled ==
  ASSUME NEW srcs \in [Sources -> Source], NEW edges \in SUBSET (Sources \X Sources),
         NEW t \in Nat,
         \A s \in Sources : srcs[s].configured => srcs[s].state # "absent",
         \A e \in edges : srcs[e[2]].state # "absent",
         NEW rs, rs = ReconciledSources(srcs, edges, t)
  PROVE  SourcesFollow(rs, edges)
<1>1. PICK W, N : W = Within(srcs, edges) /\ N = MaxSourceDepth
  OBVIOUS
<1>2. /\ N \in Nat /\ W[0] = Rooted(srcs) /\ N \in 0..N /\ 0 \in 0..N
      /\ \A d \in 1..N : W[d] = Near(edges, W[d - 1])
      /\ \A i, j \in 0..N : i <= j => W[i] \subseteq W[j]
  BY <1>1, WithinGrows
<1>3. \A s \in Sources :
        /\ rs[s].state = "absent" <=> srcs[s].state = "absent"
        /\ rs[s].configured = srcs[s].configured
        /\ srcs[s].state # "absent" /\ s \in W[N] =>
             rs[s].state \notin {"absent", "disabled"} /\ rs[s].depth = Hops(W, s)
        /\ srcs[s].state # "absent" /\ s \notin W[N] => rs[s].state = "disabled"
  BY <1>1, ReconciledSourceIs
<1>4. \A s \in Alive(rs) : s \in Sources /\ s \in W[N] /\ rs[s].depth = Hops(W, s)
  BY <1>3 DEF Alive
<1>5. \A s \in W[N] : /\ Hops(W, s) \in 0..N
                      /\ \A d \in 0..N : s \in W[d] <=> Hops(W, s) <= d
  BY <1>1, HopsAre
<1>6. \A s \in Sources : srcs[s].state # "absent" /\ s \in W[N] => s \in Alive(rs)
  BY <1>3 DEF Alive
<1>7. ASSUME NEW s \in Sources, srcs[s].configured
      PROVE  s \in Alive(rs) /\ rs[s].depth = 0
  <2>1. s \in W[0] /\ s \in W[N]
    BY <1>2, <1>7 DEF Rooted
  <2>2. Hops(W, s) = 0
    BY <1>2, <1>5, <2>1
  <2> QED
    BY <1>3, <1>6, <1>7, <2>1, <2>2
<1>8. ASSUME NEW s \in Alive(rs), ~rs[s].configured
      PROVE  \E r \in Alive(rs) : <<r, s>> \in edges /\ rs[s].depth = rs[r].depth + 1
  <2>1. PICK k : k = Hops(W, s)
    OBVIOUS
  <2>2. /\ s \in Sources /\ s \in W[N] /\ rs[s].depth = k /\ k \in 0..N
        /\ \A d \in 0..N : s \in W[d] <=> k <= d
    BY <1>4, <1>5, <2>1
  <2>3. k # 0
    BY <1>2, <1>3, <1>8, <2>2 DEF Rooted
  <2>4. k \in 1..N /\ k - 1 \in 0..N /\ s \in W[k] /\ s \notin W[k - 1]
    BY <1>2, <2>2, <2>3
  <2>5. PICK e \in edges : e[1] \in W[k - 1] /\ e[2] = s
    BY <1>2, <2>4 DEF Near
  <2>6. e = <<e[1], s>> /\ e[1] \in Sources
    BY <2>5
  <2>7. PICK r : r = e[1]
    OBVIOUS
  <2>8. r \in W[N] /\ r \in W[k - 1] /\ r \in Sources /\ <<r, s>> \in edges
    BY <1>2, <2>4, <2>5, <2>6, <2>7
  <2>9. PICK h : h = Hops(W, r)
    OBVIOUS
  <2>10. h \in 0..N /\ h <= k - 1 /\ \A d \in 0..N : r \in W[d] <=> h <= d
    BY <1>5, <2>4, <2>8, <2>9
  <2>11. k - 1 # 0 => /\ k - 1 \in 1..N /\ k - 2 \in 0..N /\ (k - 1) - 1 = k - 2
                      /\ W[k - 1] = Near(edges, W[k - 2])
    <3>1. k - 1 # 0 => k - 1 \in 1..N /\ k - 2 \in 0..N /\ (k - 1) - 1 = k - 2
      BY <1>2, <2>4
    <3> QED
      BY <1>2, <3>1
  <2>12. h = k - 1
    <3>1. SUFFICES ASSUME h # k - 1 PROVE FALSE
      OBVIOUS
    <3>2. h <= k - 2 /\ k - 1 # 0
      BY <1>2, <2>4, <2>10, <3>1
    <3>3. r \in W[k - 2]
      BY <2>10, <2>11, <3>2
    <3>4. s \in W[k - 1]
      BY <2>5, <2>7, <2>11, <3>2, <3>3 DEF Near
    <3> QED
      BY <3>4, <2>4
  <2>13. srcs[r].state # "absent"
    <3>1. CASE k - 1 = 0
      BY <1>2, <2>8, <3>1 DEF Rooted
    <3>2. CASE k - 1 # 0
      <4>1. ~(h <= k - 2)
        BY <1>2, <2>4, <2>12
      <4>2. r \notin W[k - 2]
        BY <2>10, <2>11, <3>2, <4>1
      <4>3. PICK f \in edges : f[2] = r
        BY <2>8, <2>11, <3>2, <4>2 DEF Near
      <4> QED
        BY <4>3
    <3> QED
      BY <3>1, <3>2
  <2>14. r \in Alive(rs)
    BY <1>6, <2>8, <2>13
  <2>15. rs[r].depth = k - 1 /\ rs[s].depth = k
    BY <1>4, <2>2, <2>9, <2>12, <2>14
  <2>16. (k - 1) + 1 = k
    BY <1>2, <2>2
  <2> QED
    BY <2>8, <2>14, <2>15, <2>16
<1>9. ASSUME NEW e \in edges, e[1] \in Alive(rs)
      PROVE  \/ rs[e[1]].depth >= MaxSourceDepth
             \/ e[2] \in Alive(rs) /\ rs[e[2]].depth <= rs[e[1]].depth + 1
  <2>1. PICK r, s, k : r = e[1] /\ s = e[2] /\ k = Hops(W, r)
    OBVIOUS
  <2>2. r \in W[N] /\ rs[r].depth = k /\ k \in 0..N /\ r \in W[k] /\ s \in Sources
    BY <1>4, <1>5, <1>9, <2>1
  <2>3. CASE k = N
    BY <1>1, <1>2, <2>1, <2>2, <2>3
  <2>4. CASE k # N
    <3>1. k + 1 \in 1..N /\ k + 1 \in 0..N /\ (k + 1) - 1 = k
      BY <1>2, <2>2, <2>4
    <3>2. s \in W[k + 1]
      BY <1>2, <2>1, <2>2, <3>1 DEF Near
    <3>3. s \in W[N]
      BY <1>2, <3>1, <3>2
    <3>4. s \in Alive(rs) /\ rs[s].depth = Hops(W, s)
      BY <1>3, <1>6, <2>1, <2>2, <3>3
    <3>5. Hops(W, s) <= k + 1
      BY <1>5, <3>1, <3>2, <3>3
    <3> QED
      BY <2>1, <2>2, <3>4, <3>5
  <2> QED
    BY <2>3, <2>4
<1>10. /\ \A s \in Sources : rs[s].configured = srcs[s].configured
       /\ Alive(rs) \subseteq Sources
  BY <1>3 DEF Alive
<1>11. \A s \in Alive(rs) :
         \/ rs[s].configured
         \/ \E r \in Alive(rs) : <<r, s>> \in edges /\ rs[s].depth = rs[r].depth + 1
  BY <1>8
<1>12. \A s \in Sources : rs[s].configured => s \in Alive(rs) /\ rs[s].depth = 0
  BY <1>7, <1>10
<1>13. \A e \in edges : e[1] \in Alive(rs) =>
         \/ rs[e[1]].depth >= MaxSourceDepth
         \/ e[2] \in Alive(rs) /\ rs[e[2]].depth <= rs[e[1]].depth + 1
  BY <1>9
<1> QED
  BY <1>11, <1>12, <1>13 DEF SourcesFollow

-----------------------------------------------------------------------------
(* What reconciling makes of a page.                                       *)

LEMMA ReconciledPageIs ==
  ASSUME now \in Nat, NEW ents \in [Pages -> Entry], NEW srcs, NEW mem, NEW lnk, NEW t \in Nat,
         NEW re, re = ReconciledPages(ents, srcs, mem, lnk, t), NEW p \in Pages, NEW r, r = re[p]
  PROVE  /\ r.state = "absent" <=> ents[p].state = "absent"
         /\ r.explicit = ents[p].explicit /\ r.gen = ents[p].gen
         /\ \/ r = ents[p]
            \/ r.state = "disabled" /\ r.due = 0 /\ r.until = 0
            \/ r.state = "queued" /\ r.due = t /\ r.until = 0
<1>1. PICK e, o, n : e = ents[p] /\ o = Orphaned(e) /\ n = [Requeued(e) EXCEPT !.due = t]
  OBVIOUS
<1>2. e \in Entry
  BY <1>1
<1>3. /\ o.state = "disabled" /\ o.due = 0 /\ o.until = 0
      /\ o.explicit = e.explicit /\ o.gen = e.gen
  BY <1>1, <1>2 DEF Orphaned, Entry
<1>4. /\ n.state = "queued" /\ n.due = t /\ n.until = 0
      /\ n.explicit = e.explicit /\ n.gen = e.gen
  BY <1>1, <1>2 DEF Requeued, Entry
<1>5. r = e \/ (e.state # "absent" /\ r \in {o, n})
  <2>1. r = IF e.state = "absent" THEN e
            ELSE IF ~Owned(p, ents, srcs, mem, lnk)
                 THEN IF e.state # "disabled" THEN o ELSE e
                 ELSE IF e.state = "disabled" /\ e.orphaned THEN n ELSE e
    BY <1>1 DEF ReconciledPages
  <2> QED
    BY <2>1
<1>6. CASE r = e
  BY <1>1, <1>6
<1>7. CASE e.state # "absent" /\ r = o
  BY <1>1, <1>3, <1>7
<1>8. CASE e.state # "absent" /\ r = n
  BY <1>1, <1>4, <1>8
<1> QED
  BY <1>5, <1>6, <1>7, <1>8

LEMMA OwnedPageIs ==
  ASSUME now \in Nat, NEW ents \in [Pages -> Entry], NEW srcs, NEW mem, NEW lnk, NEW t \in Nat,
         NEW re, re = ReconciledPages(ents, srcs, mem, lnk, t), NEW p \in Pages, NEW r, r = re[p],
         ents[p].state # "absent", Owned(p, ents, srcs, mem, lnk)
  PROVE  \/ r = ents[p] /\ (ents[p].state = "disabled" => ~ents[p].orphaned)
         \/ r.state = "queued"
<1>1. PICK e, n : e = ents[p] /\ n = [Requeued(e) EXCEPT !.due = t]
  OBVIOUS
<1>2. n.state = "queued"
  BY <1>1 DEF Requeued, Entry
<1>3. r = IF e.state = "disabled" /\ e.orphaned THEN n ELSE e
  BY <1>1 DEF ReconciledPages
<1> QED
  BY <1>1, <1>2, <1>3

LEMMA LostPageIs ==
  ASSUME now \in Nat, NEW ents \in [Pages -> Entry], NEW srcs, NEW mem, NEW lnk, NEW t \in Nat,
         NEW re, re = ReconciledPages(ents, srcs, mem, lnk, t), NEW p \in Pages, NEW r, r = re[p],
         ents[p].state # "absent", ~Owned(p, ents, srcs, mem, lnk)
  PROVE  r.state = "disabled"
<1>1. PICK e, o : e = ents[p] /\ o = Orphaned(e)
  OBVIOUS
<1>2. o.state = "disabled"
  BY <1>1 DEF Orphaned, Entry
<1>3. r = IF e.state # "disabled" THEN o ELSE e
  BY <1>1 DEF ReconciledPages
<1> QED
  BY <1>1, <1>2, <1>3

(* Ownership reads of a page only whether it is there and a seed, and of a *)
(* source only whether it is alive.                                        *)
LEMMA OwnedSame ==
  ASSUME NEW e1, NEW e2, NEW s1, NEW s2, NEW mem, NEW lnk,
         \A p \in Pages : /\ e1[p].explicit = e2[p].explicit
                          /\ e1[p].state = "absent" <=> e2[p].state = "absent",
         \A s \in Sources : s1[s].state \notin {"absent", "disabled"}
                              <=> s2[s].state \notin {"absent", "disabled"},
         NEW p \in Pages
  PROVE  /\ BaseOwned(p, e1, s1, mem) <=> BaseOwned(p, e2, s2, mem)
         /\ Owned(p, e1, s1, mem, lnk) <=> Owned(p, e2, s2, mem, lnk)
<1>1. \A q \in Pages : BaseOwned(q, e1, s1, mem) <=> BaseOwned(q, e2, s2, mem)
  BY DEF BaseOwned
<1> QED
  BY <1>1 DEF Owned, LinkOwned

(* However the pages were left, reconciling disables those nobody owns.    *)
LEMMA PagesFollowReconciled ==
  ASSUME now \in Nat, NEW ents \in [Pages -> Entry], NEW srcs, NEW mem, NEW lnk, NEW t \in Nat,
         NEW re, re = ReconciledPages(ents, srcs, mem, lnk, t)
  PROVE  PagesFollow(re, srcs, mem, lnk)
<1>1. \A p \in Pages : /\ re[p].explicit = ents[p].explicit
                       /\ re[p].state = "absent" <=> ents[p].state = "absent"
  BY ReconciledPageIs
<1>2. ASSUME NEW p \in Present(re, Pages)
      PROVE  IF Owned(p, re, srcs, mem, lnk)
             THEN re[p].state = "disabled" => ~re[p].orphaned
             ELSE re[p].state = "disabled"
  <2>1. p \in Pages /\ ents[p].state # "absent"
    BY <1>1, <1>2 DEF Present
  <2>2. Owned(p, re, srcs, mem, lnk) <=> Owned(p, ents, srcs, mem, lnk)
    BY <1>1, <2>1, OwnedSame
  <2>3. PICK r : r = re[p]
    OBVIOUS
  <2>4. CASE Owned(p, ents, srcs, mem, lnk)
    <3>1. \/ r = ents[p] /\ (ents[p].state = "disabled" => ~ents[p].orphaned)
          \/ r.state = "queued"
      BY <2>1, <2>3, <2>4, OwnedPageIs
    <3> QED
      BY <2>2, <2>3, <2>4, <3>1
  <2>5. CASE ~Owned(p, ents, srcs, mem, lnk)
    BY <2>1, <2>2, <2>5, LostPageIs
  <2> QED
    BY <2>4, <2>5
<1> QED
  BY <1>2 DEF PagesFollow

-----------------------------------------------------------------------------
(* Versions of the records that are equally many and equally linked.       *)
AllGood(e1, s1, e2, s2, sq) ==
  /\ \A p \in Pages : PageGood(e2[p], sq) /\ (e1[p].state = "absent" <=> e2[p].state = "absent")
  /\ \A s \in Sources : /\ SourceGood(s2[s], sq)
                        /\ s1[s].state = "absent" <=> s2[s].state = "absent"
                        /\ s2[s].configured => SourceRoot[s] = s
                        /\ s1[s].hasSnapshot => s2[s].hasSnapshot

(* Records replaced one by one by good ones of the same presence.          *)
LEMMA StaysGood ==
  ASSUME NEW e1, NEW s1, NEW e2, NEW s2, NEW mem, NEW edges, NEW lnk, NEW pol,
         NEW sq1, NEW sq2, mem \subseteq Sources \X Pages, edges \subseteq Sources \X Sources,
         lnk \subseteq Pages \X Pages,
         Good(e1, s1, mem, edges, lnk, pol, sq1),
         AllGood(e1, s1, e2, s2, sq2)
  PROVE  Good(e2, s2, mem, edges, lnk, pol, sq2)
<1>1. Present(e2, Pages) = Present(e1, Pages) /\ Present(s2, Sources) = Present(s1, Sources)
  BY DEF Present, AllGood
<1>2. RecordsGood(e2, s2, sq2)
  BY <1>1 DEF RecordsGood, Good, AllGood
<1>3. \A e \in mem : e[1] \in Sources /\ e[2] \in Pages
  OBVIOUS
<1>4. \A e \in edges : e[1] \in Sources /\ e[2] \in Sources
  OBVIOUS
<1>5. \A e \in lnk : e[1] \in Pages /\ e[2] \in Pages
  OBVIOUS
<1>6. SnapshotsGood(e2, s2, mem, edges)
  BY <1>3, <1>4 DEF SnapshotsGood, Good, AllGood
<1>7. LinksGood(e2, lnk, pol)
  BY <1>5 DEF LinksGood, Good, AllGood
<1> QED
  BY <1>2, <1>6, <1>7 DEF Good

LEMMA ReconciledGood ==
  ASSUME now \in Nat, NEW ents \in [Pages -> Entry], NEW srcs \in [Sources -> Source],
         NEW mem \in SUBSET (Sources \X Pages), NEW edges \in SUBSET (Sources \X Sources),
         NEW lnk \in SUBSET (Pages \X Pages), NEW pol, NEW sq, NEW t \in Nat, t # 0,
         Good(ents, srcs, mem, edges, lnk, pol, sq),
         NEW rs, rs = ReconciledSources(srcs, edges, t),
         NEW re, re = ReconciledPages(ents, rs, mem, lnk, t)
  PROVE  Good(re, rs, mem, edges, lnk, pol, sq)
<1>0. \A p \in Pages :
        /\ re[p].state = "absent" <=> ents[p].state = "absent"
        /\ re[p].explicit = ents[p].explicit /\ re[p].gen = ents[p].gen
        /\ \/ re[p] = ents[p]
           \/ re[p].state = "disabled" /\ re[p].due = 0 /\ re[p].until = 0
           \/ re[p].state = "queued" /\ re[p].due = t /\ re[p].until = 0
  BY ReconciledPageIs
<1>1. /\ \A p \in Pages : PageGood(ents[p], sq)
      /\ \A s \in Sources : SourceGood(srcs[s], sq) /\ (srcs[s].configured => SourceRoot[s] = s)
  BY DEF Good, RecordsGood
<1>2. ASSUME NEW p \in Pages
      PROVE  PageGood(re[p], sq) /\ (ents[p].state = "absent" <=> re[p].state = "absent")
  <2>1. PICK r, e : r = re[p] /\ e = ents[p]
    OBVIOUS
  <2>2. /\ r.state = "absent" <=> e.state = "absent"
        /\ r.explicit = e.explicit /\ r.gen = e.gen
        /\ \/ r = e
           \/ r.state = "disabled" /\ r.due = 0 /\ r.until = 0
           \/ r.state = "queued" /\ r.due = t /\ r.until = 0
    BY <1>0, <2>1
  <2>3. PageGood(e, sq)
    BY <1>1, <2>1
  <2>4. PageGood(r, sq)
    BY <2>2, <2>3 DEF PageGood, Schedulable
  <2> QED
    BY <2>1, <2>2, <2>4
<1>3. ASSUME NEW s \in Sources
      PROVE  /\ SourceGood(rs[s], sq) /\ (srcs[s].state = "absent" <=> rs[s].state = "absent")
             /\ rs[s].configured => SourceRoot[s] = s
             /\ srcs[s].hasSnapshot => rs[s].hasSnapshot
  <2>1. PICK r, q, W : r = rs[s] /\ q = srcs[s] /\ W = Within(srcs, edges)
    OBVIOUS
  <2>2. /\ r.state = "absent" <=> q.state = "absent"
        /\ r.configured = q.configured /\ r.hasSnapshot = q.hasSnapshot /\ r.gen = q.gen
        /\ q.state # "absent" => \/ r.state = q.state /\ r.due = q.due /\ r.until = q.until
                                 \/ r.state = "disabled" /\ r.due = 0 /\ r.until = 0
                                 \/ /\ q.state = "disabled" /\ r.state = "queued"
                                    /\ r.due = t /\ r.until = q.until
    BY <2>1, ReconciledSourceIs
  <2>3. SourceGood(q, sq) /\ (q.configured => SourceRoot[s] = s)
    BY <1>1, <2>1
  <2>4. SourceGood(r, sq)
    <3>1. CASE q.state = "absent"
      BY <2>2, <2>3, <3>1 DEF SourceGood, SourceSchedulable
    <3>2. CASE q.state # "absent"
      BY <2>2, <2>3, <3>2 DEF SourceGood, SourceSchedulable
    <3> QED
      BY <3>1, <3>2
  <2> QED
    BY <2>1, <2>2, <2>3, <2>4
<1>4. AllGood(ents, srcs, re, rs, sq)
  BY <1>2, <1>3 DEF AllGood
<1> QED
  BY <1>4, StaysGood

(* More records, at least as many references.                              *)
LEMMA RefsGrow ==
  ASSUME NEW e1, NEW s1, NEW e2, NEW s2,
         Present(e1, Pages) \subseteq Present(e2, Pages),
         Present(s1, Sources) \subseteq Present(s2, Sources),
         NEW a \in Authorities
  PROVE  AuthorityRefs(e1, s1)[a] > 0 => AuthorityRefs(e2, s2)[a] > 0
<1>1. PICK P1, P2, S1, S2 :
        /\ P1 = {p \in Present(e1, Pages) : PageAuth[p] = a}
        /\ P2 = {p \in Present(e2, Pages) : PageAuth[p] = a}
        /\ S1 = {s \in Present(s1, Sources) : SourceAuth[s] = a}
        /\ S2 = {s \in Present(s2, Sources) : SourceAuth[s] = a}
  OBVIOUS
<1>2. P1 \subseteq P2 /\ P2 \subseteq Pages /\ S1 \subseteq S2 /\ S2 \subseteq Sources
  BY <1>1 DEF Present
<1>3. IsFiniteSet(P2) /\ IsFiniteSet(S2)
  BY <1>2, KeysAssumption, FS_Subset
<1>4. Cardinality(P1) <= Cardinality(P2) /\ Cardinality(S1) <= Cardinality(S2)
  BY <1>2, <1>3, FS_Subset
<1>5. {Cardinality(P1), Cardinality(P2), Cardinality(S1), Cardinality(S2)} \subseteq Nat
  BY <1>2, <1>3, FS_Subset, FS_CardinalityType
<1>6. /\ AuthorityRefs(e1, s1)[a] = Cardinality(P1) + Cardinality(S1)
      /\ AuthorityRefs(e2, s2)[a] = Cardinality(P2) + Cardinality(S2)
  BY <1>1 DEF AuthorityRefs
<1> QED
  BY <1>4, <1>5, <1>6

LEMMA RefsSame ==
  ASSUME NEW e1, NEW s1, NEW e2, NEW s2,
         \A p \in Pages : e1[p].state = "absent" <=> e2[p].state = "absent",
         \A s \in Sources : s1[s].state = "absent" <=> s2[s].state = "absent"
  PROVE  AuthorityRefs(e1, s1) = AuthorityRefs(e2, s2)
<1>1. Present(e1, Pages) = Present(e2, Pages) /\ Present(s1, Sources) = Present(s2, Sources)
  BY DEF Present
<1> QED
  BY <1>1 DEF AuthorityRefs

-----------------------------------------------------------------------------
(* What every transaction leaves behind.                                   *)
Agreed ==
  /\ Good(entries, sources, pageOf, childOf, links, policy, seq)
  /\ SourcesFollow(sources, childOf)
  /\ PagesFollow(entries, sources, pageOf, links)
  /\ IndexesExact
  /\ HostsReferenced
ResultsBehind ==
  /\ \A i \in Items : result[i] <= seq
  /\ \A p \in Pages : entries[p].state = "leased" => result[<<"page", p>>] < entries[p].gen
FrontierInv == TypeOK /\ Agreed /\ ResultsBehind

(* Of what is about to be reconciled: no record went away, and what was    *)
(* active is, but for lost owners.                                         *)
Continues(ents, srcs) ==
  /\ \A p \in Pages :
       /\ entries[p].state # "absent" => ents[p].state # "absent"
       /\ entries[p].state \notin {"absent", "disabled"} /\ ents[p].state = "disabled"
            => ents[p].orphaned
  /\ \A s \in Sources : sources[s].state # "absent" => srcs[s].state # "absent"

(* The argument every reconciling operation shares: what it hands to       *)
(* Reconcile is good and loses nothing that was active, so afterwards the  *)
(* store agrees and nothing owned has stopped.                             *)
LEMMA ReconcileAgrees ==
  ASSUME TypeOK, Agreed, NEW ents \in [Pages -> Entry], NEW srcs \in [Sources -> Source],
         NEW mem \in SUBSET (Sources \X Pages), NEW edges \in SUBSET (Sources \X Sources),
         NEW lnk \in SUBSET (Pages \X Pages), NEW t \in Nat, t # 0,
         NEW pol, pol = policy',
         Good(ents, srcs, mem, edges, lnk, pol, seq), Continues(ents, srcs),
         Reconcile(ents, srcs, mem, edges, lnk, t), UNCHANGED <<hosts, seq>>
  PROVE  Agreed' /\ StopsWithReason
<1>1. PICK rs, re : /\ rs = ReconciledSources(srcs, edges, t)
                    /\ re = ReconciledPages(ents, rs, mem, lnk, t)
  OBVIOUS
<1>2. /\ sources' = rs /\ entries' = re
      /\ pageOf' = mem /\ childOf' = edges /\ links' = lnk
      /\ due' = PageDueIndex(re) /\ leases' = PageLeaseIndex(re)
      /\ srcDue' = SourceDueIndex(rs) /\ srcLeases' = SourceLeaseIndex(rs)
      /\ refs' = AuthorityRefs(re, rs)
  BY <1>1 DEF Reconcile
<1>3. now \in Nat
  BY DEF TypeOK
<1>4. Good(re, rs, mem, edges, lnk, pol, seq)
  BY <1>1, <1>3, ReconciledGood
<1>5. SourcesFollow(rs, edges)
  <2>1. \A s \in Sources : srcs[s].configured => srcs[s].state # "absent"
    BY DEF Good, RecordsGood, SourceGood
  <2>2. \A e \in edges : srcs[e[2]].state # "absent"
    BY DEF Good, SnapshotsGood
  <2> QED
    BY <1>1, <2>1, <2>2, SourcesFollowReconciled
<1>6. PagesFollow(re, rs, mem, lnk)
  BY <1>1, <1>3, PagesFollowReconciled
<1>7. IndexesExact'
  BY <1>2 DEF IndexesExact
<1>8. \A p \in Pages : re[p].state = "absent" <=> ents[p].state = "absent"
  BY <1>1, <1>3, ReconciledPageIs
<1>9. \A s \in Sources : rs[s].state = "absent" <=> srcs[s].state = "absent"
  BY <1>1, ReconciledSourceIs
<1>10. HostsReferenced'
  <2>1. /\ Present(entries, Pages) \subseteq Present(re, Pages)
        /\ Present(sources, Sources) \subseteq Present(rs, Sources)
    BY <1>8, <1>9 DEF Present, Continues
  <2>2. \A a \in Authorities : hosts[a].last # 0 => AuthorityRefs(entries, sources)[a] > 0
    BY DEF Agreed, HostsReferenced
  <2>3. \A a \in Authorities : hosts[a].last # 0 => AuthorityRefs(re, rs)[a] > 0
    BY <2>1, <2>2, RefsGrow
  <2> QED
    BY <1>2, <2>3 DEF HostsReferenced
<1>11. Agreed'
  BY <1>2, <1>4, <1>5, <1>6, <1>7, <1>10 DEF Agreed
<1>12. ASSUME NEW p \in Pages, entries[p].state \notin {"absent", "disabled"},
              re[p].state \in {"absent", "disabled"}
       PROVE  ~Owned(p, re, rs, mem, lnk)
  <2>1. ents[p].state # "absent" /\ (ents[p].state = "disabled" => ents[p].orphaned)
    BY <1>12 DEF Continues
  <2>2. PICK r : r = re[p]
    OBVIOUS
  <2>3. ASSUME Owned(p, ents, rs, mem, lnk)
        PROVE  r.state = "queued" \/ (r = ents[p] /\ ents[p].state # "disabled")
    <3>1. \/ r = ents[p] /\ (ents[p].state = "disabled" => ~ents[p].orphaned)
          \/ r.state = "queued"
      BY <1>1, <1>3, <2>1, <2>2, <2>3, OwnedPageIs
    <3>2. ~(ents[p].state = "disabled" /\ ents[p].orphaned) \/ r.state = "queued"
      BY <3>1, Zenon
    <3> QED
      BY <2>1, <3>1, <3>2, Zenon
  <2>4. ~Owned(p, ents, rs, mem, lnk)
    BY <2>1, <2>2, <2>3, <1>12
  <2>5. \A q \in Pages : re[q].explicit = ents[q].explicit
    BY <1>1, <1>3, ReconciledPageIs
  <2> QED
    BY <1>8, <2>4, <2>5, OwnedSame
<1>13. StopsWithReason
  BY <1>2, <1>12 DEF StopsWithReason
<1> QED
  BY <1>11, <1>13

-----------------------------------------------------------------------------
(* The indexes, when one record changes and when expired leases come back. *)
Changed(f, k, n) == [f EXCEPT ![k] = n]

LEMMA PageIndexesUpdated ==
  ASSUME NEW ents \in [Pages -> Entry], NEW p \in Pages, NEW n \in Entry,
         NEW e2, e2 = Changed(ents, p, n)
  PROVE  /\ PageDueIndex(e2) =
              (PageDueIndex(ents) \ {<<ents[p].due, p>>})
              \cup {x \in {<<n.due, p>>} : n.state \in Schedulable}
         /\ PageLeaseIndex(e2) =
              (PageLeaseIndex(ents) \ {<<ents[p].until, p>>})
              \cup {x \in {<<n.until, p>>} : n.state = "leased"}
<1>1. e2[p] = n /\ \A q \in Pages \ {p} : e2[q] = ents[q]
  BY DEF Changed
<1>2. \A x : x \in PageDueIndex(e2) <=>
               \E q \in Pages : e2[q].state \in Schedulable /\ x = <<e2[q].due, q>>
  BY DEF PageDueIndex
<1>3. \A x : x \in PageDueIndex(ents) <=>
               \E q \in Pages : ents[q].state \in Schedulable /\ x = <<ents[q].due, q>>
  BY DEF PageDueIndex
<1>4. \A x : x \in PageLeaseIndex(e2) <=>
               \E q \in Pages : e2[q].state = "leased" /\ x = <<e2[q].until, q>>
  BY DEF PageLeaseIndex
<1>5. \A x : x \in PageLeaseIndex(ents) <=>
               \E q \in Pages : ents[q].state = "leased" /\ x = <<ents[q].until, q>>
  BY DEF PageLeaseIndex
<1>6. \A x : x \in PageDueIndex(e2) <=>
               \/ x \in PageDueIndex(ents) /\ x # <<ents[p].due, p>>
               \/ n.state \in Schedulable /\ x = <<n.due, p>>
  <2> TAKE x
  <2>1. ASSUME x \in PageDueIndex(e2)
        PROVE  \/ x \in PageDueIndex(ents) /\ x # <<ents[p].due, p>>
               \/ n.state \in Schedulable /\ x = <<n.due, p>>
    BY <1>1, <1>2, <1>3, <2>1
  <2>2. ASSUME x \in PageDueIndex(ents), x # <<ents[p].due, p>>
        PROVE  x \in PageDueIndex(e2)
    BY <1>1, <1>2, <1>3, <2>2
  <2>3. ASSUME n.state \in Schedulable, x = <<n.due, p>>
        PROVE  x \in PageDueIndex(e2)
    BY <1>1, <1>2, <2>3
  <2> QED
    BY <2>1, <2>2, <2>3
<1>7. \A x : x \in PageLeaseIndex(e2) <=>
               \/ x \in PageLeaseIndex(ents) /\ x # <<ents[p].until, p>>
               \/ n.state = "leased" /\ x = <<n.until, p>>
  <2> TAKE x
  <2>1. ASSUME x \in PageLeaseIndex(e2)
        PROVE  \/ x \in PageLeaseIndex(ents) /\ x # <<ents[p].until, p>>
               \/ n.state = "leased" /\ x = <<n.until, p>>
    BY <1>1, <1>4, <1>5, <2>1
  <2>2. ASSUME x \in PageLeaseIndex(ents), x # <<ents[p].until, p>>
        PROVE  x \in PageLeaseIndex(e2)
    BY <1>1, <1>4, <1>5, <2>2
  <2>3. ASSUME n.state = "leased", x = <<n.until, p>>
        PROVE  x \in PageLeaseIndex(e2)
    BY <1>1, <1>4, <2>3
  <2> QED
    BY <2>1, <2>2, <2>3
<1> HIDE DEF PageDueIndex, PageLeaseIndex
<1> QED
  BY <1>6, <1>7

LEMMA SourceIndexesUpdated ==
  ASSUME NEW srcs \in [Sources -> Source], NEW s \in Sources, NEW n \in Source,
         NEW s2, s2 = Changed(srcs, s, n)
  PROVE  /\ SourceDueIndex(s2) =
              (SourceDueIndex(srcs) \ {<<srcs[s].due, s>>})
              \cup {x \in {<<n.due, s>>} : n.state \in SourceSchedulable}
         /\ SourceLeaseIndex(s2) =
              (SourceLeaseIndex(srcs) \ {<<srcs[s].until, s>>})
              \cup {x \in {<<n.until, s>>} : n.state = "leased"}
<1>1. s2[s] = n /\ \A q \in Sources \ {s} : s2[q] = srcs[q]
  BY DEF Changed
<1>2. \A x : x \in SourceDueIndex(s2) <=>
               \E q \in Sources : s2[q].state \in SourceSchedulable /\ x = <<s2[q].due, q>>
  BY DEF SourceDueIndex
<1>3. \A x : x \in SourceDueIndex(srcs) <=>
               \E q \in Sources : srcs[q].state \in SourceSchedulable /\ x = <<srcs[q].due, q>>
  BY DEF SourceDueIndex
<1>4. \A x : x \in SourceLeaseIndex(s2) <=>
               \E q \in Sources : s2[q].state = "leased" /\ x = <<s2[q].until, q>>
  BY DEF SourceLeaseIndex
<1>5. \A x : x \in SourceLeaseIndex(srcs) <=>
               \E q \in Sources : srcs[q].state = "leased" /\ x = <<srcs[q].until, q>>
  BY DEF SourceLeaseIndex
<1>6. \A x : x \in SourceDueIndex(s2) <=>
               \/ x \in SourceDueIndex(srcs) /\ x # <<srcs[s].due, s>>
               \/ n.state \in SourceSchedulable /\ x = <<n.due, s>>
  <2> TAKE x
  <2>1. ASSUME x \in SourceDueIndex(s2)
        PROVE  \/ x \in SourceDueIndex(srcs) /\ x # <<srcs[s].due, s>>
               \/ n.state \in SourceSchedulable /\ x = <<n.due, s>>
    BY <1>1, <1>2, <1>3, <2>1
  <2>2. ASSUME x \in SourceDueIndex(srcs), x # <<srcs[s].due, s>>
        PROVE  x \in SourceDueIndex(s2)
    BY <1>1, <1>2, <1>3, <2>2
  <2>3. ASSUME n.state \in SourceSchedulable, x = <<n.due, s>>
        PROVE  x \in SourceDueIndex(s2)
    BY <1>1, <1>2, <2>3
  <2> QED
    BY <2>1, <2>2, <2>3
<1>7. \A x : x \in SourceLeaseIndex(s2) <=>
               \/ x \in SourceLeaseIndex(srcs) /\ x # <<srcs[s].until, s>>
               \/ n.state = "leased" /\ x = <<n.until, s>>
  <2> TAKE x
  <2>1. ASSUME x \in SourceLeaseIndex(s2)
        PROVE  \/ x \in SourceLeaseIndex(srcs) /\ x # <<srcs[s].until, s>>
               \/ n.state = "leased" /\ x = <<n.until, s>>
    BY <1>1, <1>4, <1>5, <2>1
  <2>2. ASSUME x \in SourceLeaseIndex(srcs), x # <<srcs[s].until, s>>
        PROVE  x \in SourceLeaseIndex(s2)
    BY <1>1, <1>4, <1>5, <2>2
  <2>3. ASSUME n.state = "leased", x = <<n.until, s>>
        PROVE  x \in SourceLeaseIndex(s2)
    BY <1>1, <1>4, <2>3
  <2> QED
    BY <2>1, <2>2, <2>3
<1> QED
  BY <1>6, <1>7

(* A recovered record is one whose lease ran out.                          *)
LEMMA RecoveredPageIs ==
  ASSUME now \in Nat, NEW ents \in [Pages -> Entry],
         NEW idx, idx = PageLeaseIndex(ents), NEW e2, e2 = RecoveredPages(ents, idx),
         NEW p \in Pages, NEW r, r = e2[p]
  PROVE  /\ r \in Entry /\ r.explicit = ents[p].explicit /\ r.gen = ents[p].gen
         /\ ents[p].state = "leased" /\ ents[p].until <= now =>
              r.state = "retry" /\ r.due = now /\ r.until = 0
         /\ ~(ents[p].state = "leased" /\ ents[p].until <= now) => r = ents[p]
<1>1. PICK e : e = ents[p]
  OBVIOUS
<1>2. e \in Entry
  BY <1>1
<1>3. \A x : x \in Expired(idx) <=>
        \E q \in Pages : ents[q].state = "leased" /\ x = <<ents[q].until, q>> /\ ents[q].until <= now
  BY DEF Expired, PageLeaseIndex
<1>4. (\E x \in Expired(idx) : x[2] = p) <=> e.state = "leased" /\ e.until <= now
  <2>1. ASSUME NEW x \in Expired(idx), x[2] = p
        PROVE  e.state = "leased" /\ e.until <= now
    <3>1. PICK q \in Pages : ents[q].state = "leased" /\ x = <<ents[q].until, q>> /\ ents[q].until <= now
      BY <1>3
    <3>2. q = p
      BY <2>1, <3>1
    <3> QED
      BY <1>1, <3>1, <3>2
  <2>2. ASSUME e.state = "leased", e.until <= now
        PROVE  \E x \in Expired(idx) : x[2] = p
    <3>1. PICK x : x = <<e.until, p>>
      OBVIOUS
    <3>2. x \in Expired(idx) /\ x[2] = p
      BY <1>1, <1>3, <2>2, <3>1
    <3> QED
      BY <3>2
  <2> QED
    BY <2>1, <2>2
<1>5. CASE e.state = "leased" /\ e.until <= now
  <2>1. r = [e EXCEPT !.state = "retry", !.due = now, !.until = 0, !.orphaned = FALSE]
    BY <1>1, <1>4, <1>5 DEF RecoveredPages
  <2>2. /\ r \in Entry /\ r.explicit = e.explicit /\ r.gen = e.gen
        /\ r.state = "retry" /\ r.due = now /\ r.until = 0
    <3>1. r \in Entry
      <4>1. ASSUME NEW x \in Entry
            PROVE  [x EXCEPT !.state = "retry", !.due = now, !.until = 0, !.orphaned = FALSE] \in Entry
        BY DEF Entry, PageStates
      <4> QED
        BY <1>2, <2>1, <4>1
    <3>2. r.explicit = e.explicit /\ r.gen = e.gen
      BY <1>2, <2>1 DEF Entry
    <3>3. r.state = "retry" /\ r.due = now /\ r.until = 0
      BY <1>2, <2>1 DEF Entry
    <3> QED
      BY <3>1, <3>2, <3>3
  <2> QED
    BY <1>1, <1>5, <2>2
<1>6. CASE ~(e.state = "leased" /\ e.until <= now)
  <2>1. r = e
    BY <1>1, <1>4, <1>6 DEF RecoveredPages
  <2> QED
    BY <1>1, <1>2, <1>6, <2>1
<1> QED
  BY <1>5, <1>6

LEMMA RecoveredSourceIs ==
  ASSUME now \in Nat, NEW srcs \in [Sources -> Source],
         NEW idx, idx = SourceLeaseIndex(srcs), NEW s2, s2 = RecoveredSources(srcs, idx),
         NEW s \in Sources, NEW r, r = s2[s]
  PROVE  /\ r \in Source /\ r.configured = srcs[s].configured /\ r.gen = srcs[s].gen
         /\ r.depth = srcs[s].depth /\ r.hasSnapshot = srcs[s].hasSnapshot
         /\ srcs[s].state = "leased" /\ srcs[s].until <= now =>
              r.state = "retry" /\ r.due = now /\ r.until = 0
         /\ ~(srcs[s].state = "leased" /\ srcs[s].until <= now) => r = srcs[s]
<1>1. PICK q : q = srcs[s]
  OBVIOUS
<1>2. q \in Source
  BY <1>1
<1>3. \A x : x \in Expired(idx) <=>
        \E z \in Sources : srcs[z].state = "leased" /\ x = <<srcs[z].until, z>> /\ srcs[z].until <= now
  BY DEF Expired, SourceLeaseIndex
<1>4. (\E x \in Expired(idx) : x[2] = s) <=> q.state = "leased" /\ q.until <= now
  <2>1. ASSUME NEW x \in Expired(idx), x[2] = s
        PROVE  q.state = "leased" /\ q.until <= now
    <3>1. PICK z \in Sources : srcs[z].state = "leased" /\ x = <<srcs[z].until, z>> /\ srcs[z].until <= now
      BY <1>3
    <3>2. z = s
      BY <2>1, <3>1
    <3> QED
      BY <1>1, <3>1, <3>2
  <2>2. ASSUME q.state = "leased", q.until <= now
        PROVE  \E x \in Expired(idx) : x[2] = s
    <3>1. PICK x : x = <<q.until, s>>
      OBVIOUS
    <3>2. x \in Expired(idx) /\ x[2] = s
      BY <1>1, <1>3, <2>2, <3>1
    <3> QED
      BY <3>2
  <2> QED
    BY <2>1, <2>2
<1>5. CASE q.state = "leased" /\ q.until <= now
  <2>1. r = [q EXCEPT !.state = "retry", !.due = now, !.until = 0]
    BY <1>1, <1>4, <1>5 DEF RecoveredSources
  <2>2. /\ r \in Source /\ r.configured = q.configured /\ r.gen = q.gen
        /\ r.depth = q.depth /\ r.hasSnapshot = q.hasSnapshot
        /\ r.state = "retry" /\ r.due = now /\ r.until = 0
    <3>1. r \in Source
      <4>1. ASSUME NEW x \in Source
            PROVE  [x EXCEPT !.state = "retry", !.due = now, !.until = 0] \in Source
        BY DEF Source, PageStates
      <4> QED
        BY <1>2, <2>1, <4>1
    <3>2. /\ r.configured = q.configured /\ r.gen = q.gen
          /\ r.depth = q.depth /\ r.hasSnapshot = q.hasSnapshot
      BY <1>2, <2>1 DEF Source
    <3>3. r.state = "retry" /\ r.due = now /\ r.until = 0
      BY <1>2, <2>1 DEF Source
    <3> QED
      BY <3>1, <3>2, <3>3
  <2> QED
    BY <1>1, <1>5, <2>2
<1>6. CASE ~(q.state = "leased" /\ q.until <= now)
  <2>1. r = q
    BY <1>1, <1>4, <1>6 DEF RecoveredSources
  <2> QED
    BY <1>1, <1>2, <1>6, <2>1
<1> QED
  BY <1>5, <1>6

-----------------------------------------------------------------------------
(* Recovering expired leases disturbs neither.                             *)

LEMMA PageIndexesRecovered ==
  ASSUME now \in Nat, NEW ents \in [Pages -> Entry],
         NEW idx, idx = PageLeaseIndex(ents), NEW e2, e2 = RecoveredPages(ents, idx)
  PROVE  /\ PageDueIndex(e2) = PageDueIndex(ents) \cup Recovered(idx)
         /\ PageLeaseIndex(e2) = idx \ Expired(idx)
<1>1. \A p \in Pages :
        /\ ents[p].state = "leased" /\ ents[p].until <= now => e2[p].state = "retry" /\ e2[p].due = now
        /\ ~(ents[p].state = "leased" /\ ents[p].until <= now) => e2[p] = ents[p]
  BY RecoveredPageIs
<1>2. \A x : x \in Expired(idx) <=>
        \E q \in Pages : ents[q].state = "leased" /\ x = <<ents[q].until, q>> /\ ents[q].until <= now
  BY DEF Expired, PageLeaseIndex
<1>3. \A x : x \in Recovered(idx) <=>
        \E q \in Pages : ents[q].state = "leased" /\ ents[q].until <= now /\ x = <<now, q>>
  <2> TAKE x
  <2>1. ASSUME x \in Recovered(idx)
        PROVE  \E q \in Pages : ents[q].state = "leased" /\ ents[q].until <= now /\ x = <<now, q>>
    <3>1. PICK y \in Expired(idx) : x = <<now, y[2]>>
      BY <2>1 DEF Recovered
    <3>2. PICK q \in Pages : ents[q].state = "leased" /\ y = <<ents[q].until, q>> /\ ents[q].until <= now
      BY <1>2, <3>1
    <3> QED
      BY <3>1, <3>2
  <2>2. ASSUME NEW q \in Pages, ents[q].state = "leased", ents[q].until <= now, x = <<now, q>>
        PROVE  x \in Recovered(idx)
    <3>1. <<ents[q].until, q>> \in Expired(idx)
      BY <1>2, <2>2
    <3> QED
      BY <2>2, <3>1 DEF Recovered
  <2> QED
    BY <2>1, <2>2
<1>4. \A f, x : x \in PageDueIndex(f) <=>
                  \E q \in Pages : f[q].state \in Schedulable /\ x = <<f[q].due, q>>
  BY DEF PageDueIndex
<1>5. \A f, x : x \in PageLeaseIndex(f) <=>
                  \E q \in Pages : f[q].state = "leased" /\ x = <<f[q].until, q>>
  BY DEF PageLeaseIndex
<1>6. "retry" \in Schedulable /\ "leased" \notin Schedulable /\ "retry" # "leased"
  BY DEF Schedulable
<1>7. \A x : x \in PageDueIndex(e2) <=> x \in PageDueIndex(ents) \/ x \in Recovered(idx)
  <2> TAKE x
  <2>1. ASSUME NEW q \in Pages, e2[q].state \in Schedulable, x = <<e2[q].due, q>>
        PROVE  x \in PageDueIndex(ents) \/ x \in Recovered(idx)
    BY <1>1, <1>3, <1>4, <2>1
  <2>2. ASSUME NEW q \in Pages, ents[q].state \in Schedulable, x = <<ents[q].due, q>>
        PROVE  x \in PageDueIndex(e2)
    BY <1>1, <1>4, <1>6, <2>2
  <2>3. ASSUME NEW q \in Pages, ents[q].state = "leased", ents[q].until <= now, x = <<now, q>>
        PROVE  x \in PageDueIndex(e2)
    BY <1>1, <1>4, <1>6, <2>3
  <2> QED
    BY <1>3, <1>4, <2>1, <2>2, <2>3
<1>8. \A x : x \in PageLeaseIndex(e2) <=> x \in idx /\ x \notin Expired(idx)
  <2> TAKE x
  <2>1. ASSUME NEW q \in Pages, e2[q].state = "leased", x = <<e2[q].until, q>>
        PROVE  x \in idx /\ x \notin Expired(idx)
    <3>1. e2[q] = ents[q] /\ ~(ents[q].until <= now)
      BY <1>1, <1>6, <2>1
    <3>2. x \in idx
      BY <1>5, <2>1, <3>1
    <3>3. x \notin Expired(idx)
      <4>1. SUFFICES ASSUME NEW z \in Pages, x = <<ents[z].until, z>>, ents[z].until <= now PROVE FALSE
        BY <1>2
      <4> QED
        BY <2>1, <3>1, <4>1
    <3> QED
      BY <3>2, <3>3
  <2>2. ASSUME x \in idx, x \notin Expired(idx)
        PROVE  x \in PageLeaseIndex(e2)
    <3>1. PICK q \in Pages : ents[q].state = "leased" /\ x = <<ents[q].until, q>>
      BY <1>5, <2>2
    <3>2. ~(ents[q].until <= now)
      BY <1>2, <2>2, <3>1
    <3> QED
      BY <1>1, <1>5, <3>1, <3>2
  <2> QED
    BY <1>5, <2>1, <2>2
<1> QED
  BY <1>7, <1>8

LEMMA SourceIndexesRecovered ==
  ASSUME now \in Nat, NEW srcs \in [Sources -> Source],
         NEW idx, idx = SourceLeaseIndex(srcs), NEW s2, s2 = RecoveredSources(srcs, idx)
  PROVE  /\ SourceDueIndex(s2) = SourceDueIndex(srcs) \cup Recovered(idx)
         /\ SourceLeaseIndex(s2) = idx \ Expired(idx)
<1>1. \A s \in Sources :
        /\ srcs[s].state = "leased" /\ srcs[s].until <= now => s2[s].state = "retry" /\ s2[s].due = now
        /\ ~(srcs[s].state = "leased" /\ srcs[s].until <= now) => s2[s] = srcs[s]
  BY RecoveredSourceIs
<1>2. \A x : x \in Expired(idx) <=>
        \E q \in Sources : srcs[q].state = "leased" /\ x = <<srcs[q].until, q>> /\ srcs[q].until <= now
  BY DEF Expired, SourceLeaseIndex
<1>3. \A x : x \in Recovered(idx) <=>
        \E q \in Sources : srcs[q].state = "leased" /\ srcs[q].until <= now /\ x = <<now, q>>
  <2> TAKE x
  <2>1. ASSUME x \in Recovered(idx)
        PROVE  \E q \in Sources : srcs[q].state = "leased" /\ srcs[q].until <= now /\ x = <<now, q>>
    <3>1. PICK y \in Expired(idx) : x = <<now, y[2]>>
      BY <2>1 DEF Recovered
    <3>2. PICK q \in Sources : srcs[q].state = "leased" /\ y = <<srcs[q].until, q>> /\ srcs[q].until <= now
      BY <1>2, <3>1
    <3> QED
      BY <3>1, <3>2
  <2>2. ASSUME NEW q \in Sources, srcs[q].state = "leased", srcs[q].until <= now, x = <<now, q>>
        PROVE  x \in Recovered(idx)
    <3>1. <<srcs[q].until, q>> \in Expired(idx)
      BY <1>2, <2>2
    <3> QED
      BY <2>2, <3>1 DEF Recovered
  <2> QED
    BY <2>1, <2>2
<1>4. \A f, x : x \in SourceDueIndex(f) <=>
                  \E q \in Sources : f[q].state \in SourceSchedulable /\ x = <<f[q].due, q>>
  BY DEF SourceDueIndex
<1>5. \A f, x : x \in SourceLeaseIndex(f) <=>
                  \E q \in Sources : f[q].state = "leased" /\ x = <<f[q].until, q>>
  BY DEF SourceLeaseIndex
<1>6. "retry" \in SourceSchedulable /\ "leased" \notin SourceSchedulable /\ "retry" # "leased"
  BY DEF SourceSchedulable
<1>7. \A x : x \in SourceDueIndex(s2) <=> x \in SourceDueIndex(srcs) \/ x \in Recovered(idx)
  <2> TAKE x
  <2>1. ASSUME NEW q \in Sources, s2[q].state \in SourceSchedulable, x = <<s2[q].due, q>>
        PROVE  x \in SourceDueIndex(srcs) \/ x \in Recovered(idx)
    BY <1>1, <1>3, <1>4, <2>1
  <2>2. ASSUME NEW q \in Sources, srcs[q].state \in SourceSchedulable, x = <<srcs[q].due, q>>
        PROVE  x \in SourceDueIndex(s2)
    BY <1>1, <1>4, <1>6, <2>2
  <2>3. ASSUME NEW q \in Sources, srcs[q].state = "leased", srcs[q].until <= now, x = <<now, q>>
        PROVE  x \in SourceDueIndex(s2)
    BY <1>1, <1>4, <1>6, <2>3
  <2> QED
    BY <1>3, <1>4, <2>1, <2>2, <2>3
<1>8. \A x : x \in SourceLeaseIndex(s2) <=> x \in idx /\ x \notin Expired(idx)
  <2> TAKE x
  <2>1. ASSUME NEW q \in Sources, s2[q].state = "leased", x = <<s2[q].until, q>>
        PROVE  x \in idx /\ x \notin Expired(idx)
    <3>1. s2[q] = srcs[q] /\ ~(srcs[q].until <= now)
      BY <1>1, <1>6, <2>1
    <3>2. x \in idx
      BY <1>5, <2>1, <3>1
    <3>3. x \notin Expired(idx)
      <4>1. SUFFICES ASSUME NEW z \in Sources, x = <<srcs[z].until, z>>, srcs[z].until <= now PROVE FALSE
        BY <1>2
      <4> QED
        BY <2>1, <3>1, <4>1
    <3> QED
      BY <3>2, <3>3
  <2>2. ASSUME x \in idx, x \notin Expired(idx)
        PROVE  x \in SourceLeaseIndex(s2)
    <3>1. PICK q \in Sources : srcs[q].state = "leased" /\ x = <<srcs[q].until, q>>
      BY <1>5, <2>2
    <3>2. ~(srcs[q].until <= now)
      BY <1>2, <2>2, <3>1
    <3> QED
      BY <1>1, <1>5, <3>1, <3>2
  <2> QED
    BY <1>5, <2>1, <2>2
<1> QED
  BY <1>7, <1>8

-----------------------------------------------------------------------------
(* Versions of the records with their graphs.                              *)
Sound(ents, srcs, mem, edges, lnk, pol, sq) ==
  /\ Good(ents, srcs, mem, edges, lnk, pol, sq)
  /\ SourcesFollow(srcs, edges) /\ PagesFollow(ents, srcs, mem, lnk)
SamePresence(e1, s1, e2, s2) ==
  /\ \A p \in Pages : e1[p].state = "absent" <=> e2[p].state = "absent"
  /\ \A s \in Sources : s1[s].state = "absent" <=> s2[s].state = "absent"

(* What is leased, recovered or completed was wanted and stays so.         *)
PagesContinue(e1, e2) ==
  \A p \in Pages :
    /\ e1[p].state = "absent" <=> e2[p].state = "absent"
    /\ e1[p].explicit = e2[p].explicit
    /\ \/ e2[p] = e1[p]
       \/ e1[p].state # "disabled" /\ (e2[p].state = "disabled" => ~e2[p].orphaned)
SourcesContinue(s1, s2) ==
  \A s \in Sources :
    /\ s1[s].state \in {"absent", "disabled"} <=> s2[s].state \in {"absent", "disabled"}
    /\ s1[s].configured = s2[s].configured /\ s1[s].depth = s2[s].depth

(* Leases that come and go do not change who owns what.                    *)
LEMMA ScheduleKept ==
  ASSUME NEW e1, NEW s1, NEW e2, NEW s2, NEW mem, NEW edges, NEW lnk,
         SourcesFollow(s1, edges), PagesFollow(e1, s1, mem, lnk),
         edges \subseteq Sources \X Sources, PagesContinue(e1, e2), SourcesContinue(s1, s2)
  PROVE  SourcesFollow(s2, edges) /\ PagesFollow(e2, s2, mem, lnk)
<1>1. Alive(s1) = Alive(s2) /\ Alive(s1) \subseteq Sources
  BY DEF Alive, SourcesContinue
<1>2. SourcesFollow(s2, edges)
  <2>1. \A s \in Sources : s1[s].configured = s2[s].configured /\ s1[s].depth = s2[s].depth
    BY DEF SourcesContinue
  <2>2. ASSUME NEW s \in Alive(s2)
        PROVE  \/ s2[s].configured
               \/ \E r \in Alive(s2) : <<r, s>> \in edges /\ s2[s].depth = s2[r].depth + 1
    BY <1>1, <2>1 DEF SourcesFollow
  <2>3. ASSUME NEW s \in Sources, s2[s].configured
        PROVE  s \in Alive(s2) /\ s2[s].depth = 0
    BY <1>1, <2>1, <2>3 DEF SourcesFollow
  <2>4. ASSUME NEW e \in edges, e[1] \in Alive(s2)
        PROVE  \/ s2[e[1]].depth >= MaxSourceDepth
               \/ e[2] \in Alive(s2) /\ s2[e[2]].depth <= s2[e[1]].depth + 1
    <3>1. PICK x, y : x = e[1] /\ y = e[2]
      OBVIOUS
    <3>2. s1[x].depth = s2[x].depth /\ s1[y].depth = s2[y].depth
      BY <2>1, <3>1
    <3>3. \/ s1[x].depth >= MaxSourceDepth
          \/ y \in Alive(s1) /\ s1[y].depth <= s1[x].depth + 1
      BY <1>1, <2>4, <3>1 DEF SourcesFollow
    <3> QED
      BY <1>1, <3>1, <3>2, <3>3
  <2> QED
    BY <2>2, <2>3, <2>4 DEF SourcesFollow
<1>3. \A p \in Pages : Owned(p, e1, s1, mem, lnk) <=> Owned(p, e2, s2, mem, lnk)
  BY OwnedSame DEF PagesContinue, SourcesContinue
<1>4. ASSUME NEW p \in Present(e2, Pages)
      PROVE  IF Owned(p, e2, s2, mem, lnk)
             THEN e2[p].state = "disabled" => ~e2[p].orphaned
             ELSE e2[p].state = "disabled"
  <2>1. p \in Pages /\ p \in Present(e1, Pages)
    BY <1>4 DEF Present, PagesContinue
  <2>2. IF Owned(p, e1, s1, mem, lnk)
        THEN e1[p].state = "disabled" => ~e1[p].orphaned
        ELSE e1[p].state = "disabled"
    BY <2>1 DEF PagesFollow
  <2>3. \/ e2[p] = e1[p]
        \/ e1[p].state # "disabled" /\ (e2[p].state = "disabled" => ~e2[p].orphaned)
    BY <2>1 DEF PagesContinue
  <2> QED
    BY <1>3, <2>1, <2>2, <2>3
<1> QED
  BY <1>2, <1>4 DEF PagesFollow

LEMMA LaterGood ==
  ASSUME NEW ents \in [Pages -> Entry], NEW srcs \in [Sources -> Source],
         NEW mem, NEW edges, NEW lnk, NEW pol, NEW sq \in Nat, NEW sq2 \in Nat, sq <= sq2,
         Good(ents, srcs, mem, edges, lnk, pol, sq)
  PROVE  /\ \A p \in Pages : PageGood(ents[p], sq2) /\ ents[p].gen <= sq
         /\ \A s \in Sources : SourceGood(srcs[s], sq2) /\ (srcs[s].configured => SourceRoot[s] = s)
<1>1. \A p \in Pages : ents[p].gen \in Nat /\ PageGood(ents[p], sq)
  BY DEF Entry, Good, RecordsGood
<1>2. \A s \in Sources : srcs[s].gen \in Nat /\ SourceGood(srcs[s], sq) /\ (srcs[s].configured => SourceRoot[s] = s)
  BY DEF Source, Good, RecordsGood
<1>3. \A p \in Pages : PageGood(ents[p], sq2) /\ ents[p].gen <= sq
  BY <1>1 DEF PageGood
<1>4. \A s \in Sources : SourceGood(srcs[s], sq2)
  BY <1>2 DEF SourceGood
<1> QED
  BY <1>2, <1>3, <1>4

PageRecovers(e, r, sq) ==
  /\ r \in Entry /\ PageGood(r, sq) /\ e.explicit = r.explicit
  /\ e.state = "absent" <=> r.state = "absent"
  /\ r = e \/ (e.state = "leased" /\ r.state = "retry")
SourceRecovers(s, q, r, sq) ==
  /\ r \in Source /\ SourceGood(r, sq)
  /\ q.state \in {"absent", "disabled"} <=> r.state \in {"absent", "disabled"}
  /\ q.state = "absent" <=> r.state = "absent"
  /\ q.configured = r.configured /\ q.depth = r.depth
  /\ q.hasSnapshot => r.hasSnapshot
  /\ r.configured => SourceRoot[s] = s

(* Recovering expired leases, of pages, of sources or of both.             *)
LEMMA RecoveredSound ==
  ASSUME now \in Nat, now # 0, NEW ents \in [Pages -> Entry], NEW srcs \in [Sources -> Source],
         NEW mem \in SUBSET (Sources \X Pages), NEW edges \in SUBSET (Sources \X Sources),
         NEW lnk \in SUBSET (Pages \X Pages), NEW pol, NEW sq \in Nat,
         Sound(ents, srcs, mem, edges, lnk, pol, sq),
         NEW e2 \in {ents, RecoveredPages(ents, PageLeaseIndex(ents))},
         NEW s2 \in {srcs, RecoveredSources(srcs, SourceLeaseIndex(srcs))}
  PROVE  /\ Sound(e2, s2, mem, edges, lnk, pol, sq)
         /\ SamePresence(ents, srcs, e2, s2)
         /\ PagesContinue(ents, e2) /\ SourcesContinue(srcs, s2)
         /\ e2 \in [Pages -> Entry] /\ s2 \in [Sources -> Source]
         /\ \A p \in Pages : e2[p] = ents[p] \/ (ents[p].state = "leased" /\ e2[p].state = "retry")
<1>1. ASSUME NEW p \in Pages
      PROVE  PageRecovers(ents[p], e2[p], sq)
  <2>1. PICK e, r : e = ents[p] /\ r = e2[p]
    OBVIOUS
  <2>2. e \in Entry /\ PageGood(e, sq)
    BY <2>1 DEF Sound, Good, RecordsGood
  <2>3. CASE e2 = ents
    <3>1. r = e
      BY <2>1, <2>3
    <3>2. PageRecovers(e, e, sq)
      BY <2>2, Zenon DEF PageRecovers
    <3> QED
      BY <2>1, <3>1, <3>2
  <2>4. CASE e2 = RecoveredPages(ents, PageLeaseIndex(ents))
    <3>1. PICK idx : idx = PageLeaseIndex(ents)
      OBVIOUS
    <3>2. e2 = RecoveredPages(ents, idx)
      BY <2>4, <3>1
    <3>3. /\ r \in Entry /\ r.explicit = ents[p].explicit /\ r.gen = ents[p].gen
          /\ ents[p].state = "leased" /\ ents[p].until <= now =>
               r.state = "retry" /\ r.due = now /\ r.until = 0
          /\ ~(ents[p].state = "leased" /\ ents[p].until <= now) => r = ents[p]
      BY <2>1, <3>1, <3>2, RecoveredPageIs
    <3>4. \/ e.state = "leased" /\ r.state = "retry" /\ r.due = now /\ r.until = 0
          \/ r = e
      BY <2>1, <3>3
    <3>5. PageGood(r, sq)
      BY <2>1, <2>2, <3>3, <3>4 DEF PageGood, Schedulable
    <3>6. PageRecovers(e, r, sq)
      BY <2>1, <3>3, <3>4, <3>5 DEF PageRecovers
    <3> QED
      BY <2>1, <3>6
  <2> QED
    BY <2>3, <2>4
<1>2. ASSUME NEW s \in Sources
      PROVE  SourceRecovers(s, srcs[s], s2[s], sq)
  <2>1. PICK q, r : q = srcs[s] /\ r = s2[s]
    OBVIOUS
  <2>2. q \in Source /\ SourceGood(q, sq) /\ (q.configured => SourceRoot[s] = s)
    BY <2>1 DEF Sound, Good, RecordsGood
  <2>3. CASE s2 = srcs
    <3>1. r = q
      BY <2>1, <2>3
    <3> QED
      BY <2>1, <2>2, <3>1 DEF SourceRecovers
  <2>4. CASE s2 = RecoveredSources(srcs, SourceLeaseIndex(srcs))
    <3>1. PICK idx : idx = SourceLeaseIndex(srcs)
      OBVIOUS
    <3>2. s2 = RecoveredSources(srcs, idx)
      BY <2>4, <3>1
    <3>3. /\ r \in Source /\ r.configured = srcs[s].configured /\ r.gen = srcs[s].gen
          /\ r.depth = srcs[s].depth /\ r.hasSnapshot = srcs[s].hasSnapshot
          /\ srcs[s].state = "leased" /\ srcs[s].until <= now =>
               r.state = "retry" /\ r.due = now /\ r.until = 0
          /\ ~(srcs[s].state = "leased" /\ srcs[s].until <= now) => r = srcs[s]
      BY <2>1, <3>1, <3>2, RecoveredSourceIs
    <3>4. \/ q.state = "leased" /\ r.state = "retry" /\ r.due = now /\ r.until = 0
          \/ r = q
      BY <2>1, <3>3
    <3>5. SourceGood(r, sq)
      BY <2>1, <2>2, <3>3, <3>4 DEF SourceGood, SourceSchedulable
    <3>6. SourceRecovers(s, q, r, sq)
      BY <2>1, <2>2, <3>3, <3>4, <3>5 DEF SourceRecovers
    <3> QED
      BY <2>1, <3>6
  <2> QED
    BY <2>3, <2>4
<1>3. Good(e2, s2, mem, edges, lnk, pol, sq)
  <2>1. Good(ents, srcs, mem, edges, lnk, pol, sq)
    BY DEF Sound
  <2>2. AllGood(ents, srcs, e2, s2, sq)
    BY <1>1, <1>2 DEF AllGood, PageRecovers, SourceRecovers
  <2> QED
    BY <2>1, <2>2, StaysGood
<1>9. PagesContinue(ents, e2) /\ SourcesContinue(srcs, s2)
  BY <1>1, <1>2 DEF PagesContinue, SourcesContinue, PageRecovers, SourceRecovers
<1>4. SourcesFollow(s2, edges) /\ PagesFollow(e2, s2, mem, lnk)
  <2>1. SourcesFollow(srcs, edges) /\ PagesFollow(ents, srcs, mem, lnk)
    BY DEF Sound
  <2> QED
    BY <1>9, <2>1, ScheduleKept
<1>5. e2 \in [Pages -> Entry]
  <2>1. e2 = [p \in Pages |-> e2[p]]
    BY DEF RecoveredPages
  <2>2. \A p \in Pages : e2[p] \in Entry
    BY <1>1 DEF PageRecovers
  <2> QED
    BY <2>1, <2>2
<1>6. s2 \in [Sources -> Source]
  <2>1. s2 = [s \in Sources |-> s2[s]]
    BY DEF RecoveredSources
  <2>2. \A s \in Sources : s2[s] \in Source
    BY <1>2 DEF SourceRecovers
  <2> QED
    BY <2>1, <2>2
<1>7. SamePresence(ents, srcs, e2, s2)
  BY <1>1, <1>2 DEF SamePresence, PageRecovers, SourceRecovers
<1>8. \A p \in Pages : e2[p] = ents[p] \/ (ents[p].state = "leased" /\ e2[p].state = "retry")
  BY <1>1 DEF PageRecovers
<1> QED
  BY <1>3, <1>4, <1>5, <1>6, <1>7, <1>8, <1>9 DEF Sound

(* One active page that is leased or completed.                            *)
LEMMA PageChangedSound ==
  ASSUME NEW ents \in [Pages -> Entry], NEW srcs \in [Sources -> Source],
         NEW mem \in SUBSET (Sources \X Pages), NEW edges \in SUBSET (Sources \X Sources),
         NEW lnk \in SUBSET (Pages \X Pages), NEW pol, NEW sq \in Nat, NEW sq2 \in Nat, sq <= sq2,
         Sound(ents, srcs, mem, edges, lnk, pol, sq),
         NEW p \in Pages, NEW n \in Entry, ents[p].state \notin {"absent", "disabled"},
         n.state # "absent", n.explicit = ents[p].explicit, PageGood(n, sq2),
         n.state = "disabled" => ~n.orphaned,
         NEW e2, e2 = Changed(ents, p, n)
  PROVE  Sound(e2, srcs, mem, edges, lnk, pol, sq2) /\ SamePresence(ents, srcs, e2, srcs)
<1>1. e2[p] = n /\ \A q \in Pages \ {p} : e2[q] = ents[q]
  BY DEF Changed
<1>2. Good(ents, srcs, mem, edges, lnk, pol, sq)
  BY DEF Sound
<1>3. /\ \A q \in Pages : PageGood(ents[q], sq2)
      /\ \A s \in Sources : SourceGood(srcs[s], sq2) /\ (srcs[s].configured => SourceRoot[s] = s)
  BY <1>2, LaterGood
<1>4. \A q \in Pages :
        /\ PageGood(e2[q], sq2) /\ (ents[q].state = "absent" <=> e2[q].state = "absent")
        /\ ents[q].explicit = e2[q].explicit
        /\ \/ e2[q] = ents[q]
           \/ ents[q].state # "disabled" /\ (e2[q].state = "disabled" => ~e2[q].orphaned)
  <2> TAKE q \in Pages
  <2>1. CASE q = p
    BY <1>1, <2>1
  <2>2. CASE q # p
    BY <1>1, <1>3, <2>2
  <2> QED
    BY <2>1, <2>2
<1>5. Good(e2, srcs, mem, edges, lnk, pol, sq2)
  <2>1. AllGood(ents, srcs, e2, srcs, sq2)
    BY <1>3, <1>4 DEF AllGood
  <2> QED
    BY <1>2, <2>1, StaysGood
<1>6. SourcesFollow(srcs, edges) /\ PagesFollow(e2, srcs, mem, lnk)
  <2>1. SourcesFollow(srcs, edges) /\ PagesFollow(ents, srcs, mem, lnk)
    BY DEF Sound
  <2>2. PagesContinue(ents, e2) /\ SourcesContinue(srcs, srcs)
    BY <1>4 DEF PagesContinue, SourcesContinue
  <2> QED
    BY <2>1, <2>2, ScheduleKept
<1> QED
  BY <1>4, <1>5, <1>6 DEF Sound, SamePresence

(* One live source that is leased.                                         *)
LEMMA SourceLeasedSound ==
  ASSUME NEW ents \in [Pages -> Entry], NEW srcs \in [Sources -> Source],
         NEW mem \in SUBSET (Sources \X Pages), NEW edges \in SUBSET (Sources \X Sources),
         NEW lnk \in SUBSET (Pages \X Pages), NEW pol, NEW sq \in Nat, NEW sq2 \in Nat, sq <= sq2,
         Sound(ents, srcs, mem, edges, lnk, pol, sq),
         NEW s \in Sources, NEW n \in Source, srcs[s].state \notin {"absent", "disabled"},
         n.state \notin {"absent", "disabled"}, n.configured = srcs[s].configured,
         n.depth = srcs[s].depth, n.hasSnapshot = srcs[s].hasSnapshot, SourceGood(n, sq2),
         NEW s2, s2 = Changed(srcs, s, n)
  PROVE  Sound(ents, s2, mem, edges, lnk, pol, sq2) /\ SamePresence(ents, srcs, ents, s2)
<1>1. s2[s] = n /\ \A q \in Sources \ {s} : s2[q] = srcs[q]
  BY DEF Changed
<1>2. Good(ents, srcs, mem, edges, lnk, pol, sq)
  BY DEF Sound
<1>3. /\ \A q \in Pages : PageGood(ents[q], sq2)
      /\ \A q \in Sources : SourceGood(srcs[q], sq2) /\ (srcs[q].configured => SourceRoot[q] = q)
  BY <1>2, LaterGood
<1>4. \A q \in Sources :
        /\ SourceGood(s2[q], sq2) /\ (srcs[q].state = "absent" <=> s2[q].state = "absent")
        /\ srcs[q].state \in {"absent", "disabled"} <=> s2[q].state \in {"absent", "disabled"}
        /\ srcs[q].configured = s2[q].configured /\ srcs[q].depth = s2[q].depth
        /\ srcs[q].hasSnapshot => s2[q].hasSnapshot
        /\ s2[q].configured => SourceRoot[q] = q
  <2> TAKE q \in Sources
  <2>1. CASE q = s
    BY <1>1, <1>3, <2>1
  <2>2. CASE q # s
    BY <1>1, <1>3, <2>2
  <2> QED
    BY <2>1, <2>2
<1>5. Good(ents, s2, mem, edges, lnk, pol, sq2)
  <2>1. AllGood(ents, srcs, ents, s2, sq2)
    BY <1>3, <1>4 DEF AllGood
  <2> QED
    BY <1>2, <2>1, StaysGood
<1>6. SourcesFollow(s2, edges) /\ PagesFollow(ents, s2, mem, lnk)
  <2>1. SourcesFollow(srcs, edges) /\ PagesFollow(ents, srcs, mem, lnk)
    BY DEF Sound
  <2>2. PagesContinue(ents, ents) /\ SourcesContinue(srcs, s2)
    BY <1>4 DEF PagesContinue, SourcesContinue
  <2> QED
    BY <2>1, <2>2, ScheduleKept
<1> QED
  BY <1>4, <1>5, <1>6 DEF Sound, SamePresence

-----------------------------------------------------------------------------
(* Sets of pairs.                                                          *)
LEMMA PairsFinite ==
  ASSUME NEW A, NEW B, IsFiniteSet(A), IsFiniteSet(B), NEW R \in SUBSET (A \X B)
  PROVE  IsFiniteSet(R) /\ Cardinality(R) \in Nat
<1>1. IsFiniteSet(A \X B)
  BY FS_Product
<1> QED
  BY <1>1, FS_Subset, FS_CardinalityType

LEMMA FewerPairs ==
  ASSUME NEW A, NEW B, IsFiniteSet(A), IsFiniteSet(B), NEW R \in SUBSET (A \X B),
         NEW Q \in SUBSET R
  PROVE  Cardinality(Q) \in Nat /\ Cardinality(R) \in Nat /\ Cardinality(Q) <= Cardinality(R)
<1>1. IsFiniteSet(R) /\ Cardinality(R) \in Nat
  BY PairsFinite
<1> QED
  BY <1>1, FS_Subset, FS_CardinalityType

LEMMA PairsOfOne ==
  ASSUME NEW a, NEW L, IsFiniteSet(L)
  PROVE  IsFiniteSet({a} \X L) /\ Cardinality({a} \X L) = Cardinality(L)
<1>1. IsFiniteSet({a}) /\ Cardinality({a}) = 1
  BY FS_Singleton
<1>2. Cardinality(L) \in Nat
  BY FS_CardinalityType
<1>3. IsFiniteSet({a} \X L) /\ Cardinality({a} \X L) = Cardinality({a}) * Cardinality(L)
  BY <1>1, FS_Product
<1> QED
  BY <1>1, <1>2, <1>3

LEMMA FinitelyMany ==
  /\ IsFiniteSet(Pages) /\ IsFiniteSet(Sources)
  /\ \A P \in SUBSET Pages : IsFiniteSet(P) /\ Cardinality(P) \in Nat
  /\ \A S \in SUBSET Sources : IsFiniteSet(S) /\ Cardinality(S) \in Nat
  BY KeysAssumption, FS_Subset, FS_CardinalityType

LEMMA SnapshotsShrink ==
  ASSUME NEW mem \in SUBSET (Sources \X Pages), NEW edges \in SUBSET (Sources \X Sources),
         SnapshotsFit(mem, edges), NEW m2 \in SUBSET mem, NEW g2 \in SUBSET edges
  PROVE  SnapshotsFit(m2, g2)
<1>1. /\ \A s \in Sources : /\ Cardinality({e \in mem : e[1] = s}) <= MaxPagesPerSource
                            /\ Cardinality({e \in edges : e[1] = s}) <= MaxChildrenPerSource
      /\ Cardinality(mem) <= MaxMemberships
      /\ Cardinality(edges) <= MaxSourceEdges
  BY DEF SnapshotsFit
<1>2. {MaxPagesPerSource, MaxChildrenPerSource, MaxMemberships, MaxSourceEdges} \subseteq Nat
  BY LimitsAssumption
<1>3. ASSUME NEW R \in SUBSET mem, NEW Q \in SUBSET R
      PROVE  {Cardinality(Q), Cardinality(R)} \subseteq Nat /\ Cardinality(Q) <= Cardinality(R)
  <2>1. R \in SUBSET (Sources \X Pages)
    OBVIOUS
  <2> QED
    BY <2>1, FinitelyMany, FewerPairs
<1>4. ASSUME NEW R \in SUBSET edges, NEW Q \in SUBSET R
      PROVE  {Cardinality(Q), Cardinality(R)} \subseteq Nat /\ Cardinality(Q) <= Cardinality(R)
  <2>1. R \in SUBSET (Sources \X Sources)
    OBVIOUS
  <2> QED
    BY <2>1, FinitelyMany, FewerPairs
<1>5. Cardinality(m2) <= MaxMemberships /\ Cardinality(g2) <= MaxSourceEdges
  <2>1. {Cardinality(m2), Cardinality(mem)} \subseteq Nat /\ Cardinality(m2) <= Cardinality(mem)
    BY <1>3
  <2>2. {Cardinality(g2), Cardinality(edges)} \subseteq Nat /\ Cardinality(g2) <= Cardinality(edges)
    BY <1>4
  <2> QED
    BY <1>1, <1>2, <2>1, <2>2
<1>6. ASSUME NEW s \in Sources
      PROVE  /\ Cardinality({e \in m2 : e[1] = s}) <= MaxPagesPerSource
             /\ Cardinality({e \in g2 : e[1] = s}) <= MaxChildrenPerSource
  <2>1. PICK ma, mb, ga, gb : /\ ma = {e \in mem : e[1] = s} /\ mb = {e \in m2 : e[1] = s}
                              /\ ga = {e \in edges : e[1] = s} /\ gb = {e \in g2 : e[1] = s}
    OBVIOUS
  <2>2. ma \in SUBSET mem /\ mb \in SUBSET ma /\ ga \in SUBSET edges /\ gb \in SUBSET ga
    BY <2>1
  <2>3. /\ {Cardinality(mb), Cardinality(ma)} \subseteq Nat /\ Cardinality(mb) <= Cardinality(ma)
        /\ {Cardinality(gb), Cardinality(ga)} \subseteq Nat /\ Cardinality(gb) <= Cardinality(ga)
    BY <1>3, <1>4, <2>2
  <2> QED
    BY <1>1, <1>2, <2>1, <2>3
<1> QED
  BY <1>5, <1>6 DEF SnapshotsFit

-----------------------------------------------------------------------------
(* The records an operation writes are good ones.                          *)
LEMMA WrittenPages ==
  ASSUME TypeOK, NEW e \in Entry, PageGood(e, seq), NEW b \in BOOLEAN
  PROVE  /\ NewPage(b).state = "queued" /\ PageGood(NewPage(b), seq)
         /\ LET r == Requeued(e)
            IN  /\ r \in Entry /\ r.state = "queued" /\ PageGood(r, seq) /\ r.gen = e.gen
         /\ LET r == Orphaned(e)
            IN  /\ r \in Entry /\ r.state = "disabled" /\ r.orphaned = TRUE /\ PageGood(r, seq)
                /\ r.gen = e.gen
<1>1. now \in Nat /\ now # 0 /\ seq \in Nat
  BY DEF TypeOK
<1>2. PICK t, q : t = now /\ q = seq
  OBVIOUS
<1>3. t \in Nat /\ t # 0 /\ q \in Nat /\ PageGood(e, q)
  BY <1>1, <1>2
<1>4. PICK n : n = NewPage(b)
  OBVIOUS
<1>5. n = [state |-> "queued", due |-> t, until |-> 0, gen |-> 0,
           attempts |-> 0, orphaned |-> FALSE, explicit |-> b]
  BY <1>2, <1>4 DEF NewPage, NoPage
<1>6. n.state = "queued" /\ PageGood(n, q)
  BY <1>3, <1>5 DEF PageGood, Schedulable
<1>7. PICK r : r = [e EXCEPT !.state = "queued", !.due = t, !.until = 0, !.orphaned = FALSE]
  OBVIOUS
<1>8. r = Requeued(e)
  BY <1>2, <1>7 DEF Requeued
<1>9. r.state = "queued" /\ r.due = t /\ r.until = 0 /\ r.gen = e.gen
  BY <1>7 DEF Entry
<1>10. e.gen <= q
  BY <1>3 DEF PageGood
<1>11. r \in Entry /\ PageGood(r, q)
  BY <1>1, <1>3, <1>8, <1>9, <1>10, RequeuedType DEF PageGood, Schedulable
<1>12. PICK o : o = [e EXCEPT !.state = "disabled", !.due = 0, !.until = 0, !.orphaned = TRUE]
  OBVIOUS
<1>13. o = Orphaned(e)
  BY <1>12 DEF Orphaned
<1>14. /\ o.state = "disabled" /\ o.due = 0 /\ o.until = 0 /\ o.gen = e.gen
       /\ o.orphaned = TRUE
  BY <1>12 DEF Entry
<1>15. o \in Entry /\ PageGood(o, q)
  BY <1>1, <1>3, <1>10, <1>13, <1>14, RequeuedType DEF PageGood, Schedulable
<1> QED
  BY <1>2, <1>4, <1>6, <1>8, <1>9, <1>11, <1>13, <1>14, <1>15

LEMMA SeedChanged ==
  ASSUME NEW e \in Entry, NEW sq, PageGood(e, sq), e.state # "absent", NEW b \in BOOLEAN,
         NEW r, r = [e EXCEPT !.explicit = b]
  PROVE  r \in Entry /\ PageGood(r, sq) /\ r.state = e.state /\ r.orphaned = e.orphaned
<1>1. /\ r.state = e.state /\ r.due = e.due /\ r.until = e.until /\ r.gen = e.gen
      /\ r.orphaned = e.orphaned /\ r \in Entry
  BY DEF Entry
<1> QED
  BY <1>1 DEF PageGood

LEMMA AttemptsReset ==
  ASSUME NEW e \in Entry, NEW sq, PageGood(e, sq), e.state # "absent",
         NEW r, r = [e EXCEPT !.attempts = 0]
  PROVE  r \in Entry /\ PageGood(r, sq) /\ r.state = e.state
<1>1. /\ r.state = e.state /\ r.due = e.due /\ r.until = e.until /\ r.gen = e.gen
      /\ r \in Entry
  BY DEF Entry
<1> QED
  BY <1>1 DEF PageGood

(* The pages and sources an operation hands to Reconcile: good, none gone. *)
PagesGrown(ents) ==
  /\ \A p \in Pages :
       /\ PageGood(ents[p], seq)
       /\ entries[p].state # "absent" => ents[p].state # "absent"
       /\ entries[p].state \notin {"absent", "disabled"} /\ ents[p].state = "disabled"
            => ents[p].orphaned
  /\ Cardinality(Present(ents, Pages)) <= MaxEntries
SourcesGrown(srcs) ==
  /\ \A s \in Sources :
       /\ SourceGood(srcs[s], seq)
       /\ srcs[s].configured => SourceRoot[s] = s
       /\ sources[s].state # "absent" => srcs[s].state # "absent"
  /\ Cardinality(Present(srcs, Sources)) <= MaxSources

LEMMA StoreGrown ==
  ASSUME Agreed
  PROVE  PagesGrown(entries) /\ SourcesGrown(sources)
  BY DEF Agreed, Good, RecordsGood, PagesGrown, SourcesGrown

LEMMA GrownContinues ==
  ASSUME NEW ents, NEW srcs, PagesGrown(ents), SourcesGrown(srcs)
  PROVE  RecordsGood(ents, srcs, seq) /\ Continues(ents, srcs)
  BY DEF RecordsGood, PagesGrown, SourcesGrown, Continues

LEMMA SnapshotsKept ==
  ASSUME TypeOK, Agreed, NEW ents, NEW srcs, PagesGrown(ents), SourcesGrown(srcs),
         NEW mem \in SUBSET pageOf, NEW edges \in SUBSET childOf,
         \A e \in mem \cup edges : sources[e[1]].hasSnapshot => srcs[e[1]].hasSnapshot
  PROVE  SnapshotsGood(ents, srcs, mem, edges) /\ SnapshotsFit(mem, edges)
<1>1. SnapshotsGood(entries, sources, pageOf, childOf) /\ SnapshotsFit(pageOf, childOf)
  BY DEF Agreed, Good
<1>2. pageOf \in SUBSET (Sources \X Pages) /\ childOf \in SUBSET (Sources \X Sources)
  BY DEF TypeOK
<1>3. SnapshotsFit(mem, edges)
  BY <1>1, <1>2, SnapshotsShrink
<1>4. \A e \in mem : e[2] \in Pages
  BY <1>2
<1>5. \A e \in edges : e[2] \in Sources
  BY <1>2
<1>6. \A p \in Pages : entries[p].state # "absent" => ents[p].state # "absent"
  BY DEF PagesGrown
<1>7. \A s \in Sources : sources[s].state # "absent" => srcs[s].state # "absent"
  BY DEF SourcesGrown
<1>8. ASSUME NEW e \in mem
      PROVE  /\ srcs[e[1]].hasSnapshot /\ ents[e[2]].state # "absent"
             /\ SourceJob[e[1]] = PageJob[e[2]]
  BY <1>1, <1>4, <1>6, <1>8 DEF SnapshotsGood
<1>9. ASSUME NEW e \in edges
      PROVE  /\ srcs[e[1]].hasSnapshot /\ srcs[e[2]].state # "absent"
             /\ SourceJob[e[1]] = SourceJob[e[2]]
             /\ SourceRoot[e[1]] = SourceRoot[e[2]]
  BY <1>1, <1>5, <1>7, <1>9 DEF SnapshotsGood
<1> QED
  BY <1>3, <1>8, <1>9 DEF SnapshotsGood

LEMMA LinksKept ==
  ASSUME TypeOK, Agreed, NEW ents, PagesGrown(ents)
  PROVE  LinksGood(ents, links, policy)
<1>1. LinksGood(entries, links, policy)
  BY DEF Agreed, Good
<1>2. \A e \in links : e[1] \in Pages /\ e[2] \in Pages
  BY DEF TypeOK
<1>3. \A p \in Pages : entries[p].state # "absent" => ents[p].state # "absent"
  BY DEF PagesGrown
<1> QED
  BY <1>1, <1>2, <1>3 DEF LinksGood

LEMMA FewEnough ==
  ASSUME NEW ents, NEW extra \in SUBSET Pages,
         \A p \in Pages : ents[p].state # "absent" => entries[p].state # "absent" \/ p \in extra,
         Cardinality(Present(entries, Pages) \cup extra) <= MaxEntries
  PROVE  Cardinality(Present(ents, Pages)) <= MaxEntries
<1>1. PICK A, B : A = Present(ents, Pages) /\ B = Present(entries, Pages) \cup extra
  OBVIOUS
<1>2. A \subseteq B /\ B \subseteq Pages
  BY <1>1 DEF Present
<1>3. Cardinality(A) \in Nat /\ Cardinality(B) \in Nat /\ Cardinality(A) <= Cardinality(B)
  BY <1>2, FinitelyMany, FS_Subset
<1>4. MaxEntries \in Nat /\ Cardinality(B) <= MaxEntries
  BY <1>1, LimitsAssumption
<1>5. Cardinality(A) <= MaxEntries
  BY <1>3, <1>4
<1> QED
  BY <1>1, <1>5

LEMMA FewEnoughSources ==
  ASSUME NEW srcs, NEW extra \in SUBSET Sources,
         \A s \in Sources : srcs[s].state # "absent" => sources[s].state # "absent" \/ s \in extra,
         Cardinality(Present(sources, Sources) \cup extra) <= MaxSources
  PROVE  Cardinality(Present(srcs, Sources)) <= MaxSources
<1>1. PICK A, B : A = Present(srcs, Sources) /\ B = Present(sources, Sources) \cup extra
  OBVIOUS
<1>2. A \subseteq B /\ B \subseteq Sources
  BY <1>1 DEF Present
<1>3. Cardinality(A) \in Nat /\ Cardinality(B) \in Nat /\ Cardinality(A) <= Cardinality(B)
  BY <1>2, FinitelyMany, FS_Subset
<1>4. MaxSources \in Nat /\ Cardinality(B) <= MaxSources
  BY <1>1, LimitsAssumption
<1>5. Cardinality(A) <= MaxSources
  BY <1>3, <1>4
<1> QED
  BY <1>1, <1>5

-----------------------------------------------------------------------------
(* The operations that reconcile.                                          *)

(* What SyncSeeds makes of a page.                                         *)
LEMMA SeededIs ==
  ASSUME TypeOK, NEW e \in Entry, PageGood(e, seq), NEW listed \in BOOLEAN, NEW found \in BOOLEAN,
         NEW r, r = IF listed
                    THEN IF e.state = "absent" THEN NewPage(TRUE)
                         ELSE IF e.state = "disabled"
                              THEN [Requeued(e) EXCEPT !.explicit = TRUE]
                              ELSE [e EXCEPT !.explicit = TRUE]
                    ELSE IF ~e.explicit THEN e
                         ELSE IF found THEN [e EXCEPT !.explicit = FALSE]
                              ELSE [Orphaned(e) EXCEPT !.explicit = FALSE]
  PROVE  /\ r \in Entry /\ PageGood(r, seq)
         /\ e.state # "absent" => r.state # "absent"
         /\ r.state # "absent" => e.state # "absent" \/ listed
         /\ e.state \notin {"absent", "disabled"} /\ r.state = "disabled" => r.orphaned
<1>1. PICK n, q, o : n = NewPage(TRUE) /\ q = Requeued(e) /\ o = Orphaned(e)
  OBVIOUS
<1>2. /\ n \in Entry /\ n.state = "queued" /\ PageGood(n, seq)
      /\ q \in Entry /\ q.state = "queued" /\ PageGood(q, seq)
      /\ o \in Entry /\ o.state = "disabled" /\ o.orphaned = TRUE /\ PageGood(o, seq)
  BY <1>1, WrittenPages, NewPageType DEF TypeOK
<1>3. CASE listed /\ e.state = "absent"
  <2>1. r = n
    BY <1>1, <1>3
  <2> QED
    BY <1>2, <1>3, <2>1
<1>4. CASE listed /\ e.state = "disabled"
  <2>1. r = [q EXCEPT !.explicit = TRUE]
    BY <1>1, <1>4
  <2>2. q \in Entry /\ PageGood(q, seq) /\ q.state # "absent"
    BY <1>2
  <2>3. r \in Entry /\ PageGood(r, seq) /\ r.state = q.state
    BY <2>1, <2>2, SeedChanged
  <2> QED
    BY <1>2, <1>4, <2>3
<1>5. CASE listed /\ e.state \notin {"absent", "disabled"}
  <2>1. r = [e EXCEPT !.explicit = TRUE]
    BY <1>5
  <2>2. r \in Entry /\ PageGood(r, seq) /\ r.state = e.state
    BY <1>5, <2>1, SeedChanged
  <2> QED
    BY <1>5, <2>2
<1>6. CASE ~listed /\ ~e.explicit
  <2>1. r = e
    BY <1>6
  <2> QED
    BY <2>1
<1>7. CASE ~listed /\ e.explicit
  <2>1. e.state # "absent"
    BY <1>7 DEF PageGood
  <2>2. CASE found
    <3>1. r = [e EXCEPT !.explicit = FALSE]
      BY <1>7, <2>2
    <3>2. r \in Entry /\ PageGood(r, seq) /\ r.state = e.state
      BY <2>1, <3>1, SeedChanged
    <3> QED
      BY <2>1, <3>2
  <2>3. CASE ~found
    <3>1. r = [o EXCEPT !.explicit = FALSE]
      BY <1>1, <1>7, <2>3
    <3>2. r \in Entry /\ PageGood(r, seq) /\ r.state = o.state /\ r.orphaned = o.orphaned
      BY <1>2, <3>1, SeedChanged
    <3> QED
      BY <1>2, <2>1, <3>2
  <2> QED
    BY <2>2, <2>3
<1> QED
  BY <1>3, <1>4, <1>5, <1>6, <1>7

LEMMA SyncSeedsAgrees ==
  ASSUME TypeOK, Agreed, NEW S \in SUBSET Pages, SyncSeeds(S)
  PROVE  Agreed' /\ StopsWithReason
<1>1. PICK seeded : seeded = [p \in Pages |->
        IF p \in S
        THEN IF entries[p].state = "absent" THEN NewPage(TRUE)
             ELSE IF entries[p].state = "disabled"
                  THEN [Requeued(entries[p]) EXCEPT !.explicit = TRUE]
                  ELSE [entries[p] EXCEPT !.explicit = TRUE]
        ELSE IF ~entries[p].explicit THEN entries[p]
             ELSE IF \E s \in Sources : <<s, p>> \in pageOf
                  THEN [entries[p] EXCEPT !.explicit = FALSE]
                  ELSE [Orphaned(entries[p]) EXCEPT !.explicit = FALSE]]
  OBVIOUS
<1>2. /\ Cardinality(Present(entries, Pages) \cup S) <= MaxEntries
      /\ Reconcile(seeded, sources, pageOf, childOf, links, now)
      /\ UNCHANGED <<policy, hosts, seq, now, work, result, dispatch>>
  BY <1>1 DEF SyncSeeds
<1>3. ASSUME NEW p \in Pages
      PROVE  /\ seeded[p] \in Entry /\ PageGood(seeded[p], seq)
             /\ entries[p].state # "absent" => seeded[p].state # "absent"
             /\ seeded[p].state # "absent" => entries[p].state # "absent" \/ p \in S
             /\ entries[p].state \notin {"absent", "disabled"} /\ seeded[p].state = "disabled"
                  => seeded[p].orphaned
  <2>1. PICK e, r, listed, found :
          /\ e = entries[p] /\ r = seeded[p] /\ listed = (p \in S)
          /\ found = (\E s \in Sources : <<s, p>> \in pageOf)
    OBVIOUS
  <2>2. e \in Entry /\ PageGood(e, seq) /\ listed \in BOOLEAN /\ found \in BOOLEAN
    BY <2>1 DEF TypeOK, Agreed, Good, RecordsGood
  <2>3. r = IF listed
            THEN IF e.state = "absent" THEN NewPage(TRUE)
                 ELSE IF e.state = "disabled"
                      THEN [Requeued(e) EXCEPT !.explicit = TRUE]
                      ELSE [e EXCEPT !.explicit = TRUE]
            ELSE IF ~e.explicit THEN e
                 ELSE IF found THEN [e EXCEPT !.explicit = FALSE]
                      ELSE [Orphaned(e) EXCEPT !.explicit = FALSE]
    BY <1>1, <2>1
  <2>4. /\ r \in Entry /\ PageGood(r, seq)
        /\ e.state # "absent" => r.state # "absent"
        /\ r.state # "absent" => e.state # "absent" \/ listed
        /\ e.state \notin {"absent", "disabled"} /\ r.state = "disabled" => r.orphaned
    BY <2>2, <2>3, SeededIs
  <2> QED
    BY <2>1, <2>4
<1>4. seeded \in [Pages -> Entry]
  <2>1. seeded = [p \in Pages |-> seeded[p]]
    BY <1>1
  <2> QED
    BY <1>3, <2>1
<1>5. PagesGrown(seeded)
  <2>1. Cardinality(Present(seeded, Pages)) <= MaxEntries
    BY <1>2, <1>3, FewEnough
  <2> QED
    BY <1>3, <2>1 DEF PagesGrown
<1>6. SourcesGrown(sources)
  BY StoreGrown
<1>7. RecordsGood(seeded, sources, seq) /\ Continues(seeded, sources)
  BY <1>5, <1>6, GrownContinues
<1>8. SnapshotsGood(seeded, sources, pageOf, childOf) /\ SnapshotsFit(pageOf, childOf)
  BY <1>5, <1>6, SnapshotsKept
<1>9. LinksGood(seeded, links, policy)
  BY <1>5, LinksKept
<1>10. PICK pol : pol = policy'
  OBVIOUS
<1>11. Good(seeded, sources, pageOf, childOf, links, pol, seq)
  BY <1>2, <1>7, <1>8, <1>9, <1>10 DEF Good
<1>12. /\ sources \in [Sources -> Source] /\ pageOf \in SUBSET (Sources \X Pages)
       /\ childOf \in SUBSET (Sources \X Sources) /\ links \in SUBSET (Pages \X Pages)
       /\ now \in Nat /\ now # 0
  BY DEF TypeOK
<1>13. UNCHANGED <<hosts, seq>>
  BY <1>2
<1> QED
  BY <1>2, <1>4, <1>7, <1>10, <1>11, <1>12, <1>13, ReconcileAgrees

LEMMA SyncLinkPoliciesAgrees ==
  ASSUME TypeOK, Agreed, NEW new \in [Jobs -> 0..MaxLinksPerPage], SyncLinkPolicies(new)
  PROVE  Agreed' /\ StopsWithReason
<1>1. PICK changed, restarted, lnk :
        /\ changed = {j \in Jobs : new[j] # policy[j]}
        /\ restarted = [p \in Pages |->
             IF /\ entries[p].state # "absent"
                /\ PageJob[p] \in changed
                /\ BaseOwned(p, entries, sources, pageOf)
             THEN [Requeued(entries[p]) EXCEPT !.attempts = 0]
             ELSE entries[p]]
        /\ lnk = LinksOfOtherJobs(changed)
  OBVIOUS
<1>2. /\ Reconcile(restarted, sources, pageOf, childOf, lnk, now)
      /\ new = policy' /\ UNCHANGED <<hosts, seq>>
  BY <1>1 DEF SyncLinkPolicies
<1>3. ASSUME NEW p \in Pages
      PROVE  /\ restarted[p] \in Entry /\ PageGood(restarted[p], seq)
             /\ entries[p].state = "absent" <=> restarted[p].state = "absent"
             /\ restarted[p].state = "disabled" => entries[p].state = "disabled"
  <2>1. PICK e, r, q : e = entries[p] /\ r = restarted[p] /\ q = Requeued(e)
    OBVIOUS
  <2>2. e \in Entry /\ PageGood(e, seq)
    BY <2>1 DEF TypeOK, Agreed, Good, RecordsGood
  <2>3. q \in Entry /\ q.state = "queued" /\ PageGood(q, seq)
    BY <2>1, <2>2, WrittenPages
  <2>4. r = e \/ (e.state # "absent" /\ r = [q EXCEPT !.attempts = 0])
    BY <1>1, <2>1
  <2>5. CASE r = e
    BY <2>1, <2>2, <2>5
  <2>6. CASE e.state # "absent" /\ r = [q EXCEPT !.attempts = 0]
    <3>1. r \in Entry /\ PageGood(r, seq) /\ r.state = q.state
      BY <2>3, <2>6, AttemptsReset
    <3> QED
      BY <2>1, <2>3, <2>6, <3>1
  <2> QED
    BY <2>4, <2>5, <2>6
<1>4. restarted \in [Pages -> Entry]
  <2>1. restarted = [p \in Pages |-> restarted[p]]
    BY <1>1
  <2> QED
    BY <1>3, <2>1
<1>5. PagesGrown(restarted)
  <2>1. Present(restarted, Pages) = Present(entries, Pages)
    BY <1>3 DEF Present
  <2>2. Cardinality(Present(restarted, Pages)) <= MaxEntries
    BY <2>1 DEF Agreed, Good, RecordsGood
  <2> QED
    BY <1>3, <2>2 DEF PagesGrown
<1>6. SourcesGrown(sources)
  BY StoreGrown
<1>7. RecordsGood(restarted, sources, seq) /\ Continues(restarted, sources)
  BY <1>5, <1>6, GrownContinues
<1>8. SnapshotsGood(restarted, sources, pageOf, childOf) /\ SnapshotsFit(pageOf, childOf)
  BY <1>5, <1>6, SnapshotsKept
<1>9. LinksGood(restarted, links, policy)
  BY <1>5, LinksKept
<1>10. links \in SUBSET (Pages \X Pages) /\ lnk \in SUBSET links
  BY <1>1 DEF TypeOK, LinksOfOtherJobs
<1>11. \A e \in lnk : new[PageJob[e[1]]] = policy[PageJob[e[1]]]
  <2> TAKE e \in lnk
  <2>1. e[1] \in Pages /\ PageJob[e[1]] \notin changed
    BY <1>1, <1>10 DEF LinksOfOtherJobs
  <2>2. PageJob[e[1]] \in Jobs
    BY <2>1, IdentityAssumption
  <2> QED
    BY <1>1, <2>1, <2>2
<1>12. LinksGood(restarted, lnk, new)
  <2>1. \A e \in lnk : /\ e[1] # e[2]
                       /\ restarted[e[1]].state # "absent"
                       /\ restarted[e[2]].state # "absent"
                       /\ PageJob[e[1]] = PageJob[e[2]]
                       /\ new[PageJob[e[1]]] > 0
    BY <1>9, <1>10, <1>11 DEF LinksGood
  <2>2. ASSUME NEW p \in Pages
        PROVE  Cardinality({e \in lnk : e[1] = p}) <= new[PageJob[p]]
    <3>1. PICK A, B, j : A = {e \in links : e[1] = p} /\ B = {e \in lnk : e[1] = p} /\ j = PageJob[p]
      OBVIOUS
    <3>2. j \in Jobs /\ new[j] \in Nat /\ policy[j] \in Nat
      BY <3>1, IdentityAssumption, LimitsAssumption DEF TypeOK
    <3>3. CASE B = {}
      <4>1. Cardinality(B) = 0
        BY <3>3, FS_EmptySet
      <4> QED
        BY <3>1, <3>2, <4>1
    <3>4. CASE B # {}
      <4>1. new[j] = policy[j]
        BY <1>11, <3>1, <3>4
      <4>2. Cardinality(A) <= policy[j]
        BY <1>9, <3>1 DEF LinksGood
      <4>3. A \in SUBSET (Pages \X Pages) /\ B \in SUBSET A
        BY <1>10, <3>1
      <4>4. Cardinality(A) \in Nat /\ Cardinality(B) \in Nat /\ Cardinality(B) <= Cardinality(A)
        BY <4>3, FinitelyMany, FewerPairs
      <4>5. Cardinality(B) <= new[j]
        BY <3>2, <4>1, <4>2, <4>4
      <4> QED
        BY <3>1, <4>5
    <3> QED
      BY <3>3, <3>4
  <2>3. Cardinality(lnk) <= MaxLinkEdges
    <3>1. Cardinality(links) <= MaxLinkEdges /\ MaxLinkEdges \in Nat
      BY <1>9, LimitsAssumption DEF LinksGood
    <3>2. /\ Cardinality(links) \in Nat /\ Cardinality(lnk) \in Nat
          /\ Cardinality(lnk) <= Cardinality(links)
      BY <1>10, FinitelyMany, FewerPairs
    <3> QED
      BY <3>1, <3>2
  <2> QED
    BY <2>1, <2>2, <2>3 DEF LinksGood
<1>13. Good(restarted, sources, pageOf, childOf, lnk, new, seq)
  BY <1>7, <1>8, <1>12 DEF Good
<1>14. /\ sources \in [Sources -> Source] /\ pageOf \in SUBSET (Sources \X Pages)
       /\ childOf \in SUBSET (Sources \X Sources) /\ lnk \in SUBSET (Pages \X Pages)
       /\ now \in Nat /\ now # 0
  BY <1>10 DEF TypeOK
<1> QED
  BY <1>2, <1>4, <1>7, <1>13, <1>14, ReconcileAgrees

Synced(s, S, K) ==
  CASE s \in S /\ sources[s].state = "absent" ->
         [NoSource EXCEPT !.state = "queued", !.due = now,
                          !.configured = TRUE]
    [] s \in K ->
         [sources[s] EXCEPT !.state = "queued", !.due = now,
            !.until = 0, !.configured = TRUE, !.hasSnapshot = FALSE]
    [] s \in S \ K /\ sources[s].state = "disabled" ->
         [sources[s] EXCEPT !.state = "queued", !.due = now,
            !.until = 0, !.configured = TRUE]
    [] s \in S \ K /\ sources[s].state \notin {"absent", "disabled"} ->
         [sources[s] EXCEPT !.configured = TRUE]
    [] OTHER -> [sources[s] EXCEPT !.configured = FALSE]

(* What SyncDiscoverySources makes of a source.                            *)
LEMMA SyncedIs ==
  ASSUME TypeOK, NEW s \in Sources, NEW q \in Source, q = sources[s], SourceGood(q, seq),
         NEW S, NEW K, s \in K => s \in S /\ q.state # "absent",
         NEW r, r = Synced(s, S, K)
  PROVE  /\ r \in Source /\ SourceGood(r, seq)
         /\ q.state # "absent" => r.state # "absent"
         /\ r.state # "absent" => q.state # "absent" \/ s \in S
         /\ r.configured => s \in S
         /\ q.hasSnapshot /\ s \notin K => r.hasSnapshot
<1>1. PICK t, sq : t = now /\ sq = seq
  OBVIOUS
<1>2. t \in Nat /\ t # 0 /\ sq \in Nat /\ SourceGood(q, sq)
  BY <1>1 DEF TypeOK
<1>3. ASSUME NEW x \in Source
      PROVE  /\ [x EXCEPT !.state = "queued", !.due = t, !.configured = TRUE] \in Source
             /\ [x EXCEPT !.state = "queued", !.due = t, !.until = 0,
                   !.configured = TRUE, !.hasSnapshot = FALSE] \in Source
             /\ [x EXCEPT !.state = "queued", !.due = t, !.until = 0, !.configured = TRUE] \in Source
             /\ [x EXCEPT !.configured = TRUE] \in Source
             /\ [x EXCEPT !.configured = FALSE] \in Source
  BY <1>2 DEF Source, PageStates
<1>4. CASE s \in S /\ q.state = "absent"
  <2>1. r = [NoSource EXCEPT !.state = "queued", !.due = t, !.configured = TRUE]
    BY <1>1, <1>4 DEF Synced
  <2>2. r \in Source
    BY <1>3, <2>1, ConstantRecords
  <2>3. r.state = "queued" /\ r.due = t /\ r.until = 0 /\ r.gen = 0
    BY <2>1 DEF NoSource
  <2>4. SourceGood(r, sq)
    BY <1>2, <2>3 DEF SourceGood, SourceSchedulable
  <2>5. ~q.hasSnapshot
    BY <1>2, <1>4 DEF SourceGood
  <2> QED
    BY <1>1, <1>4, <2>2, <2>3, <2>4, <2>5
<1>5. CASE s \in K
  <2>1. r = [q EXCEPT !.state = "queued", !.due = t,
               !.until = 0, !.configured = TRUE, !.hasSnapshot = FALSE]
    BY <1>1, <1>5 DEF Synced
  <2>2. r \in Source
    BY <1>3, <2>1
  <2>3. r.state = "queued" /\ r.due = t /\ r.until = 0 /\ r.gen = q.gen
    BY <2>1 DEF Source
  <2>4. SourceGood(r, sq)
    BY <1>2, <2>3 DEF SourceGood, SourceSchedulable
  <2> QED
    BY <1>1, <1>5, <2>2, <2>3, <2>4
<1>6. CASE s \in S \ K /\ q.state = "disabled"
  <2>1. r = [q EXCEPT !.state = "queued", !.due = t, !.until = 0, !.configured = TRUE]
    BY <1>1, <1>6 DEF Synced
  <2>2. r \in Source
    <3>1. [q EXCEPT !.state = "queued", !.due = t, !.until = 0, !.configured = TRUE] \in Source
      BY <1>3
    <3> QED
      BY <2>1, <3>1
  <2>3. /\ r.state = "queued" /\ r.due = t /\ r.until = 0 /\ r.gen = q.gen
        /\ r.hasSnapshot = q.hasSnapshot
    BY <2>1 DEF Source
  <2>4. SourceGood(r, sq)
    BY <1>2, <2>3 DEF SourceGood, SourceSchedulable
  <2> QED
    BY <1>1, <1>6, <2>2, <2>3, <2>4
<1>7. CASE s \in S \ K /\ q.state \notin {"absent", "disabled"}
  <2>1. r = [q EXCEPT !.configured = TRUE]
    BY <1>7 DEF Synced
  <2>2. r \in Source
    BY <1>3, <2>1
  <2>3. /\ r.state = q.state /\ r.due = q.due /\ r.until = q.until /\ r.gen = q.gen
        /\ r.hasSnapshot = q.hasSnapshot
    BY <2>1 DEF Source
  <2>4. SourceGood(r, sq)
    BY <1>2, <1>7, <2>3 DEF SourceGood, SourceSchedulable
  <2> QED
    BY <1>1, <1>7, <2>2, <2>3, <2>4
<1>8. CASE s \notin S
  <2>1. r = [q EXCEPT !.configured = FALSE]
    BY <1>8 DEF Synced
  <2>2. r \in Source
    BY <1>3, <2>1
  <2>3. /\ r.state = q.state /\ r.due = q.due /\ r.until = q.until /\ r.gen = q.gen
        /\ r.hasSnapshot = q.hasSnapshot /\ ~r.configured
    BY <2>1 DEF Source
  <2>4. SourceGood(r, sq)
    BY <1>2, <2>3 DEF SourceGood, SourceSchedulable
  <2> QED
    BY <1>1, <1>8, <2>2, <2>3, <2>4
<1> QED
  BY <1>4, <1>5, <1>6, <1>7, <1>8

LEMMA SyncDiscoverySourcesAgrees ==
  ASSUME TypeOK, Agreed, NEW S \in SUBSET Roots, NEW K \in SUBSET (S \cap Present(sources, Sources)),
         SyncDiscoverySources(S, K)
  PROVE  Agreed' /\ StopsWithReason
<1>1. PICK synced, mem, edges :
        /\ synced = [s \in Sources |-> Synced(s, S, K)]
        /\ mem = WithoutSnapshots(pageOf, K) /\ edges = WithoutSnapshots(childOf, K)
  OBVIOUS
<1>2. /\ Cardinality(Present(sources, Sources) \cup S) <= MaxSources
      /\ Reconcile(entries, synced, mem, edges, links, now)
      /\ UNCHANGED <<policy, hosts, seq>>
  BY <1>1 DEF SyncDiscoverySources, Synced
<1>3. S \in SUBSET Sources /\ \A s \in S : SourceRoot[s] = s
  BY DEF Roots
<1>4. ASSUME NEW s \in Sources
      PROVE  /\ synced[s] \in Source /\ SourceGood(synced[s], seq)
             /\ sources[s].state # "absent" => synced[s].state # "absent"
             /\ synced[s].state # "absent" => sources[s].state # "absent" \/ s \in S
             /\ synced[s].configured => s \in S
             /\ sources[s].hasSnapshot /\ s \notin K => synced[s].hasSnapshot
  <2>1. PICK q, r : q = sources[s] /\ r = synced[s]
    OBVIOUS
  <2>2. /\ q \in Source /\ SourceGood(q, seq)
        /\ s \in K => s \in S /\ q.state # "absent"
        /\ r = Synced(s, S, K)
    BY <1>1, <2>1 DEF TypeOK, Agreed, Good, RecordsGood, Present
  <2>3. /\ r \in Source /\ SourceGood(r, seq)
        /\ q.state # "absent" => r.state # "absent"
        /\ r.state # "absent" => q.state # "absent" \/ s \in S
        /\ r.configured => s \in S
        /\ q.hasSnapshot /\ s \notin K => r.hasSnapshot
    BY <2>1, <2>2, SyncedIs
  <2> QED
    BY <2>1, <2>3
<1>5. synced \in [Sources -> Source]
  <2>1. synced = [s \in Sources |-> synced[s]]
    BY <1>1
  <2> QED
    BY <1>4, <2>1
<1>6. SourcesGrown(synced)
  <2>1. Cardinality(Present(synced, Sources)) <= MaxSources
    BY <1>2, <1>3, <1>4, FewEnoughSources
  <2> QED
    BY <1>3, <1>4, <2>1 DEF SourcesGrown
<1>7. PagesGrown(entries)
  BY StoreGrown
<1>8. RecordsGood(entries, synced, seq) /\ Continues(entries, synced)
  BY <1>6, <1>7, GrownContinues
<1>9. /\ pageOf \in SUBSET (Sources \X Pages) /\ childOf \in SUBSET (Sources \X Sources)
      /\ mem \in SUBSET pageOf /\ edges \in SUBSET childOf
      /\ \A e \in mem \cup edges : e[1] \in Sources /\ e[1] \notin K
  BY <1>1 DEF TypeOK, WithoutSnapshots
<1>10. SnapshotsGood(entries, synced, mem, edges) /\ SnapshotsFit(mem, edges)
  <2>1. \A e \in mem \cup edges : sources[e[1]].hasSnapshot => synced[e[1]].hasSnapshot
    BY <1>4, <1>9
  <2> QED
    BY <1>6, <1>7, <1>9, <2>1, SnapshotsKept
<1>11. LinksGood(entries, links, policy)
  BY <1>7, LinksKept
<1>12. PICK pol : pol = policy'
  OBVIOUS
<1>13. Good(entries, synced, mem, edges, links, pol, seq)
  BY <1>2, <1>8, <1>10, <1>11, <1>12 DEF Good
<1>14. /\ entries \in [Pages -> Entry] /\ mem \in SUBSET (Sources \X Pages)
       /\ edges \in SUBSET (Sources \X Sources) /\ links \in SUBSET (Pages \X Pages)
       /\ now \in Nat /\ now # 0
  BY <1>9 DEF TypeOK
<1> QED
  BY <1>2, <1>5, <1>8, <1>12, <1>13, <1>14, ReconcileAgrees

LEMMA CompletedGood ==
  ASSUME TypeOK, NEW e \in Entry, PageGood(e, seq),
         NEW o \in {"succeeded", "rejected", "retry", "disabled"}, NEW d \in Delays,
         NEW r, r = Completed(e, o, d)
  PROVE  /\ r \in Entry /\ r.state = o /\ PageGood(r, seq) /\ r.explicit = e.explicit
         /\ ~r.orphaned /\ r.until = 0
<1>1. PICK t, n : /\ t = (IF o = "disabled" THEN 0 ELSE now + d)
                  /\ n = (IF o \in {"succeeded", "rejected"} THEN 0 ELSE e.attempts)
  OBVIOUS
<1>2. t \in Nat /\ n \in Nat /\ (o # "disabled" => t # 0) /\ (o = "disabled" => t = 0)
  BY <1>1, LimitsAssumption DEF TypeOK, Entry
<1>3. r = [e EXCEPT !.state = o, !.due = t, !.until = 0, !.orphaned = FALSE, !.attempts = n]
  BY <1>1 DEF Completed, Entry
<1>4. r \in Entry
  <2>1. ASSUME NEW x \in Entry
        PROVE  [x EXCEPT !.state = o, !.due = t, !.until = 0, !.orphaned = FALSE, !.attempts = n]
                 \in Entry
    BY <1>2 DEF Entry, PageStates
  <2> QED
    BY <1>3, <2>1
<1>5. r.state = o /\ r.due = t /\ r.until = 0 /\ r.gen = e.gen /\ ~r.orphaned
  BY <1>3 DEF Entry
<1>6. r.explicit = e.explicit
  BY <1>3 DEF Entry
<1>7. PageGood(r, seq)
  BY <1>2, <1>5 DEF PageGood, Schedulable
<1> QED
  BY <1>4, <1>5, <1>6, <1>7

LEMMA CompleteWithLinksAgrees ==
  ASSUME TypeOK, Agreed, NEW w \in Workers, NEW o \in {"succeeded", "rejected"}, NEW d \in Delays,
         NEW L \in SUBSET Pages, CompleteWithLinks(w, o, d, L)
  PROVE  Agreed' /\ StopsWithReason
<1>1. PICK p, others, done, lnk, pol :
        /\ p = work[w].key
        /\ others = {e \in links : e[1] # p}
        /\ done = [q \in Pages |->
                     IF q = p THEN Completed(entries[p], o, d)
                     ELSE IF q \in L /\ entries[q].state = "absent"
                          THEN NewPage(FALSE) ELSE entries[q]]
        /\ lnk = others \cup ({p} \X L)
        /\ pol = policy
  OBVIOUS
<1>2. /\ p \in Pages /\ entries[p].state = "leased"
      /\ L # {} => pol[PageJob[p]] > 0
      /\ L = {} \/ Cardinality(L) <= pol[PageJob[p]]
      /\ \A q \in L : q # p /\ PageJob[q] = PageJob[p]
      /\ Cardinality(Present(entries, Pages) \cup L) <= MaxEntries
      /\ Cardinality(others) + Cardinality(L) <= MaxLinkEdges
      /\ Reconcile(done, sources, pageOf, childOf, lnk, now)
      /\ pol = policy' /\ UNCHANGED <<hosts, seq>>
  <2>1. p \in Pages /\ entries[p].state = "leased"
    BY <1>1 DEF CompleteWithLinks, PageLeaseCurrent, TypeOK
  <2>2. /\ L # {} => pol[PageJob[p]] > 0
        /\ L = {} \/ Cardinality(L) <= pol[PageJob[p]]
    BY <1>1 DEF CompleteWithLinks
  <2>3. /\ Cardinality(Present(entries, Pages) \cup L) <= MaxEntries
        /\ Cardinality(others) + Cardinality(L) <= MaxLinkEdges
    BY <1>1 DEF CompleteWithLinks, LinksFit
  <2>4. /\ \A q \in L : q # p /\ PageJob[q] = PageJob[p]
        /\ Reconcile(done, sources, pageOf, childOf, lnk, now)
        /\ pol = policy' /\ UNCHANGED <<hosts, seq>>
    BY <1>1 DEF CompleteWithLinks
  <2> QED
    BY <2>1, <2>2, <2>3, <2>4
<1>3. ASSUME NEW q \in Pages
      PROVE  /\ done[q] \in Entry /\ PageGood(done[q], seq)
             /\ entries[q].state # "absent" => done[q].state # "absent"
             /\ done[q].state # "absent" => entries[q].state # "absent" \/ q \in L
             /\ done[q].state = "disabled" => entries[q].state = "disabled"
             /\ q \in L => done[q].state # "absent"
  <2>1. PICK e, r : e = entries[q] /\ r = done[q]
    OBVIOUS
  <2>2. e \in Entry /\ PageGood(e, seq)
    BY <2>1 DEF TypeOK, Agreed, Good, RecordsGood
  <2>3. CASE q = p
    <3>1. r = Completed(e, o, d) /\ e.state = "leased" /\ q \notin L
      BY <1>1, <1>2, <2>1, <2>3
    <3>2. r \in Entry /\ r.state = o /\ PageGood(r, seq)
      BY <2>2, <3>1, CompletedGood
    <3> QED
      BY <2>1, <3>1, <3>2
  <2>4. CASE q # p /\ q \in L /\ e.state = "absent"
    <3>1. r = NewPage(FALSE)
      BY <1>1, <2>1, <2>4
    <3>2. r \in Entry /\ r.state = "queued" /\ PageGood(r, seq)
      BY <2>2, <3>1, NewPageType, WrittenPages DEF TypeOK
    <3> QED
      BY <2>1, <2>4, <3>2
  <2>5. CASE q # p /\ ~(q \in L /\ e.state = "absent")
    <3>1. r = e
      BY <1>1, <2>1, <2>5
    <3> QED
      BY <2>1, <2>2, <2>5, <3>1
  <2> QED
    BY <2>3, <2>4, <2>5
<1>4. done \in [Pages -> Entry]
  <2>1. done = [q \in Pages |-> done[q]]
    BY <1>1
  <2> QED
    BY <1>3, <2>1
<1>5. PagesGrown(done)
  <2>1. Cardinality(Present(done, Pages)) <= MaxEntries
    BY <1>2, <1>3, FewEnough
  <2> QED
    BY <1>3, <2>1 DEF PagesGrown
<1>6. SourcesGrown(sources)
  BY StoreGrown
<1>7. RecordsGood(done, sources, seq) /\ Continues(done, sources)
  BY <1>5, <1>6, GrownContinues
<1>8. SnapshotsGood(done, sources, pageOf, childOf) /\ SnapshotsFit(pageOf, childOf)
  BY <1>5, <1>6, SnapshotsKept
<1>9. LinksGood(done, links, pol)
  BY <1>1, <1>5, LinksKept
<1>10. links \in SUBSET (Pages \X Pages) /\ others \in SUBSET links /\ lnk \in SUBSET (Pages \X Pages)
  BY <1>1, <1>2 DEF TypeOK
<1>11. IsFiniteSet(L) /\ Cardinality(L) \in Nat
  BY FinitelyMany
<1>12. IsFiniteSet({p} \X L) /\ Cardinality({p} \X L) = Cardinality(L)
  BY <1>11, PairsOfOne
<1>13. ASSUME NEW e \in lnk
       PROVE  /\ e[1] # e[2]
              /\ done[e[1]].state # "absent" /\ done[e[2]].state # "absent"
              /\ PageJob[e[1]] = PageJob[e[2]] /\ pol[PageJob[e[1]]] > 0
  <2>1. CASE e \in links
    BY <1>9, <2>1 DEF LinksGood
  <2>2. CASE e \in {p} \X L
    <3>1. e[1] = p /\ e[2] \in L
      BY <2>2
    <3> QED
      BY <1>2, <1>3, <3>1
  <2> QED
    BY <1>1, <2>1, <2>2
<1>14. ASSUME NEW q \in Pages
       PROVE  Cardinality({e \in lnk : e[1] = q}) <= pol[PageJob[q]]
  <2>1. CASE q # p
    <3>1. {e \in lnk : e[1] = q} = {e \in links : e[1] = q}
      BY <1>1, <2>1
    <3> QED
      BY <1>9, <3>1 DEF LinksGood
  <2>2. CASE q = p
    <3> DEFINE own == {e \in lnk : e[1] = q}
    <3>1. own = {p} \X L
      BY <1>1, <2>2
    <3>2. Cardinality(own) = Cardinality(L)
      BY <1>12, <3>1, Zenon
    <3> HIDE DEF own
    <3>3. pol[PageJob[p]] \in Nat
      BY <1>1, <1>2, IdentityAssumption DEF TypeOK
    <3>4. CASE L = {}
      <4>1. Cardinality(own) = 0
        BY <3>2, <3>4, FS_EmptySet
      <4>2. Cardinality(own) <= pol[PageJob[q]]
        BY <2>2, <3>3, <4>1
      <4> QED
        BY <4>2 DEF own
    <3>5. CASE L # {}
      <4>1. Cardinality(own) <= pol[PageJob[q]]
        BY <1>2, <2>2, <3>2, <3>5
      <4> QED
        BY <4>1 DEF own
    <3> QED
      BY <3>4, <3>5
  <2> QED
    BY <2>1, <2>2
<1>15. Cardinality(lnk) <= MaxLinkEdges
  <2>1. IsFiniteSet(others) /\ Cardinality(others) \in Nat
    <3>1. others \in SUBSET (Pages \X Pages)
      BY <1>10
    <3> QED
      BY <3>1, FinitelyMany, PairsFinite
  <2>2. PICK added : added = {p} \X L
    OBVIOUS
  <2>3. IsFiniteSet(added) /\ Cardinality(added) \in Nat /\ Cardinality(added) = Cardinality(L)
    BY <1>11, <1>12, <2>2
  <2>4. /\ IsFiniteSet(others \cap added)
        /\ Cardinality(lnk) = Cardinality(others) + Cardinality(added) - Cardinality(others \cap added)
    BY <1>1, <2>1, <2>2, <2>3, FS_Union, FS_Intersection
  <2>5. Cardinality(others \cap added) \in Nat
    BY <2>4, FS_CardinalityType
  <2>6. MaxLinkEdges \in Nat
    BY LimitsAssumption
  <2> QED
    BY <1>2, <2>1, <2>3, <2>4, <2>5, <2>6
<1>16. LinksGood(done, lnk, pol)
  BY <1>13, <1>14, <1>15 DEF LinksGood
<1>17. Good(done, sources, pageOf, childOf, lnk, pol, seq)
  BY <1>7, <1>8, <1>16 DEF Good
<1>18. /\ sources \in [Sources -> Source] /\ pageOf \in SUBSET (Sources \X Pages)
       /\ childOf \in SUBSET (Sources \X Sources) /\ now \in Nat /\ now # 0
  BY DEF TypeOK
<1> QED
  BY <1>2, <1>4, <1>7, <1>10, <1>17, <1>18, ReconcileAgrees

-----------------------------------------------------------------------------
(* What a completed fetch makes of a source.                               *)
FetchedSource(q, t) ==
  [q EXCEPT !.state = "succeeded", !.due = t, !.until = 0, !.hasSnapshot = TRUE]

LEMMA FetchedSourceIs ==
  ASSUME TypeOK, NEW q \in Source, SourceGood(q, seq), NEW t \in Nat, t # 0,
         NEW r, r = FetchedSource(q, t)
  PROVE  /\ r \in Source /\ r.state = "succeeded" /\ SourceGood(r, seq)
         /\ r.configured = q.configured /\ r.hasSnapshot
<1>1. r \in Source
  <2>1. ASSUME NEW x \in Source
        PROVE  FetchedSource(x, t) \in Source
    BY DEF Source, PageStates, FetchedSource
  <2> QED
    BY <2>1
<1>2. /\ r.state = "succeeded" /\ r.due = t /\ r.until = 0 /\ r.gen = q.gen /\ r.hasSnapshot
  BY DEF Source, FetchedSource
<1>3. r.configured = q.configured
  BY DEF Source, FetchedSource
<1>4. SourceGood(r, seq)
  BY <1>2 DEF SourceGood, SourceSchedulable
<1> QED
  BY <1>1, <1>2, <1>3, <1>4

Refreshed(q, state, t) == [q EXCEPT !.state = state, !.due = t, !.until = 0]

LEMMA DoneSourceKept ==
  ASSUME TypeOK, NEW q \in Source, SourceGood(q, seq), NEW t \in Nat, t # 0,
         NEW state \in {"retry", "succeeded"},
         NEW r, r = Refreshed(q, state, t)
  PROVE  /\ r \in Source /\ r.state = state /\ SourceGood(r, seq)
         /\ r.configured = q.configured /\ (q.hasSnapshot => r.hasSnapshot) /\ r.depth = q.depth
<1>1. r \in Source
  <2>1. ASSUME NEW x \in Source
        PROVE  Refreshed(x, state, t) \in Source
    BY DEF Source, PageStates, Refreshed
  <2> QED
    BY <2>1
<1>2. /\ r.state = state /\ r.due = t /\ r.until = 0 /\ r.gen = q.gen
      /\ r.depth = q.depth
  BY DEF Source, Refreshed
<1>3. r.configured = q.configured /\ r.hasSnapshot = q.hasSnapshot
  BY DEF Source, Refreshed
<1>4. SourceGood(r, seq)
  BY <1>2 DEF SourceGood, SourceSchedulable
<1> QED
  BY <1>1, <1>2, <1>3, <1>4

LEMMA SourceCompletionsAgree ==
  ASSUME TypeOK, Agreed, NEW w \in Workers, NEW d \in Delays,
         CompleteDiscoverySource(w, d) \/ PreserveDiscoverySnapshot(w, d)
  PROVE  Agreed' /\ StopsWithReason
<1>1. PICK s, t, q, pol : s = work[w].key /\ t = now + d /\ q = sources[s] /\ pol = policy'
  OBVIOUS
<1>2. s \in Sources
  BY <1>1 DEF SourceLeaseCurrent, CompleteDiscoverySource, PreserveDiscoverySnapshot, TypeOK
<1>3. t \in Nat /\ t # 0
  BY <1>1, LimitsAssumption DEF TypeOK
<1>4. /\ q \in Source /\ SourceGood(q, seq) /\ (q.configured => SourceRoot[s] = s)
      /\ sources \in [Sources -> Source]
      /\ \A z \in Sources : SourceGood(sources[z], seq) /\ (sources[z].configured => SourceRoot[z] = z)
  BY <1>1, <1>2 DEF TypeOK, Agreed, Good, RecordsGood
<1>5. PICK state \in {"retry", "succeeded"} :
        SourceDone(w, entries,
           [sources EXCEPT ![s] = [@ EXCEPT !.state = state, !.due = t, !.until = 0]],
           pageOf, childOf, t)
  BY <1>1 DEF CompleteDiscoverySource, PreserveDiscoverySnapshot
<1>6. q.state = "leased"
  BY <1>1 DEF SourceLeaseCurrent, CompleteDiscoverySource, PreserveDiscoverySnapshot
<1>7. PICK r : r = Refreshed(q, state, t)
  OBVIOUS
<1>8. PICK srcs : srcs = [sources EXCEPT ![s] = r]
  OBVIOUS
<1>9. SourceDone(w, entries, srcs, pageOf, childOf, t)
  BY <1>1, <1>5, <1>7, <1>8 DEF Refreshed
<1>10. /\ r \in Source /\ r.state = state /\ SourceGood(r, seq)
       /\ r.configured = q.configured /\ (q.hasSnapshot => r.hasSnapshot)
  <2>1. /\ r \in Source /\ r.state = state /\ SourceGood(r, seq)
        /\ r.configured = q.configured /\ (q.hasSnapshot => r.hasSnapshot) /\ r.depth = q.depth
    BY <1>3, <1>4, <1>7, DoneSourceKept
  <2> QED
    BY <2>1, Zenon
<1>11. srcs \in [Sources -> Source] /\ srcs[s] = r /\ \A z \in Sources \ {s} : srcs[z] = sources[z]
  BY <1>2, <1>4, <1>8, <1>10
<1>12. ASSUME NEW z \in Sources
       PROVE  /\ SourceGood(srcs[z], seq) /\ (srcs[z].configured => SourceRoot[z] = z)
              /\ sources[z].state # "absent" <=> srcs[z].state # "absent"
              /\ sources[z].hasSnapshot => srcs[z].hasSnapshot
  <2>1. CASE z = s
    BY <1>1, <1>4, <1>6, <1>10, <1>11, <2>1
  <2>2. CASE z # s
    BY <1>4, <1>11, <2>2
  <2> QED
    BY <2>1, <2>2
<1>13. SourcesGrown(srcs)
  <2>1. Present(srcs, Sources) = Present(sources, Sources)
    BY <1>12 DEF Present
  <2>2. Cardinality(Present(srcs, Sources)) <= MaxSources
    BY <2>1 DEF Agreed, Good, RecordsGood
  <2> QED
    BY <1>12, <2>2 DEF SourcesGrown
<1>14. PagesGrown(entries)
  BY StoreGrown
<1>15. RecordsGood(entries, srcs, seq) /\ Continues(entries, srcs)
  BY <1>13, <1>14, GrownContinues
<1>16. SnapshotsGood(entries, srcs, pageOf, childOf) /\ SnapshotsFit(pageOf, childOf)
  <2>1. \A e \in pageOf \cup childOf : e[1] \in Sources
    BY DEF TypeOK
  <2>2. \A e \in pageOf \cup childOf : sources[e[1]].hasSnapshot => srcs[e[1]].hasSnapshot
    BY <1>12, <2>1
  <2> QED
    BY <1>13, <1>14, <2>2, SnapshotsKept
<1>17. LinksGood(entries, links, policy)
  BY <1>14, LinksKept
<1>18. /\ Reconcile(entries, srcs, pageOf, childOf, links, t)
       /\ UNCHANGED <<hosts, seq>> /\ pol = policy
  BY <1>1, <1>9 DEF SourceDone
<1>19. Good(entries, srcs, pageOf, childOf, links, pol, seq)
  BY <1>15, <1>16, <1>17, <1>18 DEF Good
<1>20. /\ entries \in [Pages -> Entry] /\ pageOf \in SUBSET (Sources \X Pages)
       /\ childOf \in SUBSET (Sources \X Sources) /\ links \in SUBSET (Pages \X Pages)
  BY DEF TypeOK
<1> QED
  BY <1>1, <1>3, <1>11, <1>15, <1>18, <1>19, <1>20, ReconcileAgrees

ListedPage(e) == IF e.state = "absent" THEN NewPage(FALSE)
                 ELSE IF e.state = "disabled" /\ e.orphaned THEN Requeued(e) ELSE e

LEMMA ListedPageIs ==
  ASSUME TypeOK, NEW e \in Entry, PageGood(e, seq), NEW r, r = ListedPage(e)
  PROVE  /\ r \in Entry /\ PageGood(r, seq) /\ r.state # "absent"
         /\ r.state = "disabled" => e.state = "disabled"
<1>1. PICK n, q : n = NewPage(FALSE) /\ q = Requeued(e)
  OBVIOUS
<1>2. /\ n \in Entry /\ n.state = "queued" /\ PageGood(n, seq)
      /\ q \in Entry /\ q.state = "queued" /\ PageGood(q, seq)
  BY <1>1, WrittenPages, NewPageType DEF TypeOK
<1>3. (e.state = "absent" /\ r = n) \/ r = q \/ (e.state # "absent" /\ r = e)
  BY <1>1 DEF ListedPage
<1> QED
  BY <1>2, <1>3

GrownSource(c, s, C, d) ==
  CASE c = s ->
         [sources[s] EXCEPT !.state = "succeeded", !.due = now + d,
                            !.until = 0, !.hasSnapshot = TRUE]
    [] c \in C \ {s} /\ sources[c].state = "absent" ->
         [NoSource EXCEPT !.state = "queued", !.due = now,
                          !.depth = sources[s].depth + 1]
    [] c \in C \ {s} /\ sources[c].state = "disabled" ->
         [sources[c] EXCEPT !.state = "queued", !.due = now]
    [] OTHER -> sources[c]

(* What an applied snapshot makes of a source.                             *)
LEMMA GrownSourceIs ==
  ASSUME TypeOK, NEW c \in Sources, NEW s \in Sources, NEW C \in SUBSET Sources, NEW d \in Delays,
         NEW q \in Source, q = sources[c], SourceGood(q, seq), c = s => q.state = "leased",
         q.configured => SourceRoot[c] = c,
         NEW r, r = GrownSource(c, s, C, d)
  PROVE  /\ r \in Source /\ SourceGood(r, seq)
         /\ r.configured => SourceRoot[c] = c
         /\ q.state # "absent" => r.state # "absent"
         /\ r.state # "absent" => q.state # "absent" \/ c \in C
         /\ c \in C => r.state # "absent"
         /\ q.hasSnapshot => r.hasSnapshot
         /\ c = s => r.hasSnapshot
<1>1. PICK t, u, sq : t = now /\ u = now + d /\ sq = seq
  OBVIOUS
<1>2. t \in Nat /\ t # 0 /\ u \in Nat /\ u # 0 /\ sq \in Nat
  BY <1>1, LimitsAssumption DEF TypeOK
<1>3. CASE c = s
  <2>1. r = FetchedSource(q, u)
    BY <1>1, <1>3 DEF GrownSource, FetchedSource
  <2>2. /\ r \in Source /\ r.state = "succeeded" /\ SourceGood(r, seq)
        /\ r.configured = q.configured /\ r.hasSnapshot
    BY <1>2, <2>1, FetchedSourceIs
  <2> QED
    BY <1>3, <2>2
<1>4. CASE c \in C \ {s} /\ q.state = "absent"
  <2>1. PICK n : n = sources[s].depth + 1
    OBVIOUS
  <2>2. n \in Nat
    BY <2>1 DEF TypeOK, Source
  <2>3. r = [NoSource EXCEPT !.state = "queued", !.due = t, !.depth = n]
    BY <1>1, <1>4, <2>1 DEF GrownSource
  <2>4. r \in Source /\ r.state = "queued" /\ r.due = t /\ r.until = 0 /\ r.gen = 0 /\ ~r.configured
    <3>1. r = [state |-> "queued", due |-> t, until |-> 0, gen |-> 0,
               configured |-> FALSE, depth |-> n, hasSnapshot |-> FALSE]
      BY <2>3 DEF NoSource
    <3>2. r \in Source
      BY <1>2, <2>2, <3>1 DEF Source, PageStates
    <3>3. r.state = "queued" /\ r.due = t /\ r.until = 0 /\ r.gen = 0 /\ ~r.configured
      BY <3>1
    <3> QED
      BY <3>2, <3>3
  <2>5. SourceGood(r, sq)
    BY <1>2, <2>4 DEF SourceGood, SourceSchedulable
  <2>6. ~q.hasSnapshot
    BY <1>4 DEF SourceGood
  <2> QED
    BY <1>1, <1>4, <2>4, <2>5, <2>6
<1>5. CASE c \in C \ {s} /\ q.state = "disabled"
  <2>1. r = [q EXCEPT !.state = "queued", !.due = t]
    BY <1>1, <1>5 DEF GrownSource
  <2>2. r \in Source
    <3>1. ASSUME NEW x \in Source
          PROVE  [x EXCEPT !.state = "queued", !.due = t] \in Source
      BY <1>2 DEF Source, PageStates
    <3> QED
      BY <2>1, <3>1
  <2>3. /\ r.state = "queued" /\ r.due = t /\ r.until = q.until /\ r.gen = q.gen
        /\ r.hasSnapshot = q.hasSnapshot /\ r.configured = q.configured
    BY <2>1 DEF Source
  <2>4. q.until = 0 /\ q.gen <= sq
    BY <1>1, <1>5 DEF SourceGood
  <2>5. SourceGood(r, sq)
    BY <1>2, <2>3, <2>4 DEF SourceGood, SourceSchedulable
  <2> QED
    BY <1>1, <1>5, <2>2, <2>3, <2>5
<1>6. CASE c # s /\ (c \in C => q.state \notin {"absent", "disabled"})
  <2>1. r = q
    BY <1>6 DEF GrownSource
  <2> QED
    BY <1>6, <2>1
<1> QED
  BY <1>3, <1>4, <1>5, <1>6

Of(rel, z) == {e \in rel : e[1] = z}
Replaced(rel, s, X) == {e \in rel : e[1] # s} \cup ({s} \X X)

(* A snapshot replaced by one within the cap leaves every snapshot within. *)
LEMMA ReplacedFits ==
  ASSUME NEW B, IsFiniteSet(B), NEW rel \in SUBSET (Sources \X B), NEW s \in Sources, NEW X \in SUBSET B,
         NEW cap \in Nat, \A z \in Sources : Cardinality(Of(rel, z)) <= cap,
         Cardinality(X) <= cap, NEW new, new = Replaced(rel, s, X), NEW z \in Sources
  PROVE  Cardinality(Of(new, z)) <= cap
<1>1. PICK own : own = Of(new, z)
  OBVIOUS
<1>2. CASE z # s
  <2>1. own = Of(rel, z)
    BY <1>1, <1>2 DEF Of, Replaced
  <2> QED
    BY <1>1, <2>1
<1>3. CASE z = s
  <2>1. own = {s} \X X
    BY <1>1, <1>3 DEF Of, Replaced
  <2>2. IsFiniteSet(X)
    BY FS_Subset
  <2>3. Cardinality({s} \X X) = Cardinality(X)
    BY <2>2, PairsOfOne
  <2> QED
    BY <1>1, <2>1, <2>3, Zenon
<1> QED
  BY <1>2, <1>3

LEMMA ApplyDiscoverySnapshotAgrees ==
  ASSUME TypeOK, Agreed, NEW w \in Workers, NEW d \in Delays,
         NEW P \in SUBSET Pages, NEW C \in SUBSET Sources, ApplyDiscoverySnapshot(w, P, C, d)
  PROVE  Agreed' /\ StopsWithReason
<1>1. PICK s, mem, edges, listed, grown, pol :
        /\ s = work[w].key
        /\ mem = {e \in pageOf : e[1] # s} \cup ({s} \X P)
        /\ edges = {e \in childOf : e[1] # s} \cup ({s} \X C)
        /\ listed = [p \in Pages |-> IF p \notin P THEN entries[p] ELSE ListedPage(entries[p])]
        /\ grown = [c \in Sources |-> GrownSource(c, s, C, d)]
        /\ pol = policy
  OBVIOUS
<1>2. /\ s \in Sources /\ sources[s].state = "leased"
      /\ Cardinality(P) <= MaxPagesPerSource /\ Cardinality(C) <= MaxChildrenPerSource
      /\ \A p \in P : PageJob[p] = SourceJob[s]
      /\ \A c \in C : c # s /\ SourceRoot[c] = SourceRoot[s] /\ SourceJob[c] = SourceJob[s]
      /\ Cardinality(Present(entries, Pages) \cup P) <= MaxEntries
      /\ Cardinality(Present(sources, Sources) \cup C) <= MaxSources
      /\ Cardinality(mem) <= MaxMemberships /\ Cardinality(edges) <= MaxSourceEdges
      /\ Reconcile(listed, grown, mem, edges, links, now)
      /\ pol = policy' /\ UNCHANGED <<hosts, seq>>
  <2>1. s \in Sources /\ sources[s].state = "leased"
    BY <1>1 DEF ApplyDiscoverySnapshot, SourceLeaseCurrent, TypeOK
  <2>2. /\ Cardinality(P) <= MaxPagesPerSource /\ Cardinality(C) <= MaxChildrenPerSource
        /\ \A p \in P : PageJob[p] = SourceJob[s]
        /\ \A c \in C : c # s /\ SourceRoot[c] = SourceRoot[s] /\ SourceJob[c] = SourceJob[s]
    BY <1>1 DEF ApplyDiscoverySnapshot
  <2>3. SnapshotFits(s, P, C)
    BY <1>1 DEF ApplyDiscoverySnapshot
  <2>4. SourceDone(w, listed, grown, mem, edges, now)
    BY <1>1 DEF ApplyDiscoverySnapshot, ListedPage, GrownSource
  <2> QED
    BY <1>1, <2>1, <2>2, <2>3, <2>4 DEF SnapshotFits, SourceDone
<1>3. ASSUME NEW p \in Pages
      PROVE  /\ listed[p] \in Entry /\ PageGood(listed[p], seq)
             /\ entries[p].state # "absent" => listed[p].state # "absent"
             /\ listed[p].state # "absent" => entries[p].state # "absent" \/ p \in P
             /\ listed[p].state = "disabled" => entries[p].state = "disabled"
             /\ p \in P => listed[p].state # "absent"
  <2>1. PICK e, r : e = entries[p] /\ r = listed[p]
    OBVIOUS
  <2>2. e \in Entry /\ PageGood(e, seq)
    BY <2>1 DEF TypeOK, Agreed, Good, RecordsGood
  <2>3. CASE p \in P
    <3>1. r = ListedPage(e)
      BY <1>1, <2>1, <2>3
    <3>2. /\ r \in Entry /\ PageGood(r, seq) /\ r.state # "absent"
          /\ r.state = "disabled" => e.state = "disabled"
      BY <2>2, <3>1, ListedPageIs
    <3> QED
      BY <2>1, <2>3, <3>2
  <2>4. CASE p \notin P
    <3>1. r = e
      BY <1>1, <2>1, <2>4
    <3> QED
      BY <2>1, <2>2, <2>4, <3>1
  <2> QED
    BY <2>3, <2>4
<1>4. listed \in [Pages -> Entry]
  <2>1. listed = [p \in Pages |-> listed[p]]
    BY <1>1
  <2> QED
    BY <1>3, <2>1
<1>5. PagesGrown(listed)
  <2>1. Cardinality(Present(listed, Pages)) <= MaxEntries
    BY <1>2, <1>3, FewEnough
  <2> QED
    BY <1>3, <2>1 DEF PagesGrown
<1>6. ASSUME NEW c \in Sources
      PROVE  /\ grown[c] \in Source /\ SourceGood(grown[c], seq)
             /\ grown[c].configured => SourceRoot[c] = c
             /\ sources[c].state # "absent" => grown[c].state # "absent"
             /\ grown[c].state # "absent" => sources[c].state # "absent" \/ c \in C
             /\ c \in C => grown[c].state # "absent"
             /\ sources[c].hasSnapshot => grown[c].hasSnapshot
             /\ c = s => grown[c].hasSnapshot
  <2>1. PICK q, r : q = sources[c] /\ r = grown[c]
    OBVIOUS
  <2>2. /\ q \in Source /\ SourceGood(q, seq) /\ (c = s => q.state = "leased")
        /\ q.configured => SourceRoot[c] = c
        /\ r = GrownSource(c, s, C, d)
    BY <1>1, <1>2, <2>1 DEF TypeOK, Agreed, Good, RecordsGood
  <2>3. /\ r \in Source /\ SourceGood(r, seq)
        /\ r.configured => SourceRoot[c] = c
        /\ q.state # "absent" => r.state # "absent"
        /\ r.state # "absent" => q.state # "absent" \/ c \in C
        /\ c \in C => r.state # "absent"
        /\ q.hasSnapshot => r.hasSnapshot
        /\ c = s => r.hasSnapshot
    <3>1. s \in Sources
      BY <1>2
    <3> QED
      BY <2>1, <2>2, <3>1, GrownSourceIs
  <2> QED
    BY <2>1, <2>3
<1>7. grown \in [Sources -> Source]
  <2>1. grown = [c \in Sources |-> grown[c]]
    BY <1>1
  <2> QED
    BY <1>6, <2>1
<1>8. SourcesGrown(grown)
  <2>1. Cardinality(Present(grown, Sources)) <= MaxSources
    BY <1>2, <1>6, FewEnoughSources
  <2> QED
    BY <1>6, <2>1 DEF SourcesGrown
<1>9. RecordsGood(listed, grown, seq) /\ Continues(listed, grown)
  BY <1>5, <1>8, GrownContinues
<1>10. /\ pageOf \in SUBSET (Sources \X Pages) /\ childOf \in SUBSET (Sources \X Sources)
       /\ mem \in SUBSET (Sources \X Pages) /\ edges \in SUBSET (Sources \X Sources)
  BY <1>1, <1>2 DEF TypeOK
<1>11. SnapshotsGood(entries, sources, pageOf, childOf) /\ SnapshotsFit(pageOf, childOf)
  BY DEF Agreed, Good
<1>12. ASSUME NEW e \in mem
       PROVE  /\ grown[e[1]].hasSnapshot /\ listed[e[2]].state # "absent"
              /\ SourceJob[e[1]] = PageJob[e[2]]
  <2>1. e[1] \in Sources /\ e[2] \in Pages
    BY <1>10
  <2>2. CASE e \in pageOf
    BY <1>3, <1>6, <1>11, <2>1, <2>2 DEF SnapshotsGood
  <2>3. CASE e \in {s} \X P
    <3>1. e[1] = s /\ e[2] \in P
      BY <2>3
    <3> QED
      BY <1>2, <1>3, <1>6, <2>1, <3>1
  <2> QED
    BY <1>1, <2>2, <2>3
<1>13. ASSUME NEW e \in edges
       PROVE  /\ grown[e[1]].hasSnapshot /\ grown[e[2]].state # "absent"
              /\ SourceJob[e[1]] = SourceJob[e[2]] /\ SourceRoot[e[1]] = SourceRoot[e[2]]
  <2>1. e[1] \in Sources /\ e[2] \in Sources
    BY <1>10
  <2>2. CASE e \in childOf
    BY <1>6, <1>11, <2>1, <2>2 DEF SnapshotsGood
  <2>3. CASE e \in {s} \X C
    <3>1. e[1] = s /\ e[2] \in C
      BY <2>3
    <3> QED
      BY <1>2, <1>6, <2>1, <3>1
  <2> QED
    BY <1>1, <2>2, <2>3
<1>14. SnapshotsGood(listed, grown, mem, edges)
  BY <1>12, <1>13 DEF SnapshotsGood
<1>15. SnapshotsFit(mem, edges)
  <2>1. ASSUME NEW z \in Sources
        PROVE  /\ Cardinality({e \in mem : e[1] = z}) <= MaxPagesPerSource
               /\ Cardinality({e \in edges : e[1] = z}) <= MaxChildrenPerSource
    <3>1. MaxPagesPerSource \in Nat /\ MaxChildrenPerSource \in Nat
      BY LimitsAssumption
    <3>2. /\ \A x \in Sources : Cardinality(Of(pageOf, x)) <= MaxPagesPerSource
          /\ \A x \in Sources : Cardinality(Of(childOf, x)) <= MaxChildrenPerSource
      BY <1>11 DEF SnapshotsFit, Of
    <3>3. mem = Replaced(pageOf, s, P) /\ edges = Replaced(childOf, s, C) /\ s \in Sources
      BY <1>1, <1>2 DEF Replaced
    <3>4. Cardinality(P) <= MaxPagesPerSource /\ Cardinality(C) <= MaxChildrenPerSource
      BY <1>2
    <3>5. IsFiniteSet(Pages) /\ IsFiniteSet(Sources)
      BY FinitelyMany
    <3>6. Cardinality(Of(mem, z)) <= MaxPagesPerSource
      BY <1>10, <3>1, <3>2, <3>3, <3>4, <3>5, ReplacedFits
    <3>7. Cardinality(Of(edges, z)) <= MaxChildrenPerSource
      BY <1>10, <3>1, <3>2, <3>3, <3>4, <3>5, ReplacedFits
    <3> QED
      BY <3>6, <3>7 DEF Of
  <2> QED
    BY <1>2, <2>1 DEF SnapshotsFit
<1>16. LinksGood(listed, links, pol)
  BY <1>1, <1>5, LinksKept
<1>17. Good(listed, grown, mem, edges, links, pol, seq)
  BY <1>9, <1>14, <1>15, <1>16 DEF Good
<1>18. links \in SUBSET (Pages \X Pages) /\ now \in Nat /\ now # 0
  BY DEF TypeOK
<1> QED
  BY <1>2, <1>4, <1>7, <1>9, <1>10, <1>17, <1>18, ReconcileAgrees

-----------------------------------------------------------------------------
(* The operations that do not reconcile and must not need it.              *)

(* The three parts of Agreed.                                              *)
LEMMA AgreedSound ==
  Agreed <=> /\ Sound(entries, sources, pageOf, childOf, links, policy, seq)
             /\ IndexesExact /\ HostsReferenced
  BY DEF Agreed, Sound

(* What is not leased or not schedulable is in no index.                   *)
LEMMA NotIndexed ==
  ASSUME NEW ents, NEW srcs
  PROVE  /\ \A p \in Pages : \A t : ents[p].state # "leased" => <<t, p>> \notin PageLeaseIndex(ents)
         /\ \A p \in Pages : \A t : ents[p].state \notin Schedulable => <<t, p>> \notin PageDueIndex(ents)
         /\ \A s \in Sources : \A t : srcs[s].state # "leased" => <<t, s>> \notin SourceLeaseIndex(srcs)
  BY DEF PageLeaseIndex, PageDueIndex, SourceLeaseIndex

LEMMA HostsKept ==
  ASSUME HostsReferenced, NEW e2, e2 = entries', NEW s2, s2 = sources',
         SamePresence(entries, sources, e2, s2), UNCHANGED <<hosts, refs>>
  PROVE  HostsReferenced'
<1>1. AuthorityRefs(entries, sources) = AuthorityRefs(e2, s2)
  BY RefsSame DEF SamePresence
<1> QED
  BY <1>1 DEF HostsReferenced

LEMMA LeaseNoPageAgrees ==
  ASSUME TypeOK, Agreed, NEW w \in Workers, NEW j \in Jobs, LeaseNoPage(w, j)
  PROVE  Agreed' /\ StopsWithReason
<1>1. PICK e2, pol, sq, pl, mem, edges, lnk, srcs :
        /\ e2 = RecoveredPages(entries, leases) /\ pol = policy /\ sq = seq /\ pl = leases
        /\ mem = pageOf /\ edges = childOf /\ lnk = links /\ srcs = sources
  OBVIOUS
<1>2. /\ entries' = e2 /\ due' = due \cup Recovered(leases) /\ leases' = leases \ Expired(leases)
      /\ UNCHANGED <<sources, pageOf, childOf, links, policy, srcDue, srcLeases, hosts, refs, seq>>
  BY <1>1 DEF LeaseNoPage, graph
<1>3. /\ due = PageDueIndex(entries) /\ leases = PageLeaseIndex(entries)
      /\ srcDue = SourceDueIndex(sources) /\ srcLeases = SourceLeaseIndex(sources)
  BY DEF Agreed, IndexesExact
<1>4. /\ now \in Nat /\ now # 0 /\ entries \in [Pages -> Entry] /\ srcs \in [Sources -> Source]
      /\ mem \in SUBSET (Sources \X Pages) /\ edges \in SUBSET (Sources \X Sources)
      /\ lnk \in SUBSET (Pages \X Pages) /\ sq \in Nat
  BY <1>1 DEF TypeOK
<1>5. Sound(entries, srcs, mem, edges, lnk, pol, sq)
  BY <1>1, AgreedSound
<1>6. e2 = RecoveredPages(entries, PageLeaseIndex(entries))
  BY <1>1, <1>3
<1>7. /\ Sound(e2, srcs, mem, edges, lnk, pol, sq)
      /\ SamePresence(entries, srcs, e2, srcs)
      /\ \A p \in Pages : e2[p] = entries[p] \/ (entries[p].state = "leased" /\ e2[p].state = "retry")
  BY <1>4, <1>5, <1>6, RecoveredSound
<1>8. /\ PageDueIndex(e2) = PageDueIndex(entries) \cup Recovered(pl)
      /\ PageLeaseIndex(e2) = pl \ Expired(pl)
  BY <1>1, <1>3, <1>4, PageIndexesRecovered
<1>9. IndexesExact'
  BY <1>1, <1>2, <1>3, <1>8 DEF IndexesExact
<1>10. HostsReferenced'
  BY <1>1, <1>2, <1>7, HostsKept DEF Agreed
<1>11. Sound(entries, sources, pageOf, childOf, links, policy, seq)'
  BY <1>1, <1>2, <1>7
<1>12. Agreed'
  BY <1>9, <1>10, <1>11, AgreedSound, PTL
<1>13. StopsWithReason
  BY <1>2, <1>7 DEF StopsWithReason
<1> QED
  BY <1>12, <1>13

LeasedAs(e, g, t) == [e EXCEPT !.state = "leased", !.gen = g, !.until = t,
                               !.attempts = e.attempts + 1]

LEMMA LeasedPage ==
  ASSUME NEW e \in Entry, NEW g \in Nat, g # 0, NEW t \in Nat, t # 0,
         NEW r, r = LeasedAs(e, g, t)
  PROVE  /\ r \in Entry /\ r.state = "leased" /\ r.until = t /\ r.gen = g
         /\ r.explicit = e.explicit /\ PageGood(r, g)
<1>1. PICK n : n = e.attempts + 1
  OBVIOUS
<1>2. n \in Nat
  BY <1>1 DEF Entry
<1>3. r = [e EXCEPT !.state = "leased", !.gen = g, !.until = t, !.attempts = n]
  BY <1>1 DEF LeasedAs
<1>4. r \in Entry
  <2>1. ASSUME NEW x \in Entry
        PROVE  [x EXCEPT !.state = "leased", !.gen = g, !.until = t, !.attempts = n] \in Entry
    BY <1>2 DEF Entry, PageStates
  <2> QED
    BY <1>3, <2>1
<1>5. r.state = "leased" /\ r.until = t /\ r.gen = g
  BY <1>3 DEF Entry
<1>6. r.explicit = e.explicit
  BY <1>3 DEF Entry
<1>7. PageGood(r, g)
  BY <1>2, <1>5 DEF PageGood, Schedulable
<1> QED
  BY <1>1, <1>4, <1>5, <1>6, <1>7

LEMMA LeasePageAgrees ==
  ASSUME TypeOK, Agreed, NEW w \in Workers, NEW j \in Jobs, LeasePage(w, j)
  PROVE  Agreed' /\ StopsWithReason
<1>1. PICK e2, pol, sq, pl, mem, edges, lnk, srcs, t :
        /\ e2 = RecoveredPages(entries, leases) /\ pol = policy /\ sq = seq /\ pl = leases
        /\ mem = pageOf /\ edges = childOf /\ lnk = links /\ srcs = sources
        /\ t = now + LeaseTTL
  OBVIOUS
<1>2. /\ seq' = seq + 1
      /\ UNCHANGED <<sources, pageOf, childOf, links, policy, srcDue, srcLeases, hosts, refs>>
  BY <1>1 DEF LeasePage, graph
<1>3. /\ due = PageDueIndex(entries) /\ leases = PageLeaseIndex(entries)
      /\ srcDue = SourceDueIndex(sources) /\ srcLeases = SourceLeaseIndex(sources)
  BY DEF Agreed, IndexesExact
<1>4. /\ now \in Nat /\ now # 0 /\ entries \in [Pages -> Entry] /\ srcs \in [Sources -> Source]
      /\ mem \in SUBSET (Sources \X Pages) /\ edges \in SUBSET (Sources \X Sources)
      /\ lnk \in SUBSET (Pages \X Pages) /\ sq \in Nat /\ sq + 1 \in Nat /\ sq <= sq + 1
      /\ t \in Nat /\ t # 0
  BY <1>1, LimitsAssumption DEF TypeOK
<1>5. Sound(entries, srcs, mem, edges, lnk, pol, sq)
  BY <1>1, AgreedSound
<1>6. e2 = RecoveredPages(entries, PageLeaseIndex(entries))
  BY <1>1, <1>3
<1>7. /\ Sound(e2, srcs, mem, edges, lnk, pol, sq)
      /\ SamePresence(entries, srcs, e2, srcs)
      /\ e2 \in [Pages -> Entry]
      /\ \A q \in Pages : e2[q] = entries[q] \/ (entries[q].state = "leased" /\ e2[q].state = "retry")
  BY <1>4, <1>5, <1>6, RecoveredSound
<1>8. /\ PageDueIndex(e2) = PageDueIndex(entries) \cup Recovered(pl)
      /\ PageLeaseIndex(e2) = pl \ Expired(pl)
  BY <1>1, <1>3, <1>4, PageIndexesRecovered
<1>9. PICK x \in DuePages(j) :
        /\ e2[x[2]].state \in Schedulable /\ e2[x[2]].due = x[1]
        /\ entries' = [e2 EXCEPT ![x[2]] =
             LeasedAs(e2[x[2]], sq + 1, t)]
        /\ due' = (due \cup Recovered(pl)) \ {x}
        /\ leases' = (pl \ Expired(pl)) \cup {<<t, x[2]>>}
  BY <1>1 DEF LeasePage, LeasedAs
<1>10. x \in Nat \X Pages
  BY RecoveredTypes DEF DuePages, TypeOK
<1>11. PICK p, e, n, e3 :
         /\ p = x[2] /\ e = e2[p]
         /\ n = LeasedAs(e, sq + 1, t) /\ e3 = Changed(e2, p, n)
  OBVIOUS
<1>12. /\ p \in Pages /\ x = <<e.due, p>> /\ e \in Entry /\ e.state \in Schedulable
       /\ entries' = e3
       /\ due' = (due \cup Recovered(pl)) \ {<<e.due, p>>}
       /\ leases' = (pl \ Expired(pl)) \cup {<<t, p>>}
  BY <1>7, <1>9, <1>10, <1>11 DEF Changed
<1>13. /\ n \in Entry /\ n.state = "leased" /\ n.until = t
       /\ n.explicit = e.explicit /\ PageGood(n, sq + 1)
  <2>1. PICK g : g = sq + 1
    OBVIOUS
  <2>2. /\ g \in Nat /\ g # 0 /\ e \in Entry /\ t \in Nat /\ t # 0
        /\ n = LeasedAs(e, g, t)
    BY <1>4, <1>11, <1>12, <2>1
  <2>3. /\ n \in Entry /\ n.state = "leased" /\ n.until = t
        /\ n.explicit = e.explicit /\ PageGood(n, g)
    BY <2>2, LeasedPage
  <2> QED
    BY <2>1, <2>3
<1>14. Sound(e3, srcs, mem, edges, lnk, pol, sq + 1) /\ SamePresence(e2, srcs, e3, srcs)
  <2>1. /\ e2[p].state \notin {"absent", "disabled"} /\ n.state # "absent" /\ n.state # "disabled"
        /\ n.explicit = e2[p].explicit
    BY <1>11, <1>12, <1>13 DEF Schedulable
  <2>2. e3 = Changed(e2, p, n) /\ p \in Pages /\ n \in Entry /\ PageGood(n, sq + 1)
    BY <1>11, <1>12, <1>13
  <2> QED
    BY <1>4, <1>7, <2>1, <2>2, PageChangedSound
<1>15. /\ PageDueIndex(e3) = PageDueIndex(e2) \ {<<e.due, p>>}
       /\ PageLeaseIndex(e3) = PageLeaseIndex(e2) \cup {<<t, p>>}
  <2>1. /\ PageDueIndex(e3) = (PageDueIndex(e2) \ {<<e2[p].due, p>>})
                              \cup {y \in {<<n.due, p>>} : n.state \in Schedulable}
        /\ PageLeaseIndex(e3) = (PageLeaseIndex(e2) \ {<<e2[p].until, p>>})
                                \cup {y \in {<<n.until, p>>} : n.state = "leased"}
    <3>1. e3 = Changed(e2, p, n) /\ p \in Pages /\ n \in Entry /\ e2 \in [Pages -> Entry]
      BY <1>7, <1>11, <1>12, <1>13
    <3> QED
      BY <3>1, PageIndexesUpdated
  <2>2. n.state \notin Schedulable /\ n.state = "leased" /\ n.until = t /\ e2[p] = e
    BY <1>11, <1>13 DEF Schedulable
  <2>3. <<e.until, p>> \notin PageLeaseIndex(e2)
    BY <1>11, <1>12, NotIndexed DEF Schedulable
  <2> QED
    BY <2>1, <2>2, <2>3
<1>16. IndexesExact'
  BY <1>1, <1>2, <1>3, <1>8, <1>12, <1>15 DEF IndexesExact
<1>17. HostsReferenced'
  <2>1. SamePresence(entries, srcs, e3, srcs)
    BY <1>7, <1>14 DEF SamePresence
  <2> QED
    BY <1>1, <1>2, <1>12, <2>1, HostsKept DEF Agreed
<1>18. Sound(entries, sources, pageOf, childOf, links, policy, seq)'
  BY <1>1, <1>2, <1>12, <1>14
<1>19. Agreed'
  BY <1>16, <1>17, <1>18, AgreedSound, PTL
<1>20. StopsWithReason
  <2>1. \A q \in Pages : e3[q] = e2[q] \/ e3[q].state = "leased"
    BY <1>7, <1>11, <1>12, <1>13 DEF Changed
  <2> QED
    BY <1>7, <1>12, <2>1 DEF StopsWithReason
<1> QED
  BY <1>19, <1>20

LEMMA CompleteAgrees ==
  ASSUME TypeOK, Agreed, ResultsBehind, NEW w \in Workers,
         NEW o \in {"succeeded", "rejected", "retry", "disabled"}, NEW d \in Delays,
         Complete(w, o, d)
  PROVE  Agreed' /\ StopsWithReason
<1>1. PICK p, e, n, e3, pol, sq, mem, edges, lnk, srcs :
        /\ p = work[w].key /\ e = entries[p] /\ n = Completed(e, o, d)
        /\ e3 = Changed(entries, p, n)
        /\ pol = policy /\ sq = seq /\ mem = pageOf /\ edges = childOf /\ lnk = links /\ srcs = sources
  OBVIOUS
<1>2. /\ p \in Pages /\ e.state = "leased" /\ e.gen = work[w].gen
      /\ entries' = e3
      /\ leases' = leases \ {<<e.until, p>>}
      /\ due' = IF o \in Schedulable THEN due \cup {<<n.due, p>>} ELSE due
      /\ result' = [result EXCEPT ![<<"page", p>>] = work[w].gen]
      /\ UNCHANGED <<sources, pageOf, childOf, links, policy, srcDue, srcLeases, hosts, refs, seq>>
  <2>1. p \in Pages /\ e.state = "leased" /\ e.gen = work[w].gen
    BY <1>1 DEF Complete, PageLeaseCurrent, TypeOK
  <2> QED
    BY <1>1, <2>1 DEF Complete, graph, Changed
<1>3. /\ due = PageDueIndex(entries) /\ leases = PageLeaseIndex(entries)
      /\ srcDue = SourceDueIndex(sources) /\ srcLeases = SourceLeaseIndex(sources)
  BY DEF Agreed, IndexesExact
<1>4. /\ entries \in [Pages -> Entry] /\ srcs \in [Sources -> Source]
      /\ mem \in SUBSET (Sources \X Pages) /\ edges \in SUBSET (Sources \X Sources)
      /\ lnk \in SUBSET (Pages \X Pages) /\ sq \in Nat /\ sq <= sq
      /\ e \in Entry
  BY <1>1, <1>2 DEF TypeOK
<1>5. Sound(entries, srcs, mem, edges, lnk, pol, sq) /\ PageGood(e, seq)
  BY <1>1, <1>2, AgreedSound DEF Sound, Good, RecordsGood
<1>6. n \in Entry /\ n.state = o /\ PageGood(n, seq) /\ n.explicit = e.explicit /\ ~n.orphaned
  <2>1. n = Completed(e, o, d) /\ e \in Entry /\ PageGood(e, seq)
    BY <1>1, <1>4, <1>5
  <2>2. n \in Entry /\ n.state = o /\ PageGood(n, seq)
    BY <2>1, CompletedGood, SMTT(30)
  <2>3. n.explicit = e.explicit
    BY <2>1, CompletedGood, SMTT(30)
  <2>4. ~n.orphaned
    BY <2>1, CompletedGood, SMTT(30)
  <2> QED
    BY <2>2, <2>3, <2>4
<1>7. Sound(e3, srcs, mem, edges, lnk, pol, sq) /\ SamePresence(entries, srcs, e3, srcs)
  <2>1. /\ entries[p].state \notin {"absent", "disabled"} /\ n.state # "absent"
        /\ n.state = "disabled" => ~n.orphaned
        /\ n.explicit = entries[p].explicit /\ PageGood(n, sq)
    BY <1>1, <1>2, <1>6
  <2>2. e3 = Changed(entries, p, n) /\ p \in Pages /\ n \in Entry
    BY <1>1, <1>2, <1>6
  <2> QED
    BY <1>4, <1>5, <2>1, <2>2, PageChangedSound
<1>8. /\ PageDueIndex(e3) = PageDueIndex(entries) \cup {y \in {<<n.due, p>>} : o \in Schedulable}
      /\ PageLeaseIndex(e3) = PageLeaseIndex(entries) \ {<<e.until, p>>}
  <2>1. /\ PageDueIndex(e3) = (PageDueIndex(entries) \ {<<entries[p].due, p>>})
                              \cup {y \in {<<n.due, p>>} : n.state \in Schedulable}
        /\ PageLeaseIndex(e3) = (PageLeaseIndex(entries) \ {<<entries[p].until, p>>})
                                \cup {y \in {<<n.until, p>>} : n.state = "leased"}
    <3>1. e3 = Changed(entries, p, n) /\ p \in Pages /\ n \in Entry /\ entries \in [Pages -> Entry]
      BY <1>1, <1>2, <1>4, <1>6
    <3> QED
      BY <3>1, PageIndexesUpdated
  <2>2. n.state = o /\ o # "leased" /\ entries[p] = e
    BY <1>1, <1>6
  <2>3. <<e.due, p>> \notin PageDueIndex(entries)
    BY <1>1, <1>2, NotIndexed DEF Schedulable
  <2> QED
    BY <2>1, <2>2, <2>3
<1>9. IndexesExact'
  BY <1>1, <1>2, <1>3, <1>8 DEF IndexesExact
<1>10. HostsReferenced'
  BY <1>1, <1>2, <1>7, HostsKept DEF Agreed
<1>11. Sound(entries, sources, pageOf, childOf, links, policy, seq)'
  BY <1>1, <1>2, <1>7
<1>12. Agreed'
  BY <1>9, <1>10, <1>11, AgreedSound, PTL
<1>13. StopsWithReason
  <2>1. \A q \in Pages \ {p} : e3[q] = entries[q]
    BY <1>1, <1>2, <1>4 DEF Changed
  <2>2. result'[<<"page", p>>] # result[<<"page", p>>]
    <3>1. <<"page", p>> \in Items
      BY <1>2 DEF Items
    <3>2. result'[<<"page", p>>] = e.gen
      BY <1>2, <3>1 DEF TypeOK
    <3>3. result[<<"page", p>>] < e.gen /\ result[<<"page", p>>] \in Nat /\ e.gen \in Nat
      BY <1>1, <1>2, <1>4, <3>1 DEF ResultsBehind, TypeOK, Entry
    <3> QED
      BY <3>2, <3>3
  <2> QED
    BY <1>2, <2>1, <2>2 DEF StopsWithReason
<1> QED
  BY <1>12, <1>13

LEMMA LeaseNoSourceAgrees ==
  ASSUME TypeOK, Agreed, NEW w \in Workers, NEW j \in Jobs, LeaseNoSource(w, j)
  PROVE  Agreed' /\ StopsWithReason
<1>1. PICK s2, pol, sq, sl, mem, edges, lnk, ents :
        /\ s2 = RecoveredSources(sources, srcLeases) /\ pol = policy /\ sq = seq /\ sl = srcLeases
        /\ mem = pageOf /\ edges = childOf /\ lnk = links /\ ents = entries
  OBVIOUS
<1>2. /\ sources' = s2 /\ srcDue' = srcDue \cup Recovered(srcLeases)
      /\ srcLeases' = srcLeases \ Expired(srcLeases)
      /\ UNCHANGED <<entries, pageOf, childOf, links, policy, due, leases, hosts, refs, seq>>
  BY <1>1 DEF LeaseNoSource, graph
<1>3. /\ due = PageDueIndex(entries) /\ leases = PageLeaseIndex(entries)
      /\ srcDue = SourceDueIndex(sources) /\ srcLeases = SourceLeaseIndex(sources)
  BY DEF Agreed, IndexesExact
<1>4. /\ now \in Nat /\ now # 0 /\ ents \in [Pages -> Entry] /\ sources \in [Sources -> Source]
      /\ mem \in SUBSET (Sources \X Pages) /\ edges \in SUBSET (Sources \X Sources)
      /\ lnk \in SUBSET (Pages \X Pages) /\ sq \in Nat
  BY <1>1 DEF TypeOK
<1>5. Sound(ents, sources, mem, edges, lnk, pol, sq)
  BY <1>1, AgreedSound
<1>6. s2 = RecoveredSources(sources, SourceLeaseIndex(sources))
  BY <1>1, <1>3
<1>7. /\ Sound(ents, s2, mem, edges, lnk, pol, sq)
      /\ SamePresence(ents, sources, ents, s2)
  BY <1>4, <1>5, <1>6, RecoveredSound
<1>8. /\ SourceDueIndex(s2) = SourceDueIndex(sources) \cup Recovered(sl)
      /\ SourceLeaseIndex(s2) = sl \ Expired(sl)
  BY <1>1, <1>3, <1>4, SourceIndexesRecovered
<1>9. IndexesExact'
  BY <1>1, <1>2, <1>3, <1>8 DEF IndexesExact
<1>10. HostsReferenced'
  BY <1>1, <1>2, <1>7, HostsKept DEF Agreed
<1>11. Sound(entries, sources, pageOf, childOf, links, policy, seq)'
  BY <1>1, <1>2, <1>7
<1>12. Agreed'
  BY <1>9, <1>10, <1>11, AgreedSound, PTL
<1>13. StopsWithReason
  BY <1>2 DEF StopsWithReason
<1> QED
  BY <1>12, <1>13

LeasedTo(q, g, t) == [q EXCEPT !.state = "leased", !.gen = g, !.until = t]

LEMMA LeasedSource ==
  ASSUME NEW q \in Source, NEW g \in Nat, g # 0, NEW t \in Nat, t # 0,
         NEW r, r = LeasedTo(q, g, t)
  PROVE  /\ r \in Source /\ r.state = "leased" /\ r.until = t
         /\ r.configured = q.configured /\ r.depth = q.depth /\ r.hasSnapshot = q.hasSnapshot
         /\ SourceGood(r, g)
<1>1. r = [q EXCEPT !.state = "leased", !.gen = g, !.until = t]
  BY DEF LeasedTo
<1>2. r \in Source
  <2>1. ASSUME NEW x \in Source
        PROVE  [x EXCEPT !.state = "leased", !.gen = g, !.until = t] \in Source
    BY DEF Source, PageStates
  <2> QED
    BY <1>1, <2>1
<1>3. r.state = "leased" /\ r.until = t /\ r.gen = g
  BY <1>1 DEF Source
<1>4. r.configured = q.configured /\ r.depth = q.depth /\ r.hasSnapshot = q.hasSnapshot
  BY <1>1 DEF Source
<1>5. SourceGood(r, g)
  BY <1>3 DEF SourceGood, SourceSchedulable
<1> QED
  BY <1>2, <1>3, <1>4, <1>5

LEMMA LeaseSourceAgrees ==
  ASSUME TypeOK, Agreed, NEW w \in Workers, NEW j \in Jobs, LeaseSource(w, j)
  PROVE  Agreed' /\ StopsWithReason
<1>1. PICK s2, pol, sq, g, sl, mem, edges, lnk, ents, t :
        /\ s2 = RecoveredSources(sources, srcLeases) /\ pol = policy /\ sq = seq /\ g = seq + 1
        /\ sl = srcLeases /\ mem = pageOf /\ edges = childOf /\ lnk = links /\ ents = entries
        /\ t = now + LeaseTTL
  OBVIOUS
<1>2. /\ seq' = g
      /\ UNCHANGED <<entries, pageOf, childOf, links, policy, due, leases, hosts, refs>>
  BY <1>1 DEF LeaseSource, graph
<1>3. /\ due = PageDueIndex(entries) /\ leases = PageLeaseIndex(entries)
      /\ srcDue = SourceDueIndex(sources) /\ srcLeases = SourceLeaseIndex(sources)
  BY DEF Agreed, IndexesExact
<1>4. /\ now \in Nat /\ now # 0 /\ ents \in [Pages -> Entry] /\ sources \in [Sources -> Source]
      /\ mem \in SUBSET (Sources \X Pages) /\ edges \in SUBSET (Sources \X Sources)
      /\ lnk \in SUBSET (Pages \X Pages) /\ sq \in Nat /\ g \in Nat /\ sq <= g /\ g # 0
      /\ t \in Nat /\ t # 0
  BY <1>1, LimitsAssumption DEF TypeOK
<1>5. Sound(ents, sources, mem, edges, lnk, pol, sq)
  BY <1>1, AgreedSound
<1>6. s2 = RecoveredSources(sources, SourceLeaseIndex(sources))
  BY <1>1, <1>3
<1>7. /\ Sound(ents, s2, mem, edges, lnk, pol, sq)
      /\ SamePresence(ents, sources, ents, s2) /\ s2 \in [Sources -> Source]
  BY <1>4, <1>5, <1>6, RecoveredSound
<1>8. /\ SourceDueIndex(s2) = SourceDueIndex(sources) \cup Recovered(sl)
      /\ SourceLeaseIndex(s2) = sl \ Expired(sl)
  BY <1>1, <1>3, <1>4, SourceIndexesRecovered
<1>9. PICK x \in DueSources(j) :
        /\ s2[x[2]].state \in SourceSchedulable /\ s2[x[2]].due = x[1]
        /\ sources' = [s2 EXCEPT ![x[2]] = LeasedTo(s2[x[2]], g, t)]
        /\ srcDue' = (srcDue \cup Recovered(sl)) \ {x}
        /\ srcLeases' = (sl \ Expired(sl)) \cup {<<t, x[2]>>}
  BY <1>1 DEF LeaseSource, LeasedTo
<1>10. x \in Nat \X Sources
  BY RecoveredTypes DEF DueSources, TypeOK
<1>11. PICK s, q, n, s3 :
         /\ s = x[2] /\ q = s2[s] /\ n = LeasedTo(q, g, t) /\ s3 = Changed(s2, s, n)
  OBVIOUS
<1>12. /\ s \in Sources /\ x = <<q.due, s>> /\ q \in Source /\ q.state \in SourceSchedulable
       /\ sources' = s3
       /\ srcDue' = (srcDue \cup Recovered(sl)) \ {<<q.due, s>>}
       /\ srcLeases' = (sl \ Expired(sl)) \cup {<<t, s>>}
  BY <1>7, <1>9, <1>10, <1>11 DEF Changed
<1>13. /\ n \in Source /\ n.state = "leased" /\ n.until = t
       /\ n.configured = q.configured /\ n.depth = q.depth /\ n.hasSnapshot = q.hasSnapshot
       /\ SourceGood(n, g)
  <2>1. n = LeasedTo(q, g, t) /\ q \in Source
    BY <1>11, <1>12
  <2> QED
    BY <1>4, <2>1, LeasedSource
<1>14. Sound(ents, s3, mem, edges, lnk, pol, g) /\ SamePresence(ents, s2, ents, s3)
  <2>1. /\ s2[s].state \notin {"absent", "disabled"} /\ n.state \notin {"absent", "disabled"}
        /\ n.configured = s2[s].configured /\ n.depth = s2[s].depth
        /\ n.hasSnapshot = s2[s].hasSnapshot
    BY <1>11, <1>12, <1>13 DEF SourceSchedulable
  <2>2. s3 = Changed(s2, s, n) /\ s \in Sources /\ n \in Source /\ SourceGood(n, g)
    BY <1>11, <1>12, <1>13
  <2> QED
    BY <1>4, <1>7, <2>1, <2>2, SourceLeasedSound
<1>15. /\ SourceDueIndex(s3) = SourceDueIndex(s2) \ {<<q.due, s>>}
       /\ SourceLeaseIndex(s3) = SourceLeaseIndex(s2) \cup {<<t, s>>}
  <2>1. /\ SourceDueIndex(s3) = (SourceDueIndex(s2) \ {<<s2[s].due, s>>})
                                \cup {y \in {<<n.due, s>>} : n.state \in SourceSchedulable}
        /\ SourceLeaseIndex(s3) = (SourceLeaseIndex(s2) \ {<<s2[s].until, s>>})
                                  \cup {y \in {<<n.until, s>>} : n.state = "leased"}
    <3>1. s3 = Changed(s2, s, n) /\ s \in Sources /\ n \in Source /\ s2 \in [Sources -> Source]
      BY <1>7, <1>11, <1>12, <1>13
    <3> QED
      BY <3>1, SourceIndexesUpdated
  <2>2. n.state \notin SourceSchedulable /\ n.state = "leased" /\ n.until = t /\ s2[s] = q
    BY <1>11, <1>13 DEF SourceSchedulable
  <2>3. <<q.until, s>> \notin SourceLeaseIndex(s2)
    BY <1>11, <1>12, NotIndexed DEF SourceSchedulable
  <2> QED
    BY <2>1, <2>2, <2>3
<1>16. IndexesExact'
  BY <1>1, <1>2, <1>3, <1>8, <1>12, <1>15 DEF IndexesExact
<1>17. HostsReferenced'
  <2>1. SamePresence(ents, sources, ents, s3)
    BY <1>7, <1>14 DEF SamePresence
  <2> QED
    BY <1>1, <1>2, <1>12, <2>1, HostsKept DEF Agreed
<1>18. Sound(entries, sources, pageOf, childOf, links, policy, seq)'
  BY <1>1, <1>2, <1>12, <1>14
<1>19. Agreed'
  BY <1>16, <1>17, <1>18, AgreedSound, PTL
<1>20. StopsWithReason
  BY <1>2 DEF StopsWithReason
<1> QED
  BY <1>19, <1>20

Untouched(p, mem, lnk) ==
  /\ \A s \in Sources : <<s, p>> \notin mem
  /\ \A q \in Pages : <<p, q>> \notin lnk /\ <<q, p>> \notin lnk
Pruned(e1, e2, mem, lnk) ==
  \A p \in Pages :
    \/ e2[p] = e1[p]
    \/ e2[p] = NoPage /\ e1[p].state = "disabled" /\ Untouched(p, mem, lnk)

(* Deleting disabled pages no graph names: the graphs stay closed.         *)
LEMMA PrunedGood ==
  ASSUME NEW e1, NEW e2, NEW srcs, NEW mem \in SUBSET (Sources \X Pages), NEW edges,
         NEW lnk \in SUBSET (Pages \X Pages), NEW pol, NEW sq \in Nat,
         Good(e1, srcs, mem, edges, lnk, pol, sq), Pruned(e1, e2, mem, lnk)
  PROVE  Good(e2, srcs, mem, edges, lnk, pol, sq)
<1>1. NoPage.state = "absent" /\ NoPage.gen = 0 /\ NoPage.explicit = FALSE
  BY DEF NoPage
<1>2. \A p \in Pages : PageGood(e2[p], sq)
  <2> TAKE p \in Pages
  <2>1. PageGood(e1[p], sq)
    BY DEF Good, RecordsGood
  <2>2. PageGood(NoPage, sq)
    BY <1>1 DEF PageGood, Schedulable
  <2> QED
    BY <2>1, <2>2 DEF Pruned
<1>3. Cardinality(Present(e2, Pages)) <= MaxEntries
  <2>1. Present(e2, Pages) \subseteq Present(e1, Pages)
    BY <1>1 DEF Present, Pruned
  <2>2. PICK P1, P2 : P1 = Present(e1, Pages) /\ P2 = Present(e2, Pages)
    OBVIOUS
  <2>3. P2 \subseteq P1 /\ P1 \subseteq Pages /\ Cardinality(P1) <= MaxEntries
    BY <2>1, <2>2 DEF Present, Good, RecordsGood
  <2>4. /\ Cardinality(P2) <= Cardinality(P1) /\ Cardinality(P1) \in Nat /\ Cardinality(P2) \in Nat
    BY <2>3, FinitelyMany, FS_Subset, FS_CardinalityType
  <2> QED
    BY <2>2, <2>3, <2>4, LimitsAssumption
<1>4. RecordsGood(e2, srcs, sq)
  BY <1>2, <1>3 DEF RecordsGood, Good
<1>5. ASSUME NEW p \in Pages, e1[p].state # "absent", ~Untouched(p, mem, lnk)
      PROVE  e2[p].state # "absent"
  BY <1>5 DEF Pruned
<1>6. SnapshotsGood(e2, srcs, mem, edges)
  <2>1. ASSUME NEW e \in mem
        PROVE  e2[e[2]].state # "absent"
    <3>1. PICK s \in Sources, p \in Pages : e = <<s, p>>
      OBVIOUS
    <3>2. e1[p].state # "absent" /\ ~Untouched(p, mem, lnk)
      BY <3>1 DEF Untouched, Good, SnapshotsGood
    <3> QED
      BY <1>5, <3>1, <3>2
  <2> QED
    BY <2>1 DEF SnapshotsGood, Good
<1>7. LinksGood(e2, lnk, pol)
  <2>1. ASSUME NEW e \in lnk
        PROVE  e2[e[1]].state # "absent" /\ e2[e[2]].state # "absent"
    <3>1. PICK p \in Pages, q \in Pages : e = <<p, q>>
      OBVIOUS
    <3>2. /\ e1[p].state # "absent" /\ ~Untouched(p, mem, lnk)
          /\ e1[q].state # "absent" /\ ~Untouched(q, mem, lnk)
      BY <3>1 DEF Untouched, Good, LinksGood
    <3> QED
      BY <1>5, <3>1, <3>2
  <2> QED
    BY <2>1 DEF LinksGood, Good
<1> QED
  BY <1>4, <1>6, <1>7 DEF Good

(* Deleting them changes the owners of no page that is kept.               *)
LEMMA PrunedFollow ==
  ASSUME NEW e1, NEW e2, NEW srcs, NEW mem, NEW lnk,
         PagesFollow(e1, srcs, mem, lnk), Pruned(e1, e2, mem, lnk)
  PROVE  PagesFollow(e2, srcs, mem, lnk)
<1>1. SUFFICES ASSUME NEW p \in Present(e2, Pages)
               PROVE  IF Owned(p, e2, srcs, mem, lnk)
                      THEN e2[p].state = "disabled" => ~e2[p].orphaned
                      ELSE e2[p].state = "disabled"
  BY DEF PagesFollow
<1>2. NoPage.state = "absent"
  BY DEF NoPage
<1>3. p \in Pages /\ e2[p] = e1[p] /\ p \in Present(e1, Pages)
  BY <1>2 DEF Present, Pruned
<1>4. ASSUME NEW q \in Pages, e2[q] = e1[q]
      PROVE  BaseOwned(q, e2, srcs, mem) <=> BaseOwned(q, e1, srcs, mem)
  BY <1>4 DEF BaseOwned
<1>5. ASSUME NEW q \in Pages, <<q, p>> \in lnk
      PROVE  e2[q] = e1[q]
  BY <1>3, <1>5 DEF Pruned, Untouched
<1>6. LinkOwned(p, e2, srcs, mem, lnk) <=> LinkOwned(p, e1, srcs, mem, lnk)
  BY <1>4, <1>5 DEF LinkOwned
<1>7. Owned(p, e2, srcs, mem, lnk) <=> Owned(p, e1, srcs, mem, lnk)
  BY <1>3, <1>4, <1>6 DEF Owned
<1> QED
  BY <1>3, <1>7 DEF PagesFollow

(* PruneDisabled also forgets the hosts nothing refers to.                 *)
LEMMA PruneDisabledAgrees ==
  ASSUME TypeOK, Agreed, NEW n \in PruneLimits, PruneDisabled(n)
  PROVE  Agreed' /\ StopsWithReason
<1> DEFINE gone(p) == /\ entries[p].state = "disabled"
                      /\ ~\E s \in Sources : <<s, p>> \in pageOf
                      /\ ~\E q \in Pages : <<p, q>> \in links \/ <<q, p>> \in links
           doomed == {p \in Pages :
                        gone(p) /\ Cardinality({q \in Pages : gone(q) /\ q < p}) < n}
<1>1. PICK D : D = doomed
  OBVIOUS
<1>2. PICK e2, mem, lnk : /\ e2 = [p \in Pages |-> IF p \in D THEN NoPage ELSE entries[p]]
                          /\ mem = pageOf /\ lnk = links
  OBVIOUS
<1>3. /\ entries' = e2 /\ refs' = AuthorityRefs(e2, sources)
      /\ hosts' = [a \in Authorities |->
                     IF refs'[a] = 0 THEN [last |-> 0, interval |-> 0] ELSE hosts[a]]
      /\ due' = PageDueIndex(e2) /\ leases' = PageLeaseIndex(e2)
      /\ UNCHANGED <<sources, pageOf, childOf, links, policy, srcDue, srcLeases, seq>>
  BY <1>1, <1>2 DEF PruneDisabled, graph
<1>4. \A p \in D : entries[p].state = "disabled" /\ Untouched(p, mem, lnk)
  BY <1>1, <1>2 DEF Untouched
<1> HIDE DEF doomed, gone
<1>5. Pruned(entries, e2, mem, lnk)
  BY <1>2, <1>4 DEF Pruned
<1>6. /\ mem \in SUBSET (Sources \X Pages) /\ lnk \in SUBSET (Pages \X Pages) /\ seq \in Nat
  BY <1>2 DEF TypeOK
<1>7. Good(e2, sources, mem, childOf, lnk, policy, seq)
  <2>1. Good(entries, sources, mem, childOf, lnk, policy, seq)
    BY <1>2 DEF Agreed
  <2> QED
    BY <1>5, <1>6, <2>1, PrunedGood
<1>8. PagesFollow(e2, sources, mem, lnk)
  <2>1. PagesFollow(entries, sources, mem, lnk)
    BY <1>2 DEF Agreed
  <2> QED
    BY <1>5, <2>1, PrunedFollow
<1>9. Sound(entries, sources, pageOf, childOf, links, policy, seq)'
  BY <1>2, <1>3, <1>7, <1>8 DEF Sound, Agreed
<1>10. IndexesExact'
  BY <1>3 DEF IndexesExact, Agreed
<1>11. HostsReferenced'
  <2>1. \A a \in Authorities : refs'[a] \in Nat
    BY <1>3, AuthorityRefsType
  <2>2. \A a \in Authorities : hosts'[a].last # 0 => refs'[a] # 0
    BY <1>3
  <2>3. \A a \in Authorities : hosts'[a].last # 0 => refs'[a] > 0
    BY <2>1, <2>2
  <2> QED
    BY <1>3, <2>3 DEF HostsReferenced
<1>12. Agreed'
  BY <1>9, <1>10, <1>11, AgreedSound, PTL
<1>13. StopsWithReason
  BY <1>2, <1>3, <1>4 DEF StopsWithReason
<1> QED
  BY <1>12, <1>13

(* Neither the records nor what is derived from them.                      *)
LEMMA StoreUntouched ==
  ASSUME Agreed, UNCHANGED <<entries, sources, graph, policy, indexes, refs, seq>>,
         \A a \in Authorities : hosts'[a].last # 0 => hosts[a].last # 0 \/ refs[a] > 0
  PROVE  Agreed' /\ StopsWithReason
<1>1. UNCHANGED <<entries, sources, pageOf, childOf, links, policy, due, leases, srcDue,
                  srcLeases, refs, seq>>
  BY DEF graph, indexes
<1>2. HostsReferenced'
  BY <1>1 DEF Agreed, HostsReferenced
<1>3. IndexesExact'
  BY <1>1 DEF Agreed, IndexesExact
<1>4. Sound(entries, sources, pageOf, childOf, links, policy, seq)'
  BY <1>1, AgreedSound
<1>5. Agreed'
  BY <1>2, <1>3, <1>4, AgreedSound, PTL
<1>6. StopsWithReason
  BY <1>1 DEF StopsWithReason
<1> QED
  BY <1>5, <1>6

LEMMA ReserveHostAgrees ==
  ASSUME TypeOK, Agreed, NEW w \in Workers, NEW i \in Intervals, ReserveHost(w, i)
  PROVE  Agreed' /\ StopsWithReason
<1>1. PICK a, v : a = WorkAuthority(w) /\ v = [last |-> now, interval |-> i]
  OBVIOUS
<1>2. refs[a] > 0 /\ hosts' = [hosts EXCEPT ![a] = v]
      /\ UNCHANGED <<entries, sources, graph, policy, indexes, refs, seq>>
  BY <1>1 DEF ReserveHost
<1>3. \A b \in Authorities : hosts'[b].last # 0 => hosts[b].last # 0 \/ refs[b] > 0
  BY <1>2 DEF TypeOK
<1> QED
  BY <1>2, <1>3, StoreUntouched

LEMMA OtherStepsAgree ==
  ASSUME Agreed, (\E w \in Workers : GiveUp(w)) \/ Tick \/ UNCHANGED vars
  PROVE  Agreed' /\ StopsWithReason
<1>1. UNCHANGED store
  BY DEF GiveUp, Tick, vars
<1>2. UNCHANGED <<entries, sources, graph, policy, indexes, refs, seq>> /\ UNCHANGED hosts
  BY <1>1 DEF store
<1> QED
  BY <1>2, StoreUntouched

-----------------------------------------------------------------------------
(* A restart.                                                              *)

(* Open reconciles and recovers in one transaction.                        *)
LEMMA ReopenAgrees ==
  ASSUME TypeOK, Agreed, Reopen
  PROVE  Agreed' /\ StopsWithReason
<1>1. PICK ents, srcs, mem, edges, lnk, pol, sq, t :
        /\ ents = entries /\ srcs = sources /\ mem = pageOf /\ edges = childOf /\ lnk = links
        /\ pol = policy /\ sq = seq /\ t = now
  OBVIOUS
<1>2. PICK rs : rs = ReconciledSources(srcs, edges, t)
  OBVIOUS
<1>3. PICK re, sl : re = ReconciledPages(ents, rs, mem, lnk, t) /\ sl = SourceLeaseIndex(rs)
  OBVIOUS
<1>4. PICK pl, s2 : pl = PageLeaseIndex(re) /\ s2 = RecoveredSources(rs, sl)
  OBVIOUS
<1>5. PICK e2 : e2 = RecoveredPages(re, pl)
  OBVIOUS
<1>6. /\ sources' = s2 /\ entries' = e2
      /\ due' = PageDueIndex(re) \cup Recovered(pl) /\ leases' = pl \ Expired(pl)
      /\ srcDue' = SourceDueIndex(rs) \cup Recovered(sl) /\ srcLeases' = sl \ Expired(sl)
      /\ refs' = AuthorityRefs(re, rs)
      /\ UNCHANGED <<pageOf, childOf, links, policy, hosts, seq>>
  BY <1>1, <1>2, <1>3, <1>4, <1>5 DEF Reopen, graph
<1>7. /\ now \in Nat /\ now # 0 /\ t \in Nat /\ t # 0
      /\ ents \in [Pages -> Entry] /\ srcs \in [Sources -> Source]
      /\ mem \in SUBSET (Sources \X Pages) /\ edges \in SUBSET (Sources \X Sources)
      /\ lnk \in SUBSET (Pages \X Pages) /\ sq \in Nat
  BY <1>1 DEF TypeOK
<1>8. Good(ents, srcs, mem, edges, lnk, pol, sq)
  BY <1>1 DEF Agreed
<1>9. Sound(re, rs, mem, edges, lnk, pol, sq)
  <2>1. Good(re, rs, mem, edges, lnk, pol, sq)
    BY <1>2, <1>3, <1>7, <1>8, ReconciledGood
  <2>2. SourcesFollow(rs, edges)
    <3>1. \A s \in Sources : srcs[s].configured => srcs[s].state # "absent"
      BY <1>8 DEF Good, RecordsGood, SourceGood
    <3>2. \A e \in edges : srcs[e[2]].state # "absent"
      BY <1>8 DEF Good, SnapshotsGood
    <3> QED
      BY <1>2, <1>7, <3>1, <3>2, SourcesFollowReconciled
  <2>3. PagesFollow(re, rs, mem, lnk)
    BY <1>3, <1>7, PagesFollowReconciled
  <2> QED
    BY <2>1, <2>2, <2>3 DEF Sound
<1>10. re \in [Pages -> Entry] /\ rs \in [Sources -> Source]
  BY <1>2, <1>3, <1>7, ReconciledPagesType, ReconciledSourcesType
<1>11. /\ Sound(e2, s2, mem, edges, lnk, pol, sq)
       /\ SamePresence(re, rs, e2, s2)
       /\ PagesContinue(re, e2) /\ SourcesContinue(rs, s2)
       /\ \A p \in Pages : e2[p] = re[p] \/ (re[p].state = "leased" /\ e2[p].state = "retry")
  <2>1. /\ e2 = RecoveredPages(re, PageLeaseIndex(re))
        /\ s2 = RecoveredSources(rs, SourceLeaseIndex(rs))
    BY <1>3, <1>4, <1>5
  <2> QED
    BY <1>7, <1>9, <1>10, <2>1, RecoveredSound
<1>12. /\ PageDueIndex(e2) = PageDueIndex(re) \cup Recovered(pl)
       /\ PageLeaseIndex(e2) = pl \ Expired(pl)
  BY <1>4, <1>5, <1>7, <1>10, PageIndexesRecovered
<1>13. /\ SourceDueIndex(s2) = SourceDueIndex(rs) \cup Recovered(sl)
       /\ SourceLeaseIndex(s2) = sl \ Expired(sl)
  BY <1>3, <1>4, <1>7, <1>10, SourceIndexesRecovered
<1>14. IndexesExact'
  BY <1>6, <1>12, <1>13 DEF IndexesExact
<1>15. /\ \A p \in Pages : /\ re[p].state = "absent" <=> ents[p].state = "absent"
                           /\ re[p].explicit = ents[p].explicit
       /\ \A s \in Sources : rs[s].state = "absent" <=> srcs[s].state = "absent"
  <2>1. \A p \in Pages : /\ re[p].state = "absent" <=> ents[p].state = "absent"
                         /\ re[p].explicit = ents[p].explicit
    BY <1>3, <1>7, ReconciledPageIs
  <2>2. \A s \in Sources : rs[s].state = "absent" <=> srcs[s].state = "absent"
    BY <1>2, <1>7, ReconciledSourceIs
  <2> QED
    BY <2>1, <2>2
<1>16. HostsReferenced'
  <2>1. AuthorityRefs(re, rs) = AuthorityRefs(e2, s2)
    BY <1>11, RefsSame DEF SamePresence
  <2>2. AuthorityRefs(ents, srcs) = AuthorityRefs(re, rs)
    BY <1>15, RefsSame
  <2> QED
    BY <1>1, <1>6, <2>1, <2>2 DEF Agreed, HostsReferenced
<1>17. Sound(entries, sources, pageOf, childOf, links, policy, seq)'
  BY <1>1, <1>6, <1>11
<1>18. Agreed'
  BY <1>14, <1>16, <1>17, AgreedSound, PTL
<1>19. ASSUME NEW p \in Pages, ents[p].state \notin {"absent", "disabled"},
              e2[p].state \in {"absent", "disabled"}
       PROVE  ~Owned(p, e2, s2, mem, lnk)
  <2>1. PICK r : r = re[p]
    OBVIOUS
  <2>2. r.state \in {"absent", "disabled"}
    BY <1>11, <1>19, <2>1
  <2>3. ASSUME Owned(p, ents, rs, mem, lnk)
        PROVE  r.state = "queued" \/ r = ents[p]
    <3>1. \/ r = ents[p] /\ (ents[p].state = "disabled" => ~ents[p].orphaned)
          \/ r.state = "queued"
      BY <1>3, <1>7, <1>19, <2>1, <2>3, OwnedPageIs
    <3> QED
      BY <3>1, Zenon
  <2>4. ~Owned(p, ents, rs, mem, lnk)
    BY <1>19, <2>2, <2>3
  <2>5. \A q \in Pages : /\ ents[q].explicit = e2[q].explicit
                         /\ ents[q].state = "absent" <=> e2[q].state = "absent"
    BY <1>11, <1>15 DEF PagesContinue
  <2>6. \A s \in Sources : rs[s].state \notin {"absent", "disabled"}
                             <=> s2[s].state \notin {"absent", "disabled"}
    BY <1>11 DEF SourcesContinue
  <2> QED
    BY <2>4, <2>5, <2>6, OwnedSame
<1>20. StopsWithReason
  BY <1>1, <1>6, <1>19 DEF StopsWithReason
<1> QED
  BY <1>18, <1>20

-----------------------------------------------------------------------------
(* Results stay behind the leases on record.                               *)
LEMMA ResultsStayBehind ==
  ASSUME TypeOK, TypeOK', ResultsBehind, SequenceCoversLeases, NumbersDrawn,
         Quiet \/ Granted \/ Finished
  PROVE  ResultsBehind'
<1>1. /\ seq \in Nat /\ seq' \in Nat
      /\ \A i \in Items : result[i] \in Nat /\ result'[i] \in Nat
      /\ \A p \in Pages : entries[p].gen \in Nat /\ entries'[p].gen \in Nat
      /\ \A p \in Pages : <<"page", p>> \in Items
  BY DEF TypeOK, Entry, Items
<1>2. CASE Quiet
  BY <1>1, <1>2 DEF Quiet, KeepsPages, ResultsBehind
<1>3. CASE Granted
  <2>1. PICK w \in Workers, l \in Lease :
          /\ l.gen = seq + 1 /\ seq' = seq + 1 /\ UNCHANGED result
          /\ \/ /\ l.key \in Pages
                /\ KeepsPages(entries, entries', {l.key})
                /\ entries'[l.key].gen = l.gen
             \/ KeepsPages(entries, entries', {})
    BY <1>3 DEF Granted
  <2>2. \A i \in Items : result'[i] <= seq /\ result'[i] <= seq'
    BY <1>1, <2>1 DEF ResultsBehind
  <2>3. ASSUME NEW p \in Pages, entries'[p].state = "leased"
        PROVE  result'[<<"page", p>>] < entries'[p].gen
    <3>1. \/ entries[p].state = "leased" /\ entries'[p].gen = entries[p].gen
          \/ entries'[p].gen = seq + 1
      BY <2>1, <2>3 DEF KeepsPages
    <3> QED
      BY <1>1, <2>1, <2>2, <3>1 DEF ResultsBehind
  <2> QED
    BY <2>2, <2>3 DEF ResultsBehind
<1>4. CASE Finished
  <2>1. PICK i \in Items, g \in Nat :
          /\ g <= seq
          /\ UNCHANGED seq /\ KeepsPages(entries, entries', {})
          /\ result' = [result EXCEPT ![i] = g]
          /\ \A p \in Pages : i = <<"page", p>> => entries'[p].state # "leased"
    <3>1. PICK w \in Workers :
            /\ UNCHANGED seq /\ KeepsPages(entries, entries', {})
            /\ \/ /\ PageLeaseCurrent(w)
                  /\ entries'[work[w].key].state # "leased"
                  /\ result' = [result EXCEPT ![<<"page", work[w].key>>] = work[w].gen]
               \/ /\ SourceLeaseCurrent(w)
                  /\ result' = [result EXCEPT ![<<"source", work[w].key>>] = work[w].gen]
      BY <1>4 DEF Finished
    <3>2. work[w].gen <= seq
      BY DEF NumbersDrawn
    <3>3. PICK k, g : k = work[w].key /\ g = work[w].gen
      OBVIOUS
    <3>4. CASE /\ PageLeaseCurrent(w) /\ entries'[k].state # "leased"
               /\ result' = [result EXCEPT ![<<"page", k>>] = g]
      <4>1. k \in Pages
        BY <3>3, <3>4 DEF PageLeaseCurrent, TypeOK
      <4>2. <<"page", k>> \in Items
        BY <4>1 DEF Items
      <4>3. \A p \in Pages : <<"page", k>> = <<"page", p>> => entries'[p].state # "leased"
        BY <3>4
      <4>4. PICK i \in Items : i = <<"page", k>>
        BY <4>2
      <4>5. /\ g \in Nat /\ g <= seq
            /\ UNCHANGED seq /\ KeepsPages(entries, entries', {})
            /\ result' = [result EXCEPT ![i] = g]
            /\ \A p \in Pages : i = <<"page", p>> => entries'[p].state # "leased"
        BY <3>1, <3>2, <3>3, <3>4, <4>3, <4>4 DEF TypeOK, Lease
      <4> QED
        BY <4>5
    <3>5. CASE SourceLeaseCurrent(w) /\ result' = [result EXCEPT ![<<"source", k>>] = g]
      <4>1. k \in Sources
        BY <3>3, <3>5 DEF SourceLeaseCurrent, TypeOK
      <4>2. <<"source", k>> \in Items
        BY <4>1 DEF Items
      <4>3. \A p \in Pages : <<"source", k>> # <<"page", p>>
        OBVIOUS
      <4>4. PICK i \in Items : i = <<"source", k>>
        BY <4>2
      <4>5. /\ g \in Nat /\ g <= seq
            /\ UNCHANGED seq /\ KeepsPages(entries, entries', {})
            /\ result' = [result EXCEPT ![i] = g]
            /\ \A p \in Pages : i = <<"page", p>> => entries'[p].state # "leased"
        BY <3>1, <3>2, <3>3, <3>5, <4>3, <4>4 DEF TypeOK, Lease
      <4> QED
        BY <4>5
    <3> QED
      BY <3>1, <3>3, <3>4, <3>5
  <2>2. \A j \in Items : result'[j] = IF j = i THEN g ELSE result[j]
    BY <2>1 DEF TypeOK
  <2>3. \A j \in Items : result'[j] <= seq'
    BY <2>1, <2>2 DEF ResultsBehind
  <2>4. ASSUME NEW p \in Pages, entries'[p].state = "leased"
        PROVE  result'[<<"page", p>>] < entries'[p].gen
    <3>1. entries[p].state = "leased" /\ entries'[p].gen = entries[p].gen
      BY <2>1, <2>4 DEF KeepsPages
    <3>2. result'[<<"page", p>>] = result[<<"page", p>>]
      BY <1>1, <2>1, <2>2, <2>4
    <3> QED
      BY <3>1, <3>2 DEF ResultsBehind
  <2> QED
    BY <2>3, <2>4 DEF ResultsBehind
<1> QED
  BY <1>2, <1>3, <1>4

-----------------------------------------------------------------------------
(* All steps together.                                                     *)

(* Every step keeps the store in agreement and stops only what may stop.   *)
LEMMA StepAgrees ==
  ASSUME TypeOK, Agreed, ResultsBehind, [Next]_vars
  PROVE  Agreed' /\ StopsWithReason
<1>1. CASE \E S \in SUBSET Pages : SyncSeeds(S)
  BY <1>1, SyncSeedsAgrees
<1>2. CASE \E S \in SUBSET Roots :
             \E K \in SUBSET (S \cap Present(sources, Sources)) :
               SyncDiscoverySources(S, K)
  BY <1>2, SyncDiscoverySourcesAgrees
<1>3. CASE \E new \in [Jobs -> 0..MaxLinksPerPage] : SyncLinkPolicies(new)
  BY <1>3, SyncLinkPoliciesAgrees
<1>4. CASE \E n \in PruneLimits : PruneDisabled(n)
  BY <1>4, PruneDisabledAgrees
<1>5. CASE \E w \in Workers, j \in Jobs :
             LeasePage(w, j) \/ LeaseNoPage(w, j)
  BY <1>5, LeasePageAgrees, LeaseNoPageAgrees
<1>6. CASE \E w \in Workers, j \in Jobs :
             LeaseSource(w, j) \/ LeaseNoSource(w, j)
  BY <1>6, LeaseSourceAgrees, LeaseNoSourceAgrees
<1>7. CASE \E w \in Workers, d \in Delays :
             \E o \in {"succeeded", "rejected", "retry", "disabled"} :
               Complete(w, o, d)
  BY <1>7, CompleteAgrees
<1>8. CASE \E w \in Workers, d \in Delays :
             \E o \in {"succeeded", "rejected"}, L \in SUBSET Pages :
               CompleteWithLinks(w, o, d, L)
  BY <1>8, CompleteWithLinksAgrees
<1>9. CASE \E w \in Workers, d \in Delays :
             \/ CompleteDiscoverySource(w, d)
             \/ PreserveDiscoverySnapshot(w, d)
  BY <1>9, SourceCompletionsAgree
<1>10. CASE \E w \in Workers, d \in Delays :
              \E P \in SUBSET Pages, C \in SUBSET Sources :
                ApplyDiscoverySnapshot(w, P, C, d)
  BY <1>10, ApplyDiscoverySnapshotAgrees
<1>11. CASE \E w \in Workers, i \in Intervals : ReserveHost(w, i)
  BY <1>11, ReserveHostAgrees
<1>12. CASE Reopen
  BY <1>12, ReopenAgrees
<1>13. CASE (\E w \in Workers : GiveUp(w)) \/ Tick \/ UNCHANGED vars
  BY <1>13, OtherStepsAgree
<1> QED
  BY <1>1, <1>2, <1>3, <1>4, <1>5, <1>6, <1>7, <1>8, <1>9, <1>10, <1>11,
     <1>12, <1>13 DEF Next

LEMMA AgreedStart == Init => Agreed /\ ResultsBehind
<1> SUFFICES ASSUME Init PROVE Agreed /\ ResultsBehind
  OBVIOUS
<1>1. /\ \A p \in Pages : entries[p] = NoPage
      /\ \A s \in Sources : sources[s] = NoSource
      /\ pageOf = {} /\ childOf = {} /\ links = {}
      /\ seq = 0 /\ \A i \in Items : result[i] = 0
      /\ \A j \in Jobs : policy[j] = 0
  BY DEF Init
<1>2. /\ NoPage.state = "absent" /\ NoPage.gen = 0 /\ NoPage.explicit = FALSE
      /\ NoSource.state = "absent" /\ NoSource.gen = 0
      /\ NoSource.configured = FALSE /\ NoSource.hasSnapshot = FALSE
  BY DEF NoPage, NoSource
<1>3. Present(entries, Pages) = {} /\ Present(sources, Sources) = {} /\ Alive(sources) = {}
  BY <1>1, <1>2 DEF Present, Alive
<1>4. Cardinality({}) = 0
  BY FS_EmptySet
<1>5. RecordsGood(entries, sources, seq)
  <2>1. \A p \in Pages : PageGood(entries[p], seq)
    BY <1>1, <1>2 DEF PageGood, Schedulable
  <2>2. \A s \in Sources : SourceGood(sources[s], seq)
    BY <1>1, <1>2 DEF SourceGood, SourceSchedulable
  <2> QED
    BY <1>1, <1>2, <1>3, <1>4, <2>1, <2>2, LimitsAssumption DEF RecordsGood
<1>6. SnapshotsFit(pageOf, childOf)
  <2>1. \A s \in Sources : {e \in {} : e[1] = s} = {}
    OBVIOUS
  <2> QED
    BY <1>1, <1>4, <2>1, LimitsAssumption DEF SnapshotsFit
<1>7. LinksGood(entries, links, policy)
  <2>1. \A p \in Pages : {e \in {} : e[1] = p} = {} /\ PageJob[p] \in Jobs
    BY IdentityAssumption
  <2> QED
    BY <1>1, <1>4, <2>1, LimitsAssumption DEF LinksGood
<1>8. Good(entries, sources, pageOf, childOf, links, policy, seq)
  BY <1>1, <1>5, <1>6, <1>7 DEF Good, SnapshotsGood
<1>9. SourcesFollow(sources, childOf) /\ PagesFollow(entries, sources, pageOf, links)
  BY <1>1, <1>2, <1>3 DEF SourcesFollow, PagesFollow
<1>10. IndexesExact
  <2>1. PageDueIndex(entries) = {} /\ PageLeaseIndex(entries) = {}
    BY <1>1, <1>2 DEF PageDueIndex, PageLeaseIndex, Schedulable
  <2>2. SourceDueIndex(sources) = {} /\ SourceLeaseIndex(sources) = {}
    BY <1>1, <1>2 DEF SourceDueIndex, SourceLeaseIndex, SourceSchedulable
  <2> QED
    BY <2>1, <2>2 DEF Init, IndexesExact
<1>11. HostsReferenced
  <2>1. AuthorityRefs(entries, sources) = [a \in Authorities |-> 0]
    <3>1. \A a \in Authorities : /\ {p \in {} : PageAuth[p] = a} = {}
                                 /\ {s \in {} : SourceAuth[s] = a} = {}
      OBVIOUS
    <3> QED
      BY <1>3, <1>4, <3>1 DEF AuthorityRefs
  <2>2. refs = [a \in Authorities |-> 0] /\ \A a \in Authorities : hosts[a].last = 0
    BY DEF Init
  <2> QED
    BY <2>1, <2>2 DEF HostsReferenced
<1>12. ResultsBehind
  BY <1>1, <1>2 DEF ResultsBehind
<1> QED
  BY <1>8, <1>9, <1>10, <1>11, <1>12 DEF Agreed

(* FrontierInv is inductive, beside NumbersDrawn.                          *)
LEMMA FrontierInvInductive ==
  /\ Init => FrontierInv /\ NumbersDrawn
  /\ FrontierInv /\ NumbersDrawn /\ [Next]_vars => (FrontierInv /\ NumbersDrawn)' /\ StopsWithReason
<1>1. Init => FrontierInv /\ NumbersDrawn
  BY TypeInit, AgreedStart, NumbersDrawnInit DEF FrontierInv
<1>2. ASSUME FrontierInv, NumbersDrawn, [Next]_vars
      PROVE  (FrontierInv /\ NumbersDrawn)' /\ StopsWithReason
  <2>1. TypeOK /\ Agreed /\ ResultsBehind
    BY <1>2 DEF FrontierInv
  <2>2. TypeOK' /\ (Quiet \/ Granted \/ Finished)
    BY <1>2, <2>1, StepEffect
  <2>3. Agreed' /\ StopsWithReason
    BY <1>2, <2>1, StepAgrees
  <2>4. NumbersDrawn'
    BY <1>2, <2>1, <2>2, NumbersDrawnNext
  <2>5. SequenceCoversLeases
    BY <2>1 DEF Agreed, Good, RecordsGood, PageGood, SourceGood, SequenceCoversLeases
  <2>6. ResultsBehind'
    BY <1>2, <2>1, <2>2, <2>5, ResultsStayBehind
  <2> QED
    BY <2>2, <2>3, <2>4, <2>6 DEF FrontierInv
<1> QED
  BY <1>1, <1>2

(* A store in agreement passes every check of Open.                        *)
LEMMA AgreedOpens ==
  ASSUME TypeOK, Agreed
  PROVE  OpenAccepts
<1>1. /\ RecordsGood(entries, sources, seq) /\ SnapshotsGood(entries, sources, pageOf, childOf)
      /\ SnapshotsFit(pageOf, childOf) /\ LinksGood(entries, links, policy)
      /\ SourcesFollow(sources, childOf) /\ IndexesExact /\ HostsReferenced
  BY DEF Agreed, Good
<1>2. RecordsDecode
  <2>1. ASSUME NEW p \in Present(entries, Pages), NEW e, e = entries[p]
        PROVE  CASE e.state \in Schedulable -> e.due # 0 /\ e.until = 0
                 [] e.state = "leased" -> e.until # 0 /\ e.gen # 0
                 [] OTHER -> e.due = 0 /\ e.until = 0
    <3>1. PageGood(e, seq) /\ e.state # "absent" /\ e.state \in PageStates
      BY <1>1, <2>1 DEF RecordsGood, Present, TypeOK, Entry
    <3> QED
      BY <3>1 DEF PageGood, Schedulable, PageStates
  <2>2. ASSUME NEW s \in Present(sources, Sources), NEW r, r = sources[s]
        PROVE  CASE r.state \in SourceSchedulable -> r.due # 0 /\ r.until = 0
                 [] r.state = "leased" -> r.until # 0 /\ r.gen # 0
                 [] OTHER -> r.due = 0 /\ r.until = 0
    <3>1. /\ SourceGood(r, seq) /\ r.state # "absent"
          /\ r.state \in PageStates \ {"rejected"}
      BY <1>1, <2>2 DEF RecordsGood, Present, TypeOK, Source
    <3> QED
      BY <3>1 DEF SourceGood, SourceSchedulable, PageStates
  <2> QED
    BY <2>1, <2>2 DEF RecordsDecode
<1>3. SequenceCoversLeases
  BY <1>1 DEF RecordsGood, PageGood, SourceGood, SequenceCoversLeases
<1>4. DiscoveryValid
  <2>1. \A s \in Sources : sources[s].configured => SourceRoot[s] = s /\ sources[s].depth = 0
    BY <1>1 DEF RecordsGood, SourcesFollow
  <2>2. /\ Cardinality(Present(sources, Sources)) <= MaxSources
        /\ Present(sources, Sources) \subseteq Sources
    BY <1>1 DEF RecordsGood, Present
  <2> QED
    BY <1>1, <2>1, <2>2 DEF SnapshotsGood, SnapshotsFit, DiscoveryValid
<1>5. LinksValid
  BY <1>1 DEF LinksGood, LinksValid
<1>6. Cardinality(Present(entries, Pages)) <= MaxEntries
  BY <1>1 DEF RecordsGood
<1> QED
  BY <1>1, <1>2, <1>3, <1>4, <1>5, <1>6 DEF OpenAccepts

(* A store in agreement has the schedule its graphs ask for.               *)
LEMMA AgreedFollows ==
  ASSUME Agreed
  PROVE  ScheduleFollowsOwnership
<1>1. SourcesFollow(sources, childOf) /\ PagesFollow(entries, sources, pageOf, links)
  BY DEF Agreed
<1> QED
  BY <1>1 DEF SourcesFollow, PagesFollow, Alive, ScheduleFollowsOwnership

(* Whatever calls, crashes and restarts came before, the store is one the  *)
(* next Open accepts: the index buckets maintained a key at a time are     *)
(* what a rebuild would give, every host in use is counted, the graphs are *)
(* closed and within their caps (initializeOrValidate and its parts).      *)
THEOREM FrontierReopens == Spec => []AllReopen
<1>1. FrontierInv => AllReopen
  BY AgreedOpens DEF FrontierInv, AllReopen
<1> QED
  BY <1>1, FrontierInvInductive, PTL DEF Spec

(* After every transaction, also those that do not reconcile, the live     *)
(* sources are those a chain of falling depth leads to from a configured   *)
(* root, and a page is disabled for want of an owner iff it has none       *)
(* (reconcileDiscoveryState).                                              *)
THEOREM ScheduleIsOwned == Spec => []ScheduleFollowsOwnership
<1>1. FrontierInv => ScheduleFollowsOwnership
  BY AgreedFollows DEF FrontierInv
<1> QED
  BY <1>1, FrontierInvInductive, PTL DEF Spec

(* A page that is being crawled stops only in a transaction that takes its *)
(* last owner or that records its worker's outcome.                        *)
THEOREM OwnedPagesStay == Spec => OwnedStaysActive
  BY FrontierInvInductive, PTL DEF Spec, OwnedStaysActive
=============================================================================
