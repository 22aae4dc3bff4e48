--------------------------- MODULE CrawlFrontier ---------------------------
(***************************************************************************)
(* The durable crawl frontier (internal/adapters/crawlfrontier): pages and *)
(* discovery sources waiting to be fetched, the graphs that say which of   *)
(* them is wanted and why, the leases handed to workers and the dispatch   *)
(* reservation of every host.  Each operation is one bbolt transaction, so *)
(* each is one action here; an operation that returns an error rolls back  *)
(* and is a stuttering step.  Workers keep a copy of the lease they were   *)
(* given, which goes stale while they sleep and fetch.                     *)
(***************************************************************************)
EXTENDS Integers, FiniteSets

CONSTANTS
  Pages, Sources,         \* identities, numbered in key order
  Jobs, Authorities, Workers,
  PageJob, PageAuth,      \* job and authority of a page's URL
  SourceJob, SourceAuth,
  SourceRoot,             \* the configured root a source's key is scoped to
  MaxEntries, MaxSources, MaxMemberships, MaxSourceEdges, MaxLinkEdges,
  MaxPagesPerSource, MaxChildrenPerSource, MaxLinksPerPage, MaxSourceDepth,
  LeaseTTL,
  Delays,                 \* distances from now to the next eligible time
  Intervals,              \* minimum host intervals the jobs may ask for
  PruneLimits,            \* limits PruneDisabled may be called with
  MaxTime,                \* bound on the clock
  MaxSeq                  \* the last lease number (2^64-1 in the code)

ASSUME KeysAssumption ==
  /\ Pages \subseteq Nat /\ IsFiniteSet(Pages)
  /\ Sources \subseteq Nat /\ IsFiniteSet(Sources)
ASSUME IdentityAssumption ==
  /\ PageJob \in [Pages -> Jobs] /\ PageAuth \in [Pages -> Authorities]
  /\ SourceJob \in [Sources -> Jobs] /\ SourceAuth \in [Sources -> Authorities]
  /\ SourceRoot \in [Sources -> Sources]
ASSUME LimitsAssumption ==
  /\ {MaxEntries, MaxSources, MaxMemberships, MaxSourceEdges, MaxLinkEdges,
      MaxPagesPerSource, MaxChildrenPerSource, MaxLinksPerPage,
      MaxSourceDepth, MaxTime, MaxSeq} \subseteq Nat
  /\ LeaseTTL \in Nat \ {0}
  /\ Delays \subseteq Nat /\ Intervals \subseteq Nat \ {0}
  /\ PruneLimits \subseteq Nat \ {0}

VARIABLES
  entries, sources,       \* the two record buckets, total: "absent" = no key
  pageOf,                 \* source_pages / page_sources: <<source, page>>
  childOf,                \* source_children / child_parents: <<parent, child>>
  links,                  \* page_links / link_parents: <<parent, child>>
  policy,                 \* link_policies: links per page, 0 = not enabled
  due, leases,            \* page indexes: <<eligible, page>>, <<expiry, page>>
  srcDue, srcLeases,      \* the same for sources
  hosts, refs,            \* dispatch state and reference count per authority
  seq,                    \* the lease sequence in the meta bucket
  now,                    \* the clock every caller reads
  work,                   \* the lease each worker believes it holds
  result,                 \* history: lease whose outcome was recorded last
  dispatch                \* history: last dispatch ever granted per authority

graph == <<pageOf, childOf, links>>
indexes == <<due, leases, srcDue, srcLeases>>
store == <<entries, sources, graph, policy, indexes, hosts, refs, seq>>
vars == <<store, now, work, result, dispatch>>

Items == ({"page"} \X Pages) \cup ({"source"} \X Sources)

-----------------------------------------------------------------------------
(* Records.  0 is the zero time; "orphaned" stands for the one reason the  *)
(* code reads back, "page ownership removed".                              *)
PageStates == {"absent", "queued", "leased", "succeeded", "rejected",
               "retry", "disabled"}
Schedulable == {"queued", "retry", "succeeded", "rejected"}
SourceSchedulable == {"queued", "retry", "succeeded"}

Entry == [state : PageStates, due : Nat, until : Nat, gen : Nat,
          attempts : Nat, orphaned : BOOLEAN, explicit : BOOLEAN]
Source == [state : PageStates \ {"rejected"}, due : Nat, until : Nat,
           gen : Nat, configured : BOOLEAN, depth : Nat,
           hasSnapshot : BOOLEAN]
Lease == [kind : {"idle", "page", "source"}, key : Nat, gen : Nat,
          expand : BOOLEAN, depth : Nat]

NoPage == [state |-> "absent", due |-> 0, until |-> 0, gen |-> 0,
           attempts |-> 0, orphaned |-> FALSE, explicit |-> FALSE]
NoSource == [state |-> "absent", due |-> 0, until |-> 0, gen |-> 0,
             configured |-> FALSE, depth |-> 0, hasSnapshot |-> FALSE]
Idle == [kind |-> "idle", key |-> 0, gen |-> 0, expand |-> FALSE,
         depth |-> 0]

NewPage(explicit) == [NoPage EXCEPT !.state = "queued", !.due = now,
                                    !.explicit = explicit]
Requeued(e) == [e EXCEPT !.state = "queued", !.due = now, !.until = 0,
                         !.orphaned = FALSE]
Orphaned(e) == [e EXCEPT !.state = "disabled", !.due = 0, !.until = 0,
                         !.orphaned = TRUE]

Present(recs, K) == {k \in K : recs[k].state # "absent"}

-----------------------------------------------------------------------------
(* Indexes, as rebuilt from the records.                                   *)
PageDueIndex(ents) ==
  {<<ents[p].due, p>> : p \in {q \in Pages : ents[q].state \in Schedulable}}
PageLeaseIndex(ents) ==
  {<<ents[p].until, p>> : p \in {q \in Pages : ents[q].state = "leased"}}
SourceDueIndex(srcs) ==
  {<<srcs[s].due, s>> :
     s \in {z \in Sources : srcs[z].state \in SourceSchedulable}}
SourceLeaseIndex(srcs) ==
  {<<srcs[s].until, s>> : s \in {z \in Sources : srcs[z].state = "leased"}}
AuthorityRefs(ents, srcs) ==
  [a \in Authorities |->
     Cardinality({p \in Present(ents, Pages) : PageAuth[p] = a})
     + Cardinality({s \in Present(srcs, Sources) : SourceAuth[s] = a})]

(* Cursor order of an index bucket: by time, then by key.                  *)
IsFirst(x, S) ==
  \A y \in S : x[1] < y[1] \/ (x[1] = y[1] /\ x[2] <= y[2])

-----------------------------------------------------------------------------
(* Ownership.                                                              *)

WithinAnyParent(srcs, edges) ==   \* slip: the parent need not be reachable
  [d \in 0..MaxSourceDepth |->
     {s \in Sources : srcs[s].configured
                      \/ \E p \in Sources : <<p, s>> \in edges}]

(* The sources within d hops of a configured root, for each depth d.       *)
Within(srcs, edges) ==
  LET R[d \in 0..MaxSourceDepth] ==
        IF d = 0 THEN {s \in Sources : srcs[s].configured}
        ELSE LET near == R[d - 1]
             IN  near \cup {e[2] : e \in {x \in edges : x[1] \in near}}
  IN  R

AllSnapshots(rel, K) == rel   \* slip: a kind change keeps the old snapshot

WithoutSnapshots(rel, K) == {e \in rel : e[1] \notin K}

BaseOwned(p, ents, srcs, mem) ==
  \/ ents[p].explicit
  \/ \E s \in Sources : /\ <<s, p>> \in mem
                        /\ srcs[s].state \notin {"absent", "disabled"}
LinkOwned(p, ents, srcs, mem, lnk) ==
  \E q \in Pages : /\ <<q, p>> \in lnk
                   /\ ents[q].state # "absent"
                   /\ BaseOwned(q, ents, srcs, mem)
Owned(p, ents, srcs, mem, lnk) ==
  BaseOwned(p, ents, srcs, mem) \/ LinkOwned(p, ents, srcs, mem, lnk)

(* Reachable sources take the length of their shortest path as depth and   *)
(* leave the disabled state; all others enter it.                          *)
ReconciledSources(srcs, edges, t) ==
  LET within == Within(srcs, edges)
      hops(s) == Cardinality({d \in 0..MaxSourceDepth : s \notin within[d]})
  IN  [s \in Sources |->
         IF srcs[s].state = "absent" THEN srcs[s]
         ELSE IF s \notin within[MaxSourceDepth]
              THEN [srcs[s] EXCEPT !.state = "disabled", !.due = 0,
                                   !.until = 0]
              ELSE IF srcs[s].state = "disabled"
                   THEN [srcs[s] EXCEPT !.state = "queued", !.due = t,
                                        !.depth = hops(s)]
                   ELSE [srcs[s] EXCEPT !.depth = hops(s)]]

ReconciledPagesDirectOnly(ents, srcs, mem, lnk, t) ==   \* slip: links forgotten
  [p \in Pages |-> IF ents[p].state \in {"absent", "disabled"}
                   THEN ents[p]
                   ELSE IF BaseOwned(p, ents, srcs, mem) THEN ents[p]
                        ELSE Orphaned(ents[p])]

ReconciledPages(ents, srcs, mem, lnk, t) ==
  [p \in Pages |->
     IF ents[p].state = "absent" THEN ents[p]
     ELSE IF ~Owned(p, ents, srcs, mem, lnk)
          THEN IF ents[p].state # "disabled" THEN Orphaned(ents[p])
                                             ELSE ents[p]
          ELSE IF ents[p].state = "disabled" /\ ents[p].orphaned
               THEN [Requeued(ents[p]) EXCEPT !.due = t]
               ELSE ents[p]]

(* The tail every graph-changing transaction ends with: recompute who owns *)
(* what, queue or disable accordingly, rebuild every derived bucket.       *)
Reconcile(ents, srcs, mem, edges, lnk, t) ==
  LET rs == ReconciledSources(srcs, edges, t)
      re == ReconciledPages(ents, rs, mem, lnk, t)
  IN  /\ sources' = rs /\ entries' = re
      /\ pageOf' = mem /\ childOf' = edges /\ links' = lnk
      /\ due' = PageDueIndex(re) /\ leases' = PageLeaseIndex(re)
      /\ srcDue' = SourceDueIndex(rs) /\ srcLeases' = SourceLeaseIndex(rs)
      /\ refs' = AuthorityRefs(re, rs)

-----------------------------------------------------------------------------
(* Expired leases, found through the expiry index.                         *)
Expired(idx) == {x \in idx : x[1] <= now}
ExpiryIndexAgrees(recs, idx) ==
  \A x \in Expired(idx) : recs[x[2]].state = "leased"
                          /\ recs[x[2]].until = x[1]
RecoveredPages(ents, idx) ==
  [p \in Pages |-> IF \E x \in Expired(idx) : x[2] = p
                   THEN [ents[p] EXCEPT !.state = "retry", !.due = now,
                                        !.until = 0, !.orphaned = FALSE]
                   ELSE ents[p]]
RecoveredSources(srcs, idx) ==
  [s \in Sources |-> IF \E x \in Expired(idx) : x[2] = s
                     THEN [srcs[s] EXCEPT !.state = "retry", !.due = now,
                                          !.until = 0]
                     ELSE srcs[s]]
Recovered(idx) == {<<now, x[2]>> : x \in Expired(idx)}

Init ==
  /\ entries = [p \in Pages |-> NoPage]
  /\ sources = [s \in Sources |-> NoSource]
  /\ pageOf = {} /\ childOf = {} /\ links = {}
  /\ policy = [j \in Jobs |-> 0]
  /\ due = {} /\ leases = {} /\ srcDue = {} /\ srcLeases = {}
  /\ hosts = [a \in Authorities |-> [last |-> 0, interval |-> 0]]
  /\ refs = [a \in Authorities |-> 0]
  /\ seq = 0 /\ now = 1
  /\ work = [w \in Workers |-> Idle]
  /\ result = [i \in Items |-> 0]
  /\ dispatch = [a \in Authorities |-> [last |-> 0, interval |-> 0]]

-----------------------------------------------------------------------------
(* Operator configuration.                                                 *)

(* A complete set S of explicit seeds replaces the previous one.           *)
SyncSeeds(S) ==
  LET seeded == [p \in Pages |->
        IF p \in S
        THEN IF entries[p].state = "absent" THEN NewPage(TRUE)
             ELSE IF entries[p].state = "disabled"
                  THEN [Requeued(entries[p]) EXCEPT !.explicit = TRUE]
                  ELSE [entries[p] EXCEPT !.explicit = TRUE]
        ELSE IF ~entries[p].explicit THEN entries[p]
             ELSE IF \E s \in Sources : <<s, p>> \in pageOf
                  THEN [entries[p] EXCEPT !.explicit = FALSE]
                  ELSE [Orphaned(entries[p]) EXCEPT !.explicit = FALSE]]
  IN  /\ Cardinality(Present(entries, Pages) \cup S) <= MaxEntries
      /\ Reconcile(seeded, sources, pageOf, childOf, links, now)
      /\ UNCHANGED <<policy, hosts, seq, now, work, result, dispatch>>

(* A complete set S of configured roots; K are those whose kind changed.   *)
SyncDiscoverySources(S, K) ==
  LET synced == [s \in Sources |->
        CASE s \in S /\ sources[s].state = "absent" ->
               [NoSource EXCEPT !.state = "queued", !.due = now,
                                !.configured = TRUE]
          [] s \in K ->
               [sources[s] EXCEPT !.state = "queued", !.due = now,
                  !.until = 0, !.configured = TRUE, !.hasSnapshot = FALSE]
          [] s \in S \ K /\ sources[s].state = "disabled" ->
               [sources[s] EXCEPT !.state = "queued", !.due = now,
                  !.until = 0, !.configured = TRUE]
          [] s \in S \ K /\ sources[s].state \notin {"absent", "disabled"} ->
               [sources[s] EXCEPT !.configured = TRUE]
          [] OTHER -> [sources[s] EXCEPT !.configured = FALSE]]
  IN  /\ Cardinality(Present(sources, Sources) \cup S) <= MaxSources
      /\ Reconcile(entries, synced,
                   WithoutSnapshots(pageOf, K), WithoutSnapshots(childOf, K),
                   links, now)
      /\ UNCHANGED <<policy, hosts, seq, now, work, result, dispatch>>

LinksOfOtherJobs(changed) == {e \in links : PageJob[e[1]] \notin changed}

(* A complete per-job policy; the pages of the jobs whose policy changed   *)
(* lose their link snapshots, and the directly owned ones start over.      *)
SyncLinkPolicies(new) ==
  LET changed == {j \in Jobs : new[j] # policy[j]}
      restarted == [p \in Pages |->
        IF /\ entries[p].state # "absent"
           /\ PageJob[p] \in changed
           /\ BaseOwned(p, entries, sources, pageOf)
        THEN [Requeued(entries[p]) EXCEPT !.attempts = 0]
        ELSE entries[p]]
  IN  /\ changed # {}
      /\ policy' = new
      /\ Reconcile(restarted, sources, pageOf, childOf,
                   LinksOfOtherJobs(changed), now)
      /\ UNCHANGED <<hosts, seq, now, work, result, dispatch>>

(* Deletes the first n disabled pages nothing refers to, and the dispatch  *)
(* state of every host that no record refers to any more.                  *)
PruneDisabled(n) ==
  LET gone(p) == /\ entries[p].state = "disabled"
                 /\ ~\E s \in Sources : <<s, p>> \in pageOf
                 /\ ~\E q \in Pages : <<p, q>> \in links \/ <<q, p>> \in links
      doomed == {p \in Pages :
                   gone(p) /\ Cardinality({q \in Pages : gone(q) /\ q < p}) < n}
      kept == [p \in Pages |-> IF p \in doomed THEN NoPage ELSE entries[p]]
  IN  /\ entries' = kept
      /\ refs' = AuthorityRefs(kept, sources)
      /\ hosts' = [a \in Authorities |->
                     IF refs'[a] = 0 THEN [last |-> 0, interval |-> 0]
                                     ELSE hosts[a]]
      /\ due' = PageDueIndex(kept) /\ leases' = PageLeaseIndex(kept)
      /\ UNCHANGED <<sources, graph, policy, srcDue, srcLeases, seq, now,
                     work, result, dispatch>>

-----------------------------------------------------------------------------
(* Pages.                                                                  *)

DuePages(j) ==
  {x \in due \cup Recovered(leases) : x[1] <= now /\ PageJob[x[2]] = j}

(* LeaseDueJob finds nothing due; expired leases are recovered all the same.*)
LeaseNoPage(w, j) ==
  /\ work[w] = Idle
  /\ ExpiryIndexAgrees(entries, leases)
  /\ DuePages(j) = {}
  /\ entries' = RecoveredPages(entries, leases)
  /\ due' = due \cup Recovered(leases)
  /\ leases' = leases \ Expired(leases)
  /\ UNCHANGED <<sources, graph, policy, srcDue, srcLeases, hosts, refs, seq,
                 now, work, result, dispatch>>

(* The worker asks for one page of job j.                                  *)
LeasePage(w, j) ==
  LET recovered == RecoveredPages(entries, leases)
  IN  /\ work[w] = Idle
      /\ ExpiryIndexAgrees(entries, leases)
      /\ seq < MaxSeq
      /\ \E x \in DuePages(j) :
           LET p == x[2]
               e == recovered[p]
           IN /\ IsFirst(x, DuePages(j))
              /\ e.state \in Schedulable /\ e.due = x[1]
              /\ entries' = [recovered EXCEPT ![p] =
                   [e EXCEPT !.state = "leased", !.gen = seq + 1,
                             !.until = now + LeaseTTL,
                             !.attempts = e.attempts + 1]]
              /\ due' = (due \cup Recovered(leases)) \ {x}
              /\ leases' = (leases \ Expired(leases))
                           \cup {<<now + LeaseTTL, p>>}
              /\ work' = [work EXCEPT ![w] =
                   [kind |-> "page", key |-> p, gen |-> seq + 1, depth |-> 0,
                    expand |-> BaseOwned(p, entries, sources, pageOf)
                               /\ policy[j] > 0]]
      /\ seq' = seq + 1
      /\ UNCHANGED <<sources, graph, policy, srcDue, srcLeases, hosts, refs,
                     now, result, dispatch>>

LeasedAtAll(w) ==   \* slip: the generation is not compared
  work[w].kind = "page" /\ entries[work[w].key].state = "leased"

(* The lease a worker holds is still the one on record.                    *)
PageLeaseCurrent(w) ==
  LET e == entries[work[w].key]
  IN  /\ work[w].kind = "page"
      /\ e.state = "leased"
      /\ e.gen = work[w].gen

CompletedEarly(e, outcome, d) ==   \* slip: the delay is subtracted
  [e EXCEPT !.state = outcome, !.until = 0, !.orphaned = FALSE,
            !.due = IF outcome = "disabled" THEN 0 ELSE now - 1 - d]

Completed(e, outcome, d) ==
  [e EXCEPT !.state = outcome,
            !.due = IF outcome = "disabled" THEN 0 ELSE now + d,
            !.until = 0, !.orphaned = FALSE,
            !.attempts = IF outcome \in {"succeeded", "rejected"} THEN 0
                         ELSE @]

Complete(w, outcome, d) ==
  LET p == work[w].key
      done == Completed(entries[p], outcome, d)
  IN  /\ PageLeaseCurrent(w)
      /\ entries' = [entries EXCEPT ![p] = done]
      /\ leases' = leases \ {<<entries[p].until, p>>}
      /\ due' = IF outcome \in Schedulable THEN due \cup {<<done.due, p>>}
                                           ELSE due
      /\ result' = [result EXCEPT ![<<"page", p>>] = work[w].gen]
      /\ work' = [work EXCEPT ![w] = Idle]
      /\ UNCHANGED <<sources, graph, policy, srcDue, srcLeases, hosts, refs,
                     seq, now, dispatch>>

LinksFit(p, L) ==
  /\ Cardinality(Present(entries, Pages) \cup L) <= MaxEntries
  /\ Cardinality({e \in links : e[1] # p}) + Cardinality(L) <= MaxLinkEdges

(* Success carries the complete set L of the page's links, a rejection     *)
(* clears it.                                                              *)
CompleteWithLinks(w, outcome, d, L) ==
  LET p == work[w].key
      others == {e \in links : e[1] # p}
      done == [q \in Pages |->
                 IF q = p THEN Completed(entries[p], outcome, d)
                 ELSE IF q \in L /\ entries[q].state = "absent"
                      THEN NewPage(FALSE) ELSE entries[q]]
  IN  /\ PageLeaseCurrent(w)
      /\ BaseOwned(p, entries, sources, pageOf)
      /\ \/ outcome = "rejected" /\ L = {}
         \/ /\ outcome = "succeeded"
            /\ policy[PageJob[p]] > 0
            /\ Cardinality(L) <= policy[PageJob[p]]
      /\ \A q \in L : q # p /\ PageJob[q] = PageJob[p]
      /\ LinksFit(p, L)
      /\ Reconcile(done, sources, pageOf, childOf,
                   others \cup ({p} \X L), now)
      /\ result' = [result EXCEPT ![<<"page", p>>] = work[w].gen]
      /\ work' = [work EXCEPT ![w] = Idle]
      /\ UNCHANGED <<policy, hosts, seq, now, dispatch>>

(* A completion refused (stale lease, ownership lost, a cap reached): the  *)
(* worker is told and walks away, the record is as it was.                 *)
GiveUp(w) ==
  /\ work[w] # Idle
  /\ work' = [work EXCEPT ![w] = Idle]
  /\ UNCHANGED <<store, now, result, dispatch>>

-----------------------------------------------------------------------------
(* Discovery sources.                                                      *)

DueSources(j) ==
  {x \in srcDue \cup Recovered(srcLeases) :
     x[1] <= now /\ SourceJob[x[2]] = j}

LeaseNoSource(w, j) ==
  /\ work[w] = Idle
  /\ ExpiryIndexAgrees(sources, srcLeases)
  /\ DueSources(j) = {}
  /\ sources' = RecoveredSources(sources, srcLeases)
  /\ srcDue' = srcDue \cup Recovered(srcLeases)
  /\ srcLeases' = srcLeases \ Expired(srcLeases)
  /\ UNCHANGED <<entries, graph, policy, due, leases, hosts, refs, seq, now,
                 work, result, dispatch>>

LeaseSource(w, j) ==
  LET recovered == RecoveredSources(sources, srcLeases)
  IN  /\ work[w] = Idle
      /\ ExpiryIndexAgrees(sources, srcLeases)
      /\ seq < MaxSeq
      /\ \E x \in DueSources(j) :
           LET s == x[2]
               r == recovered[s]
           IN /\ IsFirst(x, DueSources(j))
              /\ r.state \in SourceSchedulable /\ r.due = x[1]
              /\ sources' = [recovered EXCEPT ![s] =
                   [r EXCEPT !.state = "leased", !.gen = seq + 1,
                             !.until = now + LeaseTTL]]
              /\ srcDue' = (srcDue \cup Recovered(srcLeases)) \ {x}
              /\ srcLeases' = (srcLeases \ Expired(srcLeases))
                              \cup {<<now + LeaseTTL, s>>}
              /\ work' = [work EXCEPT ![w] =
                   [kind |-> "source", key |-> s, gen |-> seq + 1,
                    expand |-> FALSE, depth |-> r.depth]]
      /\ seq' = seq + 1
      /\ UNCHANGED <<entries, graph, policy, due, leases, hosts, refs, now,
                     result, dispatch>>

SourceLeaseCurrent(w) ==
  LET r == sources[work[w].key]
  IN  /\ work[w].kind = "source"
      /\ r.state = "leased"
      /\ r.gen = work[w].gen

(* The shared ending of the three source completions.  A retry and a       *)
(* preserved snapshot reconcile as of the NEXT eligible time t, an applied *)
(* snapshot as of now.                                                     *)
SourceDone(w, ents, srcs, mem, edges, t) ==
  /\ Reconcile(ents, srcs, mem, edges, links, t)
  /\ result' = [result EXCEPT ![<<"source", work[w].key>>] = work[w].gen]
  /\ work' = [work EXCEPT ![w] = Idle]
  /\ UNCHANGED <<policy, hosts, seq, now, dispatch>>

CompleteDiscoverySource(w, d) ==
  LET s == work[w].key
  IN  /\ SourceLeaseCurrent(w)
      /\ SourceDone(w, entries,
           [sources EXCEPT ![s] =
              [@ EXCEPT !.state = "retry", !.due = now + d, !.until = 0]],
           pageOf, childOf, now + d)

PreserveDiscoverySnapshot(w, d) ==
  LET s == work[w].key
  IN  /\ SourceLeaseCurrent(w)
      /\ sources[s].hasSnapshot
      /\ SourceDone(w, entries,
           [sources EXCEPT ![s] =
              [@ EXCEPT !.state = "succeeded", !.due = now + d, !.until = 0]],
           pageOf, childOf, now + d)

SnapshotFits(s, P, C) ==
  /\ Cardinality(Present(entries, Pages) \cup P) <= MaxEntries
  /\ Cardinality(Present(sources, Sources) \cup C) <= MaxSources
  /\ Cardinality({e \in pageOf : e[1] # s} \cup ({s} \X P)) <= MaxMemberships
  /\ Cardinality({e \in childOf : e[1] # s} \cup ({s} \X C))
       <= MaxSourceEdges

(* The document listed exactly the pages P and the child sources C.  The   *)
(* caller computed the children's depth from its copy of the lease.        *)
ApplyDiscoverySnapshot(w, P, C, d) ==
  LET s == work[w].key
      mem == {e \in pageOf : e[1] # s} \cup ({s} \X P)
      edges == {e \in childOf : e[1] # s} \cup ({s} \X C)
      listed == [p \in Pages |->
        IF p \notin P THEN entries[p]
        ELSE IF entries[p].state = "absent" THEN NewPage(FALSE)
        ELSE IF entries[p].state = "disabled" /\ entries[p].orphaned
             THEN Requeued(entries[p]) ELSE entries[p]]
      grown == [c \in Sources |->
        CASE c = s ->
               [sources[s] EXCEPT !.state = "succeeded", !.due = now + d,
                                  !.until = 0, !.hasSnapshot = TRUE]
          [] c \in C \ {s} /\ sources[c].state = "absent" ->
               [NoSource EXCEPT !.state = "queued", !.due = now,
                                !.depth = sources[s].depth + 1]
          [] c \in C \ {s} /\ sources[c].state = "disabled" ->
               [sources[c] EXCEPT !.state = "queued", !.due = now]
          [] OTHER -> sources[c]]
  IN  /\ SourceLeaseCurrent(w)
      /\ Cardinality(P) <= MaxPagesPerSource
      /\ Cardinality(C) <= MaxChildrenPerSource
      /\ \A p \in P : PageJob[p] = SourceJob[s]
      /\ \A c \in C : /\ c \notin {s, SourceRoot[s]}
                      /\ SourceRoot[c] = SourceRoot[s]
                      /\ SourceJob[c] = SourceJob[s]
      /\ C # {} => /\ sources[s].depth < MaxSourceDepth
                   /\ work[w].depth = sources[s].depth
      /\ SnapshotFits(s, P, C)
      /\ SourceDone(w, listed, grown, mem, edges, now)

-----------------------------------------------------------------------------
(* Host reservations.  A blocked reservation writes nothing: the worker    *)
(* sleeps and asks again.                                                  *)
WorkAuthority(w) == IF work[w].kind = "page" THEN PageAuth[work[w].key]
                                             ELSE SourceAuth[work[w].key]
Larger(a, b) == IF a > b THEN a ELSE b

RestedOwnInterval(a, interval) ==   \* slip: only the caller's interval
  hosts[a].last = 0 \/ hosts[a].last + interval <= now

Rested(a, interval) ==
  \/ hosts[a].last = 0
  \/ hosts[a].last + Larger(interval, hosts[a].interval) <= now

ReserveHost(w, interval) ==
  LET a == WorkAuthority(w)
  IN  /\ work[w] # Idle
      /\ refs[a] > 0
      /\ Rested(a, interval)
      /\ hosts' = [hosts EXCEPT ![a] = [last |-> now, interval |-> interval]]
      /\ dispatch' = [dispatch EXCEPT
                        ![a] = [last |-> now, interval |-> interval]]
      /\ UNCHANGED <<entries, sources, graph, policy, indexes, refs, seq, now,
                     work, result>>

-----------------------------------------------------------------------------
(* What Open insists on before it will use the file.                       *)
RecordsDecode ==
  /\ \A p \in Present(entries, Pages) :
       LET e == entries[p] IN
       CASE e.state \in Schedulable -> e.due # 0 /\ e.until = 0
         [] e.state = "leased" -> e.until # 0 /\ e.gen # 0
         [] OTHER -> e.due = 0 /\ e.until = 0
  /\ \A s \in Present(sources, Sources) :
       LET r == sources[s] IN
       CASE r.state \in SourceSchedulable -> r.due # 0 /\ r.until = 0
         [] r.state = "leased" -> r.until # 0 /\ r.gen # 0
         [] OTHER -> r.due = 0 /\ r.until = 0
SequenceCoversLeases ==
  /\ \A p \in Pages : entries[p].gen <= seq
  /\ \A s \in Sources : sources[s].gen <= seq
IndexesExact ==
  /\ due = PageDueIndex(entries) /\ leases = PageLeaseIndex(entries)
  /\ srcDue = SourceDueIndex(sources)
  /\ srcLeases = SourceLeaseIndex(sources)
HostsReferenced ==
  /\ refs = AuthorityRefs(entries, sources)
  /\ \A a \in Authorities : hosts[a].last # 0 => refs[a] > 0
DiscoveryValid ==
  /\ Cardinality(Present(sources, Sources)) <= MaxSources
  /\ \A s \in Present(sources, Sources) :
       sources[s].configured => SourceRoot[s] = s /\ sources[s].depth = 0
  /\ \A e \in pageOf : /\ sources[e[1]].hasSnapshot
                       /\ entries[e[2]].state # "absent"
                       /\ SourceJob[e[1]] = PageJob[e[2]]
  /\ \A e \in childOf : /\ sources[e[1]].hasSnapshot
                        /\ sources[e[2]].state # "absent"
                        /\ SourceJob[e[1]] = SourceJob[e[2]]
                        /\ SourceRoot[e[1]] = SourceRoot[e[2]]
  /\ \A s \in Sources :
       /\ Cardinality({e \in pageOf : e[1] = s}) <= MaxPagesPerSource
       /\ Cardinality({e \in childOf : e[1] = s}) <= MaxChildrenPerSource
  /\ Cardinality(pageOf) <= MaxMemberships
  /\ Cardinality(childOf) <= MaxSourceEdges
LinksValid ==
  /\ \A e \in links : /\ e[1] # e[2]
                      /\ entries[e[1]].state # "absent"
                      /\ entries[e[2]].state # "absent"
                      /\ PageJob[e[1]] = PageJob[e[2]]
                      /\ policy[PageJob[e[1]]] > 0
  /\ \A p \in Pages : Cardinality({e \in links : e[1] = p})
                        <= policy[PageJob[p]]
  /\ Cardinality(links) <= MaxLinkEdges
OpenAccepts ==
  /\ RecordsDecode
  /\ Cardinality(Present(entries, Pages)) <= MaxEntries
  /\ SequenceCoversLeases
  /\ HostsReferenced
  /\ IndexesExact
  /\ DiscoveryValid
  /\ LinksValid

(* The process dies or is closed between two transactions and starts       *)
(* again: validate, reconcile, recover expired leases.  The leases of the  *)
(* dead workers stay on record until they expire.                          *)
Reopen ==
  LET rs == ReconciledSources(sources, childOf, now)
      re == ReconciledPages(entries, rs, pageOf, links, now)
      pl == PageLeaseIndex(re)
      sl == SourceLeaseIndex(rs)
  IN  /\ OpenAccepts
      /\ sources' = RecoveredSources(rs, sl)
      /\ entries' = RecoveredPages(re, pl)
      /\ due' = PageDueIndex(re) \cup Recovered(pl)
      /\ leases' = pl \ Expired(pl)
      /\ srcDue' = SourceDueIndex(rs) \cup Recovered(sl)
      /\ srcLeases' = sl \ Expired(sl)
      /\ refs' = AuthorityRefs(re, rs)
      /\ work' = [w \in Workers |-> Idle]
      /\ UNCHANGED <<graph, policy, hosts, seq, now, result, dispatch>>

Tick ==
  /\ now < MaxTime
  /\ now' = now + 1
  /\ UNCHANGED <<store, work, result, dispatch>>

Roots == {s \in Sources : SourceRoot[s] = s}

Next ==
  \/ \E S \in SUBSET Pages : SyncSeeds(S)
  \/ \E S \in SUBSET Roots :
       \E K \in SUBSET (S \cap Present(sources, Sources)) :
         SyncDiscoverySources(S, K)
  \/ \E new \in [Jobs -> 0..MaxLinksPerPage] : SyncLinkPolicies(new)
  \/ \E n \in PruneLimits : PruneDisabled(n)
  \/ \E w \in Workers, j \in Jobs :
       \/ LeasePage(w, j) \/ LeaseNoPage(w, j)
       \/ LeaseSource(w, j) \/ LeaseNoSource(w, j)
  \/ \E w \in Workers, d \in Delays :
       \/ \E o \in {"succeeded", "rejected", "retry", "disabled"} :
            Complete(w, o, d)
       \/ \E o \in {"succeeded", "rejected"}, L \in SUBSET Pages :
            CompleteWithLinks(w, o, d, L)
       \/ CompleteDiscoverySource(w, d)
       \/ PreserveDiscoverySnapshot(w, d)
       \/ \E P \in SUBSET Pages, C \in SUBSET Sources :
            ApplyDiscoverySnapshot(w, P, C, d)
  \/ \E w \in Workers : GiveUp(w)
  \/ \E w \in Workers, i \in Intervals : ReserveHost(w, i)
  \/ Reopen
  \/ Tick

Spec == Init /\ [][Next]_vars

-----------------------------------------------------------------------------
TypeOK ==
  /\ entries \in [Pages -> Entry]
  /\ sources \in [Sources -> Source]
  /\ pageOf \subseteq Sources \X Pages
  /\ childOf \subseteq Sources \X Sources
  /\ links \subseteq Pages \X Pages
  /\ policy \in [Jobs -> Nat]
  /\ due \subseteq Nat \X Pages /\ leases \subseteq Nat \X Pages
  /\ srcDue \subseteq Nat \X Sources /\ srcLeases \subseteq Nat \X Sources
  /\ hosts \in [Authorities -> [last : Nat, interval : Nat]]
  /\ refs \in [Authorities -> Nat]
  /\ seq \in Nat /\ now \in Nat \ {0}
  /\ work \in [Workers -> Lease]
  /\ \A w \in Workers : /\ work[w].kind = "page" => work[w].key \in Pages
                        /\ work[w].kind = "source" => work[w].key \in Sources
  /\ result \in [Items -> Nat]
  /\ dispatch \in [Authorities -> [last : Nat, interval : Nat]]

(* Whatever a history of calls leaves on disk, the next start accepts it:  *)
(* the records, the indexes maintained one key at a time, the counts of    *)
(* the hosts and the graphs agree (initializeOrValidate and its parts).    *)
AllReopen == OpenAccepts

(* After every transaction the schedule says exactly what the graphs say:  *)
(* a source is live iff a chain of live sources of falling depth leads to  *)
(* a configured root, a page nobody owns is disabled, and an owned page is *)
(* never left disabled for want of an owner.  The code recomputes this     *)
(* only in some transactions (reconcileDiscoveryState); the others must    *)
(* not need it.                                                            *)
ScheduleFollowsOwnership ==
  LET live == {s \in Sources : sources[s].state \notin {"absent", "disabled"}}
  IN  /\ \A s \in live :
           \/ sources[s].configured
           \/ \E r \in live : /\ <<r, s>> \in childOf
                              /\ sources[s].depth = sources[r].depth + 1
      /\ \A s \in Sources : sources[s].configured => s \in live
      /\ \A e \in childOf :
           e[1] \in live => \/ sources[e[1]].depth >= MaxSourceDepth
                            \/ /\ e[2] \in live
                               /\ sources[e[2]].depth <= sources[e[1]].depth + 1
      /\ \A p \in Present(entries, Pages) :
           IF Owned(p, entries, sources, pageOf, links)
           THEN entries[p].state = "disabled" => ~entries[p].orphaned
           ELSE entries[p].state = "disabled"

(* Leases as the workers see them: two workers never both hold a lease the *)
(* store would still honour for the same item, and no worker holds a       *)
(* number the sequence has not reached.                                    *)
HoldersDistinct ==
  /\ \A w \in Workers : work[w].gen <= seq
  /\ \A v, w \in Workers :
       /\ v # w /\ work[v] # Idle => work[v].gen # work[w].gen
       /\ v # w /\ PageLeaseCurrent(v) /\ PageLeaseCurrent(w)
            => work[v].key # work[w].key
       /\ v # w /\ SourceLeaseCurrent(v) /\ SourceLeaseCurrent(w)
            => work[v].key # work[w].key

(* Two dispatches to one authority are never closer than the larger of the *)
(* interval in force at the first and the one asked for by the second,     *)
(* whichever jobs and workers made them and whatever restarts lie between. *)
PoliteDispatch ==
  [][\A a \in Authorities :
       dispatch'[a] # dispatch[a] /\ dispatch[a].last # 0 =>
         dispatch'[a].last >= dispatch[a].last
           + Larger(dispatch[a].interval, dispatch'[a].interval)]_vars

(* A page that is being crawled stops being crawled only because its last  *)
(* owner went away or because the worker that held it said so.             *)
StopsWithReason ==
  \A p \in Pages :
     /\ entries[p].state \notin {"absent", "disabled"}
     /\ entries'[p].state \in {"absent", "disabled"}
     => \/ ~Owned(p, entries, sources, pageOf, links)'
        \/ result'[<<"page", p>>] # result[<<"page", p>>]
OwnedStaysActive == [][StopsWithReason]_vars

(* A worker's outcome reaches a record only if that worker was the last to *)
(* be given it; and leases, results and restarts follow the ledger.        *)
Ledger == INSTANCE LeaseLedger WITH
  MaxIssued <- MaxSeq,
  owner <- [i \in Items |->
              IF i[1] = "page"
              THEN IF entries[i[2]].state = "leased"
                   THEN entries[i[2]].gen ELSE 0
              ELSE IF sources[i[2]].state = "leased"
                   THEN sources[i[2]].gen ELSE 0],
  issued <- seq
LedgerRefined == Ledger!LedgerSpec
=============================================================================
