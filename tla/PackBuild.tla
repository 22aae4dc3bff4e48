------------------------------ MODULE PackBuild ------------------------------
(* fetchmark-pack-build: building and verifying index pack bundles         *)
(* (internal/adapters/openpackbuilder, internal/core/indexpackselection).  *)
(* A build selects records from a candidate stream under a specification   *)
(* and exclusions, checks more than once that the permissions it was given *)
(* last, and renames its staging directory into place; a delta build       *)
(* compares its selection with the records of a parent snapshot.  Time     *)
(* passes while it works, and builders may be killed, leaving their lock   *)
(* and staging directory behind.  The verifier reads bundles later.        *)
(*                                                                         *)
(* Digests and signatures are the contents they bind; compression, shards  *)
(* and languages are left out.  The profile is the lightweight one; the    *)
(* trial installation it asks for is reduced to the number of rows.        *)
EXTENDS Integers, Sequences, FiniteSets, FiniteSetsExt

CONSTANTS
  Streams,        (* <<[rows, completed, evidence]>>: candidates, the time *)
                  (* their merge completed, by the clock of its machine,    *)
                  (* and whether its report comes along.  A row:           *)
                  (* [url, host, text, html, captured, notice, admission], *)
                  (* the latter a [granted, from, until] for each of       *)
                  (* Decisions                                             *)
  ExclusionLists, (* sets of [urls, hosts]                                 *)
  PerHost,        (* max_records_per_host                                  *)
  MaxSelected,    (* max_records                                           *)
  Skew,           (* MaxBuildTimestampSkew                                 *)
  MinValidity,    (* MinimumCompletionValidity                             *)
  MaxAge,         (* max_permission_age_hours                              *)
  Lifetime,       (* from created_at to expires_at, at most                *)
  LastQuarter,    (* bound of the clock                                    *)
  Bundles         (* names of output directories                           *)

ASSUME BuildConstants ==
  /\ PerHost \in Nat \ {0} /\ MaxSelected \in Nat \ {0} /\ Lifetime \in Nat \ {0}
  /\ Skew \in Nat /\ MinValidity \in Nat /\ MaxAge \in Nat /\ LastQuarter \in Nat

VARIABLES
  quarter,    (* the clock of the build machine                            *)
  bundle,     (* the published bundles, or Unbuilt                         *)
  bundleLock, (* outputs whose lock file exists                            *)
  bundleWork, (* outputs whose staging directory exists                    *)
  build       (* the build that runs for each output, or NoBuild           *)

buildVars == <<quarter, bundle, bundleLock, bundleWork, build>>

Unbuilt == <<>>
NoBuild == <<>>
NoParent == <<>>
Gone == "tombstone"

PackBuildInit ==
  /\ quarter = 0
  /\ bundle = [b \in Bundles |-> Unbuilt] /\ bundleLock = {} /\ bundleWork = {}
  /\ build = [b \in Bundles |-> NoBuild]

-----------------------------------------------------------------------------
Rows(q) == Streams[q.stream].rows   \* of the stream a build reads

(* Select: rows in the order of the stream; what the capture rules out,    *)
(* stale decisions, excluded and repeated URLs, full hosts and a full pack *)
(* reject.  K are the positions of the rows it takes.                      *)
Decisions == {"robots", "indexing", "rights"}
ASSUME StreamConstants ==
  \A s \in DOMAIN Streams :
    LET rows == Streams[s].rows IN
    /\ Streams[s].completed \in Nat
    /\ Len(rows) \in Nat /\ DOMAIN rows = 1..Len(rows)
    /\ \A i \in DOMAIN rows :
         /\ rows[i].text # Gone /\ rows[i].captured \in Nat
         /\ \A d \in Decisions : /\ rows[i].admission[d].from \in Nat
                                /\ rows[i].admission[d].until \in Nat
Preflight(row, created) == row.html /\ row.captured <= created
InWindow(decision, row, created, t) ==
  /\ decision.from \in row.captured..t /\ t - decision.from <= MaxAge
  /\ decision.until > Max({t, created}) /\ decision.until > decision.from
Permitted(row, created, t) ==
  /\ Preflight(row, created)
  /\ \A d \in Decisions : row.admission[d].granted /\ InWindow(row.admission[d], row, created, t)
Excluded(row, exclusions) == row.url \in exclusions.urls \/ row.host \in exclusions.hosts
Taken(rows, kept, i, exclusions, created, t) ==
  /\ Permitted(rows[i], created, t) /\ ~Excluded(rows[i], exclusions)
  /\ \A k \in kept : rows[k].url # rows[i].url
  /\ Cardinality({k \in kept : rows[k].host = rows[i].host}) < PerHost
  /\ Cardinality(kept) < MaxSelected
Chosen(rows, K, exclusions, created, t) ==
  \A i \in DOMAIN rows :
    i \in K <=> Taken(rows, {k \in K : k < i}, i, exclusions, created, t)
AdmissionUntil(row) == Min({row.admission[d].until : d \in Decisions})
Earliest(rows, K) == Min({AdmissionUntil(rows[k]) : k \in K})
RecordsOf(rows, K) ==
  [u \in {rows[k].url : k \in K} |-> rows[CHOOSE k \in K : rows[k].url = u].text]

PermittedWhenSelected(b, t) ==   \* slip: as of created_at
  build[b].until > build[b].created
(* ValidateCompletion and, with an evidence report, the window it binds    *)
(* (validateEvidenceSelection) and the one rights decision of the stream   *)
(* (candidateRightsSummary).                                               *)
StillPermitted(b, t) == build[b].until > t + MinValidity
RightsAgree(rows) == \A j, k \in DOMAIN rows : rows[j].notice = rows[k].notice
EvidenceBinds(b, t) ==
  LET rows == Rows(build[b]) IN
  build[b].evidence => /\ RightsAgree(rows) /\ Earliest(rows, DOMAIN rows) <= build[b].until
                       /\ Earliest(rows, DOMAIN rows) > t + MinValidity
                       /\ Streams[build[b].stream].completed <= t + Skew

-----------------------------------------------------------------------------
(* The signed reports account for the selection and for what the bundle    *)
(* holds (BuildReport.validate, DeltaBuildReport.validate); builder and    *)
(* verifier both check them.  The verifier is given the parent's records.  *)
SelectionAccounts(r) ==
  /\ DOMAIN r.selected # {} /\ r.until > r.created
  /\ Len(Rows(r)) = Cardinality(DOMAIN r.selected) + r.rejected
SnapshotReportValid(r) ==
  /\ SelectionAccounts(r) /\ r.revision > 0
  /\ Cardinality(DOMAIN r.operations) = Cardinality(DOMAIN r.selected)
DeltaReportValid(r) ==
  /\ SelectionAccounts(r) /\ r.revision > 1 /\ DOMAIN r.operations # {}

Applied(parent, operations) ==
  [u \in {v \in DOMAIN parent \cup DOMAIN operations :
            v \notin DOMAIN operations \/ operations[v] # Gone} |->
     IF u \in DOMAIN operations THEN operations[u] ELSE parent[u]]
TrialInstalls(r) ==   \* ApplyDelta into a private root
  Cardinality(DOMAIN Applied(r.parent, r.operations)) = Cardinality(DOMAIN r.selected)
CarriedEvidenceFits(x) ==
  LET rows == Rows(x) IN
  x.evidence => /\ Earliest(rows, DOMAIN rows) <= x.until
                /\ Earliest(rows, DOMAIN rows) > x.created
                /\ Streams[x.stream].completed <= x.created + Skew
VerifySnapshot(x) == SnapshotReportValid(x) /\ CarriedEvidenceFits(x)
VerifyDelta(x) ==
  /\ DeltaReportValid(x) /\ TrialInstalls(x)
  /\ \A u \in DOMAIN x.operations : x.operations[u] = Gone => u \in DOMAIN x.parent

-----------------------------------------------------------------------------
(* build and buildDelta claim the lock exclusively; an output or staging   *)
(* directory that exists ends them.  A delta has verified its parent, a    *)
(* snapshot of the previous revision whose window covers it                *)
(* (validateDeltaSpec), in a directory apart from its own.                 *)
Datings == 0..(LastQuarter + Skew)   \* created_at, as the specification says
SpecValid(created, expires) == expires > created /\ expires - created <= Lifetime
ParentApart(b, p) == b # p
ParentFits(p, created, expires) ==
  /\ bundle[p] # Unbuilt /\ bundle[p].parent = NoParent
  /\ created >= bundle[p].created /\ created < bundle[p].expires /\ expires <= bundle[p].expires
StartBuild(b, stream, evidence, exclusions, created, expires, parent, revision) ==
  /\ build[b] = NoBuild /\ b \notin bundleLock
  /\ bundle[b] = Unbuilt /\ b \notin bundleWork
  /\ SpecValid(created, expires)
  /\ bundleLock' = bundleLock \cup {b} /\ bundleWork' = bundleWork \cup {b}
  /\ build' = [build EXCEPT ![b] =
       [at |-> "selecting", stream |-> stream, evidence |-> evidence,
        exclusions |-> exclusions, created |-> created, expires |-> expires,
        parent |-> parent, revision |-> revision,
        selected |-> <<>>, rejected |-> 0, until |-> 0, operations |-> <<>>]]
  /\ UNCHANGED <<quarter, bundle>>
BuildSnapshot(b) ==
  \E k \in DOMAIN Streams, exclusions \in ExclusionLists, created \in Datings :
    StartBuild(b, k, Streams[k].evidence, exclusions, created, created + Lifetime, NoParent, 1)
BuildDelta(b) ==
  \E k \in DOMAIN Streams, exclusions \in ExclusionLists, p \in Bundles, created \in Datings :
    LET expires == Min({created + Lifetime, bundle[p].expires}) IN
    /\ bundle[p] # Unbuilt
    /\ ParentApart(b, p) /\ VerifySnapshot(bundle[p]) /\ ParentFits(p, created, expires)
    /\ StartBuild(b, k, FALSE, exclusions, created, expires,
                  bundle[p].operations, bundle[p].revision + 1)

SelectRecords(b) ==
  LET q == build[b]
      rows == Rows(q) IN
  /\ q # NoBuild /\ q.at = "selecting" /\ q.created - quarter \in -Skew..Skew
  /\ \E K \in (SUBSET DOMAIN rows) \ {{}} :
       /\ Chosen(rows, K, q.exclusions, q.created, quarter)
       /\ build' = [build EXCEPT ![b].at = "selected", ![b].selected = RecordsOf(rows, K),
                                 ![b].rejected = Len(rows) - Cardinality(K),
                                 ![b].until = Earliest(rows, K)]
  /\ UNCHANGED <<quarter, bundle, bundleLock, bundleWork>>

(* emitDeltaOperations: what the target lacks goes, what it has anew or    *)
(* otherwise is written; nothing to do is an error.                        *)
Changes(parent, target) ==
  [u \in {v \in DOMAIN parent \cup DOMAIN target :
            v \notin DOMAIN parent \cap DOMAIN target \/ parent[v] # target[v]} |->
     IF u \in DOMAIN target THEN target[u] ELSE Gone]
Signed(b, operations) ==
  /\ build' = [build EXCEPT ![b].at = "signed", ![b].operations = operations]
  /\ UNCHANGED <<quarter, bundle, bundleLock, bundleWork>>
SignSnapshot(b) ==
  LET q == build[b] IN
  /\ q # NoBuild /\ q.at = "selected" /\ q.parent = NoParent
  /\ StillPermitted(b, quarter) /\ EvidenceBinds(b, quarter)
  /\ Signed(b, q.selected)
SignDelta(b) ==
  LET q == build[b] IN
  /\ q # NoBuild /\ q.at = "selected" /\ q.parent # NoParent
  /\ StillPermitted(b, quarter) /\ DOMAIN Changes(q.parent, q.selected) # {}
  /\ Signed(b, Changes(q.parent, q.selected))

(* The checks are repeated before the rename, which never replaces; a      *)
(* delta must not have expired either.                                     *)
RenameBundle(b) ==
  LET q == build[b] IN
  /\ bundle[b] = Unbuilt
  /\ bundle' = [bundle EXCEPT ![b] =
       [operations |-> q.operations, parent |-> q.parent, revision |-> q.revision,
        created |-> q.created, expires |-> q.expires, selected |-> q.selected,
        rejected |-> q.rejected, stream |-> q.stream, evidence |-> q.evidence,
        exclusions |-> q.exclusions,
        until |-> q.until, published |-> quarter]]
  /\ bundleWork' = bundleWork \ {b} /\ bundleLock' = bundleLock \ {b}
  /\ build' = [build EXCEPT ![b] = NoBuild]
  /\ UNCHANGED quarter
PublishSnapshot(b) ==
  LET q == build[b] IN
  /\ q # NoBuild /\ q.at = "signed" /\ q.parent = NoParent
  /\ SnapshotReportValid(q) /\ StillPermitted(b, quarter) /\ EvidenceBinds(b, quarter)
  /\ RenameBundle(b)
PublishDelta(b) ==
  LET q == build[b] IN
  /\ q # NoBuild /\ q.at = "signed" /\ q.parent # NoParent
  /\ TrialInstalls(q) /\ DeltaReportValid(q)
  /\ StillPermitted(b, quarter) /\ quarter < q.expires
  /\ RenameBundle(b)
(* any check that fails, or an error, takes staging and lock away          *)
BuildFails(b) ==
  /\ build[b] # NoBuild /\ build' = [build EXCEPT ![b] = NoBuild]
  /\ bundleWork' = bundleWork \ {b} /\ bundleLock' = bundleLock \ {b}
  /\ UNCHANGED <<quarter, bundle>>
BuilderKilled(b) ==
  /\ build[b] # NoBuild /\ build' = [build EXCEPT ![b] = NoBuild]
  /\ UNCHANGED <<quarter, bundle, bundleLock, bundleWork>>
RemoveLeftovers(b) ==
  /\ build[b] = NoBuild /\ b \in bundleLock
  /\ bundleWork' = bundleWork \ {b} /\ bundleLock' = bundleLock \ {b}
  /\ UNCHANGED <<quarter, bundle, build>>
WithdrawBundle(b) ==
  /\ bundle[b] # Unbuilt /\ bundle' = [bundle EXCEPT ![b] = Unbuilt]
  /\ UNCHANGED <<quarter, bundleLock, bundleWork, build>>
QuarterPasses ==
  /\ quarter < LastQuarter /\ quarter' = quarter + 1
  /\ UNCHANGED <<bundle, bundleLock, bundleWork, build>>

PackBuildNext ==
  \/ \E b \in Bundles :
       \/ BuildSnapshot(b) \/ BuildDelta(b) \/ SelectRecords(b) \/ SignSnapshot(b)
       \/ SignDelta(b) \/ PublishSnapshot(b) \/ PublishDelta(b) \/ BuildFails(b) \/ BuilderKilled(b) \/ RemoveLeftovers(b)
       \/ WithdrawBundle(b)
  \/ QuarterPasses
PackBuildSpec == PackBuildInit /\ [][PackBuildNext]_buildVars

-----------------------------------------------------------------------------
BuildTypeOK ==
  /\ quarter \in 0..LastQuarter /\ bundleWork \subseteq bundleLock /\ bundleLock \subseteq Bundles
  /\ \A b \in Bundles :
       /\ build[b] # NoBuild =>
            b \in bundleWork /\ build[b].at \in {"selecting", "selected", "signed"}
       /\ bundle[b] # Unbuilt => bundle[b].created \in Nat /\ bundle[b].revision \in 1..2

(* The date the specification gave a snapshot fits when it was published   *)
(* and when its evidence was complete.                                     *)
DatedInTime(x) ==
  /\ x.created <= x.published
  /\ x.evidence => Streams[x.stream].completed <= x.created + Skew

(* A published bundle stands by what it was built from, however long the   *)
(* build took: every record it distributes, itself or on top of its        *)
(* parent, was permitted by every decision when it was published, is not   *)
(* excluded and, where an evidence report comes along, has its rights; a   *)
(* delta turns its parent into the selection; and the verifier accepts     *)
(* what the builder published.  It does not accept every snapshot: one may *)
(* be dated ahead of its publication, or bring evidence that was complete  *)
(* more than Skew after its date, which the builder compares with its own  *)
(* clock instead (ValidateCompletion, validateEvidenceSelection,           *)
(* emitDeltaOperations, validateCarriedEvidence, VerifyDeltaBundle).       *)
BundlesSound ==
  /\ BuildTypeOK
  /\ \A b \in Bundles : bundle[b] # Unbuilt =>
      LET x == bundle[b]
          distributed == IF x.parent = NoParent THEN x.operations
                         ELSE Applied(x.parent, x.operations)
          Lasts(decision) == /\ decision.granted /\ decision.from <= x.published
                             /\ decision.until > x.published + MinValidity
          Source(u) == {k \in DOMAIN Rows(x) :
            /\ Rows(x)[k].url = u /\ Rows(x)[k].text = distributed[u]
            /\ ~Excluded(Rows(x)[k], x.exclusions)
            /\ \A d \in Decisions : Lasts(Rows(x)[k].admission[d])} IN
      /\ distributed = x.selected
      /\ \A u \in DOMAIN distributed : Source(u) # {}
      /\ x.evidence => RightsAgree(Rows(x))
      /\ IF x.parent # NoParent THEN VerifyDelta(x)
         ELSE DatedInTime(x) => VerifySnapshot(x)
=============================================================================
