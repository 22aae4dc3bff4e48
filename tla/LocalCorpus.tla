---------------------------- MODULE LocalCorpus ----------------------------
(***************************************************************************)
(* One URL in the local corpus: its record in the lexical index            *)
(* (internal/adapters/bleveindex), its current version in the artifact     *)
(* store, and the requests of the pipeline (internal/core/pipeline) that   *)
(* fetch it, admit it, take it down and search for it.                     *)
(*                                                                         *)
(* The two stores are written one after the other, each refuses what is    *)
(* older than what it has, either may fail, and the process may die in     *)
(* between.  Curated and archive mode serialise the requests of a URL;     *)
(* personal mode does not.                                                 *)
(***************************************************************************)
EXTENDS Naturals

CONSTANTS
  Requests,
  Editions,       \* a content hash with its safety classification
  MaxAge,         \* personal mode forgets a page that long after its fetch
  LastTick        \* bound on the clock

ASSUME CorpusAssumption ==
  /\ MaxAge \in Nat \ {0} /\ LastTick \in Nat
  /\ "none" \notin Editions /\ "nobody" \notin Requests

VARIABLES
  corpusMode,
  index, artifact,      \* what each store retains of the URL
  quarantined,          \* the local lane is off until the process ends
  urlLock,              \* who may work on the URL, in the modes that lock
  request,              \* what each request is doing
  tick,
  query, answered,      \* a search under way; the last hit one returned
  revokedAt, takenDown, \* history: revocations some store has accepted
  failed                \* history: "now" since an admission failed for good,
                        \* "before" once the process has restarted since

corpusVars == <<corpusMode, index, artifact, quarantined, urlLock, request, tick,
                query, answered, revokedAt, takenDown, failed>>

Ticks == 0..LastTick
Dispositions == {"permitted", "unknown", "takedown"}
NoEdition == "none"
Record == [disp : Dispositions, edition : Editions \cup {NoEdition}, at : Ticks,
           expires : 0..(LastTick + MaxAge)]              \* 0: never
NoRecord == [disp |-> "absent", edition |-> NoEdition, at |-> 0, expires |-> 0]
Idle == [kind |-> "none", step |-> "idle", at |-> 0, saw |-> NoEdition, ok |-> FALSE]
NoQuery == [edition |-> NoEdition]
Nobody == "nobody"
Later(x, y) == IF x > y THEN x ELSE y

CorpusInit ==
  /\ corpusMode \in {"personal", "curated", "archive"}
  /\ index = NoRecord /\ artifact = NoRecord
  /\ quarantined = FALSE /\ urlLock = Nobody
  /\ request = [r \in Requests |-> Idle]
  /\ tick = 0 /\ query = NoQuery /\ answered = NoQuery
  /\ revokedAt = 0 /\ takenDown = FALSE /\ failed = "no"

Lapsed(record) == record.expires # 0 /\ record.expires <= tick
Readable(record) == record.disp = "permitted" /\ ~Lapsed(record)
(* every write of the index first prunes what has expired                  *)
Pruned(record) == IF Lapsed(record) THEN NoRecord ELSE record

(* plausible mistakes: equal times, takedowns                              *)
OutdatedNotAtOnce(record, at, disp) ==
  record # NoRecord /\ (record.at > at \/ (record.disp = "takedown" /\ disp # "takedown"))

(* retainedObservationIsStale and observationIsStale                       *)
Outdated(record, at, disp) ==
  /\ record # NoRecord
  /\ \/ record.disp = "takedown" /\ disp # "takedown"
     \/ record.at > at
     \/ record.at = at /\ record.disp # "permitted" /\ disp = "permitted"

(* Policy.ApplyAutomatic and ApplyExplicit                                 *)
Permitted(edition, at) ==
  [disp |-> "permitted", edition |-> edition, at |-> at,
   expires |-> IF corpusMode = "personal" THEN at + MaxAge ELSE 0]
Revoked(disp, at) == [disp |-> disp, edition |-> NoEdition, at |-> at, expires |-> 0]

Goes(r, step) == request' = [request EXCEPT ![r].step = step]
Locks == corpusMode # "personal"
MayStart == Locks => urlLock = Nobody
Finishes(r) == /\ request' = [request EXCEPT ![r] = Idle]
           /\ urlLock' = IF urlLock = r THEN Nobody ELSE urlLock

-----------------------------------------------------------------------------
(* A request.                                                              *)

(* processOne, TakedownCurated: the lock first.  A visit of the modes that *)
(* revalidate remembers the version it asks the origin about.              *)
BeginRequest(r) ==
  /\ request[r] = Idle
  /\ MayStart
  /\ urlLock' = IF Locks THEN r ELSE urlLock
  /\ \E kind \in {"visit"} \cup (IF corpusMode = "curated" THEN {"admit"} ELSE {})
                 \cup (IF corpusMode # "personal" THEN {"takedown"} ELSE {}) :
       request' = [request EXCEPT ![r] =
         [kind |-> kind, step |-> IF kind = "takedown" THEN "revoke index" ELSE "fetch",
          at |-> tick, ok |-> FALSE,
          saw |-> IF kind = "visit" /\ corpusMode # "curated" /\ Readable(artifact)
                  THEN artifact.edition ELSE NoEdition]]
  /\ UNCHANGED <<corpusMode, index, artifact, quarantined, tick, query, answered,
                 revokedAt, takenDown, failed>>

(* The origin answers: a page, a denial of retention (robots, noindex,     *)
(* noarchive, 404, 410, nothing extracted), no change, or nothing usable.  *)
(* What has changed meanwhile in the store makes "no change" useless; the  *)
(* page is fetched again.                                                  *)
FetchAnswers(r) ==
  /\ request[r].step = "fetch"
  /\ \/ /\ \E e \in Editions :
             request' = [request EXCEPT ![r].at = tick, ![r].saw = e,
                           ![r].step = IF request[r].kind = "visit" /\ corpusMode = "curated"
                                       THEN "end" ELSE "put"]
     \/ request' = [request EXCEPT ![r].at = tick, ![r].saw = NoEdition,
                                   ![r].step = "revoke index"]
     \/ /\ request[r].saw # NoEdition
        /\ Readable(artifact) /\ artifact.edition = request[r].saw
        /\ request' = [request EXCEPT ![r].at = tick, ![r].step = "revalidate"]
     \/ Goes(r, "end")
  /\ UNCHANGED <<corpusMode, index, artifact, quarantined, urlLock, tick, query,
                 answered, revokedAt, takenDown, failed>>

(* a failed write of the artifact store may have replaced the pointer      *)
ArtifactWrite(r, record, next, otherwise) ==
  \/ ~Outdated(artifact, record.at, record.disp) /\ artifact' = record /\ next
  \/ artifact' = artifact /\ otherwise
  \/ ~Outdated(artifact, record.at, record.disp) /\ artifact' = record /\ otherwise

OnFailure(r) == IF request[r].kind = "admit" THEN "hide index" ELSE "end"

(* reconcileLocalCorpus: the source first                                  *)
PutArtifact(r) ==
  /\ request[r].step = "put"
  /\ ArtifactWrite(r, Permitted(request[r].saw, request[r].at),
                   Goes(r, "index"), Goes(r, OnFailure(r)))
  /\ UNCHANGED <<corpusMode, index, quarantined, urlLock, tick, query, answered,
                 revokedAt, takenDown, failed>>

(* whatever version is current by now is what is moved on                  *)
RevalidateArtifact(r) ==
  /\ request[r].step = "revalidate"
  /\ \/ /\ artifact.disp = "permitted"
        /\ ArtifactWrite(r, Permitted(artifact.edition, request[r].at),
                         Goes(r, "index"), Goes(r, "end"))
     \/ artifact' = artifact /\ Goes(r, "end")
  /\ UNCHANGED <<corpusMode, index, quarantined, urlLock, tick, query, answered,
                 revokedAt, takenDown, failed>>

IndexPermitted(r) ==
  /\ request[r].step = "index"
  /\ LET record == Permitted(request[r].saw, request[r].at) IN
       \/ /\ ~Outdated(Pruned(index), record.at, "permitted")
          /\ index' = record
          /\ failed' = IF request[r].kind = "admit" THEN "no" ELSE failed
          /\ Goes(r, "end")
       \/ index' = Pruned(index) /\ Goes(r, OnFailure(r)) /\ UNCHANGED failed
  /\ UNCHANGED <<corpusMode, artifact, quarantined, urlLock, tick, query, answered,
                 revokedAt, takenDown>>

(* An ordinary visit of curated mode revokes only what there is.           *)
OnlyExisting(r) == request[r].kind = "visit" /\ corpusMode = "curated"
Disposition(r) == IF request[r].kind = "takedown" THEN "takedown" ELSE "unknown"

RevokeIndex(r) ==
  /\ request[r].step = "revoke index"
  /\ LET record == Revoked(Disposition(r), request[r].at) IN
       \/ /\ ~Outdated(Pruned(index), record.at, record.disp)
          /\ index' = IF OnlyExisting(r) /\ Pruned(index) = NoRecord
                      THEN NoRecord ELSE record
          /\ request' = [request EXCEPT ![r].step = "revoke artifact",
                                        ![r].ok = (index' = record)]
       \/ index' = Pruned(index) /\ Goes(r, "revoke artifact")
  /\ UNCHANGED <<corpusMode, artifact, quarantined, urlLock, tick, query, answered,
                 revokedAt, takenDown, failed>>

RevokeArtifact(r) ==
  /\ request[r].step = "revoke artifact"
  /\ \/ /\ OnlyExisting(r) /\ artifact = NoRecord /\ artifact' = artifact
        /\ Goes(r, "end")
     \/ /\ ~(OnlyExisting(r) /\ artifact = NoRecord)
        /\ ArtifactWrite(r, Revoked(Disposition(r), request[r].at),
                         request' = [request EXCEPT ![r].step = "end", ![r].ok = TRUE],
                         Goes(r, "end"))
  /\ UNCHANGED <<corpusMode, index, quarantined, urlLock, tick, query, answered,
                 revokedAt, takenDown, failed>>

(* failClosedCuratedRetention: both stores forget the URL, or nothing of   *)
(* the corpus is searched any more.                                        *)
HideIndex(r) ==
  /\ request[r].step = "hide index"
  /\ LET record == Revoked("unknown", request[r].at) IN
       \/ ~Outdated(Pruned(index), record.at, "unknown") /\ index' = record
          /\ request' = [request EXCEPT ![r].step = "hide artifact", ![r].ok = TRUE]
       \/ index' = Pruned(index) /\ Goes(r, "hide artifact")
  /\ UNCHANGED <<corpusMode, artifact, quarantined, urlLock, tick, query, answered,
                 revokedAt, takenDown, failed>>
HideArtifact(r) ==
  /\ request[r].step = "hide artifact"
  /\ ArtifactWrite(r, Revoked("unknown", request[r].at),
       Goes(r, "end") /\ quarantined' = (quarantined \/ ~request[r].ok),
       Goes(r, "end") /\ quarantined' = TRUE)
  /\ failed' = "now"
  /\ UNCHANGED <<corpusMode, index, urlLock, tick, query, answered, revokedAt, takenDown>>

EndRequest(r) ==
  /\ request[r].step = "end"
  /\ Finishes(r)
  /\ LET accepted == request[r].ok /\ request[r].saw = NoEdition IN
       /\ revokedAt' = IF accepted THEN Later(revokedAt, request[r].at) ELSE revokedAt
       /\ takenDown' = (takenDown \/ (accepted /\ request[r].kind = "takedown"))
  /\ UNCHANGED <<corpusMode, index, artifact, quarantined, tick, query, answered, failed>>

-----------------------------------------------------------------------------
(* A search of the local lane: the hits of the index, then each against    *)
(* the version that is current (localdiscovery_guard.go).                  *)
BeginQuery ==
  /\ query = NoQuery /\ ~quarantined /\ Readable(index)
  /\ query' = [edition |-> index.edition, at |-> index.at, revokedAt |-> revokedAt,
               takenDown |-> takenDown, failed |-> failed]
  /\ UNCHANGED <<corpusMode, index, artifact, quarantined, urlLock, request, tick,
                 answered, revokedAt, takenDown, failed>>
MatchesArtifact(edition) == Readable(artifact) /\ artifact.edition = edition
CheckHit ==
  /\ query # NoQuery /\ query' = NoQuery
  /\ answered' = IF MatchesArtifact(query.edition)
                 THEN [query EXCEPT !.at = Later(@, artifact.at)] ELSE NoQuery
  /\ UNCHANGED <<corpusMode, index, artifact, quarantined, urlLock, request, tick,
                 revokedAt, takenDown, failed>>

(* The expiry worker sweeps each store.                                    *)
SweepIndex ==
  /\ Lapsed(index) /\ index' = NoRecord
  /\ UNCHANGED <<corpusMode, artifact, quarantined, urlLock, request, tick, query,
                 answered, revokedAt, takenDown, failed>>
SweepArtifact ==
  /\ Lapsed(artifact) /\ artifact' = NoRecord
  /\ UNCHANGED <<corpusMode, index, quarantined, urlLock, request, tick, query,
                 answered, revokedAt, takenDown, failed>>

(* The process dies and starts again; opening the index prunes it.         *)
ServerRestarts ==
  /\ index' = Pruned(index)
  /\ request' = [r \in Requests |-> Idle]
  /\ urlLock' = Nobody /\ quarantined' = FALSE
  /\ query' = NoQuery /\ answered' = NoQuery
  /\ failed' = IF failed = "no" THEN "no" ELSE "before"
  /\ UNCHANGED <<corpusMode, artifact, tick, revokedAt, takenDown>>

TimePasses ==
  /\ tick < LastTick /\ tick' = tick + 1
  /\ UNCHANGED <<corpusMode, index, artifact, quarantined, urlLock, request, query,
                 answered, revokedAt, takenDown, failed>>

CorpusNext ==
  \/ \E r \in Requests :
       \/ BeginRequest(r) \/ FetchAnswers(r) \/ PutArtifact(r) \/ RevalidateArtifact(r)
       \/ IndexPermitted(r) \/ RevokeIndex(r) \/ RevokeArtifact(r)
       \/ HideIndex(r) \/ HideArtifact(r) \/ EndRequest(r)
  \/ BeginQuery \/ CheckHit \/ SweepIndex \/ SweepArtifact
  \/ ServerRestarts \/ TimePasses

CorpusSpec == CorpusInit /\ [][CorpusNext]_corpusVars

-----------------------------------------------------------------------------
(* Properties.                                                             *)

CorpusTypeOK ==
  /\ index \in Record \cup {NoRecord} /\ artifact \in Record \cup {NoRecord}
  /\ quarantined \in BOOLEAN /\ urlLock \in Requests \cup {Nobody}
  /\ \A r \in Requests : request[r] # Idle /\ Locks => urlLock = r
  /\ tick \in Ticks /\ revokedAt \in Ticks

(* A search begun after a revocation was written - to both stores or to    *)
(* one of them - returns the URL only if it was observed again later,      *)
(* whatever older request was still in flight (Reconcile, Revoke, the      *)
(* guard of the searcher); and a takedown some store accepted is final:    *)
(* "Takedowns remain sticky across restart and routine fetching cannot     *)
(* clear them" (ADR 0002).                                                 *)
RevokedStaysHidden ==
  answered # NoQuery =>
    /\ answered.revokedAt > 0 => answered.at > answered.revokedAt
    /\ ~answered.takenDown

(* When an admission has failed, the running process no longer returns     *)
(* what was admitted before it (failClosedCuratedRetention).  After a      *)
(* restart it may: the flag lives in the process, and index and artifact   *)
(* still agree on the earlier version.                                     *)
FailedAdmissionHides == answered # NoQuery => answered.failed # "now"

(* What was revoked, taken down or could not be replaced is not returned.  *)
HiddenStaysHidden == RevokedStaysHidden /\ FailedAdmissionHides
=============================================================================
