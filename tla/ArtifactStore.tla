--------------------------- MODULE ArtifactStore ---------------------------
(***************************************************************************)
(* The local artifact store (internal/adapters/localartifact): one pointer *)
(* file per URL, one body file per content hash and, in archive mode, one  *)
(* manifest per retained version.  A mutex serialises the operations and a *)
(* file lock the processes, so what lies between two file operations of    *)
(* one call is only seen by a crash or by the handler of a failed step:    *)
(* each operation below takes the disk to the state it leaves when it is   *)
(* done, when one of its steps fails, or when the process dies in it.      *)
(*                                                                         *)
(* A removal is not synced by the code, so it may be undone by a crash     *)
(* until the directory is next synced by a write.                          *)
(***************************************************************************)
EXTENDS Integers, FiniteSets

CONSTANTS
  Urls, Contents,         \* canonical URLs; content hashes
  Offers,                 \* which contents a URL may be observed with
  BodySize,               \* bytes of a body; pointers and manifests take one
  MaxBytes, MaxEntries, MaxVersions, MaxVersionsPerURL,
  LastDay                 \* bound on the clock

ASSUME StoreLimitsAssumption ==
  /\ {BodySize, MaxBytes, MaxEntries, MaxVersions, MaxVersionsPerURL}
       \subseteq Nat \ {0}
  /\ LastDay \in Nat /\ Offers \subseteq Urls \X Contents
  /\ IsFiniteSet(Urls) /\ IsFiniteSet(Contents) /\ "none" \notin Contents

VARIABLES
  archive,    \* the mode in schema.json
  shelf,      \* the files: pointers, bodies, manifests
  unsynced,   \* removed files a crash may bring back
  tally,      \* usedBytes, entries and versions of the open store
  isOpen, day,
  purged      \* history: URLs whose last accepted call was a finished Revoke

storeVars == <<archive, shelf, unsynced, tally, isOpen, day, purged>>

Days == 0..LastDay
NoContent == "none"
Revocations == {"noindex", "takedown"}
Pointer == [disp : {"permitted"} \cup Revocations,
            hash : Contents \cup {NoContent}, at : Days,
            expires : 0..(LastDay + 1),          \* 0: never
            kept : SUBSET Contents]              \* version_hashes
NoPointer == [disp |-> "absent", hash |-> NoContent, at |-> 0, expires |-> 0,
              kept |-> {}]
Shelf == [ptr : [Urls -> Pointer \cup {NoPointer}],
          body : SUBSET (Urls \X Contents),
          manifest : SUBSET (Urls \X Contents \X Days)]
NoFiles == [ptr |-> [u \in Urls |-> NoPointer], body |-> {}, manifest |-> {}]
NoTally == [used |-> 0, entries |-> 0, versions |-> 0]
Tally == [used : Int, entries : Nat, versions : Int]

StoreTypeOK ==
  /\ archive \in BOOLEAN /\ isOpen \in BOOLEAN
  /\ shelf \in Shelf /\ unsynced \in Shelf /\ tally \in Tally
  /\ day \in Days /\ purged \subseteq Urls

Present(d) == {u \in Urls : d.ptr[u] # NoPointer}
Expired(p) == p.disp = "permitted" /\ p.expires # 0 /\ p.expires <= day

(* measureStore and countCommittedVersions: what is really there           *)
Bytes(d) == Cardinality(Present(d)) + BodySize * Cardinality(d.body)
            + Cardinality(d.manifest)
Versions(d) == Cardinality({x \in Urls \X Contents : x[2] \in d.ptr[x[1]].kept})
(* a plausible mistake of the recount: an entry missed                     *)
MeasuredOffByOne(d) ==
  [used |-> Bytes(d), entries |-> Cardinality(Present(d)) - 1,
   versions |-> tally.versions]

(* refreshUsageLocked: over a limit it returns before it counts versions   *)
Measured(d) ==
  [used |-> Bytes(d), entries |-> Cardinality(Present(d)),
   versions |-> IF archive /\ Bytes(d) <= MaxBytes
                     /\ Cardinality(Present(d)) <= MaxEntries
                THEN Versions(d) ELSE tally.versions]

StoreInit ==
  /\ archive \in BOOLEAN
  /\ shelf = NoFiles /\ unsynced = NoFiles
  /\ tally = NoTally
  /\ isOpen = TRUE /\ day = 0 /\ purged = {}

-----------------------------------------------------------------------------
(* Files taken off the shelf, and what a directory sync makes final.       *)

WithoutUrl(d, u) == [d EXCEPT !.body = {x \in @ : x[1] # u},
                              !.manifest = {x \in @ : x[1] # u}]
(* what is gone from d in the later shelf e and could come back            *)
Gone(d, e) ==
  [ptr |-> [u \in Urls |-> IF e.ptr[u] = NoPointer THEN d.ptr[u] ELSE NoPointer],
   body |-> d.body \ e.body, manifest |-> d.manifest \ e.manifest]
Both(x, y) ==
  [ptr |-> [u \in Urls |-> IF x.ptr[u] # NoPointer THEN x.ptr[u] ELSE y.ptr[u]],
   body |-> x.body \cup y.body, manifest |-> x.manifest \cup y.manifest]
(* a file is final once a file of its name is there again, and the removal *)
(* of a pointer once a pointer is written and the directory synced         *)
Recoverable(d, e, wrotePointer) ==
  LET removed == Both(Gone(d, e), unsynced)
  IN [ptr |-> IF wrotePointer THEN NoFiles.ptr ELSE removed.ptr,
      body |-> removed.body \ e.body,
      manifest |-> {x \in removed.manifest : \A y \in e.manifest :
                                               <<x[1], x[2]>> # <<y[1], y[2]>>}]

(* The call is over: the shelf is now e and the counters are t.            *)
Return(e, t, wrotePointer) ==
  /\ shelf' = e /\ tally' = t
  /\ unsynced' = Recoverable(shelf, e, wrotePointer)
  /\ UNCHANGED <<archive, isOpen, day>>

(* The process dies with the shelf at e, and its counters with it.         *)
Dies(e) ==
  /\ isOpen' = FALSE /\ shelf' = e /\ tally' = NoTally
  /\ unsynced' = Recoverable(shelf, e, FALSE)
  /\ UNCHANGED <<archive, day>>

(* what the next Open may find: any of the removed files may be back       *)
AfterCrash ==
  {[ptr |-> [u \in Urls |-> IF u \in P THEN unsynced.ptr[u] ELSE shelf.ptr[u]],
    body |-> shelf.body \cup B, manifest |-> shelf.manifest \cup M] :
     P \in SUBSET {u \in Urls : unsynced.ptr[u] # NoPointer
                                /\ shelf.ptr[u] = NoPointer},
     B \in SUBSET unsynced.body, M \in SUBSET unsynced.manifest}

(* a revocation and an observation of the same time taken as they come     *)

(* observationIsStale                                                      *)
Stale(p, at, disp) ==
  /\ p # NoPointer
  /\ \/ p.disp = "takedown" /\ disp # "takedown"
     \/ p.at > at
     \/ p.at = at /\ p.disp # "permitted" /\ disp = "permitted"

-----------------------------------------------------------------------------
(* Expiry.  Archives never expire.                                         *)

(* the bodies of what has expired, and not the pointers                    *)
Swept(d, E) ==
  [d EXCEPT !.ptr = [u \in Urls |-> IF u \in E THEN NoPointer ELSE @[u]],
            !.body = {x \in @ : ~(x[1] \in E /\ x[2] = d.ptr[x[1]].hash)}]
Due(d) == {u \in Urls : Expired(d.ptr[u])}

Sweep ==
  /\ isOpen /\ ~archive
  /\ LET e == Swept(shelf, Due(shelf)) IN Return(e, Measured(e), FALSE)
  /\ UNCHANGED purged

(* The context ends, or a removal fails: the counters are left as they     *)
(* were.  The pointer of the URL it stopped at may be gone already.        *)
SweepStops ==
  /\ isOpen /\ ~archive
  /\ \E E \in SUBSET Due(shelf), H \in SUBSET Due(shelf) :
       /\ H \cap E = {} /\ Cardinality(H) <= 1
       /\ LET e == [Swept(shelf, E) EXCEPT
                      !.ptr = [u \in Urls |-> IF u \in H THEN NoPointer
                                                         ELSE @[u]]]
          IN Return(e, tally, FALSE)
  /\ UNCHANGED purged

(* the shelf and the counters a call that needs room or an entry finds     *)
Roomy(short) ==
  IF ~archive /\ (short \/ tally.entries >= MaxEntries)
  THEN LET e == Swept(shelf, Due(shelf)) IN [d |-> e, t |-> Measured(e)]
  ELSE [d |-> shelf, t |-> tally]

-----------------------------------------------------------------------------
(* Put and putArchive.  A call that is refused leaves only its sweep.      *)

NewPointer(u, h, at, expires, d) ==
  [disp |-> "permitted", hash |-> h, at |-> at,
   expires |-> IF archive THEN 0 ELSE expires,
   kept |-> IF archive THEN d.ptr[u].kept \cup {h} ELSE {}]
WithBody(d, u, h) == [d EXCEPT !.body = @ \cup {<<u, h>>}]
WithPointer(d, u, p) == [d EXCEPT !.ptr[u] = p]
IsNew(d, u) == IF d.ptr[u] = NoPointer THEN 1 ELSE 0

Put(u, h, at, expires) ==
  /\ isOpen /\ ~archive
  /\ LET ready == Roomy(BodySize + 1 > MaxBytes - tally.used)
         d == ready.d
         old == d.ptr[u]
         superseded == old.hash \notin {NoContent, h} /\ <<u, old.hash>> \in d.body
         fresh == IF <<u, h>> \in d.body THEN 0 ELSE BodySize
         retained == ready.t.used - (1 - IsNew(d, u))
                     - (IF superseded THEN BodySize ELSE 0)
         bodied == WithBody(d, u, h)
         pointed == WithPointer(bodied, u, NewPointer(u, h, at, expires, d))
         done == [pointed EXCEPT !.body = IF superseded
                                          THEN @ \ {<<u, old.hash>>} ELSE @]
     IN /\ ~Stale(old, at, "permitted")
        /\ old = NoPointer => ready.t.entries < MaxEntries
        /\ retained >= 0 /\ 1 + fresh <= MaxBytes - retained
        /\ \/ /\ Return(done, [ready.t EXCEPT !.used = retained + 1 + fresh,
                                              !.entries = @ + IsNew(d, u)], TRUE)
              /\ purged' = purged \ {u}
           \* the body or the pointer is not written: the body is taken back
           \/ Return(d, Measured(d), FALSE) /\ UNCHANGED purged
           \* the pointer is in place but not synced, or the old body stays
           \/ Return(pointed, Measured(pointed), TRUE) /\ purged' = purged \ {u}
           \/ /\ \E e \in {d, bodied, pointed, done} : Dies(e)
              /\ purged' = purged \ {u}

(* A version is its body, its manifest and its place in the pointer; what  *)
(* a crash left of one may be taken over, if the manifest is the same.     *)
PutArchive(u, h, at) ==
  /\ isOpen /\ archive
  /\ LET old == shelf.ptr[u]
         committed == h \in old.kept
         hasBody == <<u, h>> \in shelf.body
         hasManifest == \E t \in Days : <<u, h, t>> \in shelf.manifest
         extra == IsNew(shelf, u) + (IF hasBody THEN 0 ELSE BodySize)
                  + (IF hasManifest THEN 0 ELSE 1)
         bodied == WithBody(shelf, u, h)
         listed == [bodied EXCEPT !.manifest =
                      IF hasManifest THEN @ ELSE @ \cup {<<u, h, at>>}]
         done == WithPointer(listed, u, NewPointer(u, h, at, 0, shelf))
     IN /\ ~Stale(old, at, "permitted")
        /\ old = NoPointer => tally.entries < MaxEntries
        /\ ~committed => /\ Cardinality(old.kept) < MaxVersionsPerURL
                         /\ tally.versions < MaxVersions
                         \* a manifest left over must be the same manifest
                         /\ hasManifest => <<u, h, at>> \in shelf.manifest
        /\ committed => hasBody /\ hasManifest
        /\ extra <= MaxBytes - tally.used
        /\ \/ /\ Return(done, [tally EXCEPT
                                 !.used = @ + extra, !.entries = @ + IsNew(shelf, u),
                                 !.versions = @ + IF committed THEN 0 ELSE 1], TRUE)
              /\ purged' = purged \ {u}
           \/ Return(shelf, Measured(shelf), FALSE) /\ UNCHANGED purged
           \/ Return(done, Measured(done), TRUE) /\ purged' = purged \ {u}
           \/ /\ \E e \in {shelf, bodied, listed, done} : Dies(e)
              /\ purged' = purged \ {u}

(* Revalidate and revalidateArchive: a 304 moves the observation on; in an *)
(* archive it does not expire.                                             *)
Revalidated(u, at, expires) ==
  [shelf EXCEPT !.ptr[u].at = at, !.ptr[u].expires = IF archive THEN 0 ELSE expires]
Revalidate(u, at, expires) ==
  /\ isOpen
  /\ shelf.ptr[u].disp = "permitted"
  /\ ~Stale(shelf.ptr[u], at, "permitted")
  /\ LET e == Revalidated(u, at, expires)
     IN \/ 1 <= MaxBytes - (tally.used - 1) /\ Return(e, tally, TRUE)
        \/ \E x \in {shelf, e} : Return(x, Measured(x), x = e)
        \/ \E x \in {shelf, e} : Dies(x)
  /\ UNCHANGED purged

(* revoke and revokeArchive: the tombstone first, then every file of the   *)
(* URL.  RevokeExisting (existing) leaves an unknown URL alone.            *)
Tombstone(disp, at) ==
  [disp |-> disp, hash |-> NoContent, at |-> at, expires |-> 0, kept |-> {}]
FilesOf(d, u) == [NoFiles EXCEPT !.body = {x \in d.body : x[1] = u},
                                 !.manifest = {x \in d.manifest : x[1] = u}]
PartlyPurged(d, u) ==
  {[ptr |-> d.ptr, body |-> d.body \ B, manifest |-> d.manifest \ M] :
     B \in SUBSET FilesOf(d, u).body, M \in SUBSET FilesOf(d, u).manifest}

Revoke(u, disp, at, existing) ==
  /\ isOpen
  /\ LET ready == IF existing THEN [d |-> shelf, t |-> tally] ELSE Roomy(FALSE)
         d == ready.d
         marked == WithPointer(d, u, Tombstone(disp, at))
         done == WithoutUrl(marked, u)
         retained == ready.t.used - (1 - IsNew(d, u))
                     - BodySize * Cardinality(FilesOf(d, u).body)
                     - Cardinality(FilesOf(d, u).manifest)
     IN /\ existing => d.ptr[u] # NoPointer
        /\ ~Stale(d.ptr[u], at, disp)
        /\ d.ptr[u] = NoPointer => ready.t.entries < MaxEntries
        /\ IF archive THEN retained >= 0 /\ 1 <= MaxBytes - retained
                      ELSE 1 <= MaxBytes - (ready.t.used - (1 - IsNew(d, u)))
        /\ \/ /\ Return(done, [ready.t EXCEPT
                                 !.used = retained + 1,
                                 !.entries = @ + IsNew(d, u),
                                 !.versions = @ - Cardinality(d.ptr[u].kept)], TRUE)
              /\ purged' = purged \cup {u}
           \* the tombstone is not written
           \/ Return(d, Measured(d), FALSE) /\ UNCHANGED purged
           \* it is, but the purge does not run or does not end
           \/ \E e \in PartlyPurged(marked, u) :
                Return(e, Measured(e), TRUE) /\ UNCHANGED purged
           \/ \E e \in {d} \cup PartlyPurged(marked, u) :
                Dies(e) /\ UNCHANGED purged

-----------------------------------------------------------------------------
(* Reading: Current answers with the body of what is permitted and not     *)
(* expired, an archive lists its versions and reads any of them.           *)
Served(u) == shelf.ptr[u].disp = "permitted" /\ ~Expired(shelf.ptr[u])
Listed(u) == shelf.ptr[u].kept
Retrievable(u, h) ==
  /\ h \in Listed(u) /\ <<u, h>> \in shelf.body
  /\ \E t \in Days : <<u, h, t>> \in shelf.manifest

-----------------------------------------------------------------------------
(* Open: repairStore and repairArchiveStore.                               *)

Whole(d) ==
  \A u \in Urls :
    LET p == d.ptr[u] IN
      IF archive
      THEN \A h \in p.kept : /\ <<u, h>> \in d.body
                             /\ \E t \in Days : <<u, h, t>> \in d.manifest
      ELSE p.disp = "permitted" => <<u, p.hash>> \in d.body

UnexpiredLater(d) == d
Unexpired(d) == IF archive THEN d ELSE Swept(d, Due(d))
Referenced(d) ==
  [d EXCEPT
     !.body = {x \in @ : IF archive THEN x[2] \in d.ptr[x[1]].kept
                                    ELSE x[2] = d.ptr[x[1]].hash},
     !.manifest = {x \in @ : x[2] \in d.ptr[x[1]].kept}]
Repaired(d) == Referenced(Unexpired(d))

Openable(d) ==
  /\ Whole(Unexpired(d))
  /\ Cardinality(Present(Unexpired(d))) <= MaxEntries
  /\ archive => Versions(d) <= MaxVersions
  /\ Bytes(Repaired(d)) <= MaxBytes

Open ==
  /\ ~isOpen
  /\ \E d \in AfterCrash :
       /\ Openable(d)
       /\ shelf' = Repaired(d)
       /\ unsynced' = Gone(d, Repaired(d))
  /\ isOpen' = TRUE
  /\ tally' = [used |-> Bytes(shelf'), entries |-> Cardinality(Present(shelf')),
               versions |-> IF archive THEN Versions(shelf') ELSE 0]
  /\ UNCHANGED <<archive, day, purged>>

Close == isOpen /\ Dies(shelf) /\ UNCHANGED purged

DayPasses ==
  /\ day < LastDay /\ day' = day + 1
  /\ UNCHANGED <<archive, shelf, unsynced, tally, isOpen, purged>>

StoreNext ==
  \/ \E u \in Urls, at \in 0..day :
       \/ \E h \in {c \in Contents : <<u, c>> \in Offers} :
            \/ \E expires \in {0, at + 1} : Put(u, h, at, expires)
            \/ PutArchive(u, h, at)
       \/ \E expires \in {0, at + 1} : Revalidate(u, at, expires)
       \/ \E disp \in Revocations, existing \in BOOLEAN :
            Revoke(u, disp, at, existing)
  \/ Sweep \/ SweepStops \/ Open \/ Close \/ DayPasses

StoreSpec == StoreInit /\ [][StoreNext]_storeVars

-----------------------------------------------------------------------------
(* Whatever step the process died in, and whichever removals came back     *)
(* with the power, the next Open accepts the store: no pointer to missing  *)
(* content, no limit passed (repairStore, repairArchiveStore).             *)
StoreReopens == ~isOpen => \A d \in AfterCrash : Openable(d)

(* The counters a limit is checked against never fall below what is on the *)
(* disk, whichever step of which call failed (usedBytes, entries,          *)
(* versions; refreshUsageLocked).                                          *)
UsageNeverUnderstated ==
  isOpen => /\ tally.used >= Bytes(shelf)
            /\ tally.entries >= Cardinality(Present(shelf))
            /\ archive => tally.versions >= Versions(shelf)

(* What is current is there to be read, and so is every version an archive *)
(* lists, also after a sweep, a revalidation or a replacement that stopped *)
(* half way (Current, History, Version: ErrCorruptArtifact otherwise).     *)
ReadersFindWholeVersions ==
  isOpen => \A u \in Urls :
    /\ Served(u) => <<u, shelf.ptr[u].hash>> \in shelf.body
    /\ \A h \in Listed(u) : Retrievable(u, h)

(* Once a Revoke has returned, no file of the URL is left, also not one    *)
(* that an earlier failed call or a crash left behind ("noindex and        *)
(* takedown purges remain exact", store.go).                               *)
RevokedIsGone == isOpen => \A u \in purged :
                   FilesOf(shelf, u).body = {} /\ FilesOf(shelf, u).manifest = {}

(* What a crash leaves can be opened, and the limits it is opened against  *)
(* were counted right.                                                     *)
StoreHolds == StoreReopens /\ UsageNeverUnderstated

(* Files and pointers match: what is listed can be read, what is revoked   *)
(* is gone.                                                                *)
FilesMatchPointers == ReadersFindWholeVersions /\ RevokedIsGone

(* A tombstone only gives way to something observed later, and a takedown  *)
(* to nothing but a takedown: through failures, crashes and expiry         *)
(* (observationIsStale; "Tombstones are retained", store.go).              *)
TombstonesStick ==
  [][\A u \in Urls : LET p == shelf.ptr[u] q == shelf'.ptr[u] IN
       p.disp \in Revocations /\ q # p =>
         /\ q.disp \in (IF p.disp = "takedown" THEN {"takedown"}
                        ELSE Revocations \cup {"permitted"})
         /\ IF q.disp = "permitted" THEN q.at > p.at ELSE q.at >= p.at]_storeVars

(* All of this, at every moment and step and through every crash.          *)
StoreSound == [](StoreHolds /\ FilesMatchPointers) /\ TombstonesStick
=============================================================================
