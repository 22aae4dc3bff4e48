------------------------- MODULE ArtifactStore_proofs -------------------------
(***************************************************************************)
(* Why the local artifact store opens again after any crash and counts     *)
(* what it keeps, for any URLs, contents, body size and limits.  Between   *)
(* two file operations a shelf may hold more than its pointers name, never *)
(* less: what a pointer names is there, what the pointers name fits the    *)
(* limits, and what a crash may bring back is named by no pointer or has   *)
(* expired.                                                                *)
(***************************************************************************)
EXTENDS ArtifactStore, FiniteSetTheorems, TLAPS

PointerFits(d, u) ==
  LET p == d.ptr[u] IN
  /\ p.disp = "permitted" => <<u, p.hash>> \in d.body
  /\ p.disp # "permitted" => p.hash = NoContent /\ p.kept = {}
  /\ ~archive => p.kept = {}
  /\ archive => (/\ p.disp = "permitted" => p.hash \in p.kept
                 /\ \A h \in p.kept : /\ <<u, h>> \in d.body
                                      /\ \E t \in Days : <<u, h, t>> \in d.manifest)
FitsLimits(d) ==
  /\ Cardinality(Present(d)) <= MaxEntries
  /\ Bytes(Referenced(d)) <= MaxBytes
  /\ archive => Versions(d) <= MaxVersions
Shelved(d) == d \in Shelf /\ FitsLimits(d) /\ \A u \in Urls : PointerFits(d, u)

EmptiedOf(d, P) ==
  \A u \in P : /\ d.ptr[u].disp \in Revocations
               /\ \A x \in d.body : x[1] # u
               /\ \A x \in d.manifest : x[1] # u
CountedBy(t, d) ==
  /\ t \in Tally
  /\ t.used >= Bytes(d) /\ t.entries >= Cardinality(Present(d))
  /\ archive => t.versions >= Versions(d)
Harmless(lost, d) ==
  /\ \A u \in Urls : lost.ptr[u] # NoPointer => ~archive /\ Expired(lost.ptr[u])
  /\ \A x \in lost.manifest : x[2] \notin d.ptr[x[1]].kept

StoreInv ==
  /\ StoreTypeOK /\ Shelved(shelf)
  /\ Harmless(unsynced, shelf) /\ EmptiedOf(shelf, purged)
  /\ isOpen => CountedBy(tally, shelf)

-----------------------------------------------------------------------------
(* Counting files.                                                         *)

LEMMA StoreConstants ==
  /\ BodySize \in Nat /\ BodySize > 0
  /\ MaxBytes \in Nat /\ MaxEntries \in Nat /\ MaxVersions \in Nat
  /\ LastDay \in Nat /\ NoContent \notin Contents
  /\ NoPointer \notin Pointer /\ NoPointer.kept = {} /\ NoPointer.hash = NoContent
  /\ NoPointer.disp = "absent"
  BY StoreLimitsAssumption DEF NoContent, NoPointer, Pointer, Revocations

LEMMA Weights ==
  ASSUME NEW n \in Nat, NEW m \in Nat
  PROVE  /\ BodySize * n \in Nat /\ BodySize * 0 = 0
         /\ n <= m => BodySize * n <= BodySize * m
         /\ BodySize * (n + m) = BodySize * n + BodySize * m
         /\ BodySize * (n + 1) = BodySize * n + BodySize
         /\ n >= m => BodySize * (n - m) = BodySize * n - BodySize * m
<1> PICK b \in Nat : b = BodySize
  BY StoreConstants
<1>1. n <= m => b * n <= b * m
  <2> SUFFICES ASSUME n <= m PROVE b * n <= b * m
    OBVIOUS
  <2> PICK k \in Nat : m = n + k
    <3> WITNESS m - n \in Nat
    <3> QED
      OBVIOUS
  <2>1. b * m = b * n + b * k /\ b * k \in Nat /\ b * n \in Nat
    OBVIOUS
  <2> QED
    BY <2>1
<1> QED
  BY <1>1

LEMMA FilesAreFinite ==
  /\ IsFiniteSet(Urls) /\ IsFiniteSet(Urls \X Contents)
  /\ IsFiniteSet(Urls \X Contents \X Days)
<1>1. IsFiniteSet(Urls) /\ IsFiniteSet(Contents) /\ IsFiniteSet(Days)
  BY StoreLimitsAssumption, FS_Interval DEF Days
<1>2. IsFiniteSet(Urls \X Contents) /\ IsFiniteSet((Urls \X Contents) \X Days)
  BY <1>1, FS_Product
<1> DEFINE f == [x \in (Urls \X Contents) \X Days |-> <<x[1][1], x[1][2], x[2]>>]
<1>3. f \in Surjection((Urls \X Contents) \X Days, Urls \X Contents \X Days)
  <2>1. f \in [(Urls \X Contents) \X Days -> Urls \X Contents \X Days]
    OBVIOUS
  <2>2. ASSUME NEW y \in Urls \X Contents \X Days
        PROVE  \E x \in (Urls \X Contents) \X Days : f[x] = y
    <3> WITNESS <<<<y[1], y[2]>>, y[3]>> \in (Urls \X Contents) \X Days
    <3> QED
      OBVIOUS
  <2> QED
    BY <2>1, <2>2 DEF Surjection
<1> QED
  BY <1>1, <1>2, <1>3, FS_Surjection

(* Bytes, in numbers a prover can add.                                     *)
LEMMA BytesAre ==
  ASSUME NEW d \in Shelf
  PROVE  /\ IsFiniteSet(Present(d)) /\ IsFiniteSet(d.body) /\ IsFiniteSet(d.manifest)
         /\ Cardinality(Present(d)) \in Nat /\ Cardinality(d.body) \in Nat
         /\ Cardinality(d.manifest) \in Nat
         /\ BodySize * Cardinality(d.body) \in Nat /\ Bytes(d) \in Nat
         /\ Bytes(d) = Cardinality(Present(d)) + BodySize * Cardinality(d.body)
                       + Cardinality(d.manifest)
         /\ IsFiniteSet({x \in Urls \X Contents : x[2] \in d.ptr[x[1]].kept})
         /\ Versions(d) \in Nat
<1>1. Present(d) \subseteq Urls /\ d.body \subseteq Urls \X Contents
      /\ d.manifest \subseteq Urls \X Contents \X Days
  BY DEF Shelf, Present
<1>2. IsFiniteSet(Present(d)) /\ IsFiniteSet(d.body) /\ IsFiniteSet(d.manifest)
  BY <1>1, FilesAreFinite, FS_Subset
<1>3. Cardinality(Present(d)) \in Nat /\ Cardinality(d.body) \in Nat
      /\ Cardinality(d.manifest) \in Nat
  BY <1>2, FS_CardinalityType
<1>4. BodySize * Cardinality(d.body) \in Nat
  BY <1>3, Weights
<1>5. {x \in Urls \X Contents : x[2] \in d.ptr[x[1]].kept} \subseteq Urls \X Contents
  OBVIOUS
<1>6. IsFiniteSet({x \in Urls \X Contents : x[2] \in d.ptr[x[1]].kept})
  BY <1>5, FilesAreFinite, FS_Subset
<1> QED
  BY <1>2, <1>3, <1>4, <1>6, FS_CardinalityType DEF Bytes, Versions

(* Fewer files weigh less.                                                 *)
LEMMA FewerFiles ==
  ASSUME NEW d \in Shelf, NEW e \in Shelf, Present(e) \subseteq Present(d),
         e.body \subseteq d.body, e.manifest \subseteq d.manifest
  PROVE  /\ Bytes(e) <= Bytes(d)
         /\ Cardinality(Present(e)) <= Cardinality(Present(d))
<1>1. /\ Cardinality(Present(e)) <= Cardinality(Present(d))
      /\ Cardinality(e.body) <= Cardinality(d.body)
      /\ Cardinality(e.manifest) <= Cardinality(d.manifest)
  BY BytesAre, FS_Subset
<1>2. BodySize * Cardinality(e.body) <= BodySize * Cardinality(d.body)
  BY <1>1, BytesAre, Weights
<1> DEFINE p(x) == Cardinality(Present(x))
           b(x) == BodySize * Cardinality(x.body)
           m(x) == Cardinality(x.manifest)
<1>3. \A x \in {d, e} : /\ p(x) \in Nat /\ b(x) \in Nat /\ m(x) \in Nat
                        /\ Bytes(x) = p(x) + b(x) + m(x)
  BY BytesAre
<1>4. p(e) <= p(d) /\ b(e) <= b(d) /\ m(e) <= m(d)
  BY <1>1, <1>2
<1>5. Bytes(e) <= Bytes(d)
  <2> HIDE DEF p, b, m
  <2> QED
    BY <1>3, <1>4
<1> QED
  BY <1>1, <1>5

LEMMA ReferencedFiles ==
  ASSUME NEW d \in Shelf
  PROVE  /\ Referenced(d) \in Shelf
         /\ Referenced(d).ptr = d.ptr /\ Present(Referenced(d)) = Present(d)
         /\ Referenced(d).body =
              {x \in d.body : IF archive THEN x[2] \in d.ptr[x[1]].kept
                                         ELSE x[2] = d.ptr[x[1]].hash}
         /\ Referenced(d).manifest = {x \in d.manifest : x[2] \in d.ptr[x[1]].kept}
         /\ Bytes(Referenced(d)) <= Bytes(d)
<1>1. /\ Referenced(d) \in Shelf
      /\ Referenced(d).ptr = d.ptr /\ Present(Referenced(d)) = Present(d)
      /\ Referenced(d).body =
           {x \in d.body : IF archive THEN x[2] \in d.ptr[x[1]].kept
                                      ELSE x[2] = d.ptr[x[1]].hash}
      /\ Referenced(d).manifest = {x \in d.manifest : x[2] \in d.ptr[x[1]].kept}
  BY DEF Referenced, Shelf, Present
<1>2. Referenced(d).body \subseteq d.body /\ Referenced(d).manifest \subseteq d.manifest
  BY <1>1
<1> QED
  BY <1>1, <1>2, FewerFiles

(* A recount is exact but for the versions of a store over its limits.     *)
LEMMA RecountCounts ==
  ASSUME NEW d \in Shelf, tally \in Tally,
         archive /\ ~(/\ Bytes(d) <= MaxBytes
                      /\ Cardinality(Present(d)) <= MaxEntries)
           => tally.versions >= Versions(d)
  PROVE  CountedBy(Measured(d), d)
<1>1. Bytes(d) \in Nat /\ Cardinality(Present(d)) \in Nat /\ Versions(d) \in Nat
  BY BytesAre
<1>2. tally.versions \in Int
  BY DEF Tally
<1> DEFINE t == Measured(d)
<1>3. /\ t.used = Bytes(d) /\ t.entries = Cardinality(Present(d))
      /\ t.versions = IF archive /\ Bytes(d) <= MaxBytes
                         /\ Cardinality(Present(d)) <= MaxEntries
                      THEN Versions(d) ELSE tally.versions
      /\ t = [used |-> t.used, entries |-> t.entries, versions |-> t.versions]
  BY DEF Measured
<1> HIDE DEF t
<1>4. t \in Tally
  BY <1>1, <1>2, <1>3 DEF Tally
<1>5. t.used >= Bytes(d) /\ t.entries >= Cardinality(Present(d))
  BY <1>1, <1>3
<1>6. archive => t.versions >= Versions(d)
  BY <1>1, <1>2, <1>3
<1> QED
  BY <1>4, <1>5, <1>6 DEF CountedBy, t
-----------------------------------------------------------------------------
(* The ends of a call.                                                     *)

(* What a call may do to pointers: only what has expired disappears, and a *)
(* tombstone gives way as TombstonesStick says.                            *)
GivesWay(p, q) ==
  /\ q.disp \in (IF p.disp = "takedown" THEN {"takedown"}
                 ELSE Revocations \cup {"permitted"})
  /\ IF q.disp = "permitted" THEN q.at > p.at ELSE q.at >= p.at
Succeeds(d, e) ==
  \A u \in Urls :
    /\ d.ptr[u] # NoPointer /\ e.ptr[u] = NoPointer => ~archive /\ Expired(d.ptr[u])
    /\ d.ptr[u].disp \in Revocations /\ e.ptr[u] # d.ptr[u] =>
         GivesWay(d.ptr[u], e.ptr[u])

LEMMA InvParts ==
  ASSUME StoreInv
  PROVE  /\ shelf \in Shelf /\ unsynced \in Shelf /\ tally \in Tally
         /\ archive \in BOOLEAN /\ isOpen \in BOOLEAN /\ day \in Days
         /\ purged \subseteq Urls
         /\ Shelved(shelf) /\ Harmless(unsynced, shelf) /\ EmptiedOf(shelf, purged)
  BY DEF StoreInv, StoreTypeOK

(* What is removed and may come back is harmless to what is on the shelf.  *)
LEMMA RemovedIsHarmless ==
  ASSUME StoreInv, NEW e, Shelved(e), Succeeds(shelf, e), NEW w \in BOOLEAN
  PROVE  Recoverable(shelf, e, w) \in Shelf /\ Harmless(Recoverable(shelf, e, w), e)
<1> DEFINE lost == Recoverable(shelf, e, w)
           gone == Gone(shelf, e)
           removed == Both(gone, unsynced)
<1>1. shelf \in Shelf /\ unsynced \in Shelf /\ e \in Shelf
  BY InvParts DEF Shelved
<1>2. /\ gone \in Shelf
      /\ \A u \in Urls : gone.ptr[u] = IF e.ptr[u] = NoPointer THEN shelf.ptr[u]
                                                               ELSE NoPointer
  BY <1>1 DEF Gone, Shelf
<1>3. /\ removed \in Shelf
      /\ \A u \in Urls : removed.ptr[u] \in {gone.ptr[u], unsynced.ptr[u]}
  <2> HIDE DEF gone
  <2> QED
    BY <1>1, <1>2 DEF Both, Shelf
<1>4. NoFiles \in Shelf /\ \A u \in Urls : NoFiles.ptr[u] = NoPointer
  BY DEF NoFiles, Shelf
<1>5. lost = [ptr |-> IF w THEN NoFiles.ptr ELSE removed.ptr,
              body |-> removed.body \ e.body,
              manifest |-> {x \in removed.manifest :
                              \A y \in e.manifest : <<x[1], x[2]>> # <<y[1], y[2]>>}]
  BY DEF Recoverable
<1> HIDE DEF lost, removed
<1>6. lost \in Shelf
  BY <1>3, <1>4, <1>5 DEF Shelf
<1>7. \A u \in Urls : lost.ptr[u] # NoPointer => ~archive /\ Expired(lost.ptr[u])
  <2> SUFFICES ASSUME NEW u \in Urls, lost.ptr[u] # NoPointer
               PROVE  ~archive /\ Expired(lost.ptr[u])
    OBVIOUS
  <2>1. ~w /\ lost.ptr[u] = removed.ptr[u]
    BY <1>4, <1>5
  <2>2. CASE lost.ptr[u] = unsynced.ptr[u]
    BY <2>2, InvParts DEF Harmless
  <2>3. CASE lost.ptr[u] = gone.ptr[u]
    <3>1. e.ptr[u] = NoPointer /\ lost.ptr[u] = shelf.ptr[u]
      BY <1>2, <2>3
    <3> QED
      BY <3>1 DEF Succeeds
  <2> QED
    BY <1>3, <2>1, <2>2, <2>3
<1>8. \A x \in lost.manifest : x[2] \notin e.ptr[x[1]].kept
  <2> SUFFICES ASSUME NEW x \in lost.manifest, x[2] \in e.ptr[x[1]].kept
               PROVE  FALSE
    OBVIOUS
  <2>1. /\ x[1] \in Urls
        /\ \A y \in e.manifest : <<x[1], x[2]>> # <<y[1], y[2]>>
    BY <1>5, <1>6 DEF Shelf
  <2>2. \E t \in Days : <<x[1], x[2], t>> \in e.manifest
    BY <2>1 DEF Shelved, PointerFits
  <2>3. PICK t \in Days : <<x[1], x[2], t>> \in e.manifest
    BY <2>2
  <2> QED
    BY <2>1, <2>3
<1> QED
  BY <1>6, <1>7, <1>8 DEF Harmless, lost

LEMMA ReturnKeeps ==
  ASSUME StoreInv, isOpen, NEW e, NEW t, NEW w \in BOOLEAN,
         Shelved(e), Succeeds(shelf, e), CountedBy(t, e),
         purged' \subseteq Urls, EmptiedOf(e, purged'), Return(e, t, w)
  PROVE  StoreInv' /\ Succeeds(shelf, shelf')
<1>1. /\ shelf' = e /\ tally' = t /\ archive' = archive /\ isOpen' = isOpen
      /\ day' = day /\ unsynced' = Recoverable(shelf, e, w)
  BY DEF Return
<1>2. unsynced' \in Shelf /\ Harmless(unsynced', e)
  BY <1>1, RemovedIsHarmless
<1>3. e \in Shelf
  BY DEF Shelved
<1>4. StoreTypeOK'
  BY <1>1, <1>2, <1>3, InvParts DEF StoreTypeOK, CountedBy
<1>5. Shelved(shelf)'
  BY <1>1 DEF Shelved, FitsLimits, PointerFits, Referenced, Versions, Bytes, Present
<1>6. Harmless(unsynced, shelf)'
  BY <1>1, <1>2 DEF Harmless, Expired
<1>7. EmptiedOf(shelf, purged)'
  BY <1>1 DEF EmptiedOf
<1>8. CountedBy(tally, shelf)'
  BY <1>1 DEF CountedBy, Bytes, Versions, Present
<1> QED
  BY <1>1, <1>4, <1>5, <1>6, <1>7, <1>8 DEF StoreInv

LEMMA DeathKeeps ==
  ASSUME StoreInv, isOpen, NEW e, Shelved(e), Succeeds(shelf, e),
         purged' \subseteq Urls, EmptiedOf(e, purged'), Dies(e)
  PROVE  StoreInv' /\ Succeeds(shelf, shelf')
<1>1. /\ shelf' = e /\ tally' = NoTally /\ archive' = archive /\ isOpen' = FALSE
      /\ day' = day /\ unsynced' = Recoverable(shelf, e, FALSE)
  BY DEF Dies
<1>2. unsynced' \in Shelf /\ Harmless(unsynced', e)
  BY <1>1, RemovedIsHarmless
<1>3. e \in Shelf /\ NoTally \in Tally
  BY DEF Shelved, NoTally, Tally
<1>4. StoreTypeOK'
  BY <1>1, <1>2, <1>3, InvParts DEF StoreTypeOK
<1>5. Shelved(shelf)'
  BY <1>1 DEF Shelved, FitsLimits, PointerFits, Referenced, Versions, Bytes, Present
<1>6. Harmless(unsynced, shelf)'
  BY <1>1, <1>2 DEF Harmless, Expired
<1>7. EmptiedOf(shelf, purged)'
  BY <1>1 DEF EmptiedOf
<1> QED
  BY <1>1, <1>4, <1>5, <1>6, <1>7 DEF StoreInv

(* Expiry takes pointers away, and with them their bodies.                 *)
Lapses(d, e) ==
  \A u \in Urls : \/ e.ptr[u] = d.ptr[u]
                  \/ e.ptr[u] = NoPointer /\ ~archive /\ Expired(d.ptr[u])

LEMMA LapsedShelf ==
  ASSUME StoreInv, ~archive, NEW e \in Shelf, Lapses(shelf, e),
         e.body \subseteq shelf.body, e.manifest \subseteq shelf.manifest,
         \A x \in shelf.body : x \in e.body \/ e.ptr[x[1]] = NoPointer
  PROVE  /\ Shelved(e) /\ Succeeds(shelf, e) /\ EmptiedOf(e, purged)
         /\ Bytes(e) <= Bytes(shelf)
         /\ Cardinality(Present(e)) <= Cardinality(Present(shelf))
<1>1. shelf \in Shelf /\ Shelved(shelf) /\ EmptiedOf(shelf, purged) /\ purged \subseteq Urls
  BY InvParts
<1>2. Present(e) \subseteq Present(shelf)
  BY DEF Lapses, Present
<1>3. /\ Bytes(e) <= Bytes(shelf)
      /\ Cardinality(Present(e)) <= Cardinality(Present(shelf))
  BY <1>1, <1>2, FewerFiles
<1>4. ASSUME NEW u \in Urls PROVE PointerFits(e, u)
  <2>1. PointerFits(shelf, u)
    BY <1>1 DEF Shelved
  <2>2. CASE e.ptr[u] = NoPointer
    BY <2>2, StoreConstants DEF PointerFits
  <2>3. CASE e.ptr[u] = shelf.ptr[u] /\ e.ptr[u] # NoPointer
    <3>1. e.ptr[u].disp = "permitted" => <<u, e.ptr[u].hash>> \in shelf.body
      BY <2>1, <2>3 DEF PointerFits
    <3>2. e.ptr[u].disp = "permitted" => <<u, e.ptr[u].hash>> \in e.body
      BY <3>1, <2>3
    <3> QED
      BY <2>1, <2>3, <3>2 DEF PointerFits
  <2> QED
    BY <2>2, <2>3 DEF Lapses
<1>5. Bytes(Referenced(e)) <= Bytes(Referenced(shelf))
  <2>1. Referenced(e).body \subseteq Referenced(shelf).body
    <3> SUFFICES ASSUME NEW x \in Referenced(e).body PROVE x \in Referenced(shelf).body
      OBVIOUS
    <3>1. x \in e.body /\ x[2] = e.ptr[x[1]].hash /\ x[1] \in Urls /\ x[2] \in Contents
      BY ReferencedFiles DEF Shelf
    <3>2. e.ptr[x[1]] = shelf.ptr[x[1]]
      BY <3>1, StoreConstants DEF Lapses
    <3> QED
      BY <1>1, <3>1, <3>2, ReferencedFiles
  <2>2. Referenced(e).manifest \subseteq Referenced(shelf).manifest
    <3>1. ASSUME NEW x \in e.manifest, x[2] \in e.ptr[x[1]].kept
          PROVE  x[2] \in shelf.ptr[x[1]].kept
      <4>1. x[1] \in Urls
        BY DEF Shelf
      <4> QED
        BY <3>1, <4>1, StoreConstants DEF Lapses
    <3> QED
      BY <1>1, <3>1, ReferencedFiles
  <2>3. /\ Referenced(e) \in Shelf /\ Referenced(shelf) \in Shelf
        /\ Present(Referenced(e)) \subseteq Present(Referenced(shelf))
    BY <1>1, <1>2, ReferencedFiles
  <2> QED
    BY <2>1, <2>2, <2>3, FewerFiles
<1>6. FitsLimits(e)
  <2>1. Bytes(Referenced(shelf)) \in Nat /\ Bytes(Referenced(e)) \in Nat
    BY <1>1, ReferencedFiles, BytesAre
  <2>2. Cardinality(Present(shelf)) \in Nat /\ Cardinality(Present(e)) \in Nat
    BY <1>1, BytesAre
  <2> QED
    BY <1>1, <1>3, <1>5, <2>1, <2>2, StoreConstants DEF Shelved, FitsLimits
<1>7. Succeeds(shelf, e)
  BY DEF Succeeds, Lapses, Expired, Revocations
<1>8. EmptiedOf(e, purged)
  <2>1. ASSUME NEW u \in purged PROVE e.ptr[u] = shelf.ptr[u]
    BY <1>1 DEF EmptiedOf, Lapses, Expired, Revocations
  <2> QED
    BY <1>1, <2>1 DEF EmptiedOf
<1> QED
  BY <1>3, <1>4, <1>6, <1>7, <1>8 DEF Shelved

LEMMA SweptShelf ==
  ASSUME StoreInv, ~archive, NEW E \in SUBSET Due(shelf), NEW H \in SUBSET Due(shelf),
         NEW e, e = [Swept(shelf, E) EXCEPT
                       !.ptr = [u \in Urls |-> IF u \in H THEN NoPointer ELSE @[u]]]
  PROVE  /\ Lapses(shelf, e)
         /\ Shelved(e) /\ Succeeds(shelf, e) /\ EmptiedOf(e, purged)
         /\ Bytes(e) <= Bytes(shelf)
         /\ Cardinality(Present(e)) <= Cardinality(Present(shelf))
<1>1. shelf \in Shelf
  BY InvParts
<1>2. /\ e.ptr = [u \in Urls |-> IF u \in H \cup E THEN NoPointer ELSE shelf.ptr[u]]
      /\ e.body = {x \in shelf.body : ~(x[1] \in E /\ x[2] = shelf.ptr[x[1]].hash)}
      /\ e.manifest = shelf.manifest
      /\ e = [ptr |-> e.ptr, body |-> e.body, manifest |-> e.manifest]
  BY <1>1 DEF Swept, Shelf
<1>3. e \in Shelf
  BY <1>1, <1>2 DEF Shelf
<1>4. \A u \in E \cup H : Expired(shelf.ptr[u])
  BY DEF Due
<1>5. Lapses(shelf, e)
  BY <1>2, <1>4 DEF Lapses
<1>6. \A x \in shelf.body : x \in e.body \/ e.ptr[x[1]] = NoPointer
  BY <1>1, <1>2 DEF Shelf, Due
<1>7. e.body \subseteq shelf.body /\ e.manifest \subseteq shelf.manifest
  BY <1>2
<1> HIDE DEF Lapses
<1> QED
  BY <1>3, <1>5, <1>6, <1>7, LapsedShelf

LEMMA WhollySwept ==
  ASSUME StoreInv, ~archive, NEW E \in SUBSET Due(shelf)
  PROVE  /\ Lapses(shelf, Swept(shelf, E))
         /\ Shelved(Swept(shelf, E)) /\ Succeeds(shelf, Swept(shelf, E))
         /\ EmptiedOf(Swept(shelf, E), purged)
         /\ Bytes(Swept(shelf, E)) <= Bytes(shelf)
         /\ Cardinality(Present(Swept(shelf, E))) <= Cardinality(Present(shelf))
<1> DEFINE e == [Swept(shelf, E) EXCEPT
                   !.ptr = [u \in Urls |-> IF u \in {} THEN NoPointer ELSE @[u]]]
<1>1. e = Swept(shelf, E)
  BY InvParts DEF Swept, Shelf
<1>2. {} \in SUBSET Due(shelf)
  OBVIOUS
<1> QED
  BY <1>1, <1>2, SweptShelf

LEMMA SweepStep ==
  ASSUME StoreInv, Sweep
  PROVE  StoreInv' /\ Succeeds(shelf, shelf')
<1> DEFINE e == Swept(shelf, Due(shelf))
<1>1. isOpen /\ ~archive /\ Return(e, Measured(e), FALSE) /\ purged' = purged
  BY DEF Sweep
<1>2. Shelved(e) /\ Succeeds(shelf, e) /\ EmptiedOf(e, purged)
  BY <1>1, WhollySwept
<1> HIDE DEF e
<1>3. CountedBy(Measured(e), e)
  BY <1>1, <1>2, InvParts, RecountCounts DEF Shelved
<1>4. purged' \subseteq Urls /\ EmptiedOf(e, purged')
  BY <1>1, <1>2, InvParts
<1> QED
  BY <1>1, <1>2, <1>3, <1>4, ReturnKeeps

LEMMA SweepStopsStep ==
  ASSUME StoreInv, SweepStops
  PROVE  StoreInv' /\ Succeeds(shelf, shelf')
<1>1. isOpen /\ ~archive /\ purged' = purged
  BY DEF SweepStops
<1>2. PICK E \in SUBSET Due(shelf), H \in SUBSET Due(shelf) :
        Return([Swept(shelf, E) EXCEPT
                  !.ptr = [u \in Urls |-> IF u \in H THEN NoPointer ELSE @[u]]],
               tally, FALSE)
  BY DEF SweepStops
<1> DEFINE e == [Swept(shelf, E) EXCEPT
                   !.ptr = [u \in Urls |-> IF u \in H THEN NoPointer ELSE @[u]]]
<1>3. Return(e, tally, FALSE)
  BY <1>2
<1>4. /\ Shelved(e) /\ Succeeds(shelf, e) /\ EmptiedOf(e, purged)
      /\ Bytes(e) <= Bytes(shelf)
      /\ Cardinality(Present(e)) <= Cardinality(Present(shelf))
  BY <1>1, SweptShelf
<1> HIDE DEF e
<1>5. CountedBy(tally, e)
  <2>1. e \in Shelf /\ shelf \in Shelf /\ CountedBy(tally, shelf)
    BY <1>1, <1>4, InvParts DEF Shelved, StoreInv
  <2>2. /\ Bytes(e) \in Nat /\ Bytes(shelf) \in Nat
        /\ Cardinality(Present(e)) \in Nat /\ Cardinality(Present(shelf)) \in Nat
    BY <2>1, BytesAre
  <2>3. tally.used \in Int /\ tally.entries \in Nat
    BY <2>1 DEF CountedBy, Tally
  <2> QED
    BY <1>1, <1>4, <2>1, <2>2, <2>3 DEF CountedBy
<1>6. purged' \subseteq Urls /\ EmptiedOf(e, purged')
  BY <1>1, <1>4, InvParts
<1> QED
  BY <1>1, <1>3, <1>4, <1>5, <1>6, ReturnKeeps

(* What a call that needs room starts from.                                *)
LEMMA RoomyShelf ==
  ASSUME StoreInv, isOpen, NEW short \in BOOLEAN
  PROVE  LET d == Roomy(short).d
             t == Roomy(short).t IN
         /\ Lapses(shelf, d) /\ Shelved(d) /\ Succeeds(shelf, d)
         /\ EmptiedOf(d, purged) /\ CountedBy(t, d)
         /\ archive => d = shelf /\ t = tally
<1> DEFINE e == Swept(shelf, Due(shelf))
<1>1. CASE ~archive /\ (short \/ tally.entries >= MaxEntries)
  <2>1. Roomy(short).d = e /\ Roomy(short).t = Measured(e)
    BY <1>1 DEF Roomy
  <2>2. /\ Lapses(shelf, e) /\ Shelved(e) /\ Succeeds(shelf, e)
        /\ EmptiedOf(e, purged)
    BY <1>1, WhollySwept
  <2> HIDE DEF e
  <2>3. CountedBy(Measured(e), e)
    BY <1>1, <2>2, InvParts, RecountCounts DEF Shelved
  <2> QED
    BY <1>1, <2>1, <2>2, <2>3
<1>2. CASE ~(~archive /\ (short \/ tally.entries >= MaxEntries))
  <2>1. Roomy(short).d = shelf /\ Roomy(short).t = tally
    BY <1>2 DEF Roomy
  <2>2. Lapses(shelf, shelf) /\ Succeeds(shelf, shelf)
    BY DEF Lapses, Succeeds
  <2> QED
    BY <2>1, <2>2, InvParts DEF StoreInv
<1> QED
  BY <1>1, <1>2

-----------------------------------------------------------------------------
(* Put.                                                                    *)

(* A pointer that replaces another after a lapse.                          *)
LEMMA RepointedSucceeds ==
  ASSUME StoreInv, NEW d, Lapses(shelf, d), Shelved(d), NEW u \in Urls, NEW p \in Pointer,
         d.ptr[u].disp \in Revocations => GivesWay(d.ptr[u], p),
         NEW e, e.ptr = [d.ptr EXCEPT ![u] = p]
  PROVE  Succeeds(shelf, e)
<1>1. d \in Shelf
  BY DEF Shelved
<1>2. \A v \in Urls : e.ptr[v] = IF v = u THEN p ELSE d.ptr[v]
  BY <1>1 DEF Shelf
<1>3. p # NoPointer
  BY StoreConstants
<1>4. ASSUME NEW v \in Urls, shelf.ptr[v].disp \in Revocations PROVE d.ptr[v] = shelf.ptr[v]
  BY <1>4 DEF Lapses, Expired, Revocations
<1> QED
  BY <1>2, <1>3, <1>4 DEF Succeeds, Lapses

(* The pointers of d with one more or one replaced.                        *)
LEMMA Repointed ==
  ASSUME NEW d \in Shelf, NEW e \in Shelf, NEW u \in Urls, NEW p \in Pointer,
         e.ptr = [d.ptr EXCEPT ![u] = p]
  PROVE  /\ Present(e) = Present(d) \cup {u}
         /\ Cardinality(Present(e)) = Cardinality(Present(d)) + IsNew(d, u)
<1>1. \A v \in Urls : e.ptr[v] = IF v = u THEN p ELSE d.ptr[v]
  BY DEF Shelf
<1>2. Present(e) = Present(d) \cup {u}
  BY <1>1, StoreConstants DEF Present
<1>3. u \in Present(d) <=> d.ptr[u] # NoPointer
  BY DEF Present
<1>4. Cardinality(Present(d) \cup {u}) = IF u \in Present(d)
        THEN Cardinality(Present(d)) ELSE Cardinality(Present(d)) + 1
  BY BytesAre, FS_AddElement
<1>5. CASE d.ptr[u] = NoPointer
  BY <1>2, <1>3, <1>4, <1>5, BytesAre DEF IsNew
<1>6. CASE d.ptr[u] # NoPointer
  <2>1. IsNew(d, u) = 0
    BY <1>6 DEF IsNew
  <2>2. PICK n \in Nat : n = Cardinality(Present(d))
    BY BytesAre
  <2>3. Cardinality(Present(e)) = n
    BY <1>2, <1>3, <1>4, <1>6, <2>2
  <2> QED
    BY <1>2, <2>1, <2>2, <2>3
<1> QED
  BY <1>5, <1>6

(* A call on u leaves the rest of the shelf alone.                         *)
LEMMA EmptiedElsewhere ==
  ASSUME NEW d, NEW e, NEW u, NEW P, EmptiedOf(d, P),
         \A v \in P \ {u} : e.ptr[v] = d.ptr[v],
         \A x \in e.body : x \in d.body \/ x[1] = u,
         \A x \in e.manifest : x \in d.manifest \/ x[1] = u
  PROVE  EmptiedOf(e, P \ {u})
  BY DEF EmptiedOf

(* A file its pointer does not name yet weighs nothing after a crash.      *)
LEMMA AddedShelved ==
  ASSUME NEW d, Shelved(d), NEW e \in Shelf, NEW u \in Urls, NEW h \in Contents,
         e.ptr = d.ptr, d.body \subseteq e.body, d.manifest \subseteq e.manifest,
         e.body \subseteq d.body \cup {<<u, h>>},
         \A x \in e.manifest :
           \/ x \in d.manifest
           \/ x[1] = u /\ x[2] = h /\ ~\E t \in Days : <<u, h, t>> \in d.manifest
  PROVE  Shelved(e)
<1>1. d \in Shelf /\ FitsLimits(d) /\ \A v \in Urls : PointerFits(d, v)
  BY DEF Shelved
<1>2. ASSUME NEW v \in Urls PROVE PointerFits(e, v)
  BY <1>1 DEF PointerFits
<1>3. Referenced(e).body \subseteq Referenced(d).body
  <2> SUFFICES ASSUME NEW x \in Referenced(e).body PROVE x \in Referenced(d).body
    OBVIOUS
  <2>1. x \in e.body /\ IF archive THEN x[2] \in d.ptr[x[1]].kept
                                   ELSE x[2] = d.ptr[x[1]].hash
    BY ReferencedFiles
  <2>2. CASE x \in d.body
    BY <1>1, <2>1, <2>2, ReferencedFiles
  <2>3. CASE x = <<u, h>>
    <3>1. PointerFits(d, u)
      BY <1>1
    <3>2. x \in d.body
      BY <3>1, <2>1, <2>3, StoreConstants DEF PointerFits
    <3> QED
      BY <2>2, <3>2
  <2> QED
    BY <2>1, <2>2, <2>3
<1>4. Referenced(e).manifest \subseteq Referenced(d).manifest
  <2> SUFFICES ASSUME NEW x \in Referenced(e).manifest
               PROVE  x \in Referenced(d).manifest
    OBVIOUS
  <2>1. x \in e.manifest /\ x[2] \in d.ptr[x[1]].kept
    BY ReferencedFiles
  <2>2. PointerFits(d, u)
    BY <1>1
  <2>3. x \in d.manifest
    BY <2>1, <2>2 DEF PointerFits
  <2> QED
    BY <1>1, <2>1, <2>3, ReferencedFiles
<1>5. /\ Present(e) = Present(d) /\ Versions(e) = Versions(d)
  BY DEF Present, Versions
<1>6. Bytes(Referenced(e)) <= Bytes(Referenced(d))
  BY <1>1, <1>3, <1>4, <1>5, ReferencedFiles, FewerFiles
<1>7. Bytes(Referenced(e)) \in Nat /\ Bytes(Referenced(d)) \in Nat
  BY <1>1, ReferencedFiles, BytesAre
<1>8. FitsLimits(e)
  BY <1>1, <1>5, <1>6, <1>7, StoreConstants DEF FitsLimits
<1> QED
  BY <1>2, <1>8 DEF Shelved

(* The pointer of a new observation, and what remains of the old body.     *)
LEMMA WrittenShelved ==
  ASSUME ~archive, NEW d, Shelved(d), NEW e \in Shelf, NEW u \in Urls,
         NEW h \in Contents, NEW p \in Pointer,
         p.disp = "permitted", p.hash = h, p.kept = {},
         e.ptr = [d.ptr EXCEPT ![u] = p], e.manifest = d.manifest,
         <<u, h>> \in e.body, \A x \in d.body : x \in e.body \/ x[1] = u,
         Cardinality(Present(e)) <= MaxEntries, Bytes(Referenced(e)) <= MaxBytes
  PROVE  Shelved(e)
<1>1. d \in Shelf /\ \A v \in Urls : PointerFits(d, v)
  BY DEF Shelved
<1>2. \A v \in Urls : e.ptr[v] = IF v = u THEN p ELSE d.ptr[v]
  BY <1>1 DEF Shelf
<1>3. ASSUME NEW v \in Urls PROVE PointerFits(e, v)
  <2>1. CASE v = u
    BY <1>2, <2>1 DEF PointerFits
  <2>2. CASE v # u
    <3>1. e.ptr[v] = d.ptr[v] /\ PointerFits(d, v)
      BY <1>1, <1>2, <2>2
    <3>2. d.ptr[v].disp = "permitted" => <<v, d.ptr[v].hash>> \in d.body
      BY <3>1 DEF PointerFits
    <3>3. d.ptr[v].disp = "permitted" => <<v, d.ptr[v].hash>> \in e.body
      BY <3>2, <2>2
    <3> QED
      BY <3>1, <3>3 DEF PointerFits
  <2> QED
    BY <2>1, <2>2
<1> QED
  BY <1>3 DEF Shelved, FitsLimits
(* What Put leaves when it is done, and what that weighs.                  *)
LEMMA ReplacedBytes ==
  ASSUME NEW d \in Shelf, NEW e \in Shelf, NEW u \in Urls, NEW h \in Contents,
         NEW p \in Pointer, NEW g, NEW old \in {{}, {<<u, g>>}},
         old # {} => g # h /\ <<u, g>> \in d.body,
         e.ptr = [d.ptr EXCEPT ![u] = p], e.manifest = d.manifest,
         e.body = (d.body \cup {<<u, h>>}) \ old
  PROVE  Bytes(e) = Bytes(d) + IsNew(d, u)
                    + (IF <<u, h>> \in d.body THEN 0 ELSE BodySize)
                    - (IF old = {} THEN 0 ELSE BodySize)
<1> DEFINE more == d.body \cup {<<u, h>>}
<1>1. Cardinality(Present(e)) = Cardinality(Present(d)) + IsNew(d, u)
      /\ IsNew(d, u) \in {0, 1}
  BY Repointed DEF IsNew
<1>2. /\ IsFiniteSet(d.body) /\ Cardinality(d.body) \in Nat /\ IsFiniteSet(more)
      /\ Cardinality(more) = IF <<u, h>> \in d.body THEN Cardinality(d.body)
                                                    ELSE Cardinality(d.body) + 1
  BY BytesAre, FS_AddElement
<1>3. PICK n \in Nat : n = Cardinality(d.body)
  BY <1>2
<1>4. PICK m \in Nat : m = Cardinality(more)
  BY <1>2
<1>5. BodySize * m = BodySize * n + (IF <<u, h>> \in d.body THEN 0 ELSE BodySize)
  <2>1. CASE <<u, h>> \in d.body
    <3>1. m = n /\ BodySize * n \in Nat
      BY <1>2, <1>3, <1>4, <2>1, Weights
    <3> QED
      BY <3>1, <2>1
  <2>2. CASE <<u, h>> \notin d.body
    <3>1. m = n + 1 /\ BodySize * (n + 1) = BodySize * n + BodySize
      BY <1>2, <1>3, <1>4, <2>2, Weights
    <3> QED
      BY <3>1, <2>2
  <2> QED
    BY <2>1, <2>2
<1>6. BodySize * Cardinality(e.body) = BodySize * m - (IF old = {} THEN 0 ELSE BodySize)
  <2>1. CASE old # {}
    <3>1. <<u, g>> \in more /\ e.body = more \ {<<u, g>>}
      BY <2>1
    <3>2. Cardinality(more \ {<<u, g>>}) = Cardinality(more) - 1
      <4>1. IsFiniteSet(more) /\ <<u, g>> \in more
        BY <1>2, <3>1
      <4> HIDE DEF more
      <4> QED
        BY <4>1, FS_RemoveElement
    <3>3. Cardinality(e.body) = m - 1
      BY <1>4, <3>1, <3>2
    <3>6. m >= 1
      BY <1>2, <1>4, <3>1, FS_EmptySet
    <3>4. BodySize * (m - 1) = BodySize * m - BodySize * 1
      BY <3>6, Weights
    <3>5. BodySize * 1 = BodySize
      BY StoreConstants
    <3> QED
      BY <2>1, <3>3, <3>4, <3>5
  <2>2. CASE old = {}
    <3>1. Cardinality(e.body) = m /\ BodySize * m \in Nat
      BY <1>4, <2>2, Weights
    <3> QED
      BY <2>2, <3>1
  <2> QED
    BY <2>1, <2>2
<1> DEFINE b(x) == BodySize * Cardinality(x.body)
           q(x) == Cardinality(Present(x))
           a(x) == Cardinality(x.manifest)
           fresh == IF <<u, h>> \in d.body THEN 0 ELSE BodySize
           less == IF old = {} THEN 0 ELSE BodySize
<1>7. \A x \in {d, e} : /\ q(x) \in Nat /\ b(x) \in Nat /\ a(x) \in Nat
                        /\ Bytes(x) = q(x) + b(x) + a(x)
  BY BytesAre
<1>8. b(e) = b(d) + fresh - less
  <2>1. b(d) \in Nat /\ fresh \in Nat /\ less \in Nat /\ b(d) = BodySize * n
    BY <1>3, <1>7, StoreConstants
  <2>2. b(e) = BodySize * m - less /\ BodySize * m = b(d) + fresh
    BY <1>5, <1>6, <2>1
  <2> HIDE DEF b, fresh, less
  <2> QED
    BY <2>1, <2>2
<1>9. q(e) = q(d) + IsNew(d, u) /\ a(e) = a(d)
  BY <1>1
<1>10. fresh \in Nat /\ less \in Nat
  BY StoreConstants
<1> HIDE DEF b, q, a, fresh, less
<1>11. Bytes(e) = Bytes(d) + IsNew(d, u) + fresh - less
  BY <1>1, <1>7, <1>8, <1>9, <1>10
<1> QED
  BY <1>11 DEF fresh, less

(* The counters a call sets.                                               *)
LEMMA RecordSet ==
  ASSUME NEW A, NEW B, NEW C, NEW t \in [used : A, entries : B, versions : C],
         NEW a \in A, NEW b \in B, NEW c \in C,
         NEW x, x = [t EXCEPT !.used = a, !.entries = b, !.versions = c]
  PROVE  /\ x.used = a /\ x.entries = b /\ x.versions = c
         /\ x \in [used : A, entries : B, versions : C]
  OBVIOUS

LEMMA PermittedGivesWay ==
  ASSUME NEW p \in Pointer \cup {NoPointer}, NEW q \in Pointer, NEW at \in Days,
         ~Stale(p, at, "permitted"), q.disp = "permitted", q.at = at,
         p.disp \in Revocations
  PROVE  GivesWay(p, q)
<1>1. p # NoPointer /\ p \in Pointer /\ p.at \in Int /\ at \in Int
  BY StoreConstants DEF Revocations, Pointer, Days
<1>2. p.disp # "takedown" /\ p.disp # "permitted" /\ p.at <= at /\ p.at # at
  BY <1>1 DEF Stale, Revocations
<1> QED
  BY <1>1, <1>2 DEF GivesWay

LEMMA PutStep ==
  ASSUME StoreInv, NEW u \in Urls, NEW h \in Contents, NEW at \in 0..day,
         NEW expires \in {0, at + 1}, Put(u, h, at, expires)
  PROVE  StoreInv' /\ Succeeds(shelf, shelf')
<1> DEFINE ready == Roomy(BodySize + 1 > MaxBytes - tally.used)
           d == ready.d
           t == ready.t
           old == d.ptr[u]
           superseded == old.hash \notin {NoContent, h} /\ <<u, old.hash>> \in d.body
           fresh == IF <<u, h>> \in d.body THEN 0 ELSE BodySize
           retained == t.used - (1 - IsNew(d, u))
                       - (IF superseded THEN BodySize ELSE 0)
           bodied == WithBody(d, u, h)
           p == NewPointer(u, h, at, expires, d)
           pointed == WithPointer(bodied, u, p)
           done == [pointed EXCEPT !.body = IF superseded
                                            THEN @ \ {<<u, old.hash>>} ELSE @]
           count == [t EXCEPT !.used = retained + 1 + fresh,
                              !.entries = @ + IsNew(d, u)]
<1>1. /\ isOpen /\ ~archive /\ ~Stale(old, at, "permitted")
      /\ old = NoPointer => t.entries < MaxEntries
      /\ retained >= 0 /\ 1 + fresh <= MaxBytes - retained
      /\ \/ Return(done, count, TRUE) /\ purged' = purged \ {u}
         \/ Return(d, Measured(d), FALSE) /\ UNCHANGED purged
         \/ Return(pointed, Measured(pointed), TRUE) /\ purged' = purged \ {u}
         \/ /\ \E e \in {d, bodied, pointed, done} : Dies(e)
            /\ purged' = purged \ {u}
  BY DEF Put
<1>2. /\ Lapses(shelf, d) /\ Shelved(d) /\ Succeeds(shelf, d)
      /\ EmptiedOf(d, purged) /\ CountedBy(t, d)
  <2>1. (BodySize + 1 > MaxBytes - tally.used) \in BOOLEAN
    OBVIOUS
  <2> QED
    BY <1>1, <2>1, RoomyShelf
<1> HIDE DEF ready
<1>3. /\ d \in Shelf /\ old \in Pointer \cup {NoPointer} /\ at \in Days
      /\ tally \in Tally /\ purged \subseteq Urls
      /\ t \in Tally /\ t.used \in Int /\ t.entries \in Nat /\ t.versions \in Int
  <2>1. d \in Shelf /\ t \in Tally
    BY <1>2 DEF Shelved, CountedBy
  <2>2. at \in Days
    BY InvParts, StoreConstants DEF Days
  <2> HIDE DEF d, t
  <2> QED
    BY <2>1, <2>2, InvParts DEF Tally, Shelf
<1> HIDE DEF d, t
<1>4. /\ p \in Pointer /\ p.disp = "permitted" /\ p.hash = h /\ p.kept = {}
      /\ p.at = at
  <2>1. expires \in 0..(LastDay + 1)
    BY <1>3, StoreConstants DEF Days
  <2> QED
    BY <1>1, <1>3, <2>1 DEF NewPointer, Pointer
<1> HIDE DEF p
<1>5. /\ bodied \in Shelf /\ bodied.ptr = d.ptr
      /\ bodied.body = d.body \cup {<<u, h>>} /\ bodied.manifest = d.manifest
  BY <1>3 DEF WithBody, Shelf
<1> HIDE DEF bodied
<1>6. /\ pointed \in Shelf /\ pointed.ptr = [d.ptr EXCEPT ![u] = p]
      /\ pointed.body = d.body \cup {<<u, h>>} /\ pointed.manifest = d.manifest
  BY <1>3, <1>4, <1>5 DEF WithPointer, Shelf
<1> HIDE DEF pointed
<1>7. /\ done \in Shelf /\ done.ptr = [d.ptr EXCEPT ![u] = p]
      /\ done.body = IF superseded THEN (d.body \cup {<<u, h>>}) \ {<<u, old.hash>>}
                                   ELSE d.body \cup {<<u, h>>}
      /\ done.manifest = d.manifest
  BY <1>6 DEF Shelf
<1> HIDE DEF done
<1>8. old.hash \in Contents \cup {NoContent}
  BY <1>3 DEF Pointer, NoPointer
<1>9. superseded \in BOOLEAN /\ (superseded => old.hash # h /\ <<u, old.hash>> \in d.body)
  OBVIOUS
<1> HIDE DEF superseded, old
<1>10. Bytes(done) = Bytes(d) + IsNew(d, u)
                     + (IF <<u, h>> \in d.body THEN 0 ELSE BodySize)
                     - (IF superseded THEN BodySize ELSE 0)
  <2>1. PICK g : g = old.hash
    OBVIOUS
  <2>2. PICK lost \in {{}, {<<u, g>>}} : lost = IF superseded THEN {<<u, g>>} ELSE {}
    OBVIOUS
  <2>3. (lost # {} <=> superseded) /\ (lost # {} => g # h /\ <<u, g>> \in d.body)
    BY <1>9, <2>1, <2>2
  <2>4. done.body = (d.body \cup {<<u, h>>}) \ lost
    BY <1>7, <2>1, <2>2
  <2>5. Bytes(done) = Bytes(d) + IsNew(d, u)
                      + (IF <<u, h>> \in d.body THEN 0 ELSE BodySize)
                      - (IF lost = {} THEN 0 ELSE BodySize)
    BY <1>3, <1>4, <1>7, <2>3, <2>4, ReplacedBytes
  <2> QED
    BY <2>3, <2>5
<1>11. /\ Cardinality(Present(done)) = Cardinality(Present(d)) + IsNew(d, u)
       /\ Present(pointed) = Present(done)
  <2>1. Cardinality(Present(done)) = Cardinality(Present(d)) + IsNew(d, u)
    BY <1>3, <1>4, <1>7, Repointed
  <2>2. Present(pointed) = Present(done)
    BY <1>6, <1>7 DEF Present
  <2> QED
    BY <2>1, <2>2
<1>12. Bytes(done) <= retained + 1 + fresh /\ Bytes(done) <= MaxBytes
       /\ retained + 1 + fresh \in Int
  <2>1. Bytes(d) \in Nat /\ Bytes(done) \in Nat /\ t.used >= Bytes(d)
        /\ IsNew(d, u) \in {0, 1}
    BY <1>2, <1>3, <1>7, BytesAre DEF CountedBy, IsNew
  <2>2. PICK less \in Nat : less = IF superseded THEN BodySize ELSE 0
    BY StoreConstants
  <2>3. fresh \in Nat /\ MaxBytes \in Nat
    BY StoreConstants
  <2>4. retained = t.used - (1 - IsNew(d, u)) - less
    BY <2>2
  <2>5. Bytes(done) = Bytes(d) + IsNew(d, u) + fresh - less
    BY <1>10, <2>2
  <2> HIDE DEF fresh, retained
  <2> QED
    BY <1>1, <1>3, <2>1, <2>3, <2>4, <2>5
<1>13. Cardinality(Present(done)) <= MaxEntries
  <2>1. Cardinality(Present(d)) \in Nat /\ Cardinality(Present(d)) <= t.entries
        /\ Cardinality(Present(d)) <= MaxEntries
    BY <1>2, <1>3, BytesAre DEF CountedBy, Shelved, FitsLimits
  <2>2. CASE old = NoPointer
    <3>1. IsNew(d, u) = 1 /\ t.entries < MaxEntries
      BY <1>1, <2>2 DEF IsNew, old
    <3>2. Cardinality(Present(d)) + 1 <= MaxEntries
      BY <1>3, <2>1, <3>1, StoreConstants
    <3> QED
      BY <1>11, <3>1, <3>2
  <2>3. CASE old # NoPointer
    <3>1. IsNew(d, u) = 0
      BY <2>3 DEF IsNew, old
    <3>2. Cardinality(Present(d)) + 0 <= MaxEntries
      BY <2>1
    <3> QED
      BY <1>11, <3>1, <3>2
  <2> QED
    BY <2>2, <2>3
<1>14. CountedBy(count, done)
  <2> HIDE DEF retained, fresh
  <2>1. /\ count.used = retained + 1 + fresh
        /\ count.entries = t.entries + IsNew(d, u)
        /\ count \in Tally
    <3>1. IsNew(d, u) \in Nat
      BY DEF IsNew
    <3>2. t.entries + IsNew(d, u) \in Nat
      BY <1>3, <3>1
    <3>3. PICK r, a, b, c : /\ r = t /\ a = retained + 1 + fresh
                            /\ b = t.entries + IsNew(d, u) /\ c = t.versions
      OBVIOUS
    <3>4. a \in Int /\ b \in Nat /\ c \in Int /\ r \in Tally
      BY <1>3, <1>12, <3>2, <3>3
    <3>5. PICK x : x = count
      OBVIOUS
    <3>6. x = [r EXCEPT !.used = a, !.entries = b, !.versions = c]
      BY <3>3, <3>4, <3>5 DEF Tally
    <3>7. x.used = a /\ x.entries = b /\ x \in Tally
      <4>1. r \in [used : Int, entries : Nat, versions : Int]
        BY <3>4 DEF Tally
      <4>2. /\ x.used = a /\ x.entries = b
            /\ x \in [used : Int, entries : Nat, versions : Int]
        BY <3>4, <3>6, <4>1, RecordSet, Zenon
      <4> QED
        BY <4>2 DEF Tally
    <3> QED
      BY <3>3, <3>5, <3>7
  <2>2. IsNew(d, u) \in {0, 1} /\ Cardinality(Present(d)) \in Nat
        /\ Cardinality(Present(d)) <= t.entries
    BY <1>2, <1>3, BytesAre DEF CountedBy, IsNew
  <2>3. Bytes(done) \in Nat
    BY <1>7, BytesAre
  <2> HIDE DEF count
  <2>5. count.entries >= Cardinality(Present(done))
    BY <1>3, <1>11, <2>1, <2>2
  <2>6. count.used >= Bytes(done)
    BY <1>12, <2>1, <2>3
  <2> QED
    BY <1>1, <2>1, <2>5, <2>6 DEF CountedBy
<1> HIDE DEF count, retained, fresh
<1>15. Shelved(bodied)
  <2>1. /\ d.body \subseteq bodied.body /\ d.manifest \subseteq bodied.manifest
        /\ bodied.body \subseteq d.body \cup {<<u, h>>}
        /\ \A x \in bodied.manifest : x \in d.manifest
    BY <1>5
  <2> QED
    BY <1>2, <1>5, <2>1, AddedShelved
<1>16. ASSUME NEW e \in {pointed, done}
       PROVE  /\ e \in Shelf /\ Shelved(e) /\ Succeeds(shelf, e)
  <2>1. /\ e \in Shelf /\ e.ptr = [d.ptr EXCEPT ![u] = p] /\ e.manifest = d.manifest
        /\ <<u, h>> \in e.body /\ \A x \in d.body : x \in e.body \/ x[1] = u
        /\ Present(e) = Present(done)
    BY <1>6, <1>7, <1>9, <1>11
  <2>2. Bytes(Referenced(e)) <= MaxBytes
    <3>1. \A v \in Urls : e.ptr[v] = IF v = u THEN p ELSE d.ptr[v]
      BY <1>3, <2>1 DEF Shelf
    <3>2. Referenced(e).body \subseteq done.body
      <4>1. ASSUME NEW x \in e.body, x[2] = e.ptr[x[1]].hash PROVE x \in done.body
        BY <1>4, <1>6, <1>7, <1>9, <3>1, <4>1
      <4>2. Referenced(e).body =
              {x \in e.body : IF archive THEN x[2] \in e.ptr[x[1]].kept
                                         ELSE x[2] = e.ptr[x[1]].hash}
        BY <2>1, ReferencedFiles
      <4>3. Referenced(e).body \subseteq {x \in e.body : x[2] = e.ptr[x[1]].hash}
        BY <1>1, <4>2
      <4> QED
        BY <4>1, <4>3
    <3>3. Referenced(e).manifest \subseteq done.manifest
      BY <1>7, <2>1, ReferencedFiles
    <3>4. /\ Referenced(e) \in Shelf /\ Present(Referenced(e)) = Present(done)
      BY <2>1, ReferencedFiles
    <3>5. Bytes(Referenced(e)) <= Bytes(done)
      BY <1>7, <3>2, <3>3, <3>4, FewerFiles
    <3>6. Bytes(Referenced(e)) \in Nat /\ Bytes(done) \in Nat
      BY <1>7, <3>4, BytesAre
    <3> QED
      BY <1>12, <3>5, <3>6, StoreConstants
  <2>3. Shelved(e)
    BY <1>1, <1>2, <1>4, <1>13, <2>1, <2>2, WrittenShelved
  <2>4. d.ptr[u].disp \in Revocations => GivesWay(d.ptr[u], p)
    BY <1>1, <1>3, <1>4, PermittedGivesWay DEF old
  <2>5. Succeeds(shelf, e)
    BY <1>2, <1>4, <2>1, <2>4, RepointedSucceeds
  <2> QED
    BY <2>1, <2>3, <2>5
<1>17. Succeeds(shelf, bodied)
  BY <1>2, <1>5 DEF Succeeds
<1>18. ASSUME NEW e \in {d, bodied, pointed, done} PROVE EmptiedOf(e, purged \ {u})
  <2>1. /\ \A v \in purged \ {u} : e.ptr[v] = d.ptr[v]
        /\ \A x \in e.body : x \in d.body \/ x[1] = u
        /\ \A x \in e.manifest : x \in d.manifest \/ x[1] = u
    BY <1>3, <1>5, <1>6, <1>7, <1>9 DEF Shelf
  <2> QED
    BY <1>2, <2>1, EmptiedElsewhere
<1>19. purged \ {u} \subseteq Urls
  BY <1>3
<1>20. \A e \in {d, bodied, pointed, done} : e \in Shelf /\ Shelved(e) /\ Succeeds(shelf, e)
  BY <1>2, <1>3, <1>5, <1>15, <1>16, <1>17
<1>21. \A e \in Shelf : CountedBy(Measured(e), e)
  BY <1>1, <1>3, RecountCounts
<1>22. CASE Return(done, count, TRUE) /\ purged' = purged \ {u}
  BY <1>1, <1>14, <1>18, <1>19, <1>20, <1>22, ReturnKeeps
<1>23. CASE Return(d, Measured(d), FALSE) /\ UNCHANGED purged
  BY <1>1, <1>2, <1>3, <1>20, <1>21, <1>23, ReturnKeeps
<1>24. CASE Return(pointed, Measured(pointed), TRUE) /\ purged' = purged \ {u}
  BY <1>1, <1>18, <1>19, <1>20, <1>21, <1>24, ReturnKeeps
<1>25. CASE (\E e \in {d, bodied, pointed, done} : Dies(e)) /\ purged' = purged \ {u}
  <2>1. PICK e \in {d, bodied, pointed, done} : Dies(e)
    BY <1>25
  <2>2. Shelved(e) /\ Succeeds(shelf, e) /\ EmptiedOf(e, purged')
    BY <1>18, <1>20, <1>25
  <2> QED
    BY <1>1, <1>19, <1>25, <2>1, <2>2, DeathKeeps
<1> QED
  BY <1>1, <1>22, <1>23, <1>24, <1>25

-----------------------------------------------------------------------------
(* PutArchive.                                                             *)

(* One more version is one more body and one more manifest at most.        *)
LEMMA ListedBytes ==
  ASSUME NEW d \in Shelf, NEW e \in Shelf, NEW u \in Urls, NEW h \in Contents,
         NEW at \in Days, NEW p \in Pointer, p.kept = d.ptr[u].kept \cup {h},
         e.ptr = [d.ptr EXCEPT ![u] = p], e.body = d.body \cup {<<u, h>>},
         NEW new \in {0, 1}, new = 0 => e.manifest = d.manifest,
         new = 1 => /\ <<u, h, at>> \notin d.manifest
                    /\ e.manifest = d.manifest \cup {<<u, h, at>>}
  PROVE  /\ Bytes(e) = Bytes(d) + (IsNew(d, u)
                       + (IF <<u, h>> \in d.body THEN 0 ELSE BodySize) + new)
         /\ Versions(e) = Versions(d) + (IF h \in d.ptr[u].kept THEN 0 ELSE 1)
<1> DEFINE q(x) == Cardinality(Present(x))
           n(x) == Cardinality(x.body)
           b(x) == BodySize * Cardinality(x.body)
           a(x) == Cardinality(x.manifest)
           fresh == IF <<u, h>> \in d.body THEN 0 ELSE BodySize
<1>1. \A x \in {d, e} : /\ q(x) \in Nat /\ n(x) \in Nat /\ b(x) \in Nat /\ a(x) \in Nat
                        /\ Bytes(x) = q(x) + b(x) + a(x)
                        /\ IsFiniteSet(x.body) /\ IsFiniteSet(x.manifest)
  BY BytesAre
<1>2. q(e) = q(d) + IsNew(d, u) /\ IsNew(d, u) \in Nat
  BY Repointed DEF IsNew
<1>3. b(e) = b(d) + fresh /\ fresh \in Nat
  <2>1. CASE <<u, h>> \in d.body
    <3>1. e.body = d.body
      BY <2>1
    <3>2. b(e) = b(d) + 0
      <4>1. PICK k \in Nat : k = b(d)
        BY <1>1
      <4>2. b(e) = k
        BY <3>1, <4>1
      <4> HIDE DEF b
      <4> QED
        BY <4>1, <4>2
    <3> QED
      BY <2>1, <3>2
  <2>2. CASE <<u, h>> \notin d.body
    <3>1. PICK k \in Nat : k = n(d)
      BY <1>1
    <3>2. Cardinality(e.body) = k + 1
      BY <1>1, <2>2, <3>1, FS_AddElement
    <3>3. BodySize * (k + 1) = BodySize * k + BodySize /\ BodySize * k \in Nat
      BY Weights
    <3> QED
      BY <2>2, <3>1, <3>2, <3>3, StoreConstants
  <2> QED
    BY <2>1, <2>2
<1>4. a(e) = a(d) + new
  <2>1. PICK k \in Nat : k = a(d)
    BY <1>1
  <2>2. CASE new = 0
    BY <2>1, <2>2
  <2>3. CASE new = 1
    <3>1. IsFiniteSet(d.manifest)
      BY <1>1
    <3>2. Cardinality(d.manifest \cup {<<u, h, at>>}) = Cardinality(d.manifest) + 1
      BY <2>3, <3>1, FS_AddElement
    <3> QED
      BY <2>1, <2>3, <3>2
  <2> QED
    BY <2>2, <2>3
<1>5. Bytes(e) = Bytes(d) + (IsNew(d, u) + fresh + new)
  <2> HIDE DEF q, b, a, fresh
  <2> QED
    BY <1>1, <1>2, <1>3, <1>4
<1>6. Versions(e) = Versions(d) + (IF h \in d.ptr[u].kept THEN 0 ELSE 1)
  <2> DEFINE V(x) == {y \in Urls \X Contents : y[2] \in x.ptr[y[1]].kept}
  <2>1. \A v \in Urls : e.ptr[v] = IF v = u THEN p ELSE d.ptr[v]
    BY DEF Shelf
  <2>2. V(e) = V(d) \cup {<<u, h>>}
    BY <2>1
  <2>3. <<u, h>> \in V(d) <=> h \in d.ptr[u].kept
    OBVIOUS
  <2>4. IsFiniteSet(V(d)) /\ Cardinality(V(d)) \in Nat
        /\ Versions(d) = Cardinality(V(d)) /\ Versions(e) = Cardinality(V(e))
    BY BytesAre DEF Versions
  <2>5. PICK k \in Nat : k = Cardinality(V(d))
    BY <2>4
  <2> HIDE DEF V
  <2>6. Cardinality(V(d) \cup {<<u, h>>}) = IF <<u, h>> \in V(d) THEN k ELSE k + 1
    BY <2>4, <2>5, FS_AddElement
  <2> QED
    BY <2>2, <2>3, <2>4, <2>5, <2>6
<1> QED
  BY <1>5, <1>6

LEMMA PutArchiveStep ==
  ASSUME StoreInv, NEW u \in Urls, NEW h \in Contents, NEW at \in 0..day,
         PutArchive(u, h, at)
  PROVE  StoreInv' /\ Succeeds(shelf, shelf')
<1> DEFINE old == shelf.ptr[u]
           committed == h \in old.kept
           hasBody == <<u, h>> \in shelf.body
           hasManifest == \E s \in Days : <<u, h, s>> \in shelf.manifest
           extra == IsNew(shelf, u) + (IF hasBody THEN 0 ELSE BodySize)
                    + (IF hasManifest THEN 0 ELSE 1)
           bodied == WithBody(shelf, u, h)
           listed == [bodied EXCEPT !.manifest =
                        IF hasManifest THEN @ ELSE @ \cup {<<u, h, at>>}]
           p == NewPointer(u, h, at, 0, shelf)
           done == WithPointer(listed, u, p)
           count == [tally EXCEPT
                       !.used = @ + extra, !.entries = @ + IsNew(shelf, u),
                       !.versions = @ + IF committed THEN 0 ELSE 1]
<1>1. /\ isOpen /\ archive /\ ~Stale(old, at, "permitted")
      /\ old = NoPointer => tally.entries < MaxEntries
      /\ ~committed => tally.versions < MaxVersions
      /\ extra <= MaxBytes - tally.used
      /\ \/ Return(done, count, TRUE) /\ purged' = purged \ {u}
         \/ Return(shelf, Measured(shelf), FALSE) /\ UNCHANGED purged
         \/ Return(done, Measured(done), TRUE) /\ purged' = purged \ {u}
         \/ /\ \E e \in {shelf, bodied, listed, done} : Dies(e)
            /\ purged' = purged \ {u}
  BY DEF PutArchive
<1>2. /\ shelf \in Shelf /\ Shelved(shelf) /\ EmptiedOf(shelf, purged)
      /\ CountedBy(tally, shelf) /\ tally \in Tally /\ purged \subseteq Urls
      /\ old \in Pointer \cup {NoPointer} /\ at \in Days
      /\ tally.used \in Int /\ tally.entries \in Nat /\ tally.versions \in Int
  <2>1. at \in Days
    BY InvParts, StoreConstants DEF Days
  <2>2. CountedBy(tally, shelf)
    BY <1>1 DEF StoreInv
  <2> QED
    BY <2>1, <2>2, InvParts DEF Tally, Shelf
<1>3. /\ p \in Pointer /\ p.disp = "permitted" /\ p.hash = h
      /\ p.kept = old.kept \cup {h} /\ p.at = at
  <2>1. old.kept \subseteq Contents /\ 0 \in 0..(LastDay + 1)
    BY <1>2, StoreConstants DEF Pointer
  <2> QED
    BY <1>1, <1>2, <2>1 DEF NewPointer, Pointer
<1> HIDE DEF p
<1>4. /\ bodied \in Shelf /\ bodied.ptr = shelf.ptr
      /\ bodied.body = shelf.body \cup {<<u, h>>} /\ bodied.manifest = shelf.manifest
  BY <1>2 DEF WithBody, Shelf
<1> HIDE DEF bodied
<1>5. /\ listed \in Shelf /\ listed.ptr = shelf.ptr
      /\ listed.body = shelf.body \cup {<<u, h>>}
      /\ listed.manifest = IF hasManifest THEN shelf.manifest
                                          ELSE shelf.manifest \cup {<<u, h, at>>}
  BY <1>2, <1>4 DEF Shelf
<1> HIDE DEF listed
<1>6. /\ done \in Shelf /\ done.ptr = [shelf.ptr EXCEPT ![u] = p]
      /\ done.body = shelf.body \cup {<<u, h>>}
      /\ done.manifest = IF hasManifest THEN shelf.manifest
                                        ELSE shelf.manifest \cup {<<u, h, at>>}
  BY <1>2, <1>3, <1>5 DEF WithPointer, Shelf
<1> HIDE DEF done
<1>7. /\ Bytes(done) = Bytes(shelf) + extra
      /\ Versions(done) = Versions(shelf) + (IF committed THEN 0 ELSE 1)
  <2>1. PICK new \in {0, 1} : new = IF hasManifest THEN 0 ELSE 1
    OBVIOUS
  <2>2. /\ new = 0 => done.manifest = shelf.manifest
        /\ new = 1 => /\ <<u, h, at>> \notin shelf.manifest
                      /\ done.manifest = shelf.manifest \cup {<<u, h, at>>}
    BY <1>2, <1>6, <2>1
  <2>3. /\ Bytes(done) = Bytes(shelf) + (IsNew(shelf, u)
             + (IF <<u, h>> \in shelf.body THEN 0 ELSE BodySize) + new)
        /\ Versions(done) = Versions(shelf) + (IF h \in shelf.ptr[u].kept THEN 0 ELSE 1)
    BY <1>2, <1>3, <1>6, <2>2, ListedBytes
  <2> QED
    BY <2>1, <2>3
<1>8. Cardinality(Present(done)) = Cardinality(Present(shelf)) + IsNew(shelf, u)
  BY <1>2, <1>3, <1>6, Repointed
<1>9. /\ Bytes(shelf) \in Nat /\ Bytes(done) \in Nat /\ Versions(shelf) \in Nat
      /\ Cardinality(Present(shelf)) \in Nat /\ IsNew(shelf, u) \in {0, 1}
      /\ Bytes(shelf) <= tally.used /\ Versions(shelf) <= tally.versions
      /\ Cardinality(Present(shelf)) <= tally.entries
      /\ Cardinality(Present(shelf)) <= MaxEntries /\ Versions(shelf) <= MaxVersions
      /\ extra \in Nat
  <2>1. /\ Bytes(shelf) \in Nat /\ Bytes(done) \in Nat /\ Versions(shelf) \in Nat
        /\ Cardinality(Present(shelf)) \in Nat
    BY <1>2, <1>6, BytesAre
  <2>2. IsNew(shelf, u) \in {0, 1} /\ extra \in Nat
    <3>1. PICK a \in {0, 1} : a = IsNew(shelf, u)
      BY DEF IsNew
    <3>2. PICK b \in Nat : b = IF hasBody THEN 0 ELSE BodySize
      BY StoreConstants
    <3>3. PICK c \in {0, 1} : c = IF hasManifest THEN 0 ELSE 1
      OBVIOUS
    <3>4. extra = a + b + c
      BY <3>1, <3>2, <3>3
    <3> HIDE DEF extra
    <3> QED
      BY <3>1, <3>4
  <2>3. /\ tally.used >= Bytes(shelf) /\ tally.versions >= Versions(shelf)
        /\ tally.entries >= Cardinality(Present(shelf))
        /\ Cardinality(Present(shelf)) <= MaxEntries /\ Versions(shelf) <= MaxVersions
    BY <1>1, <1>2 DEF CountedBy, Shelved, FitsLimits
  <2> HIDE DEF extra
  <2> QED
    BY <1>2, <2>1, <2>2, <2>3
<1>10. Bytes(done) <= tally.used + extra /\ Bytes(done) <= MaxBytes
  <2> HIDE DEF extra
  <2> QED
    BY <1>1, <1>2, <1>7, <1>9, StoreConstants
<1>11. Cardinality(Present(done)) <= MaxEntries
  <2> PICK k \in Nat : k = Cardinality(Present(shelf))
    BY <1>9
  <2>1. CASE old = NoPointer
    <3>1. IsNew(shelf, u) = 1 /\ tally.entries < MaxEntries
      BY <1>1, <2>1 DEF IsNew
    <3>2. k + 1 <= MaxEntries
      BY <1>2, <1>9, <3>1, StoreConstants
    <3> QED
      BY <1>8, <3>1, <3>2
  <2>2. CASE old # NoPointer
    <3>1. IsNew(shelf, u) = 0
      BY <2>2 DEF IsNew
    <3>2. k + 0 <= MaxEntries
      BY <1>9
    <3> QED
      BY <1>8, <3>1, <3>2
  <2> QED
    BY <2>1, <2>2
<1>12. Versions(done) <= MaxVersions /\ Versions(done) \in Nat
  <2> PICK k \in Nat : k = Versions(shelf)
    BY <1>9
  <2>1. CASE committed
    BY <1>7, <1>9, <2>1, StoreConstants
  <2>2. CASE ~committed
    BY <1>1, <1>2, <1>7, <1>9, <2>2, StoreConstants
  <2> QED
    BY <2>1, <2>2
<1>13. CountedBy(count, done)
  <2>1. PICK r, a, b, c : /\ r = tally /\ a = tally.used + extra
                          /\ b = tally.entries + IsNew(shelf, u)
                          /\ c = tally.versions + (IF committed THEN 0 ELSE 1)
    OBVIOUS
  <2>2. a \in Int /\ b \in Nat /\ c \in Int
        /\ r \in [used : Int, entries : Nat, versions : Int]
    BY <1>2, <1>9, <2>1 DEF Tally
  <2>3. PICK x : x = count
    OBVIOUS
  <2>4. x = [r EXCEPT !.used = a, !.entries = b, !.versions = c]
    BY <2>1, <2>2, <2>3
  <2>5. /\ x.used = a /\ x.entries = b /\ x.versions = c
        /\ x \in [used : Int, entries : Nat, versions : Int]
    BY <2>2, <2>4, RecordSet, Zenon
  <2>6. a >= Bytes(done)
    <3> HIDE DEF extra
    <3> QED
      BY <1>2, <1>9, <1>10, <2>1
  <2>7. b >= Cardinality(Present(done))
    BY <1>2, <1>8, <1>9, <2>1
  <2>8. c >= Versions(done)
    BY <1>2, <1>7, <1>9, <2>1
  <2> HIDE DEF count
  <2> QED
    BY <2>3, <2>5, <2>6, <2>7, <2>8 DEF CountedBy, Tally
<1> HIDE DEF count, extra
<1>14. Shelved(bodied) /\ Shelved(listed)
  <2>1. /\ shelf.body \subseteq bodied.body /\ shelf.manifest \subseteq bodied.manifest
        /\ bodied.body \subseteq shelf.body \cup {<<u, h>>}
        /\ \A x \in bodied.manifest : x \in shelf.manifest
    BY <1>4
  <2>2. /\ shelf.body \subseteq listed.body /\ shelf.manifest \subseteq listed.manifest
        /\ listed.body \subseteq shelf.body \cup {<<u, h>>}
        /\ \A x \in listed.manifest :
             \/ x \in shelf.manifest
             \/ x[1] = u /\ x[2] = h /\ ~\E s \in Days : <<u, h, s>> \in shelf.manifest
    BY <1>5
  <2>3. Shelved(bodied)
    BY <1>2, <1>4, <2>1, AddedShelved
  <2>4. Shelved(listed)
    BY <1>2, <1>5, <2>2, AddedShelved
  <2> QED
    BY <2>3, <2>4
<1>15. Shelved(done)
  <2>1. \A v \in Urls : done.ptr[v] = IF v = u THEN p ELSE shelf.ptr[v]
    BY <1>2, <1>6 DEF Shelf
  <2>2. ASSUME NEW v \in Urls PROVE PointerFits(done, v)
    <3>1. PointerFits(shelf, v)
      BY <1>2 DEF Shelved
    <3>2. shelf.body \subseteq done.body /\ shelf.manifest \subseteq done.manifest
          /\ <<u, h>> \in done.body /\ \E s \in Days : <<u, h, s>> \in done.manifest
      BY <1>2, <1>6
    <3>3. CASE v # u
      <4>1. done.ptr[v] = shelf.ptr[v]
        BY <2>1, <3>3
      <4> QED
        BY <1>1, <3>1, <3>2, <4>1 DEF PointerFits
    <3>4. CASE v = u
      <4>1. done.ptr[v] = p
        BY <2>1, <3>4
      <4>2. \A g \in p.kept : <<u, g>> \in done.body
                              /\ \E s \in Days : <<u, g, s>> \in done.manifest
        BY <1>1, <1>3, <3>1, <3>2, <3>4 DEF PointerFits
      <4> QED
        BY <1>1, <1>3, <3>2, <3>4, <4>1, <4>2 DEF PointerFits
    <3> QED
      BY <3>3, <3>4
  <2>3. Bytes(Referenced(done)) <= MaxBytes
    <3>1. Bytes(Referenced(done)) <= Bytes(done) /\ Bytes(Referenced(done)) \in Nat
      BY <1>6, ReferencedFiles, BytesAre
    <3> QED
      BY <1>9, <1>10, <3>1, StoreConstants
  <2> QED
    BY <1>6, <1>11, <1>12, <2>2, <2>3 DEF Shelved, FitsLimits
<1>16. Succeeds(shelf, done)
  <2>1. Lapses(shelf, shelf)
    BY DEF Lapses
  <2>2. shelf.ptr[u].disp \in Revocations => GivesWay(shelf.ptr[u], p)
    BY <1>1, <1>2, <1>3, PermittedGivesWay
  <2> QED
    BY <1>2, <1>3, <1>6, <2>1, <2>2, RepointedSucceeds
<1>17. \A e \in {shelf, bodied, listed, done} : Shelved(e) /\ Succeeds(shelf, e)
  BY <1>2, <1>4, <1>5, <1>14, <1>15, <1>16 DEF Succeeds
<1>18. ASSUME NEW e \in {shelf, bodied, listed, done} PROVE EmptiedOf(e, purged \ {u})
  <2>1. /\ \A v \in purged \ {u} : e.ptr[v] = shelf.ptr[v]
        /\ \A x \in e.body : x \in shelf.body \/ x[1] = u
        /\ \A x \in e.manifest : x \in shelf.manifest \/ x[1] = u
    BY <1>2, <1>4, <1>5, <1>6 DEF Shelf
  <2> QED
    BY <1>2, <2>1, EmptiedElsewhere
<1>19. purged \ {u} \subseteq Urls
  BY <1>2
<1>20. CountedBy(Measured(shelf), shelf) /\ CountedBy(Measured(done), done)
  <2>1. tally.versions >= Versions(shelf)
    BY <1>2, <1>9
  <2>2. Bytes(done) <= MaxBytes /\ Cardinality(Present(done)) <= MaxEntries
    BY <1>10, <1>11
  <2> QED
    BY <1>2, <1>6, <2>1, <2>2, RecountCounts
<1>21. CASE Return(done, count, TRUE) /\ purged' = purged \ {u}
  BY <1>1, <1>13, <1>17, <1>18, <1>19, <1>21, ReturnKeeps
<1>22. CASE Return(shelf, Measured(shelf), FALSE) /\ UNCHANGED purged
  BY <1>1, <1>2, <1>17, <1>20, <1>22, ReturnKeeps
<1>23. CASE Return(done, Measured(done), TRUE) /\ purged' = purged \ {u}
  BY <1>1, <1>17, <1>18, <1>19, <1>20, <1>23, ReturnKeeps
<1>24. CASE (\E e \in {shelf, bodied, listed, done} : Dies(e)) /\ purged' = purged \ {u}
  <2>1. PICK e \in {shelf, bodied, listed, done} : Dies(e)
    BY <1>24
  <2>2. Shelved(e) /\ Succeeds(shelf, e) /\ EmptiedOf(e, purged')
    BY <1>17, <1>18, <1>24
  <2> QED
    BY <1>1, <1>19, <1>24, <2>1, <2>2, DeathKeeps
<1> QED
  BY <1>1, <1>21, <1>22, <1>23, <1>24

-----------------------------------------------------------------------------
(* Revalidate.                                                             *)

LEMMA RevalidateStep ==
  ASSUME StoreInv, NEW u \in Urls, NEW at \in 0..day, NEW expires \in {0, at + 1},
         Revalidate(u, at, expires)
  PROVE  StoreInv' /\ Succeeds(shelf, shelf')
<1> DEFINE e == [shelf EXCEPT !.ptr[u].at = at,
                              !.ptr[u].expires = IF archive THEN 0 ELSE expires]
<1>1. /\ isOpen /\ shelf.ptr[u].disp = "permitted" /\ purged' = purged
      /\ \/ Return(e, tally, TRUE)
         \/ \E x \in {shelf, e} : Return(x, Measured(x), x = e)
         \/ \E x \in {shelf, e} : Dies(x)
  BY DEF Revalidate, Revalidated
<1>2. /\ shelf \in Shelf /\ Shelved(shelf) /\ EmptiedOf(shelf, purged)
      /\ CountedBy(tally, shelf) /\ tally \in Tally /\ purged \subseteq Urls
  <2>1. CountedBy(tally, shelf)
    BY <1>1 DEF StoreInv
  <2> QED
    BY <2>1, InvParts
<1>3. PICK x : x = IF archive THEN 0 ELSE expires
  OBVIOUS
<1>4. at \in Days /\ x \in 0..(LastDay + 1)
  <2>1. day \in Days
    BY InvParts
  <2> QED
    BY <1>3, <2>1, StoreConstants DEF Days
<1>5. PICK p \in Pointer : p = shelf.ptr[u]
  BY <1>1, <1>2, StoreConstants DEF Shelf
<1>6. PICK q : q = [p EXCEPT !.at = at, !.expires = x]
  OBVIOUS
<1>7. /\ q \in Pointer /\ q.disp = p.disp /\ q.hash = p.hash /\ q.kept = p.kept
  <2>2. q \in Pointer
    <3>1. PICK E : E = 0..(LastDay + 1)
      OBVIOUS
    <3>2. Pointer = [disp : {"permitted"} \cup Revocations,
                     hash : Contents \cup {NoContent}, at : Days,
                     expires : E, kept : SUBSET Contents]
      BY <3>1 DEF Pointer
    <3>3. x \in E
      BY <1>4, <3>1
    <3> QED
      BY <1>4, <1>6, <3>2, <3>3
  <2>3. q.disp = p.disp /\ q.hash = p.hash /\ q.kept = p.kept
    BY <1>6 DEF Pointer
  <2> QED
    BY <2>2, <2>3
<1>8. /\ e.ptr = [shelf.ptr EXCEPT ![u] = q] /\ e.body = shelf.body
      /\ e.manifest = shelf.manifest /\ e \in Shelf
  <2>1. e = [shelf EXCEPT !.ptr[u].at = at, !.ptr[u].expires = x]
    BY <1>3
  <2>2. e = [shelf EXCEPT !.ptr = [shelf.ptr EXCEPT ![u] =
               [shelf.ptr[u] EXCEPT !.at = at, !.expires = x]]]
    BY <1>2, <2>1 DEF Shelf
  <2>3. e = [shelf EXCEPT !.ptr = [shelf.ptr EXCEPT ![u] = q]]
    BY <1>5, <1>6, <2>2
  <2> HIDE DEF e
  <2> QED
    BY <1>2, <1>7, <2>3 DEF Shelf
<1> HIDE DEF e
<1>9. \A v \in Urls : /\ v # u => e.ptr[v] = shelf.ptr[v]
                      /\ e.ptr[v].disp = shelf.ptr[v].disp
                      /\ e.ptr[v].hash = shelf.ptr[v].hash
                      /\ e.ptr[v].kept = shelf.ptr[v].kept
                      /\ (e.ptr[v] = NoPointer <=> shelf.ptr[v] = NoPointer)
  BY <1>2, <1>5, <1>7, <1>8, StoreConstants DEF Shelf
<1>10. /\ Present(e) = Present(shelf) /\ Versions(e) = Versions(shelf)
  BY <1>9 DEF Present, Versions
<1>11. /\ Referenced(e).body = Referenced(shelf).body
       /\ Referenced(e).manifest = Referenced(shelf).manifest
  <2>1. \A y \in shelf.body : e.ptr[y[1]].hash = shelf.ptr[y[1]].hash
                              /\ e.ptr[y[1]].kept = shelf.ptr[y[1]].kept
    <3>1. \A y \in shelf.body : y[1] \in Urls
      BY <1>2 DEF Shelf
    <3> QED
      BY <1>9, <3>1
  <2>2. \A y \in shelf.manifest : e.ptr[y[1]].kept = shelf.ptr[y[1]].kept
    <3>1. \A y \in shelf.manifest : y[1] \in Urls
      BY <1>2 DEF Shelf
    <3> QED
      BY <1>9, <3>1
  <2>3. /\ Referenced(e).body =
             {y \in shelf.body : IF archive THEN y[2] \in e.ptr[y[1]].kept
                                            ELSE y[2] = e.ptr[y[1]].hash}
        /\ Referenced(e).manifest =
             {y \in shelf.manifest : y[2] \in e.ptr[y[1]].kept}
    BY <1>8, ReferencedFiles
  <2>4. /\ Referenced(shelf).body =
             {y \in shelf.body : IF archive THEN y[2] \in shelf.ptr[y[1]].kept
                                            ELSE y[2] = shelf.ptr[y[1]].hash}
        /\ Referenced(shelf).manifest =
             {y \in shelf.manifest : y[2] \in shelf.ptr[y[1]].kept}
    BY <1>2, ReferencedFiles
  <2> QED
    BY <2>1, <2>2, <2>3, <2>4
<1>12. /\ Bytes(e) = Bytes(shelf) /\ Bytes(Referenced(e)) = Bytes(Referenced(shelf))
  BY <1>2, <1>8, <1>10, <1>11, ReferencedFiles DEF Bytes
<1>13. Shelved(e)
  <2>1. ASSUME NEW v \in Urls PROVE PointerFits(e, v)
    BY <1>2, <1>8, <1>9 DEF Shelved, PointerFits
  <2> QED
    BY <1>2, <1>8, <1>10, <1>12, <2>1 DEF Shelved, FitsLimits
<1>14. Succeeds(shelf, e) /\ Succeeds(shelf, shelf)
  BY <1>1, <1>9 DEF Succeeds, Revocations
<1>15. EmptiedOf(e, purged)
  BY <1>2, <1>8, <1>9 DEF EmptiedOf
<1>16. CountedBy(tally, e) /\ \A y \in {shelf, e} : CountedBy(Measured(y), y)
  <2>1. CountedBy(tally, e)
    BY <1>2, <1>10, <1>12 DEF CountedBy
  <2>2. \A y \in {shelf, e} : y \in Shelf /\ (archive => tally.versions >= Versions(y))
    BY <1>2, <1>8, <2>1 DEF CountedBy
  <2> QED
    BY <1>2, <2>1, <2>2, RecountCounts
<1>17. CASE Return(e, tally, TRUE)
  BY <1>1, <1>2, <1>13, <1>14, <1>15, <1>16, <1>17, ReturnKeeps
<1>18. CASE \E y \in {shelf, e} : Return(y, Measured(y), y = e)
  <2>1. PICK y \in {shelf, e} : Return(y, Measured(y), y = e)
    BY <1>18
  <2>2. PICK w \in BOOLEAN : w = (y = e)
    OBVIOUS
  <2>3. Return(y, Measured(y), w)
    BY <2>1, <2>2
  <2>4. /\ Shelved(y) /\ Succeeds(shelf, y) /\ CountedBy(Measured(y), y)
        /\ purged' \subseteq Urls /\ EmptiedOf(y, purged')
    BY <1>1, <1>2, <1>13, <1>14, <1>15, <1>16
  <2> QED
    BY <1>1, <2>3, <2>4, ReturnKeeps
<1>19. CASE \E y \in {shelf, e} : Dies(y)
  <2>1. PICK y \in {shelf, e} : Dies(y)
    BY <1>19
  <2>2. /\ Shelved(y) /\ Succeeds(shelf, y)
        /\ purged' \subseteq Urls /\ EmptiedOf(y, purged')
    BY <1>1, <1>2, <1>13, <1>14, <1>15
  <2> QED
    BY <1>1, <2>1, <2>2, DeathKeeps
<1> QED
  BY <1>1, <1>17, <1>18, <1>19

-----------------------------------------------------------------------------
(* Revoke.                                                                 *)

(* What files taken away weigh.                                            *)
LEMMA RemovedBytes ==
  ASSUME NEW d \in Shelf, NEW e \in Shelf, NEW u \in Urls, NEW p \in Pointer,
         e.ptr = [d.ptr EXCEPT ![u] = p],
         e.body = d.body \ FilesOf(d, u).body,
         e.manifest = d.manifest \ FilesOf(d, u).manifest
  PROVE  /\ Cardinality(FilesOf(d, u).body) \in Nat
         /\ Cardinality(FilesOf(d, u).manifest) \in Nat
         /\ BodySize * Cardinality(FilesOf(d, u).body) \in Nat
         /\ Bytes(e) = Bytes(d) + IsNew(d, u)
                       - BodySize * Cardinality(FilesOf(d, u).body)
                       - Cardinality(FilesOf(d, u).manifest)
<1> PICK B, M : B = FilesOf(d, u).body /\ M = FilesOf(d, u).manifest
  OBVIOUS
<1>0. B \subseteq d.body /\ M \subseteq d.manifest
      /\ e.body = d.body \ B /\ e.manifest = d.manifest \ M
  BY DEF FilesOf, NoFiles
<1> DEFINE q(x) == Cardinality(Present(x))
           n(x) == Cardinality(x.body)
           b(x) == BodySize * Cardinality(x.body)
           a(x) == Cardinality(x.manifest)
<1>1. \A x \in {d, e} : /\ q(x) \in Nat /\ n(x) \in Nat /\ b(x) \in Nat /\ a(x) \in Nat
                        /\ Bytes(x) = q(x) + b(x) + a(x)
  BY BytesAre
<1>2. IsFiniteSet(d.body) /\ IsFiniteSet(d.manifest)
  BY BytesAre
<1>3. q(e) = q(d) + IsNew(d, u) /\ IsNew(d, u) \in Nat
  BY Repointed DEF IsNew
<1>4. /\ Cardinality(B) \in Nat /\ Cardinality(M) \in Nat
      /\ Cardinality(B) <= n(d)
  BY <1>0, <1>2, FS_Subset, FS_CardinalityType
<1>5. n(e) = n(d) - Cardinality(B) /\ a(e) = a(d) - Cardinality(M)
  <2>1. d.body \cap B = B /\ d.manifest \cap M = M
    BY <1>0
  <2>2. Cardinality(d.body \ B) = Cardinality(d.body) - Cardinality(d.body \cap B)
    BY <1>2, FS_Difference
  <2>3. Cardinality(d.manifest \ M) = Cardinality(d.manifest) - Cardinality(d.manifest \cap M)
    BY <1>2, FS_Difference
  <2> QED
    BY <1>0, <2>1, <2>2, <2>3
<1>6. PICK k \in Nat, l \in Nat : k = n(d) /\ l = Cardinality(B)
  BY <1>1, <1>4
<1>7. BodySize * (k - l) = BodySize * k - BodySize * l /\ BodySize * l \in Nat
  BY <1>4, <1>6, Weights
<1>8. b(e) = b(d) - BodySize * Cardinality(B) /\ BodySize * Cardinality(B) \in Nat
  BY <1>5, <1>6, <1>7
<1>9. PICK j \in Nat : j = BodySize * Cardinality(B)
  BY <1>8
<1>10. Bytes(e) = Bytes(d) + IsNew(d, u) - j - Cardinality(M)
  <2> HIDE DEF q, n, b, a
  <2> QED
    BY <1>1, <1>3, <1>4, <1>5, <1>8, <1>9
<1> QED
  BY <1>4, <1>8, <1>9, <1>10

LEMMA PartlyPurgedFiles ==
  ASSUME NEW d \in Shelf, NEW u, NEW e \in PartlyPurged(d, u)
  PROVE  /\ e \in Shelf /\ e.ptr = d.ptr
         /\ e.body \subseteq d.body /\ e.manifest \subseteq d.manifest
         /\ \A x \in d.body : x \in e.body \/ x[1] = u
         /\ \A x \in d.manifest : x \in e.manifest \/ x[1] = u
<1>1. PICK C \in SUBSET FilesOf(d, u).body, N \in SUBSET FilesOf(d, u).manifest :
        e = [ptr |-> d.ptr, body |-> d.body \ C, manifest |-> d.manifest \ N]
  BY DEF PartlyPurged
<1>2. /\ e.ptr = d.ptr /\ e.body = d.body \ C /\ e.manifest = d.manifest \ N
      /\ e \in Shelf
  BY <1>1 DEF Shelf
<1>3. (\A x \in C : x[1] = u) /\ (\A x \in N : x[1] = u)
  BY DEF FilesOf, NoFiles
<1> QED
  BY <1>2, <1>3

(* The versions a tombstone forgets.                                       *)
LEMMA ForgottenVersions ==
  ASSUME NEW d \in Shelf, NEW e \in Shelf, NEW u \in Urls, NEW p \in Pointer,
         p.kept = {}, e.ptr = [d.ptr EXCEPT ![u] = p]
  PROVE  /\ Cardinality(d.ptr[u].kept) \in Nat
         /\ Versions(e) = Versions(d) - Cardinality(d.ptr[u].kept)
         /\ Versions(e) <= Versions(d)
<1> DEFINE V(x) == {y \in Urls \X Contents : y[2] \in x.ptr[y[1]].kept}
           mine == {u} \X d.ptr[u].kept
<1>1. d.ptr[u].kept \subseteq Contents
  BY StoreConstants DEF Shelf, Pointer
<1>2. IsFiniteSet(d.ptr[u].kept)
  BY <1>1, StoreLimitsAssumption, FS_Subset
<1>3. PICK k \in Nat : k = Cardinality(d.ptr[u].kept)
  BY <1>2, FS_CardinalityType
<1>4. Cardinality(mine) = k
  <2>1. IsFiniteSet({u}) /\ Cardinality({u}) = 1
    BY FS_Singleton
  <2>2. Cardinality({u} \X d.ptr[u].kept) = Cardinality({u}) * Cardinality(d.ptr[u].kept)
    BY <1>2, <2>1, FS_Product
  <2> QED
    BY <1>3, <2>1, <2>2
<1>5. \A v \in Urls : e.ptr[v] = IF v = u THEN p ELSE d.ptr[v]
  BY DEF Shelf
<1>6. V(e) = V(d) \ mine /\ V(d) \cap mine = mine
  BY <1>1, <1>5
<1>7. /\ IsFiniteSet(V(d)) /\ Cardinality(V(d)) \in Nat /\ Cardinality(V(e)) \in Nat
      /\ Versions(d) = Cardinality(V(d)) /\ Versions(e) = Cardinality(V(e))
  BY BytesAre DEF Versions
<1> HIDE DEF V, mine
<1>8. Cardinality(V(d) \ mine) = Cardinality(V(d)) - Cardinality(V(d) \cap mine)
  BY <1>7, FS_Difference
<1>9. PICK m \in Nat, l \in Nat : m = Cardinality(V(d)) /\ l = Cardinality(V(e))
  BY <1>7
<1>10. l = m - k
  BY <1>4, <1>6, <1>8, <1>9
<1>11. Versions(d) = m /\ Versions(e) = l
  BY <1>7, <1>9
<1> QED
  BY <1>3, <1>10, <1>11

LEMMA MarkedShelved ==
  ASSUME NEW d, Shelved(d), NEW e \in Shelf, NEW u \in Urls, NEW p \in Pointer,
         p.disp \in Revocations, p.hash = NoContent, p.kept = {},
         e.ptr = [d.ptr EXCEPT ![u] = p],
         \A x \in d.body : x \in e.body \/ x[1] = u,
         \A x \in d.manifest : x \in e.manifest \/ x[1] = u,
         Cardinality(Present(e)) <= MaxEntries, Bytes(Referenced(e)) <= MaxBytes
  PROVE  Shelved(e)
<1>1. d \in Shelf /\ \A v \in Urls : PointerFits(d, v)
  BY DEF Shelved
<1>2. \A v \in Urls : e.ptr[v] = IF v = u THEN p ELSE d.ptr[v]
  BY <1>1 DEF Shelf
<1>3. ASSUME NEW v \in Urls PROVE PointerFits(e, v)
  <2>1. CASE v = u
    BY <1>2, <2>1 DEF PointerFits, Revocations
  <2>2. CASE v # u
    <3>1. e.ptr[v] = d.ptr[v] /\ PointerFits(d, v)
      BY <1>1, <1>2, <2>2
    <3>2. \A h : <<v, h>> \in d.body => <<v, h>> \in e.body
      BY <2>2
    <3>3. \A h, s : <<v, h, s>> \in d.manifest => <<v, h, s>> \in e.manifest
      BY <2>2
    <3> QED
      BY <3>1, <3>2, <3>3 DEF PointerFits
  <2> QED
    BY <2>1, <2>2
<1>4. archive => Versions(e) <= MaxVersions
  <2>1. Versions(e) <= Versions(d) /\ Versions(e) \in Nat /\ Versions(d) \in Nat
    BY <1>1, ForgottenVersions, BytesAre
  <2> QED
    BY <2>1, StoreConstants DEF Shelved, FitsLimits
<1> QED
  BY <1>3, <1>4 DEF Shelved, FitsLimits

LEMMA RevokedGivesWay ==
  ASSUME NEW p \in Pointer \cup {NoPointer}, NEW q \in Pointer, NEW at \in Days,
         NEW disp \in Revocations, ~Stale(p, at, disp), q.disp = disp, q.at = at,
         p.disp \in Revocations
  PROVE  GivesWay(p, q)
<1>1. p # NoPointer /\ p \in Pointer /\ p.at \in Int /\ at \in Int
  BY StoreConstants DEF Revocations, Pointer, Days
<1>2. (p.disp = "takedown" => disp = "takedown") /\ p.at <= at
  BY <1>1 DEF Stale
<1> QED
  BY <1>1, <1>2 DEF GivesWay, Revocations

LEMMA RevokeStep ==
  ASSUME StoreInv, NEW u \in Urls, NEW at \in 0..day, NEW disp \in Revocations,
         NEW existing \in BOOLEAN, Revoke(u, disp, at, existing)
  PROVE  StoreInv' /\ Succeeds(shelf, shelf')
<1> DEFINE ready == IF existing THEN [d |-> shelf, t |-> tally] ELSE Roomy(FALSE)
           d == ready.d
           t == ready.t
           tomb == Tombstone(disp, at)
           marked == WithPointer(d, u, tomb)
           done == WithoutUrl(marked, u)
           B == FilesOf(d, u).body
           M == FilesOf(d, u).manifest
           retained == t.used - (1 - IsNew(d, u)) - BodySize * Cardinality(B)
                       - Cardinality(M)
           count == [t EXCEPT !.used = retained + 1, !.entries = @ + IsNew(d, u),
                              !.versions = @ - Cardinality(d.ptr[u].kept)]
<1>1. /\ isOpen /\ ~Stale(d.ptr[u], at, disp)
      /\ d.ptr[u] = NoPointer => t.entries < MaxEntries
      /\ archive => 1 <= MaxBytes - retained
      /\ ~archive => 1 <= MaxBytes - (t.used - (1 - IsNew(d, u)))
      /\ \/ Return(done, count, TRUE) /\ purged' = purged \cup {u}
         \/ Return(d, Measured(d), FALSE) /\ UNCHANGED purged
         \/ \E e \in PartlyPurged(marked, u) :
              Return(e, Measured(e), TRUE) /\ UNCHANGED purged
         \/ \E e \in {d} \cup PartlyPurged(marked, u) : Dies(e) /\ UNCHANGED purged
  BY DEF Revoke
<1>2. /\ Lapses(shelf, d) /\ Shelved(d) /\ Succeeds(shelf, d)
      /\ EmptiedOf(d, purged) /\ CountedBy(t, d)
      /\ archive => d = shelf /\ t = tally
  <2>1. CASE existing
    <3>1. d = shelf /\ t = tally
      BY <2>1
    <3>2. Lapses(shelf, shelf) /\ Succeeds(shelf, shelf)
      BY DEF Lapses, Succeeds
    <3> HIDE DEF d, t
    <3> QED
      BY <1>1, <3>1, <3>2, InvParts DEF StoreInv
  <2>2. CASE ~existing
    <3>1. d = Roomy(FALSE).d /\ t = Roomy(FALSE).t
      BY <2>2
    <3> HIDE DEF d, t
    <3> QED
      BY <1>1, <3>1, RoomyShelf
  <2> QED
    BY <2>1, <2>2
<1> HIDE DEF ready
<1>3. /\ d \in Shelf /\ d.ptr[u] \in Pointer \cup {NoPointer} /\ at \in Days
      /\ tally \in Tally /\ purged \subseteq Urls
      /\ t \in Tally /\ t.used \in Int /\ t.entries \in Nat /\ t.versions \in Int
  <2>1. d \in Shelf /\ t \in Tally
    BY <1>2 DEF Shelved, CountedBy
  <2>2. at \in Days
    BY InvParts, StoreConstants DEF Days
  <2> HIDE DEF d, t
  <2> QED
    BY <2>1, <2>2, InvParts DEF Tally, Shelf
<1> HIDE DEF d, t
<1>4. /\ tomb \in Pointer /\ tomb.disp = disp /\ tomb.hash = NoContent
      /\ tomb.kept = {} /\ tomb.at = at
  <2>1. 0 \in 0..(LastDay + 1)
    BY StoreConstants
  <2> QED
    BY <1>3, <2>1 DEF Tombstone, Pointer
<1> HIDE DEF tomb
<1>5. /\ marked \in Shelf /\ marked.ptr = [d.ptr EXCEPT ![u] = tomb]
      /\ marked.body = d.body /\ marked.manifest = d.manifest
  BY <1>3, <1>4 DEF WithPointer, Shelf
<1> HIDE DEF marked
<1>6. /\ B = {x \in d.body : x[1] = u} /\ M = {x \in d.manifest : x[1] = u}
      /\ FilesOf(marked, u).body = B /\ FilesOf(marked, u).manifest = M
  BY <1>5 DEF FilesOf, NoFiles
<1> HIDE DEF B, M
<1>7. /\ done \in Shelf /\ done.ptr = [d.ptr EXCEPT ![u] = tomb]
      /\ done.body = d.body \ B /\ done.manifest = d.manifest \ M
      /\ \A x \in done.body : x[1] # u
      /\ \A x \in done.manifest : x[1] # u
  BY <1>5, <1>6 DEF WithoutUrl, Shelf
<1> HIDE DEF done
<1>8. /\ Cardinality(B) \in Nat /\ Cardinality(M) \in Nat
      /\ BodySize * Cardinality(B) \in Nat
      /\ Bytes(done) = Bytes(d) + IsNew(d, u) - BodySize * Cardinality(B)
                       - Cardinality(M)
  <2>1. /\ done.body = d.body \ FilesOf(d, u).body
        /\ done.manifest = d.manifest \ FilesOf(d, u).manifest
    BY <1>7 DEF B, M
  <2>2. /\ Cardinality(FilesOf(d, u).body) \in Nat
        /\ Cardinality(FilesOf(d, u).manifest) \in Nat
        /\ BodySize * Cardinality(FilesOf(d, u).body) \in Nat
        /\ Bytes(done) = Bytes(d) + IsNew(d, u)
                         - BodySize * Cardinality(FilesOf(d, u).body)
                         - Cardinality(FilesOf(d, u).manifest)
    BY <1>3, <1>4, <1>7, <2>1, RemovedBytes
  <2> QED
    BY <2>2 DEF B, M
<1>9. /\ Cardinality(Present(done)) = Cardinality(Present(d)) + IsNew(d, u)
      /\ Cardinality(d.ptr[u].kept) \in Nat
      /\ Versions(done) = Versions(d) - Cardinality(d.ptr[u].kept)
      /\ Versions(done) <= Versions(d)
  <2>1. Cardinality(Present(done)) = Cardinality(Present(d)) + IsNew(d, u)
    BY <1>3, <1>4, <1>7, Repointed
  <2>2. /\ Cardinality(d.ptr[u].kept) \in Nat
        /\ Versions(done) = Versions(d) - Cardinality(d.ptr[u].kept)
        /\ Versions(done) <= Versions(d)
    BY <1>3, <1>4, <1>7, ForgottenVersions
  <2> QED
    BY <2>1, <2>2
<1>10. /\ Bytes(d) \in Nat /\ Bytes(done) \in Nat /\ Versions(d) \in Nat
       /\ Cardinality(Present(d)) \in Nat /\ IsNew(d, u) \in {0, 1}
       /\ Versions(done) \in Nat
       /\ Bytes(d) <= t.used /\ Cardinality(Present(d)) <= t.entries
       /\ Cardinality(Present(d)) <= MaxEntries
       /\ archive => Versions(d) <= t.versions
  <2>1. /\ Bytes(d) \in Nat /\ Bytes(done) \in Nat /\ Versions(d) \in Nat
        /\ Cardinality(Present(d)) \in Nat /\ Versions(done) \in Nat
    BY <1>3, <1>7, BytesAre
  <2>2. IsNew(d, u) \in {0, 1}
    BY DEF IsNew
  <2>3. /\ t.used >= Bytes(d) /\ t.entries >= Cardinality(Present(d))
        /\ Cardinality(Present(d)) <= MaxEntries
        /\ archive => t.versions >= Versions(d)
    BY <1>2 DEF CountedBy, Shelved, FitsLimits
  <2> QED
    BY <1>3, <2>1, <2>2, <2>3
<1>11. /\ Bytes(done) <= retained + 1 /\ Bytes(done) <= MaxBytes
       /\ retained + 1 \in Int
  <2>1. PICK j \in Nat : j = BodySize * Cardinality(B)
    BY <1>8
  <2>2. retained = t.used - (1 - IsNew(d, u)) - j - Cardinality(M)
    BY <2>1
  <2>3. Bytes(done) = Bytes(d) + IsNew(d, u) - j - Cardinality(M)
    BY <1>8, <2>1
  <2> HIDE DEF retained
  <2>4. Bytes(done) <= retained + 1 /\ retained \in Int
    BY <1>3, <1>8, <1>10, <2>2, <2>3
  <2>5. CASE archive
    BY <1>1, <1>10, <2>4, <2>5, StoreConstants
  <2>6. CASE ~archive
    <3>1. t.used - (1 - IsNew(d, u)) + 1 <= MaxBytes
      BY <1>1, <1>3, <1>10, <2>6, StoreConstants
    <3> QED
      BY <1>3, <1>8, <1>10, <2>2, <2>4, <3>1, StoreConstants
  <2> QED
    BY <2>4, <2>5, <2>6
<1>12. Cardinality(Present(done)) <= MaxEntries
  <2> PICK k \in Nat : k = Cardinality(Present(d))
    BY <1>10
  <2>1. CASE d.ptr[u] = NoPointer
    <3>1. IsNew(d, u) = 1 /\ t.entries < MaxEntries
      BY <1>1, <2>1 DEF IsNew
    <3>2. k + 1 <= MaxEntries
      BY <1>3, <1>10, <3>1, StoreConstants
    <3> QED
      BY <1>9, <3>1, <3>2
  <2>2. CASE d.ptr[u] # NoPointer
    <3>1. IsNew(d, u) = 0
      BY <2>2 DEF IsNew
    <3>2. k + 0 <= MaxEntries
      BY <1>10
    <3> QED
      BY <1>9, <3>1, <3>2
  <2> QED
    BY <2>1, <2>2
<1>13. CountedBy(count, done)
  <2>1. PICK r, a, b, c : /\ r = t /\ a = retained + 1
                          /\ b = t.entries + IsNew(d, u)
                          /\ c = t.versions - Cardinality(d.ptr[u].kept)
    OBVIOUS
  <2>2. a \in Int /\ b \in Nat /\ c \in Int
        /\ r \in [used : Int, entries : Nat, versions : Int]
    BY <1>3, <1>9, <1>10, <1>11, <2>1 DEF Tally
  <2>3. PICK x : x = count
    OBVIOUS
  <2>4. x = [r EXCEPT !.used = a, !.entries = b, !.versions = c]
    <3> HIDE DEF retained
    <3> QED
      BY <2>1, <2>2, <2>3
  <2>5. /\ x.used = a /\ x.entries = b /\ x.versions = c
        /\ x \in [used : Int, entries : Nat, versions : Int]
    BY <2>2, <2>4, RecordSet, Zenon
  <2> HIDE DEF retained
  <2>6. a >= Bytes(done)
    BY <1>10, <1>11, <2>1
  <2>7. b >= Cardinality(Present(done))
    BY <1>3, <1>9, <1>10, <2>1
  <2>8. archive => c >= Versions(done)
    BY <1>3, <1>9, <1>10, <2>1
  <2> HIDE DEF count
  <2> QED
    BY <2>3, <2>5, <2>6, <2>7, <2>8 DEF CountedBy, Tally
<1> HIDE DEF count, retained
<1>14. ASSUME NEW e \in {done} \cup PartlyPurged(marked, u)
       PROVE  /\ e \in Shelf /\ e.ptr = [d.ptr EXCEPT ![u] = tomb]
              /\ e.body \subseteq d.body /\ e.manifest \subseteq d.manifest
              /\ \A x \in d.body : x \in e.body \/ x[1] = u
              /\ \A x \in d.manifest : x \in e.manifest \/ x[1] = u
  <2>1. CASE e = done
    BY <1>6, <1>7, <2>1
  <2>2. CASE e \in PartlyPurged(marked, u)
    <3>1. /\ e \in Shelf /\ e.ptr = marked.ptr
          /\ e.body \subseteq marked.body /\ e.manifest \subseteq marked.manifest
          /\ \A x \in marked.body : x \in e.body \/ x[1] = u
          /\ \A x \in marked.manifest : x \in e.manifest \/ x[1] = u
      BY <1>5, <2>2, PartlyPurgedFiles
    <3> QED
      BY <1>5, <3>1
  <2> QED
    BY <2>1, <2>2
<1>15. ASSUME NEW e \in {done} \cup PartlyPurged(marked, u)
       PROVE  /\ e \in Shelf /\ Shelved(e) /\ Succeeds(shelf, e)
              /\ Versions(e) = Versions(done)
  <2>1. \A v \in Urls : e.ptr[v] = IF v = u THEN tomb ELSE d.ptr[v]
    BY <1>3, <1>14 DEF Shelf
  <2>2. Present(e) = Present(done) /\ Versions(e) = Versions(done)
    BY <1>7, <1>14 DEF Present, Versions
  <2>3. Bytes(Referenced(e)) <= MaxBytes
    <3>1. Referenced(e).body \subseteq done.body
      <4>1. ASSUME NEW x \in e.body, x[1] = u
            PROVE  x[2] # e.ptr[x[1]].hash /\ x[2] \notin e.ptr[x[1]].kept
        BY <1>4, <1>14, <2>1, <4>1, StoreConstants DEF Shelf
      <4>2. Referenced(e).body =
              {x \in e.body : IF archive THEN x[2] \in e.ptr[x[1]].kept
                                         ELSE x[2] = e.ptr[x[1]].hash}
        BY <1>14, ReferencedFiles
      <4>3. \A x \in e.body : x[1] # u => x \in done.body
        BY <1>6, <1>7, <1>14
      <4> QED
        BY <4>1, <4>2, <4>3
    <3>2. Referenced(e).manifest \subseteq done.manifest
      <4>1. ASSUME NEW x \in e.manifest, x[1] = u
            PROVE  x[2] \notin e.ptr[x[1]].kept
        BY <1>4, <2>1, <4>1
      <4>2. Referenced(e).manifest = {x \in e.manifest : x[2] \in e.ptr[x[1]].kept}
        BY <1>14, ReferencedFiles
      <4>3. \A x \in e.manifest : x[1] # u => x \in done.manifest
        BY <1>6, <1>7, <1>14
      <4> QED
        BY <4>1, <4>2, <4>3
    <3>3. Referenced(e) \in Shelf /\ Present(Referenced(e)) = Present(done)
      BY <1>14, <2>2, ReferencedFiles
    <3>4. Bytes(Referenced(e)) <= Bytes(done)
      BY <1>7, <3>1, <3>2, <3>3, FewerFiles
    <3>5. Bytes(Referenced(e)) \in Nat
      BY <3>3, BytesAre
    <3> QED
      BY <1>10, <1>11, <3>4, <3>5, StoreConstants
  <2>4. Shelved(e)
    BY <1>2, <1>4, <1>12, <1>14, <2>2, <2>3, MarkedShelved
  <2>5. d.ptr[u].disp \in Revocations => GivesWay(d.ptr[u], tomb)
    BY <1>1, <1>3, <1>4, RevokedGivesWay
  <2>6. Succeeds(shelf, e)
    BY <1>2, <1>4, <1>14, <2>5, RepointedSucceeds
  <2> QED
    BY <1>14, <2>2, <2>4, <2>6
<1>16. EmptiedOf(done, purged \cup {u})
  <2>1. \A v \in Urls : done.ptr[v] = IF v = u THEN tomb ELSE d.ptr[v]
    BY <1>3, <1>7 DEF Shelf
  <2> QED
    BY <1>2, <1>3, <1>4, <1>7, <2>1 DEF EmptiedOf
<1>17. ASSUME NEW e \in {d} \cup PartlyPurged(marked, u) PROVE EmptiedOf(e, purged)
  <2>1. CASE e = d
    BY <1>2, <2>1
  <2>2. CASE e \in PartlyPurged(marked, u)
    <3>1. \A v \in Urls : e.ptr[v] = IF v = u THEN tomb ELSE d.ptr[v]
      BY <1>3, <1>14, <2>2 DEF Shelf
    <3>2. e.body \subseteq d.body /\ e.manifest \subseteq d.manifest
      BY <1>14, <2>2
    <3> QED
      BY <1>2, <1>3, <1>4, <3>1, <3>2 DEF EmptiedOf
  <2> QED
    BY <2>1, <2>2
<1>18. ASSUME NEW e \in {d} \cup PartlyPurged(marked, u)
       PROVE  Shelved(e) /\ Succeeds(shelf, e) /\ CountedBy(Measured(e), e)
  <2>1. e \in Shelf /\ Shelved(e) /\ Succeeds(shelf, e)
        /\ (Versions(e) = Versions(d) \/ Versions(e) = Versions(done))
    BY <1>2, <1>3, <1>15
  <2>2. archive => tally.versions >= Versions(e)
    <3>1. archive => tally.versions \in Int /\ Versions(d) <= tally.versions
      BY <1>2, <1>3, <1>10
    <3> QED
      BY <1>9, <1>10, <2>1, <3>1
  <2>3. CountedBy(Measured(e), e)
    BY <1>3, <2>1, <2>2, RecountCounts
  <2> QED
    BY <2>1, <2>3
<1>19. CASE Return(done, count, TRUE) /\ purged' = purged \cup {u}
  <2>1. Shelved(done) /\ Succeeds(shelf, done)
    BY <1>15
  <2>2. purged' \subseteq Urls /\ EmptiedOf(done, purged')
    BY <1>3, <1>16, <1>19
  <2> QED
    BY <1>1, <1>13, <1>19, <2>1, <2>2, ReturnKeeps
<1>20. CASE Return(d, Measured(d), FALSE) /\ UNCHANGED purged
  <2>1. Shelved(d) /\ Succeeds(shelf, d) /\ CountedBy(Measured(d), d)
    BY <1>18
  <2>2. purged' \subseteq Urls /\ EmptiedOf(d, purged')
    BY <1>2, <1>3, <1>20
  <2> QED
    BY <1>1, <1>20, <2>1, <2>2, ReturnKeeps
<1>21. CASE \E e \in PartlyPurged(marked, u) :
              Return(e, Measured(e), TRUE) /\ UNCHANGED purged
  <2>1. PICK e \in PartlyPurged(marked, u) :
              Return(e, Measured(e), TRUE) /\ UNCHANGED purged
    BY <1>21
  <2>2. Shelved(e) /\ Succeeds(shelf, e) /\ CountedBy(Measured(e), e)
    BY <1>18
  <2>3. purged' \subseteq Urls /\ EmptiedOf(e, purged')
    BY <1>3, <1>17, <2>1
  <2> QED
    BY <1>1, <2>1, <2>2, <2>3, ReturnKeeps
<1>22. CASE \E e \in {d} \cup PartlyPurged(marked, u) : Dies(e) /\ UNCHANGED purged
  <2>1. PICK e \in {d} \cup PartlyPurged(marked, u) : Dies(e) /\ UNCHANGED purged
    BY <1>22
  <2>2. Shelved(e) /\ Succeeds(shelf, e)
    BY <1>18
  <2>3. purged' \subseteq Urls /\ EmptiedOf(e, purged')
    BY <1>3, <1>17, <2>1
  <2> QED
    BY <1>1, <2>1, <2>2, <2>3, DeathKeeps
<1> QED
  BY <1>1, <1>19, <1>20, <1>21, <1>22

-----------------------------------------------------------------------------
(* Open, Close and the clock.                                              *)

(* What a crash leaves: the shelf, and removed files that came back.       *)
LEMMA CrashShelf ==
  ASSUME StoreInv, NEW d \in AfterCrash
  PROVE  /\ d \in Shelf
         /\ \A u \in Urls : \/ d.ptr[u] = shelf.ptr[u]
                            \/ /\ shelf.ptr[u] = NoPointer /\ d.ptr[u] # NoPointer
                               /\ ~archive /\ Expired(d.ptr[u])
         /\ shelf.body \subseteq d.body /\ shelf.manifest \subseteq d.manifest
         /\ \A x \in d.manifest : x \in shelf.manifest \/ x[2] \notin shelf.ptr[x[1]].kept
<1>1. /\ shelf \in Shelf /\ unsynced \in Shelf /\ Harmless(unsynced, shelf)
  BY InvParts
<1>2. PICK P \in SUBSET {u \in Urls : unsynced.ptr[u] # NoPointer
                                      /\ shelf.ptr[u] = NoPointer},
           B \in SUBSET unsynced.body, M \in SUBSET unsynced.manifest :
        d = [ptr |-> [u \in Urls |-> IF u \in P THEN unsynced.ptr[u] ELSE shelf.ptr[u]],
             body |-> shelf.body \cup B, manifest |-> shelf.manifest \cup M]
  BY DEF AfterCrash
<1>3. /\ d.ptr = [u \in Urls |-> IF u \in P THEN unsynced.ptr[u] ELSE shelf.ptr[u]]
      /\ d.body = shelf.body \cup B /\ d.manifest = shelf.manifest \cup M
  BY <1>2
<1>4. d \in Shelf
  BY <1>1, <1>2 DEF Shelf
<1>5. \A u \in Urls : \/ d.ptr[u] = shelf.ptr[u]
                      \/ /\ shelf.ptr[u] = NoPointer /\ d.ptr[u] # NoPointer
                         /\ ~archive /\ Expired(d.ptr[u])
  BY <1>1, <1>3 DEF Harmless
<1>6. \A x \in d.manifest : x \in shelf.manifest \/ x[2] \notin shelf.ptr[x[1]].kept
  BY <1>1, <1>3 DEF Harmless
<1> QED
  BY <1>3, <1>4, <1>5, <1>6

(* Open keeps what the unexpired pointers name, and that was there all     *)
(* along.                                                                  *)
LEMMA RepairedShelf ==
  ASSUME StoreInv, NEW d \in AfterCrash
  PROVE  /\ Shelved(Repaired(d)) /\ Succeeds(shelf, Repaired(d))
         /\ EmptiedOf(Repaired(d), purged)
         /\ Gone(d, Repaired(d)) \in Shelf
         /\ Harmless(Gone(d, Repaired(d)), Repaired(d))
         /\ Openable(d)
<1> DEFINE w == Unexpired(d)
           f == Repaired(d)
<1>1. /\ d \in Shelf
      /\ \A u \in Urls : \/ d.ptr[u] = shelf.ptr[u]
                         \/ /\ shelf.ptr[u] = NoPointer /\ d.ptr[u] # NoPointer
                            /\ ~archive /\ Expired(d.ptr[u])
      /\ shelf.body \subseteq d.body /\ shelf.manifest \subseteq d.manifest
      /\ \A x \in d.manifest : x \in shelf.manifest \/ x[2] \notin shelf.ptr[x[1]].kept
  BY CrashShelf
<1>2. /\ shelf \in Shelf /\ FitsLimits(shelf) /\ EmptiedOf(shelf, purged)
      /\ \A u \in Urls : PointerFits(shelf, u)
      /\ purged \subseteq Urls
  BY InvParts DEF Shelved
<1>3. /\ w \in Shelf /\ w.manifest = d.manifest
      /\ \A u \in Urls : w.ptr[u] = IF ~archive /\ Expired(d.ptr[u]) THEN NoPointer
                                                                     ELSE d.ptr[u]
      /\ \A x : x \in w.body <=>
                x \in d.body /\ ~(/\ ~archive /\ x[1] \in Urls /\ Expired(d.ptr[x[1]])
                                  /\ x[2] = d.ptr[x[1]].hash)
  <2>1. CASE archive
    BY <1>1, <2>1 DEF Unexpired, Shelf
  <2>2. CASE ~archive
    <3>1. /\ w.ptr = [u \in Urls |-> IF u \in Due(d) THEN NoPointer ELSE d.ptr[u]]
          /\ w.body = {x \in d.body : ~(x[1] \in Due(d) /\ x[2] = d.ptr[x[1]].hash)}
          /\ w.manifest = d.manifest /\ w \in Shelf
      BY <1>1, <2>2 DEF Unexpired, Swept, Shelf
    <3>2. \A x : x \in Due(d) <=> x \in Urls /\ Expired(d.ptr[x])
      BY DEF Due
    <3> HIDE DEF w
    <3> QED
      BY <2>2, <3>1, <3>2
  <2> QED
    BY <2>1, <2>2
<1> HIDE DEF w
<1>4. /\ f \in Shelf /\ f.ptr = w.ptr
      /\ f.body = {x \in w.body : IF archive THEN x[2] \in w.ptr[x[1]].kept
                                             ELSE x[2] = w.ptr[x[1]].hash}
      /\ f.manifest = {x \in w.manifest : x[2] \in w.ptr[x[1]].kept}
  <2>1. f = Referenced(w)
    BY DEF Repaired, w
  <2> HIDE DEF f
  <2> QED
    BY <1>3, <2>1, ReferencedFiles
<1> HIDE DEF f
<1>5. \A u \in Urls : /\ \/ w.ptr[u] = shelf.ptr[u]
                         \/ w.ptr[u] = NoPointer /\ ~archive /\ Expired(shelf.ptr[u])
                      /\ w.ptr[u] # NoPointer => d.ptr[u] = w.ptr[u]
                                                 /\ ~(~archive /\ Expired(d.ptr[u]))
                      /\ w.ptr[u] = NoPointer /\ d.ptr[u] # NoPointer
                           => ~archive /\ Expired(d.ptr[u])
  BY <1>1, <1>3
<1>6. f.body \subseteq Referenced(shelf).body
  <2> SUFFICES ASSUME NEW x \in f.body PROVE x \in Referenced(shelf).body
    OBVIOUS
  <2>1. x[1] \in Urls /\ x[2] \in Contents /\ x = <<x[1], x[2]>>
    BY <1>4 DEF Shelf
  <2>2. w.ptr[x[1]] # NoPointer
    BY <1>4, <2>1, StoreConstants
  <2>3. w.ptr[x[1]] = shelf.ptr[x[1]]
    BY <1>5, <2>1, <2>2
  <2>4. IF archive THEN x[2] \in shelf.ptr[x[1]].kept ELSE x[2] = shelf.ptr[x[1]].hash
    BY <1>4, <2>3
  <2>5. x \in shelf.body
    <3>1. PointerFits(shelf, x[1])
      BY <1>2, <2>1
    <3>2. <<x[1], x[2]>> \in shelf.body
      BY <2>1, <2>4, <3>1, StoreConstants DEF PointerFits
    <3> QED
      BY <2>1, <3>2
  <2> QED
    BY <1>2, <2>4, <2>5, ReferencedFiles
<1>7. f.manifest \subseteq Referenced(shelf).manifest
  <2> SUFFICES ASSUME NEW x \in f.manifest PROVE x \in Referenced(shelf).manifest
    OBVIOUS
  <2>1. x[1] \in Urls /\ x \in d.manifest /\ x[2] \in w.ptr[x[1]].kept
    BY <1>3, <1>4 DEF Shelf
  <2>2. x[2] \in shelf.ptr[x[1]].kept
    BY <1>5, <2>1, StoreConstants
  <2>3. x \in shelf.manifest
    BY <1>1, <2>1, <2>2
  <2> QED
    BY <1>2, <2>2, <2>3, ReferencedFiles
<1>8. /\ Present(f) = Present(w) /\ Present(f) \subseteq Present(shelf)
  BY <1>4, <1>5 DEF Present
<1>9. /\ Bytes(f) <= MaxBytes /\ Bytes(f) \in Nat
      /\ Bytes(Referenced(f)) <= MaxBytes
      /\ Cardinality(Present(f)) <= MaxEntries
  <2>1. /\ Referenced(shelf) \in Shelf /\ Present(Referenced(shelf)) = Present(shelf)
        /\ Bytes(Referenced(shelf)) \in Nat
    BY <1>2, ReferencedFiles, BytesAre
  <2>2. Bytes(f) <= Bytes(Referenced(shelf)) /\ Bytes(f) \in Nat
    BY <1>4, <1>6, <1>7, <1>8, <2>1, FewerFiles, BytesAre
  <2>3. Bytes(Referenced(f)) <= Bytes(f) /\ Bytes(Referenced(f)) \in Nat
    BY <1>4, ReferencedFiles, BytesAre
  <2>4. /\ Cardinality(Present(f)) <= Cardinality(Present(shelf))
        /\ Cardinality(Present(f)) \in Nat /\ Cardinality(Present(shelf)) \in Nat
    BY <1>2, <1>4, <1>8, BytesAre, FS_Subset
  <2> QED
    BY <1>2, <2>1, <2>2, <2>3, <2>4, StoreConstants DEF FitsLimits
<1>10. ASSUME archive
       PROVE  Versions(f) = Versions(shelf) /\ Versions(d) = Versions(shelf)
  <2>1. \A u \in Urls : f.ptr[u] = shelf.ptr[u] /\ d.ptr[u] = shelf.ptr[u]
    BY <1>1, <1>4, <1>5, <1>10
  <2>2. /\ {x \in Urls \X Contents : x[2] \in f.ptr[x[1]].kept} =
             {x \in Urls \X Contents : x[2] \in shelf.ptr[x[1]].kept}
        /\ {x \in Urls \X Contents : x[2] \in d.ptr[x[1]].kept} =
             {x \in Urls \X Contents : x[2] \in shelf.ptr[x[1]].kept}
    BY <2>1
  <2> QED
    BY <2>2 DEF Versions
<1>11. ASSUME NEW u \in Urls PROVE PointerFits(f, u)
  <2>1. CASE w.ptr[u] = NoPointer
    BY <1>4, <2>1, StoreConstants DEF PointerFits
  <2>2. CASE w.ptr[u] # NoPointer
    <3>1. /\ f.ptr[u] = shelf.ptr[u] /\ f.ptr[u] = d.ptr[u] /\ PointerFits(shelf, u)
          /\ ~(~archive /\ Expired(d.ptr[u])) /\ f.ptr[u] = w.ptr[u]
      BY <1>2, <1>4, <1>5, <2>2
    <3>2. ASSUME archive, NEW h \in f.ptr[u].kept
          PROVE  <<u, h>> \in f.body /\ \E t \in Days : <<u, h, t>> \in f.manifest
      <4>1. <<u, h>> \in shelf.body /\ \E t \in Days : <<u, h, t>> \in shelf.manifest
        BY <3>1, <3>2 DEF PointerFits
      <4>2. <<u, h>> \in w.body
        BY <1>1, <1>3, <3>2, <4>1
      <4>3. <<u, h>> \in f.body
        BY <1>4, <3>1, <3>2, <4>2
      <4>4. PICK t \in Days : <<u, h, t>> \in shelf.manifest
        BY <4>1
      <4>5. <<u, h, t>> \in f.manifest
        BY <1>1, <1>3, <1>4, <3>1, <3>2, <4>4
      <4> QED
        BY <4>3, <4>5
    <3>3. ASSUME ~archive, f.ptr[u].disp = "permitted"
          PROVE  <<u, f.ptr[u].hash>> \in f.body
      <4>1. <<u, f.ptr[u].hash>> \in shelf.body
        BY <3>1, <3>3 DEF PointerFits
      <4>2. <<u, f.ptr[u].hash>> \in w.body
        BY <1>1, <1>3, <3>1, <4>1
      <4> QED
        BY <1>4, <3>1, <3>3, <4>2
    <3> QED
      BY <3>1, <3>2, <3>3 DEF PointerFits
  <2> QED
    BY <2>1, <2>2
<1>12. Shelved(f)
  BY <1>2, <1>4, <1>9, <1>10, <1>11 DEF Shelved, FitsLimits
<1>13. Succeeds(shelf, f)
  BY <1>4, <1>5 DEF Succeeds, Expired, Revocations
<1>14. EmptiedOf(f, purged)
  <2>1. ASSUME NEW u \in purged PROVE f.ptr[u] = shelf.ptr[u]
    BY <1>2, <1>4, <1>5 DEF EmptiedOf, Expired, Revocations
  <2>2. f.body \subseteq shelf.body /\ f.manifest \subseteq shelf.manifest
    BY <1>2, <1>6, <1>7, ReferencedFiles
  <2> QED
    BY <1>2, <2>1, <2>2 DEF EmptiedOf
<1>15. Gone(d, f) \in Shelf /\ Harmless(Gone(d, f), f)
  <2>1. /\ Gone(d, f) \in Shelf /\ Gone(d, f).manifest = d.manifest \ f.manifest
        /\ \A u \in Urls : Gone(d, f).ptr[u] = IF f.ptr[u] = NoPointer THEN d.ptr[u]
                                                                      ELSE NoPointer
    BY <1>1, <1>4 DEF Gone, Shelf
  <2>2. \A x \in d.manifest \ f.manifest : x[2] \notin f.ptr[x[1]].kept
    BY <1>3, <1>4
  <2>3. \A u \in Urls : Gone(d, f).ptr[u] # NoPointer
                          => ~archive /\ Expired(Gone(d, f).ptr[u])
    BY <1>4, <1>5, <2>1
  <2> QED
    BY <2>1, <2>2, <2>3 DEF Harmless
<1>16. Openable(d)
  <2>1. Whole(w)
    <3> SUFFICES ASSUME NEW u \in Urls
                 PROVE  IF archive
                        THEN \A h \in w.ptr[u].kept :
                               /\ <<u, h>> \in w.body
                               /\ \E t \in Days : <<u, h, t>> \in w.manifest
                        ELSE w.ptr[u].disp = "permitted" => <<u, w.ptr[u].hash>> \in w.body
      BY DEF Whole
    <3>1. PointerFits(f, u) /\ f.body \subseteq w.body /\ f.manifest \subseteq w.manifest
          /\ f.ptr = w.ptr
      BY <1>4, <1>11
    <3> QED
      BY <3>1 DEF PointerFits
  <2>2. archive => Versions(d) <= MaxVersions
    BY <1>2, <1>10 DEF FitsLimits
  <2>3. Cardinality(Present(w)) <= MaxEntries
    BY <1>8, <1>9
  <2> QED
    BY <1>9, <2>1, <2>2, <2>3 DEF Openable, w, f
<1> QED
  BY <1>12, <1>13, <1>14, <1>15, <1>16 DEF f

LEMMA OpenStep ==
  ASSUME StoreInv, Open
  PROVE  StoreInv' /\ Succeeds(shelf, shelf')
<1>1. PICK d \in AfterCrash : shelf' = Repaired(d) /\ unsynced' = Gone(d, Repaired(d))
  BY DEF Open
<1> DEFINE f == Repaired(d)
<1>2. /\ shelf' = f /\ unsynced' = Gone(d, f) /\ isOpen' = TRUE
      /\ archive' = archive /\ day' = day /\ purged' = purged
      /\ tally' = [used |-> Bytes(shelf'), entries |-> Cardinality(Present(shelf')),
                   versions |-> IF archive THEN Versions(shelf') ELSE 0]
  BY <1>1 DEF Open
<1>3. /\ Shelved(f) /\ Succeeds(shelf, f) /\ EmptiedOf(f, purged)
      /\ Gone(d, f) \in Shelf /\ Harmless(Gone(d, f), f)
  BY RepairedShelf
<1> HIDE DEF f
<1>4. f \in Shelf
  BY <1>3 DEF Shelved
<1>5. CountedBy(tally', f)
  <2>1. Bytes(f) \in Nat /\ Cardinality(Present(f)) \in Nat /\ Versions(f) \in Nat
    BY <1>4, BytesAre
  <2>2. PICK a, b, c : a = Bytes(f) /\ b = Cardinality(Present(f))
                       /\ c = IF archive THEN Versions(f) ELSE 0
    OBVIOUS
  <2>3. /\ tally' = [used |-> a, entries |-> b, versions |-> c]
        /\ a \in Nat /\ b \in Nat /\ c \in Nat
    BY <1>2, <2>1, <2>2
  <2>4. tally' \in Tally
    BY <2>3 DEF Tally
  <2> QED
    BY <2>1, <2>2, <2>3, <2>4 DEF CountedBy
<1>6. StoreTypeOK'
  BY <1>2, <1>3, <1>4, <1>5, InvParts DEF StoreTypeOK, CountedBy
<1>7. Shelved(shelf)'
  BY <1>2, <1>3 DEF Shelved, FitsLimits, PointerFits, Referenced, Versions, Bytes, Present
<1>8. Harmless(unsynced, shelf)'
  BY <1>2, <1>3 DEF Harmless, Expired
<1>9. EmptiedOf(shelf, purged)'
  BY <1>2, <1>3 DEF EmptiedOf
<1>10. CountedBy(tally, shelf)'
  BY <1>2, <1>5 DEF CountedBy, Bytes, Versions, Present
<1> QED
  BY <1>2, <1>3, <1>6, <1>7, <1>8, <1>9, <1>10 DEF StoreInv

LEMMA CloseStep ==
  ASSUME StoreInv, Close
  PROVE  StoreInv' /\ Succeeds(shelf, shelf')
<1>1. isOpen /\ Dies(shelf) /\ purged' = purged
  BY DEF Close
<1>2. Succeeds(shelf, shelf) /\ Shelved(shelf) /\ purged' \subseteq Urls
      /\ EmptiedOf(shelf, purged')
  BY <1>1, InvParts DEF Succeeds
<1> QED
  BY <1>1, <1>2, DeathKeeps

LEMMA DayStep ==
  ASSUME StoreInv, DayPasses
  PROVE  StoreInv' /\ Succeeds(shelf, shelf')
<1>1. /\ day < LastDay /\ day' = day + 1 /\ archive' = archive /\ shelf' = shelf
      /\ unsynced' = unsynced /\ tally' = tally /\ isOpen' = isOpen /\ purged' = purged
  BY DEF DayPasses
<1>2. day \in Nat /\ day' \in Days
  BY <1>1, InvParts, StoreConstants DEF Days
<1>3. \A u \in Urls : unsynced.ptr[u] # NoPointer => Expired(unsynced.ptr[u])'
  <2> SUFFICES ASSUME NEW u \in Urls, unsynced.ptr[u] # NoPointer
               PROVE  Expired(unsynced.ptr[u])'
    OBVIOUS
  <2>1. unsynced.ptr[u] \in Pointer /\ Expired(unsynced.ptr[u])
    BY InvParts DEF Harmless, Shelf
  <2>2. unsynced.ptr[u].expires \in Int
    BY <2>1, StoreConstants DEF Pointer
  <2> QED
    BY <1>1, <1>2, <2>1, <2>2 DEF Expired
<1>4. Harmless(unsynced, shelf)'
  BY <1>1, <1>3, InvParts DEF Harmless
<1>5. StoreTypeOK'
  BY <1>1, <1>2, InvParts DEF StoreTypeOK
<1>6. Shelved(shelf)'
  BY <1>1, InvParts DEF Shelved, FitsLimits, PointerFits, Referenced, Versions, Bytes, Present
<1>7. EmptiedOf(shelf, purged)'
  BY <1>1, InvParts DEF EmptiedOf
<1>8. isOpen' => CountedBy(tally, shelf)'
  BY <1>1 DEF StoreInv, CountedBy, Bytes, Versions, Present
<1> QED
  BY <1>1, <1>4, <1>5, <1>6, <1>7, <1>8 DEF StoreInv, Succeeds

LEMMA IdleStep ==
  ASSUME StoreInv, UNCHANGED storeVars
  PROVE  StoreInv' /\ Succeeds(shelf, shelf')
<1>1. /\ day' = day /\ archive' = archive /\ shelf' = shelf
      /\ unsynced' = unsynced /\ tally' = tally /\ isOpen' = isOpen /\ purged' = purged
  BY DEF storeVars
<1>2. Harmless(unsynced, shelf)'
  BY <1>1, InvParts DEF Harmless, Expired
<1>3. StoreTypeOK'
  BY <1>1, InvParts DEF StoreTypeOK
<1>4. Shelved(shelf)'
  BY <1>1, InvParts DEF Shelved, FitsLimits, PointerFits, Referenced, Versions, Bytes, Present
<1>5. EmptiedOf(shelf, purged)'
  BY <1>1, InvParts DEF EmptiedOf
<1>6. isOpen' => CountedBy(tally, shelf)'
  BY <1>1 DEF StoreInv, CountedBy, Bytes, Versions, Present
<1> QED
  BY <1>1, <1>2, <1>3, <1>4, <1>5, <1>6 DEF StoreInv, Succeeds

LEMMA EmptyStore ==
  StoreInit => StoreInv
<1> SUFFICES ASSUME StoreInit PROVE StoreInv
  OBVIOUS
<1>1. /\ archive \in BOOLEAN /\ shelf = NoFiles /\ unsynced = NoFiles
      /\ tally = NoTally /\ isOpen = TRUE /\ day = 0 /\ purged = {}
  BY DEF StoreInit
<1>2. /\ NoFiles \in Shelf /\ NoFiles.body = {} /\ NoFiles.manifest = {}
      /\ \A u \in Urls : NoFiles.ptr[u] = NoPointer
      /\ NoFiles.ptr = [u \in Urls |-> NoPointer]
  BY DEF NoFiles, Shelf
<1>3. /\ Present(NoFiles) = {} /\ Versions(NoFiles) = 0 /\ Bytes(NoFiles) = 0
      /\ Bytes(Referenced(NoFiles)) = 0
  <2>1. Present(NoFiles) = {}
    BY <1>2 DEF Present
  <2>2. {x \in Urls \X Contents : x[2] \in NoFiles.ptr[x[1]].kept} = {}
    BY <1>2, StoreConstants
  <2>3. Cardinality({}) = 0 /\ BodySize * 0 = 0
    BY FS_EmptySet, StoreConstants
  <2>4. Versions(NoFiles) = 0
    BY <2>2, <2>3 DEF Versions
  <2>5. Bytes(NoFiles) = 0
    BY <1>2, <2>1, <2>3 DEF Bytes
  <2>6. Bytes(Referenced(NoFiles)) <= 0 /\ Bytes(Referenced(NoFiles)) \in Nat
    BY <1>2, <2>5, ReferencedFiles, BytesAre
  <2> QED
    BY <2>1, <2>4, <2>5, <2>6
<1>4. \A u \in Urls : PointerFits(NoFiles, u)
  BY <1>2, StoreConstants DEF PointerFits
<1>5. Cardinality(Present(NoFiles)) = 0
  BY <1>3, FS_EmptySet
<1>6. Shelved(NoFiles)
  BY <1>2, <1>3, <1>4, <1>5, StoreConstants DEF Shelved, FitsLimits
<1>7. Harmless(NoFiles, NoFiles) /\ EmptiedOf(NoFiles, {})
  BY <1>2 DEF Harmless, EmptiedOf
<1>8. CountedBy(NoTally, NoFiles)
  BY <1>3, <1>5 DEF CountedBy, NoTally, Tally
<1>9. StoreTypeOK
  BY <1>1, <1>2, <1>8, StoreConstants DEF StoreTypeOK, CountedBy, Days
<1> QED
  BY <1>1, <1>6, <1>7, <1>8, <1>9 DEF StoreInv

LEMMA EveryStoreStep ==
  ASSUME StoreInv, [StoreNext]_storeVars
  PROVE  StoreInv' /\ Succeeds(shelf, shelf')
<1>1. ASSUME NEW u \in Urls, NEW at \in 0..day, NEW h \in Contents,
             NEW expires \in {0, at + 1}, Put(u, h, at, expires)
      PROVE  StoreInv' /\ Succeeds(shelf, shelf')
  BY <1>1, PutStep
<1>2. ASSUME NEW u \in Urls, NEW at \in 0..day, NEW h \in Contents, PutArchive(u, h, at)
      PROVE  StoreInv' /\ Succeeds(shelf, shelf')
  BY <1>2, PutArchiveStep
<1>3. ASSUME NEW u \in Urls, NEW at \in 0..day,
             NEW expires \in {0, at + 1}, Revalidate(u, at, expires)
      PROVE  StoreInv' /\ Succeeds(shelf, shelf')
  BY <1>3, RevalidateStep
<1>4. ASSUME NEW u \in Urls, NEW at \in 0..day, NEW disp \in Revocations,
             NEW existing \in BOOLEAN, Revoke(u, disp, at, existing)
      PROVE  StoreInv' /\ Succeeds(shelf, shelf')
  BY <1>4, RevokeStep
<1> QED
  BY <1>1, <1>2, <1>3, <1>4, SweepStep, SweepStopsStep, OpenStep, CloseStep,
     DayStep, IdleStep DEF StoreNext

(* What the invariant says of the reader, the counters and the next Open.  *)
LEMMA StoreStands ==
  StoreInv => StoreHolds /\ FilesMatchPointers
<1> SUFFICES ASSUME StoreInv PROVE StoreHolds /\ FilesMatchPointers
  OBVIOUS
<1>1. StoreReopens
  BY RepairedShelf DEF StoreReopens
<1>2. UsageNeverUnderstated
  BY DEF UsageNeverUnderstated, StoreInv, CountedBy
<1>3. ReadersFindWholeVersions
  BY InvParts DEF ReadersFindWholeVersions, Served, Listed, Retrievable, Shelved,
                  PointerFits
<1>4. RevokedIsGone
  BY InvParts DEF RevokedIsGone, EmptiedOf, FilesOf, NoFiles
<1> QED
  BY <1>1, <1>2, <1>3, <1>4 DEF StoreHolds, FilesMatchPointers

(* The local artifact store, whichever step of whichever call fails or     *)
(* dies: the next Open accepts what it finds, the counters the limits are  *)
(* checked against never understate the disk, what is current or listed    *)
(* can be read, what a finished Revoke purged is gone, and tombstones only *)
(* give way to what was observed later.                                    *)
THEOREM StoreIsSound ==
  StoreSpec => StoreSound
<1>1. StoreInit => StoreInv
  BY EmptyStore
<1>2. StoreInv /\ [StoreNext]_storeVars => StoreInv'
  BY EveryStoreStep
<1>3. StoreInv /\ [StoreNext]_storeVars =>
        [\A u \in Urls : LET p == shelf.ptr[u] q == shelf'.ptr[u] IN
           p.disp \in Revocations /\ q # p =>
             /\ q.disp \in (IF p.disp = "takedown" THEN {"takedown"}
                            ELSE Revocations \cup {"permitted"})
             /\ IF q.disp = "permitted" THEN q.at > p.at ELSE q.at >= p.at]_storeVars
  BY EveryStoreStep DEF Succeeds, GivesWay
<1>4. StoreInv => StoreHolds /\ FilesMatchPointers
  BY StoreStands
<1> QED
  BY <1>1, <1>2, <1>3, <1>4, PTL DEF StoreSpec, StoreSound, TombstonesStick
=============================================================================
