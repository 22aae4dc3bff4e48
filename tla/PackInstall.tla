---------------------------- MODULE PackInstall ----------------------------
(***************************************************************************)
(* Installing signed index packs (internal/adapters/openpackindex).  An    *)
(* installer streams a bundle - for a delta, its parent's bundle too -     *)
(* into a private staging directory, verifies the closed projection and    *)
(* renames it, without replacing, to objects/<digest of the manifest>.     *)
(* Several installers may share the root; each may fail, be cancelled or   *)
(* be killed at any point.  A server opens an object by the identity and   *)
(* the count its operator pinned, while it is valid.                       *)
(***************************************************************************)
EXTENDS Naturals, FiniteSets, Functions

CONSTANTS
  PackURLs, Texts,     \* rows: URLs and what is said of them
  Manifests,           \* digests of signed manifests
  Rows,                \* the rows of each: PackURLs to Texts or TombstoneRow
  DeltaParent,         \* what a delta is on; NoPack for a snapshot
  Valid,               \* first and last day of each manifest
  TombstoneRow, NoPack,
  Installers, LastPackDay, MaxRecords

ASSUME PackAssumption ==
  /\ TombstoneRow \notin Texts /\ NoPack \notin Manifests
  /\ DeltaParent \in [Manifests -> Manifests \cup {NoPack}]
  /\ \A m \in Manifests :
       /\ DOMAIN Rows[m] \subseteq PackURLs
       /\ Range(Rows[m]) \subseteq Texts \cup {TombstoneRow}
       /\ DeltaParent[m] = NoPack => Range(Rows[m]) \subseteq Texts

VARIABLES
  objects,      \* by digest, the directory moved there: its rows, who made it
  installs,     \* what each installer is doing
  leftovers,    \* staging directories nobody works in any more
  served,       \* the object the server has open and the count it pinned
  packDay

packVars == <<objects, installs, leftovers, served, packDay>>

Projection == UNION {[urls -> Texts] : urls \in SUBSET PackURLs}
Install == [pack : Manifests, count : 1..MaxRecords, rows : Projection, records : Nat,
            todo : SUBSET PackURLs, matched : SUBSET PackURLs,
            at : {"parent", "rows", "sealed"}]
Away == [pack |-> NoPack]
NotServing == [pack |-> NoPack]

PackInit ==
  /\ objects = [m \in Manifests |-> NoPack]
  /\ installs = [i \in Installers |-> Away]
  /\ leftovers = 0 /\ served = NotServing /\ packDay = 1

InValidity(m) == packDay >= Valid[m][1] /\ packDay <= Valid[m][2]

(* ValidateDeltaTransition, for the window: inside the parent's            *)
DeltaTransition(p, d) ==
  /\ DeltaParent[p] = NoPack /\ DeltaParent[d] = p
  /\ Valid[d][1] >= Valid[p][1] /\ Valid[d][2] <= Valid[p][2]

-----------------------------------------------------------------------------
(* Manifests are verified and within their limits, nothing is installed    *)
(* under the digest yet.  The operator pins the count of the result.       *)
BeginInstall(i) == \E m \in Manifests, n \in 1..MaxRecords :
  /\ installs[i] = Away /\ objects[m] = NoPack
  /\ InValidity(m) /\ Cardinality(DOMAIN Rows[m]) <= MaxRecords
  /\ \/ /\ DeltaParent[m] = NoPack /\ n = Cardinality(DOMAIN Rows[m])
        /\ installs' = [installs EXCEPT ![i] =
             [pack |-> m, count |-> n, rows |-> <<>>, records |-> 0,
              todo |-> DOMAIN Rows[m], matched |-> {}, at |-> "rows"]]
     \/ \E p \in Manifests :
          /\ DeltaTransition(p, m) /\ InValidity(p)
          /\ installs' = [installs EXCEPT ![i] =
               [pack |-> m, count |-> n, rows |-> <<>>, records |-> 0,
                todo |-> DOMAIN Rows[p], matched |-> {}, at |-> "parent"]]
  /\ UNCHANGED <<objects, leftovers, served, packDay>>

(* a row is indexed under its URL and counted; equal URLs overwrite        *)
Indexed(install, u, text) ==
  [install EXCEPT !.records = @ + 1, !.todo = @ \ {u},
     !.rows = [w \in DOMAIN @ \cup {u} |-> IF w = u THEN text ELSE @[w]]]

(* A row of the parent: the delta's operation on its URL shadows it.       *)
Shadows(m, u) == u \in DOMAIN Rows[m]
ParentRowKept(i) ==
  LET install == installs[i] IN
  /\ install # Away /\ install.at = "parent"
  /\ IF install.todo = {}
     THEN installs' = [installs EXCEPT ![i] =
            [install EXCEPT !.at = "rows", !.todo = DOMAIN Rows[install.pack]]]
     ELSE \E u \in install.todo : installs' = [installs EXCEPT ![i] =
            [Indexed(install, u, Rows[DeltaParent[install.pack]][u]) EXCEPT
              !.matched = IF Shadows(install.pack, u) THEN @ \cup {u} ELSE @]]
  /\ UNCHANGED <<objects, leftovers, served, packDay>>
ParentRow(i) ==
  LET install == installs[i] IN
  /\ install # Away /\ install.at = "parent"
  /\ IF install.todo = {}
     THEN installs' = [installs EXCEPT ![i] =
            [install EXCEPT !.at = "rows", !.todo = DOMAIN Rows[install.pack]]]
     ELSE \E u \in install.todo : installs' = [installs EXCEPT ![i] =
            IF Shadows(install.pack, u)
            THEN [install EXCEPT !.matched = @ \cup {u}, !.todo = @ \ {u}]
            ELSE Indexed(install, u, Rows[DeltaParent[install.pack]][u])]
  /\ UNCHANGED <<objects, leftovers, served, packDay>>

(* A row of the bundle itself.  A tombstone of nothing stops the install.  *)
OwnRow(i) ==
  LET install == installs[i] IN
  /\ install # Away /\ install.at = "rows"
  /\ \E u \in install.todo : LET text == Rows[install.pack][u] IN
       /\ text = TombstoneRow => u \in install.matched
       /\ installs' = [installs EXCEPT ![i] =
            IF text = TombstoneRow THEN [install EXCEPT !.todo = @ \ {u}]
            ELSE Indexed(install, u, text)]
  /\ UNCHANGED <<objects, leftovers, served, packDay>>

(* readAndVerifyMarkerBound: identity, window and count                    *)
MarkerAgrees(m, rows, count) == InValidity(m) /\ Cardinality(DOMAIN rows) = count

(* Every record came and the pinned count agrees; the marker is written,   *)
(* the projection closed, opened again and verified, and its size measured *)
SealProjection(i) ==
  LET install == installs[i] IN
  /\ install # Away /\ install.at = "rows" /\ install.todo = {}
  /\ install.records = install.count
  /\ MarkerAgrees(install.pack, install.rows, install.count)
  /\ installs' = [installs EXCEPT ![i].at = "sealed"]
  /\ UNCHANGED <<objects, leftovers, served, packDay>>

(* renameNoReplace: of two installers of a pack the later one fails        *)
CanMove(m) == objects[m] = NoPack
ActivateProjection(i) ==
  LET install == installs[i] IN
  /\ install # Away /\ install.at = "sealed" /\ CanMove(install.pack)
  /\ objects' = [objects EXCEPT ![install.pack] =
                  [rows |-> install.rows, made |-> i]]
  /\ installs' = [installs EXCEPT ![i] = Away]
  /\ UNCHANGED <<leftovers, served, packDay>>

(* Any error or a cancellation: the staging directory is removed, unless   *)
(* that fails too.                                                         *)
AbandonInstall(i) ==
  /\ installs[i] # Away
  /\ installs' = [installs EXCEPT ![i] = Away]
  /\ UNCHANGED <<objects, leftovers, served, packDay>>
InstallerKilled(i) ==
  /\ installs[i] # Away /\ leftovers < Cardinality(Installers)
  /\ installs' = [installs EXCEPT ![i] = Away] /\ leftovers' = leftovers + 1
  /\ UNCHANGED <<objects, served, packDay>>

-----------------------------------------------------------------------------
(* The server.                                                             *)
OpenPack ==
  /\ served = NotServing
  /\ \E m \in Manifests, n \in 1..MaxRecords :
       /\ objects[m] # NoPack /\ MarkerAgrees(m, objects[m].rows, n)
       /\ served' = [pack |-> m, count |-> n]
  /\ UNCHANGED <<objects, installs, leftovers, packDay>>

ClosePack ==
  /\ served # NotServing /\ served' = NotServing
  /\ UNCHANGED <<objects, installs, leftovers, packDay>>

PackDayPasses ==
  /\ packDay < LastPackDay /\ packDay' = packDay + 1
  /\ UNCHANGED <<objects, installs, leftovers, served>>

PackNext ==
  \/ \E i \in Installers :
       \/ BeginInstall(i) \/ ParentRow(i) \/ OwnRow(i) \/ SealProjection(i)
       \/ ActivateProjection(i) \/ AbandonInstall(i) \/ InstallerKilled(i)
  \/ OpenPack \/ ClosePack \/ PackDayPasses

PackSpec == PackInit /\ [][PackNext]_packVars

-----------------------------------------------------------------------------
(* Properties.                                                             *)

PackTypeOK ==
  /\ objects \in [Manifests -> [rows : Projection, made : Installers] \cup {NoPack}]
  /\ installs \in [Installers -> Install \cup {Away}]
  /\ leftovers \in 0..Cardinality(Installers) /\ packDay \in 1..LastPackDay

(* What is installed under a digest is exactly what the signed bundles     *)
(* say: the rows of a snapshot, and for a delta the rows of its parent     *)
(* with the upserts over them and without the tombstones - however many    *)
(* rows were read before a cancellation, a failure or another installer    *)
(* of the same pack (installFromRoot, applyDeltaFromRoots).  A tombstone   *)
(* for a URL the parent does not have never gets installed: it "fails      *)
(* closed" in the words of ADR 0010.  A server has as many rows before it  *)
(* as its operator pinned.                                                 *)
Upserts(m) == {u \in DOMAIN Rows[m] : Rows[m][u] # TombstoneRow}
Materialized(m) ==
  LET base == IF DeltaParent[m] = NoPack THEN {} ELSE DOMAIN Rows[DeltaParent[m]] IN
  [u \in Upserts(m) \cup (base \ DOMAIN Rows[m]) |->
     IF u \in DOMAIN Rows[m] THEN Rows[m][u] ELSE Rows[DeltaParent[m]][u]]
ObjectsAreExact ==
  /\ \A m \in Manifests : objects[m] # NoPack =>
       /\ objects[m].rows = Materialized(m)
       /\ DeltaParent[m] # NoPack =>
            DOMAIN Rows[m] \ Upserts(m) \subseteq DOMAIN Rows[DeltaParent[m]]
  /\ served # NotServing =>
       Cardinality(DOMAIN objects[served.pack].rows) = served.count
=============================================================================
