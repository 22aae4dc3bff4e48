--------------------------- MODULE TufRepository ---------------------------
(***************************************************************************)
(* Publishing open-pack generations: root rotation and staging by the      *)
(* publisher, activation on a mirror (internal/adapters/tufrepository) and *)
(* the consumers that follow the mirror (internal/adapters/tufchannel).    *)
(*                                                                         *)
(* An activation first copies the immutable files of a staged generation   *)
(* one by one - numbered roots, the snapshot and targets metadata of its   *)
(* version, the pack - and replaces the timestamp, the head, last.  It     *)
(* runs under a file lock, so there is one at a time; it may stop at any   *)
(* step, consumers read the mirror meanwhile, and a power failure loses    *)
(* the newest renames of a directory that was not synced since.            *)
(***************************************************************************)
EXTENDS Naturals, Sequences, FiniteSets

CONSTANTS
  Packs, DeltaOf,     \* pack revisions; what a delta is on, 0 for snapshots
  OnlineKeys,         \* keys of the timestamp, snapshot and targets roles
  Copies,             \* staged again, the same pack has other expiries
  MaxVersion, MaxRoots, MaxStaged,    \* bounds
  Consumers

ASSUME RepositoryAssumption ==
  /\ Packs \subseteq Nat \ {0} /\ OnlineKeys # {}
  /\ MaxVersion \in Nat /\ MaxRoots \in Nat \ {0} /\ MaxStaged \in Nat
  /\ DeltaOf \in [Packs -> Packs \cup {0}] /\ \A p \in Packs : DeltaOf[p] < p

VARIABLES
  rootKeys,      \* the online key each signed root names
  staged,        \* generations in their staging directories
  mirror, mirrorDisk,     \* immutable files; those a power failure leaves
  head, headDisk,         \* the timestamp, likewise
  job,           \* the activation that holds the lock
  trusted        \* metadata each consumer has accepted

tufVars == <<rootKeys, staged, mirror, mirrorDisk, head, headDisk, job, trusted>>

(* pack 0: the target is withdrawn                                         *)
Generation == [version : 1..MaxVersion, roots : 1..MaxRoots, key : OnlineKeys,
               pack : Packs \cup {0}, copy : Copies]
NoGeneration == [version |-> 0]
Slots == [1..MaxVersion -> Generation \cup {NoGeneration}]
Mirror == [roots : 0..MaxRoots, targets : Slots, snapshot : Slots,
           packs : SUBSET Packs]
EmptySlots == [v \in 1..MaxVersion |-> NoGeneration]
NoJob == [gen |-> NoGeneration, from |-> NoGeneration, at |-> "none"]

TufInit ==
  /\ rootKeys = <<CHOOSE k \in OnlineKeys : TRUE>>
  /\ staged = {}
  /\ mirror = [roots |-> 0, targets |-> EmptySlots, snapshot |-> EmptySlots,
               packs |-> {}]
  /\ mirrorDisk = mirror
  /\ head = NoGeneration /\ headDisk = NoGeneration
  /\ job = NoJob
  /\ trusted = [c \in Consumers |-> [roots |-> 1, version |-> 0]]

-----------------------------------------------------------------------------
(* Publisher.                                                              *)

(* validateRootOnlyTransition: every non-root role keeps its key           *)
KeepsNothing(k) == TRUE
KeepsOnlineRoles(k) == k = rootKeys[Len(rootKeys)]
RotateRoot ==
  /\ Len(rootKeys) < MaxRoots
  /\ \E k \in OnlineKeys :
       KeepsOnlineRoles(k) /\ rootKeys' = Append(rootKeys, k)
  /\ UNCHANGED <<staged, mirror, mirrorDisk, head, headDisk, job, trusted>>

(* what may follow an advertised pack (0: withdrawn)                       *)
Follows(old, new) ==
  new # 0 => /\ old # 0 /\ new > old
             /\ DeltaOf[new] # 0 => DeltaOf[old] = 0 /\ DeltaOf[new] = old

(* Stage on top of nothing or of an earlier generation, with any of the    *)
(* identity files the rotations have left.                                 *)
Stage ==
  /\ Cardinality(staged) < MaxStaged
  /\ \E prev \in staged \cup {NoGeneration}, n \in 1..Len(rootKeys),
        p \in Packs \cup {0}, c \in Copies :
       /\ prev.version < MaxVersion
       /\ IF prev = NoGeneration THEN p # 0
          ELSE n >= prev.roots /\ Follows(prev.pack, p)
       /\ staged' = staged \cup
            {[version |-> prev.version + 1, roots |-> n, key |-> rootKeys[n],
              pack |-> p, copy |-> c]}
  /\ UNCHANGED <<rootKeys, mirror, mirrorDisk, head, headDisk, job, trusted>>

-----------------------------------------------------------------------------
(* Mirror.                                                                 *)

Complete(g, m) ==
  /\ m.roots >= g.roots /\ rootKeys[m.roots] = g.key
  /\ m.targets[g.version] = g /\ m.snapshot[g.version] = g
  /\ g.pack # 0 => g.pack \in m.packs

(* validateMirrorTransition; the chain is the one the mirror has by now    *)
ValidNext(g) ==
  IF head = NoGeneration THEN g.version = 1 /\ g.pack # 0
  ELSE /\ Complete(head, mirror)
       /\ g.version = head.version + 1 /\ g.roots >= mirror.roots
       /\ Follows(head.pack, g.pack)

(* The lock is taken; candidate and live mirror are verified, and the live *)
(* head is the expected one.                                               *)
BeginActivation ==
  /\ job = NoJob
  /\ \E g \in staged : ValidNext(g) /\ job' = [gen |-> g, from |-> head, at |-> "copying"]
  /\ UNCHANGED <<rootKeys, staged, mirror, mirrorDisk, head, headDisk, trusted>>

(* prepareMirrorFile: an equal file is left, another one stops the job     *)
Conflict(g) == mirror.targets[g.version] \notin {NoGeneration, g}
               \/ mirror.snapshot[g.version] \notin {NoGeneration, g}
CopyFile ==
  LET g == job.gen v == g.version IN
  /\ job.at = "copying"
  /\ IF mirror.roots < g.roots THEN mirror' = [mirror EXCEPT !.roots = @ + 1]
     ELSE /\ ~Conflict(g)
          /\ IF mirror.snapshot[v] = NoGeneration
             THEN mirror' = [mirror EXCEPT !.snapshot[v] = g]
             ELSE IF mirror.targets[v] = NoGeneration
             THEN mirror' = [mirror EXCEPT !.targets[v] = g]
             ELSE /\ g.pack \notin mirror.packs \cup {0}
                  /\ mirror' = [mirror EXCEPT !.packs = @ \cup {g.pack}]
  /\ UNCHANGED <<rootKeys, staged, mirrorDisk, head, headDisk, job, trusted>>

Prepared ==
  /\ job.at = "copying" /\ Complete(job.gen, mirror)
  /\ mirrorDisk' = mirror
  /\ job' = [job EXCEPT !.at = "prepared"]
  /\ UNCHANGED <<rootKeys, staged, mirror, head, headDisk, trusted>>

(* The last looks at head and mirror, and commitMirrorHead: the rename,    *)
(* durable if the sync of the directory succeeds.                          *)
Commit ==
  /\ job.at = "prepared" /\ head = job.from
  /\ Complete(job.gen, mirror) /\ mirror.roots = job.gen.roots
  /\ head' = job.gen /\ headDisk' \in {headDisk, head'}
  /\ job' = [job EXCEPT !.at = "committed"]
  /\ UNCHANGED <<rootKeys, staged, mirror, mirrorDisk, trusted>>

FinishActivation ==
  /\ job.at = "committed" /\ head = job.gen
  /\ headDisk' = head
  /\ job' = NoJob
  /\ UNCHANGED <<rootKeys, staged, mirror, mirrorDisk, head, trusted>>

(* an error, the end of the context or of the process                      *)
StopActivation ==
  /\ job # NoJob /\ job' = NoJob
  /\ UNCHANGED <<rootKeys, staged, mirror, mirrorDisk, head, headDisk, trusted>>

MirrorPowerFails ==
  /\ head' = headDisk
  /\ \E n \in mirrorDisk.roots..mirror.roots, P \in SUBSET mirror.packs,
        lost \in SUBSET (1..MaxVersion) :
       mirror' = [roots |-> n, packs |-> P \cup mirrorDisk.packs,
                  targets |-> [v \in 1..MaxVersion |->
                     IF v \in lost THEN mirrorDisk.targets[v] ELSE mirror.targets[v]],
                  snapshot |-> [v \in 1..MaxVersion |->
                     IF v \in lost THEN mirrorDisk.snapshot[v] ELSE mirror.snapshot[v]]]
  /\ mirrorDisk' = mirror'
  /\ job' = NoJob
  /\ UNCHANGED <<rootKeys, staged, headDisk, trusted>>

-----------------------------------------------------------------------------
(* Consumers: Select refreshes the trusted metadata, and keeps each role   *)
(* it has accepted when a later one fails.  A consumer that reads a head   *)
(* before its rename is durable may see it go back; that is left out.      *)

AcceptRoots(c) ==
  /\ trusted[c].roots < mirror.roots
  /\ trusted' = [trusted EXCEPT ![c].roots = mirror.roots]
  /\ UNCHANGED <<rootKeys, staged, mirror, mirrorDisk, head, headDisk, job>>

AcceptHead(c) ==
  /\ head # NoGeneration /\ head = headDisk
  /\ rootKeys[trusted[c].roots] = head.key /\ head.version > trusted[c].version
  /\ trusted' = [trusted EXCEPT ![c].version = head.version]
  /\ UNCHANGED <<rootKeys, staged, mirror, mirrorDisk, head, headDisk, job>>

TufNext ==
  \/ RotateRoot \/ Stage
  \/ BeginActivation \/ CopyFile \/ Prepared \/ Commit \/ FinishActivation
  \/ StopActivation \/ MirrorPowerFails
  \/ \E c \in Consumers : AcceptRoots(c) \/ AcceptHead(c)

TufSpec == TufInit /\ [][TufNext]_tufVars

-----------------------------------------------------------------------------
TufTypeOK ==
  /\ rootKeys \in Seq(OnlineKeys) /\ Len(rootKeys) \in 1..MaxRoots
  /\ staged \subseteq Generation
  /\ mirror \in Mirror /\ mirrorDisk \in Mirror
  /\ {head, headDisk} \subseteq staged \cup {NoGeneration}
  /\ job \in [gen : staged \cup {NoGeneration}, from : staged \cup {NoGeneration},
              at : {"none", "copying", "prepared", "committed"}]
  /\ trusted \in [Consumers -> [roots : 1..MaxRoots, version : 0..MaxVersion]]

(* At every moment, also while a rotated root is only prepared and after   *)
(* any crash, the head on the mirror is one that the mirror completes and  *)
(* that a consumer accepts from whatever it has accepted before (ADR 0017, *)
(* ADR 0018: a numbered root that is visible early binds no online role    *)
(* otherwise).                                                             *)
HeadServesEveryone ==
  \A h \in {head, headDisk} \ {NoGeneration} :
    /\ Complete(h, mirror) /\ (h = headDisk => Complete(h, mirrorDisk))
    /\ \A c \in Consumers :
         /\ rootKeys[trusted[c].roots] = h.key
         /\ h = headDisk => h.version >= trusted[c].version

(* "A prepared-but-uncommitted generation intentionally claims its         *)
(* next-version names.  An exact retry reuses them." (ADR 0017)            *)
ExactRetryPossible ==
  \A g \in staged :
    job = NoJob /\ head # NoGeneration /\ g.version = head.version + 1
      /\ mirror.snapshot[g.version] = g => ValidNext(g)
=============================================================================
