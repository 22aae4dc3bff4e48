---------------------------- MODULE PackChannel ----------------------------
(* The consumer of a pack channel (cmd/fetchmark-pack over tufchannel and  *)
(* openpackregistry).  A command refreshes the trusted metadata from a     *)
(* directory that operators copy by hand, under the lock of the state      *)
(* directory, and selects the manifest it names; channel-fetch then        *)
(* downloads that pack to a new directory, and registry-candidate proves a *)
(* downloaded one and writes the registry that would bind it.  Processes   *)
(* die anywhere, and a power failure loses what was not synced.            *)
(*                                                                         *)
(* A generation of the channel names one pack revision, or 0 when it       *)
(* withdraws it, in metadata of the generation's version.  Root rotation   *)
(* is in TufRepository, Activate in RegistryActivation.                    *)
EXTENDS Naturals, Sequences, FiniteSetsExt

CONSTANTS
  Feeds,           (* histories of the channel: what each generation names *)
  PackParent,      (* pack revision -> snapshot it is a delta on, or 0     *)
  LastValidDay,    (* pack revision -> day after which it has expired      *)
  Operators, Outputs,
  LastOpenDay      (* bound                                                *)

Revisions == DOMAIN PackParent
ASSUME ChannelAssumption ==
  /\ Revisions \subseteq Nat \ {0} /\ Outputs # {} /\ LastOpenDay \in Nat
  /\ LastValidDay \in [Revisions -> Nat] /\ PackParent \in [Revisions -> Revisions \cup {0}]
  /\ Feeds \subseteq Seq(Revisions \cup {0}) \ {<<>>}

Roles == {"timestamp", "snapshot", "targets"}
Commands == {"select", "fetch", "candidate"}

VARIABLES
  channel,       (* the feed of this behaviour                             *)
  offered,       (* generation whose head is in the metadata directory     *)
  state,         (* version of each role in the state directory            *)
  stateDisk,     (* the same, as a power failure would leave it            *)
  bundles,       (* the pack in each output directory, 0 for none          *)
  unsafe,        (* outputs whose entry is not yet synced                  *)
  bound,         (* revision the live registry binds                       *)
  candidates,    (* candidate registries written                           *)
  openDay, command,
  reported       (* newest version a selection has reported                *)

channelVars == <<channel, offered, state, stateDisk, bundles, unsafe, bound, candidates,
                 openDay, command, reported>>

Generations == DOMAIN channel
Idle == [at |-> "idle", does |-> "select", to |-> CHOOSE x \in Outputs : TRUE, base |-> 0,
         version |-> 0, floor |-> 0, rev |-> 0]

ChannelInit ==
  /\ channel \in Feeds /\ offered = 1
  /\ state = [r \in Roles |-> 0] /\ stateDisk = [r \in Roles |-> 0]
  /\ bundles = [x \in Outputs |-> 0] /\ unsafe = {}
  /\ bound \in Revisions /\ candidates = {}
  /\ openDay = 0 /\ command = [o \in Operators |-> Idle] /\ reported = 0

Usable(rev) == openDay <= LastValidDay[rev]
Goes(o, to) == command' = [command EXCEPT ![o].at = to]
Finished(o) == command' = [command EXCEPT ![o] = Idle]

Untouched == UNCHANGED <<channel, offered, openDay>>
NoFiles == UNCHANGED <<bundles, unsafe, bound, candidates>>
NoState == UNCHANGED <<state, stateDisk, reported>>

-----------------------------------------------------------------------------
(* Selection.  The lock of the state database excludes other commands; the *)
(* registry is read before it, and an output that exists is refused.       *)
InSelection == {"timestamp", "snapshot", "targets", "refreshed", "refused", "manifest"}
LockFree == \A o \in Operators : command[o].at \notin InSelection
OutputFree(does, x) == does = "fetch" => bundles[x] = 0
OpenState(o, does, x) ==
  /\ command[o].at = "idle" /\ LockFree /\ OutputFree(does, x)
  /\ command' = [command EXCEPT ![o] =
       [Idle EXCEPT !.at = "timestamp", !.does = does, !.to = x, !.base = bound,
                    !.floor = reported]]
  /\ Untouched /\ NoFiles /\ NoState

(* One role after the other, each kept as soon as it is accepted: no older *)
(* head, then what the role before it names.  Any of them may be missing   *)
(* or expired.                                                             *)
Kept(role, version) == state' = [state EXCEPT ![role] = version]
NoOlder(version, role) == version >= state[role]
Refresh(o) ==
  /\ \/ /\ command[o].at = "timestamp" /\ NoOlder(offered, "timestamp")
        /\ Kept("timestamp", offered) /\ Goes(o, "snapshot")
     \/ /\ command[o].at = "snapshot" /\ NoOlder(state["timestamp"], "snapshot")
        /\ Kept("snapshot", state["timestamp"]) /\ Goes(o, "targets")
     \/ /\ command[o].at = "targets" /\ Kept("targets", state["snapshot"])
        /\ Goes(o, "refreshed")
     \/ /\ command[o].at \in Roles /\ Goes(o, "refused") /\ UNCHANGED state
  /\ Untouched /\ NoFiles /\ UNCHANGED <<stateDisk, reported>>

(* What has been accepted is synced, also after a refresh that failed.     *)
SyncNothing == UNCHANGED stateDisk     \* slip: nothing is
SyncTrustedState == stateDisk' = state
NeverAbsent(v) == FALSE     \* slip: a withdrawn target is taken for one
Absent(v) == channel[v] = 0
TrustedStateSynced(o) ==
  /\ command[o].at \in {"refreshed", "refused"}
  /\ \/ /\ SyncTrustedState
        /\ IF command[o].at = "refused" THEN Finished(o) /\ UNCHANGED reported
           ELSE LET v == state["targets"] IN
                /\ command' = [command EXCEPT ![o].at = IF Absent(v) THEN "idle"
                                                        ELSE "manifest",
                                              ![o].version = v, ![o].rev = channel[v]]
                /\ reported' = Max({reported, v})
     \/ /\ \E synced \in SUBSET Roles :      \* some sync fails
             stateDisk' = [r \in Roles |-> IF r \in synced THEN state[r] ELSE stateDisk[r]]
        /\ Finished(o) /\ UNCHANGED reported
  /\ Untouched /\ NoFiles /\ UNCHANGED state

(* loadManifest or bundle/manifest.json, which must be the very one, and   *)
(* of today; the lock is given back.                                       *)
VerifyManifest(o) ==
  LET c == command[o] IN
  /\ c.at = "manifest" /\ Usable(c.rev)
  /\ \/ c.does = "select" /\ Finished(o)
     \/ c.does = "fetch" /\ Goes(o, "downloading")
     \/ c.does = "candidate" /\ bundles[c.to] = c.rev /\ Goes(o, "proving")
  /\ Untouched /\ NoFiles /\ NoState

-----------------------------------------------------------------------------
(* channel-fetch: signature and shards, each checked against the manifest, *)
(* synced into a staging directory with the directories over it.           *)
Download(o) ==
  /\ command[o].at = "downloading" /\ Goes(o, "staged")
  /\ Untouched /\ NoFiles /\ NoState
(* The manifest is checked once more and the rename replaces nothing.      *)
RenameNoReplace(o) ==
  LET c == command[o] IN
  /\ c.at = "staged" /\ Usable(c.rev) /\ bundles[c.to] = 0
  /\ bundles' = [bundles EXCEPT ![c.to] = c.rev] /\ unsafe' = unsafe \cup {c.to}
  /\ Goes(o, "committed")
  /\ Untouched /\ NoState /\ UNCHANGED <<bound, candidates>>
SyncRetrievalParent(o) ==
  LET c == command[o] IN
  /\ c.at = "committed"
  /\ unsafe' \in {unsafe, unsafe \ {c.to}}
  /\ Finished(o)
  /\ Untouched /\ NoState /\ UNCHANGED <<bundles, bound, candidates>>

(* registry-candidate: a promotion of the registry read at the beginning,  *)
(* written once the bundle (with the parent of a delta, which operators    *)
(* keep) has been installed in a private directory, every byte checked.    *)
PromotableTo(base, rev) ==
  /\ rev > base
  /\ PackParent[rev] # 0 => PackParent[base] = 0 /\ PackParent[rev] = base
Proven(x, rev) == bundles[x] = rev
Materialize(o) ==
  LET c == command[o] IN
  /\ c.at = "proving" /\ Usable(c.rev) /\ PromotableTo(c.base, c.rev)
  /\ Proven(c.to, c.rev)
  /\ candidates' = candidates \cup
       {[base |-> c.base, rev |-> c.rev, holds |-> bundles[c.to]]}
  /\ Finished(o)
  /\ Untouched /\ NoState /\ UNCHANGED <<bundles, unsafe, bound>>

(* Any step of a command may fail; what it has staged is removed, and what *)
(* a process leaves that dies then never has an output's name.             *)
ChannelCommandFails(o) ==
  /\ command[o].at # "idle" /\ Finished(o)
  /\ Untouched /\ NoFiles /\ NoState

-----------------------------------------------------------------------------
(* Around the commands.                                                    *)
CopyMetadata ==     \* also an older copy
  /\ offered' \in Generations \ {offered}
  /\ UNCHANGED <<channel, openDay, command>> /\ NoFiles /\ NoState
RemoveBundle(x) ==
  /\ bundles[x] # 0 /\ bundles' = [bundles EXCEPT ![x] = 0]
  /\ unsafe' = unsafe \ {x}
  /\ Untouched /\ NoState /\ UNCHANGED <<bound, candidates, command>>
ActivateCandidate ==
  /\ \E c \in candidates : \/ c.base = bound /\ bound' = c.rev
                           \/ c.rev = bound /\ bound' = c.base
  /\ Untouched /\ NoState /\ UNCHANGED <<bundles, unsafe, candidates, command>>
DayEnds ==
  /\ openDay < LastOpenDay /\ openDay' = openDay + 1
  /\ UNCHANGED <<channel, offered, command>> /\ NoFiles /\ NoState
(* Metadata and renames that were not synced may be lost, each by itself.  *)
ChannelPowerFails ==
  /\ \E kept \in SUBSET Roles :
       state' = [r \in Roles |-> IF r \in kept THEN state[r] ELSE stateDisk[r]]
  /\ stateDisk' = state'
  /\ \E lost \in SUBSET unsafe :
       bundles' = [x \in Outputs |-> IF x \in lost THEN 0 ELSE bundles[x]]
  /\ unsafe' = {}
  /\ command' = [o \in Operators |-> Idle]
  /\ Untouched /\ UNCHANGED <<bound, candidates, reported>>

ChannelNext ==
  \/ \E o \in Operators :
       \/ \E does \in Commands, x \in Outputs : OpenState(o, does, x)
       \/ Refresh(o) \/ TrustedStateSynced(o) \/ VerifyManifest(o)
       \/ Download(o) \/ RenameNoReplace(o) \/ SyncRetrievalParent(o)
       \/ Materialize(o) \/ ChannelCommandFails(o)
  \/ CopyMetadata \/ \E x \in Outputs : RemoveBundle(x)
  \/ ActivateCandidate \/ DayEnds \/ ChannelPowerFails

ChannelSpec == ChannelInit /\ [][ChannelNext]_channelVars

-----------------------------------------------------------------------------
Selected == {"manifest", "downloading", "staged", "committed", "proving"}
Command == [at : InSelection \cup Selected \cup {"idle"}, does : Commands, to : Outputs,
            base : Revisions \cup {0}, version : Generations \cup {0},
            floor : Generations \cup {0}, rev : Revisions \cup {0}]
ChannelTypeOK ==
  /\ channel \in Feeds /\ offered \in Generations
  /\ openDay \in 0..LastOpenDay /\ reported \in Generations \cup {0}
  /\ state \in [Roles -> Generations \cup {0}] /\ stateDisk \in [Roles -> Generations \cup {0}]
  /\ bundles \in [Outputs -> Revisions \cup {0}] /\ unsafe \subseteq Outputs
  /\ bound \in Revisions
  /\ candidates \subseteq [base : Revisions, rev : Revisions, holds : Revisions]
  /\ command \in [Operators -> Command]
  /\ \A o \in Operators : command[o].at \in Selected =>
       /\ command[o].rev \in Revisions /\ command[o].base \in Revisions
       /\ command[o].version \in Generations

(* The state directory preserves rollback checks across invocations (ADR   *)
(* 0012): whatever older metadata is copied in and whatever died or lost   *)
(* power in between, no command goes on with a version older than one that *)
(* was reported before it began, so nothing withdrawn comes back.          *)
NeverBack ==
  \A o \in Operators :
    command[o].version # 0 => /\ command[o].version >= command[o].floor
                              /\ command[o].rev = channel[command[o].version]

(* One state directory serves one command at a time; what another reports  *)
(* meanwhile it has not overtaken.                                         *)
OneSelects == \A o, p \in Operators : {command[o].at, command[p].at} \subseteq InSelection => o = p

(* A candidate is written for the very pack that lies proven in its        *)
(* directory, however that changes after the selection, and for a          *)
(* registry it advances.                                                   *)
CandidatesProven == \A c \in candidates : c.holds = c.rev /\ PromotableTo(c.base, c.rev)

ChannelSound == NeverBack /\ OneSelects /\ CandidatesProven
=============================================================================
