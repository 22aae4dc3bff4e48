---------------------------- MODULE RootCeremony ----------------------------
(* The ceremony that replaces the root keys of a TUF repository            *)
(* (internal/adapters/tufrepository and the channel-root commands of       *)
(* cmd/fetchmark-pack-build).  Custodians generate one key each, somebody  *)
(* prepares an unsigned successor of the current root, the custodians of   *)
(* both roots sign it on machines of their own, and what is assembled of   *)
(* their contributions is applied to the identity that stages generations. *)
(* Between two steps days may pass, and each command is given whatever     *)
(* artifacts its caller has: several candidates, older roots and older     *)
(* identities are about.  A digest of an artifact is the artifact.         *)
EXTENDS Integers, FiniteSets, FiniteSetsExt, SequencesExt

CONSTANTS
  LegacyKeys,    (* the root keys within the first identity                *)
  SignerKeys,    (* keys that channel-root-keygen may generate             *)
  SignerOf,      (* their signer IDs                                       *)
  Expiries,      (* -root-expires                                          *)
  Horizon,       (* MinimumPublicationHorizon                              *)
  MaxRootRotations,
  IdentityPaths, (* -out of channel-root-apply                             *)
  Hands,         (* who runs it                                            *)
  MaxCandidates, LastDate      (* bounds                                    *)

ASSUME CeremonyAssumption ==
  /\ Cardinality(LegacyKeys) = 2 /\ LegacyKeys \cap SignerKeys = {}
  /\ SignerKeys = DOMAIN SignerOf /\ IsFiniteSet(LegacyKeys \cup SignerKeys)
  /\ (LegacyKeys \cup SignerKeys) \cap {"targets", "snapshot", "timestamp"} = {}
  /\ "original" \notin IdentityPaths
  /\ Expiries \subseteq Nat /\ Horizon \in Nat \ {0} /\ MaxRootRotations \in Nat \ {0}

VARIABLES
  date,
  signers, publics,  (* keys whose signer file, whose public half exists   *)
  candidates,        (* unsigned successors                                *)
  contributions,     (* candidate and key                                  *)
  bundles,           (* candidates that the first identity has signed      *)
  signed,            (* assembled roots                                    *)
  identities,        (* path -> identity                                   *)
  applying,          (* a channel-root-apply before its rename             *)
  reported           (* paths and identities that have been reported       *)

ceremonyVars == <<date, signers, publics, candidates, contributions, bundles, signed,
                  identities, applying, reported>>

Original == "original"    \* where the first identity is
NoIdentity == [rootKeys |-> {}, chain |-> << >>]
(* Roots differ in what the fixed profile leaves open; every root names    *)
(* the three online keys, each for a role of its own.                      *)
OnlineRoles == {"targets", "snapshot", "timestamp"}
Root(version, keys, expires, signatures) ==
  [version |-> version, keys |-> keys, expires |-> expires, signatures |-> signatures]
RoleKeys(root) == root.keys \cup OnlineRoles
BootstrapRoot == Root(1, LegacyKeys, LastDate, LegacyKeys)
Unsigned(root) == [root EXCEPT !.signatures = {}]

Roots == {BootstrapRoot} \cup signed      \* -current-root
ActiveRoot(identity) == Last(identity.chain)
Operational(identity) == identity.rootKeys = {} /\ identity.chain # << >>

CeremonyInit ==
  /\ date = 0
  /\ signers = {} /\ publics = {} /\ candidates = {} /\ contributions = {} /\ bundles = {}
  /\ signed = {} /\ reported = {}
  /\ identities = [p \in IdentityPaths \cup {Original} |->
       IF p = Original THEN [rootKeys |-> LegacyKeys, chain |-> <<BootstrapRoot>>]
       ELSE NoIdentity]
  /\ applying = [o \in Hands |-> [path |-> Original, identity |-> NoIdentity]]

-----------------------------------------------------------------------------
(* validateFixedRootProfile: two root keys, and no key has two roles.      *)
FixedRootProfile(root) ==
  Cardinality(root.keys) = 2 /\ Cardinality(RoleKeys(root)) = 5 /\ root.version >= 1
(* validateRootOnlyTransition                                              *)
RootKeysReplaced(root, successor) == root.keys \cap successor.keys = {}
RootOnlyTransition(root, successor) ==
  /\ FixedRootProfile(root) /\ FixedRootProfile(successor)
  /\ successor.version = root.version + 1 /\ RootKeysReplaced(root, successor)
UnsignedRotation(root, candidate) ==
  /\ RootOnlyTransition(root, candidate)
  /\ candidate.signatures = {} /\ candidate.expires > date
(* VerifyDelegate with the threshold two of two                            *)
Verifies(root, successor) == root.keys \subseteq successor.signatures
Fresh(root) == root.expires - date >= Horizon
(* validateSignedRootTransition, of an old chain without a time            *)
SignedTransition(root, successor) ==
  /\ RootOnlyTransition(root, successor) /\ successor.signatures # {}
  /\ Verifies(root, successor) /\ Verifies(successor, successor)
(* Identity.validate                                                       *)
RootChain(chain) ==
  /\ chain # << >> /\ chain[1] = BootstrapRoot /\ Len(chain) - 1 <= MaxRootRotations
  /\ \A n \in 2..Len(chain) : SignedTransition(chain[n - 1], chain[n])
ValidIdentity(identity) ==
  /\ RootChain(identity.chain)
  /\ \/ identity.rootKeys = LegacyKeys /\ Len(identity.chain) = 1
     \/ identity.rootKeys = {} /\ Len(identity.chain) > 1

-----------------------------------------------------------------------------
(* WriteCeremonyArtifact: whole or not at all, under a name not in use.    *)
Write(artifacts, new) == artifacts \cup {new}
(* what commands make of the signer files and bundles they are given       *)
DecodeRootSigner == signers
DecodeRootContributionBundle(candidate) == IF candidate \in bundles THEN {LegacyKeys} ELSE {}

(* channel-root-keygen: a key nobody has seen                              *)
GenerateRootSigner == SignerKeys \ signers
Keygen ==
  /\ \E k \in GenerateRootSigner : signers' = Write(signers, k)
  /\ UNCHANGED <<date, publics, candidates, contributions, bundles, signed, identities,
                 applying, reported>>
ExportPublic ==      \* channel-root-public
  /\ \E k \in DecodeRootSigner : publics' = Write(publics, k)
  /\ UNCHANGED <<date, signers, candidates, contributions, bundles, signed, identities,
                 applying, reported>>

(* channel-root-prepare: two signers, different ones, and keys that have   *)
(* no role in the current root.                                            *)
NewSigners(root, keys) ==
  Cardinality({SignerOf[k] : k \in keys}) = 2 /\ keys \cap RoleKeys(root) = {}
PrepareRootRotation(root, keys, candidate) ==
  /\ candidate.expires > date /\ Fresh(candidate) /\ NewSigners(root, keys)
  /\ UnsignedRotation(root, candidate)
Propose ==
  /\ Cardinality(candidates) < MaxCandidates    \* bound
  /\ \E root \in Roots, keys \in kSubset(2, publics), expires \in Expiries :
       LET candidate == Root(root.version + 1, keys, expires, {}) IN
       PrepareRootRotation(root, keys, candidate) /\ candidates' = Write(candidates, candidate)
  /\ UNCHANGED <<date, signers, publics, contributions, bundles, signed, identities,
                 applying, reported>>

(* channel-root-sign and -sign-legacy: the key must be of exactly one of   *)
(* the two roots the caller names.                                         *)
SignRootRotation(root, candidate, k) ==
  /\ UnsignedRotation(root, candidate) /\ Fresh(candidate)
  /\ (k \in root.keys) # (k \in candidate.keys)
Sign ==
  /\ \E root \in Roots, candidate \in candidates, k \in DecodeRootSigner :
       /\ SignRootRotation(root, candidate, k)
       /\ contributions' = Write(contributions, [of |-> candidate, key |-> k])
  /\ UNCHANGED <<date, signers, publics, candidates, bundles, signed, identities,
                 applying, reported>>
SignRootRotationWithLegacyIdentity(candidate) ==
  \A k \in LegacyKeys : SignRootRotation(BootstrapRoot, candidate, k)
SignLegacy ==
  /\ \E candidate \in candidates :
       /\ SignRootRotationWithLegacyIdentity(candidate)
       /\ bundles' = Write(bundles, candidate)
  /\ UNCHANGED <<date, signers, publics, candidates, contributions, signed, identities,
                 applying, reported>>

(* channel-root-assemble: a bundle and two contributions, or four; each    *)
(* for this candidate, by different keys of either root.                   *)
Contributions(bundle) == IF bundle = {} THEN 4 ELSE 2
Contributed(candidate) == {c.key : c \in {d \in contributions : d.of = candidate}}
AssembleRootRotation(root, candidate, signatures) ==
  /\ UnsignedRotation(root, candidate) /\ Fresh(candidate)
  /\ Cardinality(signatures) = 4 /\ signatures \subseteq root.keys \cup candidate.keys
  /\ LET whole == [candidate EXCEPT !.signatures = signatures] IN
     Verifies(root, whole) /\ Verifies(whole, whole)
Assemble ==
  /\ \E root \in Roots, candidate \in candidates :
       \E bundle \in {{}} \cup DecodeRootContributionBundle(candidate) :
         \E given \in kSubset(Contributions(bundle), Contributed(candidate)) :
            /\ AssembleRootRotation(root, candidate, given \cup bundle)
            /\ signed' = Write(signed, [candidate EXCEPT !.signatures = given \cup bundle])
  /\ UNCHANGED <<date, signers, publics, candidates, contributions, bundles, identities,
                 applying, reported>>

(* channel-root-apply: ApplyRootRotation computes an identity without root *)
(* keys; WriteIdentity looks whether the path is free, writes another file *)
(* and renames it, which fails if the path has been taken meanwhile.       *)
Applied(identity, root) == [rootKeys |-> {}, chain |-> Append(identity.chain, root)]
ApplyRootRotation(identity, root) ==
  /\ SignedTransition(ActiveRoot(identity), root) /\ Fresh(root)
  /\ ValidIdentity(Applied(identity, root))
Apply(o) ==
  /\ applying[o].identity = NoIdentity
  /\ \E from \in DOMAIN identities, path \in IdentityPaths, root \in signed :
       /\ identities[from] # NoIdentity /\ ApplyRootRotation(identities[from], root)
       /\ identities[path] = NoIdentity
       /\ applying' = [applying EXCEPT ![o] =
            [path |-> path, identity |-> Applied(identities[from], root)]]
  /\ UNCHANGED <<date, signers, publics, candidates, contributions, bundles, signed,
                 identities, reported>>
ReplacesPath(path) == FALSE    \* slip: a rename that replaces
PathExists(path) == identities[path] # NoIdentity
(* Reported also when what follows the rename fails: CommittedIdentityError. *)
WriteIdentity(o) ==
  LET job == applying[o] IN
  /\ job.identity # NoIdentity
  /\ IF PathExists(job.path) THEN UNCHANGED <<identities, reported>>
     ELSE /\ identities' = [identities EXCEPT ![job.path] = job.identity]
          /\ reported' = reported \cup {job}
  /\ applying' = [applying EXCEPT ![o] = [path |-> Original, identity |-> NoIdentity]]
  /\ UNCHANGED <<date, signers, publics, candidates, contributions, bundles, signed>>
(* The process or the machine stops, or staging fails, before the rename.  *)
GiveUpWriting(o) ==
  /\ applying[o].identity # NoIdentity
  /\ applying' = [applying EXCEPT ![o] = [path |-> Original, identity |-> NoIdentity]]
  /\ UNCHANGED <<date, signers, publics, candidates, contributions, bundles, signed,
                 identities, reported>>

DatePasses ==
  /\ date < LastDate /\ date' = date + 1
  /\ UNCHANGED <<signers, publics, candidates, contributions, bundles, signed,
                 identities, applying, reported>>

CeremonyNext ==
  \/ Keygen \/ ExportPublic \/ Propose \/ Sign \/ SignLegacy \/ Assemble \/ DatePasses
  \/ \E o \in Hands : Apply(o) \/ WriteIdentity(o) \/ GiveUpWriting(o)

CeremonySpec == CeremonyInit /\ [][CeremonyNext]_ceremonyVars

-----------------------------------------------------------------------------
CeremonyTypeOK ==
  /\ date \in 0..LastDate /\ publics \subseteq signers /\ signers \subseteq SignerKeys
  /\ \A c \in candidates : c.signatures = {} /\ c.expires \in Expiries
  /\ bundles \subseteq candidates
  /\ \A c \in contributions : c.of \in candidates /\ c.key \in signers
  /\ \A s \in signed : Unsigned(s) \in candidates
  /\ \A p \in DOMAIN identities : identities[p] = NoIdentity \/ ValidIdentity(identities[p])

(* A root that comes out of the ceremony was signed, byte for byte, by     *)
(* both custodians of a root before it and by two different new ones,      *)
(* whichever candidates, roots and contributions the commands were given.  *)
FourHands ==
  \A s \in signed :
    /\ Cardinality({SignerOf[k] : k \in s.keys}) = 2
    /\ \E root \in Roots :
         /\ root.version + 1 = s.version /\ root.keys \cap s.keys = {}
         /\ s.signatures = root.keys \cup s.keys
         /\ \A k \in s.signatures :
              \/ [of |-> Unsigned(s), key |-> k] \in contributions
              \/ k \in LegacyKeys /\ Unsigned(s) \in bundles

(* The custodians have not met for nothing: what was assembled for the     *)
(* active root of an identity can be applied to it as long as it is fresh, *)
(* unless that identity has seen MaxRootRotations, which no command        *)
(* before the last looks at.                                               *)
AssembledApplies ==
  \A s \in signed, p \in DOMAIN identities :
    LET identity == identities[p] IN
    (/\ identity # NoIdentity /\ Len(identity.chain) <= MaxRootRotations
     /\ s.version = ActiveRoot(identity).version + 1
     /\ s.signatures = ActiveRoot(identity).keys \cup s.keys /\ Fresh(s)) =>
      ApplyRootRotation(identity, s)

(* The keys that stage generations are not lost: an identity that was      *)
(* reported is still where it was, and the first one is never touched.     *)
IdentitiesKept ==
  /\ \A r \in reported : identities[r.path] = r.identity /\ Operational(r.identity)
  /\ identities[Original] = [rootKeys |-> LegacyKeys, chain |-> <<BootstrapRoot>>]

CeremonySound == FourHands /\ AssembledApplies /\ IdentitiesKept
=============================================================================
