----------------------------- MODULE Federation -----------------------------
(* Signed search between trusted peers: the registry of peers and the      *)
(* envelopes (internal/core/federation), the listener that answers         *)
(* (internal/federationapi) and the client that asks                       *)
(* (internal/adapters/federationpeer).  The network may lose, delay,       *)
(* repeat or mix up messages; the listener's clock is not the client's and *)
(* may be set back; the listener may restart, which forgets the nonces.    *)
(* Signatures are taken to prove who signed what: a message is the record  *)
(* that was signed.                                                        *)
EXTENDS Integers, Sequences, FiniteSets, FiniteSetsExt, Functions, SequencesExt

CONSTANTS
  Documents,   (* trust registries an operator may load                    *)
  Signers,     (* the instances that ask: identity -> the key it signs with*)
  Handlers,    (* concurrent requests of the listener                      *)
  PeerSlots,   (* PeerMaxConcurrent                                        *)
  SearchSlots, (* MaxConcurrent                                            *)
  ReplayCap,   (* nonces the replay cache holds                            *)
  ReplayTTL,   (* how long it holds them: five minutes                     *)
  SignedSkew,  (* accepted difference of clocks: one minute                *)
  MaxDrift,    (* how far the listener's clock is from the client's        *)
  MaxStall,    (* longest time from the verification to the reservation    *)
  MaxDisturbed,(* bound of the restarts and settings of the clock          *)
  MaxAsks,     (* bound of the searches of one asker                       *)
  LastSignedAt (* bound of the clock                                       *)

ASSUME FederationConstants ==
  /\ \A n \in {ReplayTTL, SignedSkew, MaxDrift, MaxStall, MaxDisturbed, MaxAsks, LastSignedAt} : n \in Nat
  /\ ReplayTTL > 2 * SignedSkew + MaxStall + 2 * MaxDrift

VARIABLES
  registry, (* the document the listener loaded                            *)
  wall,     (* the clock of the askers                                     *)
  theirs,   (* the clock of the listener                                   *)
  posted,   (* requests on the way                                         *)
  answered, (* responses on the way                                        *)
  replay,   (* ReplayCache.entries: peer and nonce -> expiry               *)
  handler,  (* each request being handled                                  *)
  question, (* each asker's search                                         *)
  executed, (* how often this process searched for a request               *)
  disturbed (* how often the listener started anew or had its clock set    *)

federationVars ==
  <<registry, wall, theirs, posted, answered, replay, handler, question, executed, disturbed>>

-----------------------------------------------------------------------------
(* buildTrustRegistry: identities and keys are distinct, every peer is     *)
(* bound to one of them and every one of them to one peer.                 *)
Bound(doc) == {doc.peers[i].identity : i \in DOMAIN doc.peers}
WellFormed(doc) ==
  LET ids == [i \in DOMAIN doc.identities |-> doc.identities[i].id]
      keys == [i \in DOMAIN doc.identities |-> doc.identities[i].key] IN
  /\ ids # <<>> /\ doc.peers # <<>>
  /\ IsInjective(ids) /\ IsInjective(keys)
  /\ IsInjective([i \in DOMAIN doc.peers |-> doc.peers[i].peer])
  /\ IsInjective([i \in DOMAIN doc.peers |-> doc.peers[i].identity])
  /\ Bound(doc) = ToSet(ids)
(* LookupInbound: the peer of an identity, if it may ask; {} if not        *)
LookupInbound(id) ==
  {registry.peers[i].peer : i \in {k \in DOMAIN registry.peers :
     registry.peers[k].identity = id /\ registry.peers[k].inbound}}
KeyOf(id) == {registry.identities[i].key :
                i \in {k \in DOMAIN registry.identities : registry.identities[k].id = id}}

Distance(a, b) == IF a < b THEN b - a ELSE a - b
NoRequest == [sender |-> "none", nonce |-> 0, key |-> "none", signedAt |-> 0]
FreeHandler == [at |-> "free", request |-> NoRequest, now |-> 0, began |-> 0]
Failed == NoRequest
NoQuestion == [at |-> "idle", request |-> NoRequest, asked |-> 0, result |-> NoRequest]
Ids == DOMAIN Signers

FederationInit ==
  /\ registry \in {doc \in Documents : WellFormed(doc)}
  /\ wall = SignedSkew /\ theirs = SignedSkew
  /\ posted = {} /\ answered = {} /\ replay = << >> /\ executed = << >> /\ disturbed = 0
  /\ handler = [h \in Handlers |-> FreeHandler]
  /\ question = [a \in Ids |-> NoQuestion]

-----------------------------------------------------------------------------
(* What SignRequest and SignResponse bind together, and the recentness     *)
(* validateVerification asks of it.                                        *)
SignedRequest(a, n) == [sender |-> a, nonce |-> n, key |-> Signers[a], signedAt |-> wall]
SignedResponse(r) == [request |-> r, signedAt |-> theirs]
Recent(signed, clock) == Distance(clock, signed.signedAt) <= SignedSkew

(* SearchBatch of the client: a fresh nonce, the client's clock.           *)
Pose(a) ==
  /\ question[a].at # "waiting" /\ question[a].asked < MaxAsks
  /\ LET n == question[a].asked + 1
         r == SignedRequest(a, n) IN
     /\ question' = [question EXCEPT ![a] =
          [at |-> "waiting", request |-> r, asked |-> n, result |-> NoRequest]]
     /\ posted' = posted \cup {r}
  /\ UNCHANGED <<registry, wall, theirs, answered, replay, handler, executed, disturbed>>

(* VerifyResponse: from the peer, recent by the client's clock, and bound  *)
(* to the nonce and the bytes of this very request.                        *)
BoundToRequest(a, response) ==
  /\ Recent(response, wall)
  /\ response.request = question[a].request
(* a response goes to whoever waits; a connection that is closed gets none *)
Unheard(a) == {response \in answered : response.request.sender # a}
Hear(a) ==
  /\ question[a].at = "waiting"
  /\ \E response \in answered :
       question' = [question EXCEPT ![a].at = "told",
         ![a].result = IF BoundToRequest(a, response) THEN response.request ELSE Failed]
  /\ answered' = Unheard(a)
  /\ UNCHANGED <<registry, wall, theirs, posted, replay, handler, executed, disturbed>>
(* the timeout, a refusal or a lost answer                                 *)
GoWithout(a) ==
  /\ question[a].at = "waiting"
  /\ question' = [question EXCEPT ![a].at = "told", ![a].result = Failed]
  /\ answered' = Unheard(a)
  /\ UNCHANGED <<registry, wall, theirs, posted, replay, handler, executed, disturbed>>

-----------------------------------------------------------------------------
(* ServeHTTP up to the verification, whose clock is used from here on.     *)
VerifyRequest(h) ==
  /\ handler[h].at = "free"
  /\ \E r \in posted :
       /\ LookupInbound(r.sender) # {} /\ KeyOf(r.sender) = {r.key}
       /\ Recent(r, theirs)
       /\ handler' = [handler EXCEPT ![h] =
            [at |-> "verified", request |-> r, now |-> theirs, began |-> wall]]
  /\ UNCHANGED <<registry, wall, theirs, posted, answered, replay, question, executed, disturbed>>

(* Reserve: a live reservation refuses, expired ones go before the cache   *)
(* is counted, a full one refuses.                                         *)
ReplayKey(r) == [peer |-> CHOOSE p \in LookupInbound(r.sender) : TRUE, nonce |-> r.nonce]
LiveNonces(now) == Restrict(replay, {k \in DOMAIN replay : replay[k] > now})
Reservable(r, now) ==
  /\ ReplayKey(r) \notin DOMAIN LiveNonces(now)
  /\ Cardinality(DOMAIN LiveNonces(now)) < ReplayCap
ForgottenSoon(r, now) ==   \* slip: held for the accepted skew only
  LET live == LiveNonces(now) IN
  [k \in DOMAIN live \cup {ReplayKey(r)} |-> IF k = ReplayKey(r) THEN now + SignedSkew ELSE live[k]]
ReplayAfter(r, now) ==
  LET live == LiveNonces(now) IN
  [k \in DOMAIN live \cup {ReplayKey(r)} |-> IF k = ReplayKey(r) THEN now + ReplayTTL ELSE live[k]]
Purged(r, now) ==   \* a full cache has still been purged
  IF ReplayKey(r) \in DOMAIN LiveNonces(now) THEN replay ELSE LiveNonces(now)
SearchesOf(sender) ==
  {h \in Handlers : handler[h].at = "searching" /\ handler[h].request.sender = sender}
SlotsFree(r) ==
  /\ Cardinality(SearchesOf(r.sender)) < PeerSlots
  /\ Cardinality({h \in Handlers : handler[h].at = "searching"}) < SearchSlots
Times(r) == IF r \in DOMAIN executed THEN executed[r] ELSE 0
(* The peer's rate, its slots, the slots of all, the nonce, the search.    *)
ReserveNonce(h) ==
  LET r == handler[h].request
      now == handler[h].now IN
  /\ handler[h].at = "verified" /\ SlotsFree(r)
  /\ IF Reservable(r, now)
     THEN /\ replay' = ReplayAfter(r, now)
          /\ handler' = [handler EXCEPT ![h].at = "searching"]
          /\ executed' = [k \in DOMAIN executed \cup {r} |->
                            IF k = r THEN Times(r) + 1 ELSE executed[k]]
     ELSE /\ replay' = Purged(r, now) /\ handler' = [handler EXCEPT ![h] = FreeHandler]
          /\ UNCHANGED executed
  /\ UNCHANGED <<registry, wall, theirs, posted, answered, question, disturbed>>
(* The rate or a slot is missing, or the search fails, takes too long or   *)
(* is not sure of its result: an error, which nobody signs.                *)
Refuse(h) ==
  /\ handler[h].at # "free"
  /\ handler' = [handler EXCEPT ![h] = FreeHandler]
  /\ UNCHANGED <<registry, wall, theirs, posted, answered, replay, question, executed, disturbed>>
(* A healthy or authoritatively empty result is signed, with the hits      *)
(* whose URL can be exported.                                              *)
Respond(h) ==
  /\ handler[h].at = "searching"
  /\ answered' = IF question[handler[h].request.sender].at # "waiting" THEN answered
                 ELSE answered \cup {SignedResponse(handler[h].request)}
  /\ handler' = [handler EXCEPT ![h] = FreeHandler]
  /\ UNCHANGED <<registry, wall, theirs, posted, replay, question, executed, disturbed>>

(* The listener ends and starts again with an empty replay cache.          *)
Restart ==
  /\ disturbed < MaxDisturbed /\ disturbed' = disturbed + 1
  /\ replay' = << >> /\ executed' = << >>
  /\ handler' = [h \in Handlers |-> FreeHandler]
  /\ UNCHANGED <<registry, wall, theirs, posted, answered, question>>

(* a request no setting of the clock would accept any more is dropped      *)
ClockMoves ==
  /\ wall < LastSignedAt /\ wall' = wall + 1 /\ theirs' = theirs + 1
  /\ \A h \in Handlers : handler[h].at = "verified" => wall - handler[h].began < MaxStall
  /\ posted' = {r \in posted : wall' - r.signedAt <= SignedSkew + MaxDrift}
  /\ UNCHANGED <<registry, answered, replay, handler, question, executed, disturbed>>
ClockIsSet ==
  /\ disturbed < MaxDisturbed /\ disturbed' = disturbed + 1
  /\ theirs' \in (wall - MaxDrift)..(wall + MaxDrift)
  /\ UNCHANGED <<registry, wall, posted, answered, replay, handler, question, executed>>

FederationNext ==
  \/ \E a \in Ids : Pose(a) \/ Hear(a) \/ GoWithout(a)
  \/ \E h \in Handlers : VerifyRequest(h) \/ ReserveNonce(h) \/ Refuse(h) \/ Respond(h)
  \/ Restart \/ ClockMoves \/ ClockIsSet

FederationSpec == FederationInit /\ [][FederationNext]_federationVars

-----------------------------------------------------------------------------
FederationTypeOK ==
  /\ WellFormed(registry) /\ wall \in Nat /\ theirs \in Int
  /\ \A r \in posted : r.sender \in Ids /\ r.nonce \in 1..MaxAsks
  /\ \A response \in answered : response.request.sender \in Ids
  /\ Cardinality(DOMAIN replay) <= ReplayCap
  /\ \A h \in Handlers : handler[h].at \in {"free", "verified", "searching"}
  /\ \A a \in Ids : question[a].at \in {"idle", "waiting", "told"}

(* However messages are repeated and delayed and the listener's clock is   *)
(* set, a process searches at most once for a request: every copy that is  *)
(* still recent enough finds its nonce ("Duplicate live reservations fail  *)
(* even if the caller's clock moved backwards", replay.go).                *)
ExecutedOnce == \A r \in DOMAIN executed : executed[r] = 1

(* What an asker takes for an answer answers this search and no other.     *)
AnswersBound ==
  \A a \in Ids : question[a].result # Failed => question[a].result = question[a].request

(* The trusted peers answer once, and only what they were asked.           *)
PeersTrustworthy == ExecutedOnce /\ AnswersBound
=============================================================================
